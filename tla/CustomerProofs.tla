--------------------------- MODULE CustomerProofs ---------------------------
(***************************************************************************)
(* Proofs about what customers are given: rewards for signing up, for any  *)
(* accounts and referrers (module SignUp), what they are shown of their    *)
(* own, for any users, views and edits (module Views), and the cashback    *)
(* for what they bought, for any conversions, runs and size of the blocks  *)
(* (module Conversions).                                                   *)
(*                                                                         *)
(* The properties of a sign-up follow from how far it has come: Stages     *)
(* says what each stage has left in the database and in the wallet.  One   *)
(* of its parts is that no referral is ever sent to the wallet; what the   *)
(* wallet would do with one is never reached.                              *)
(***************************************************************************)
EXTENDS SignUp, Views, Conversions, Sums, TLAPS

-----------------------------------------------------------------------------
(* Sign-up                                                                 *)

BeforeCreate == {"token", "load", "referrer", "count", "create"}
BeforeCommit == BeforeCreate \cup {"emit", "save", "config", "commit"}

\* What a sign-up has created when it is at a statement.
Stages ==
    \A s \in Signup :
        /\ pc[s] \in BeforeCreate <=> s \notin accounts /\ pc[s] \notin Ended
        /\ pc[s] \in BeforeCommit => s \notin rows
        /\ pc[s] = "commit" /\ Referred(s) => needKyc
        /\ pc[s] \in {"send", "wait"} => ~ Referred(s) /\ s \in rows
        /\ wallet[s] # "none" =>
              ~ Referred(s) /\ s \in rows /\ s \in accounts

\* Two accounts have different identities.
IdentOnce ==
    \A s1, s2 \in accounts \cap Signup : IdentOf[s1] = IdentOf[s2] => s1 = s2

\* Rewards and links are those of accounts that were created and saved.  The
\* wallet credits no referral, and only the eKYC leaves a reward waiting.
RewardsCreated ==
    \A s \in Signup, a \in Account :
        /\ <<s, a>> \in credited => s \in accounts /\ ~ Referred(s)
        /\ <<s, a>> \in saveRows => s \in accounts /\ needKyc

LinksSaved == \A s \in links : s \in rows /\ Referred(s)

StatsCount ==
    /\ IsFiniteSet(links)
    /\ StatsMatchLinks

IInv == /\ TypeOK /\ Stages /\ IdentOnce /\ RewardsCreated
        /\ LinksSaved /\ StatsCount

\* The referrer of a sign-up that has one is another account.
LEMMA ReferrerType ==
    ASSUME NEW s \in Signup
    PROVE  /\ Receivers(s) \subseteq Account
           /\ Legs(s) \subseteq Signup \X Account
           /\ Referred(s) => Referrer[s] \in Account
           /\ ~ Referred(s) => Receivers(s) = {s}
<1>1. Referrer[s] \in Account \cup {Nobody} /\ s \in Account
      BY SignUpAssumption DEF Account
<1>2. Receivers(s) \subseteq Account
      BY <1>1 DEF Receivers
<1>3. Legs(s) \subseteq Signup \X Account
      BY <1>2 DEF Legs
<1> QED BY <1>1, <1>2, <1>3 DEF Receivers, Referred

\* A step preserves the types.
LEMMA TypeStep == TypeOK /\ [Next]_vars => TypeOK'
<1> SUFFICES ASSUME TypeOK, [Next]_vars PROVE TypeOK'
    OBVIOUS
<1> USE DEF TypeOK, Ended, Goto, dbVars, walletVars
<1>1. ASSUME NEW s \in Signup, CheckToken(s) PROVE TypeOK'
      BY <1>1 DEF CheckToken
<1>2. ASSUME NEW s \in Signup, LoadAccount(s) PROVE TypeOK'
      BY <1>2 DEF LoadAccount
<1>3. ASSUME NEW s \in Signup, FindReferrer(s) PROVE TypeOK'
      BY <1>3 DEF FindReferrer
<1>4. ASSUME NEW s \in Signup, CountIdent(s) PROVE TypeOK'
      BY <1>4 DEF CountIdent
<1>5. ASSUME NEW s \in Signup, Create(s) PROVE TypeOK'
      BY <1>5 DEF Create, Account
<1>6. ASSUME NEW s \in Signup, EmitSave(s) PROVE TypeOK'
      BY <1>6 DEF EmitSave
<1>7. ASSUME NEW s \in Signup, SaveAccount(s) PROVE TypeOK'
      BY <1>7 DEF SaveAccount
<1>8. ASSUME NEW s \in Signup, ReadConfig(s) PROVE TypeOK'
      BY <1>8 DEF ReadConfig, AfterConfig
<1>9. ASSUME NEW s \in Signup, Commit(s) PROVE TypeOK'
  <2>1. Stats(s) \in [Account -> Nat]
        BY ReferrerType DEF Stats
  <2>2. pc' \in [Signup -> Ended \cup
                    {"token", "load", "referrer", "count", "create", "emit",
                     "save", "config", "commit", "send", "wait"}]
        BY <1>9 DEF Commit
  <2>3. s \in Account
        BY DEF Account
  <2> QED BY <1>9, <2>1, <2>2, <2>3, ReferrerType DEF Commit
<1>10. ASSUME NEW s \in Signup, Send(s) PROVE TypeOK'
      BY <1>10 DEF Send
<1>11. ASSUME NEW s \in Signup, Answered(s) PROVE TypeOK'
      BY <1>11 DEF Answered
<1>12. ASSUME NEW s \in Signup, WalletCredits(s) PROVE TypeOK'
      BY <1>12, ReferrerType DEF WalletCredits
<1>13. ASSUME NEW s \in Signup, WalletRecords(s) PROVE TypeOK'
      BY <1>13, ReferrerType DEF WalletRecords
<1>14. ASSUME NEW s \in Signup, WalletFails(s) PROVE TypeOK'
      BY <1>14 DEF WalletFails
<1>15. ASSUME NEW t \in Token, TokenExpires(t) PROVE TypeOK'
      BY <1>15 DEF TokenExpires
<1>16. CASE Crash
      BY <1>16 DEF Crash
<1>17. CASE UNCHANGED vars
      BY <1>17 DEF vars
<1> QED BY <1>1, <1>2, <1>3, <1>4, <1>5, <1>6, <1>7, <1>8, <1>9, <1>10, <1>11,
           <1>12, <1>13, <1>14, <1>15, <1>16, <1>17 DEF Next

\* What the steps but the commit of saveAccount do to the stages, and to the
\* database: only Create makes an account, and only the wallet credits.
LEMMA StagesStep ==
  ASSUME IInv, [Next]_vars, \A s \in Signup : ~ Commit(s)
  PROVE  /\ Stages' /\ IdentOnce' /\ RewardsCreated'
         /\ UNCHANGED <<links, stats, rows>>
<1> DEFINE StagesKept == /\ Stages' /\ IdentOnce' /\ RewardsCreated'
                         /\ UNCHANGED <<links, stats, rows>>
<1> USE DEF IInv, TypeOK, Stages, IdentOnce, RewardsCreated, Ended,
            BeforeCreate, BeforeCommit, Referred, Goto, dbVars, walletVars
<1>1. ASSUME NEW s \in Signup, CheckToken(s) PROVE StagesKept
      BY <1>1 DEF CheckToken
<1>2. ASSUME NEW s \in Signup, LoadAccount(s) PROVE StagesKept
      BY <1>2 DEF LoadAccount
<1>3. ASSUME NEW s \in Signup, FindReferrer(s) PROVE StagesKept
      BY <1>3 DEF FindReferrer
<1>4. ASSUME NEW s \in Signup, CountIdent(s) PROVE StagesKept
      BY <1>4 DEF CountIdent
<1>5. ASSUME NEW s \in Signup, Create(s) PROVE StagesKept
      BY <1>5 DEF Create, Taken
<1>6. ASSUME NEW s \in Signup, EmitSave(s) PROVE StagesKept
      BY <1>6 DEF EmitSave
<1>7. ASSUME NEW s \in Signup, SaveAccount(s) PROVE StagesKept
      BY <1>7 DEF SaveAccount
<1>8. ASSUME NEW s \in Signup, ReadConfig(s) PROVE StagesKept
      BY <1>8 DEF ReadConfig, AfterConfig, Receivers
<1>9. ASSUME NEW s \in Signup, Send(s) PROVE StagesKept
      BY <1>9 DEF Send
<1>10. ASSUME NEW s \in Signup, Answered(s) PROVE StagesKept
      BY <1>10 DEF Answered
<1>11. ASSUME NEW s \in Signup, WalletCredits(s) PROVE StagesKept
      BY <1>11 DEF WalletCredits, Legs
<1>12. ASSUME NEW s \in Signup, WalletRecords(s) PROVE StagesKept
      BY <1>12 DEF WalletRecords
<1>13. ASSUME NEW s \in Signup, WalletFails(s) PROVE StagesKept
      BY <1>13 DEF WalletFails
<1>14. ASSUME NEW t \in Token, TokenExpires(t) PROVE StagesKept
      BY <1>14 DEF TokenExpires
<1>15. CASE Crash
      BY <1>15 DEF Crash
<1>16. CASE UNCHANGED vars
      BY <1>16 DEF vars
<1> QED BY <1>1, <1>2, <1>3, <1>4, <1>5, <1>6, <1>7, <1>8, <1>9, <1>10, <1>11,
           <1>12, <1>13, <1>14, <1>15, <1>16 DEF Next

\* A link that is new makes the number of its referrer's links one more.
LEMMA NewLink ==
    ASSUME IsFiniteSet(links), NEW s \in Signup, s \notin links,
           NEW a \in Account
    PROVE  Cardinality({x \in links \cup {s} : Referrer[x] = a}) =
              IF Referrer[s] = a
              THEN Cardinality({x \in links : Referrer[x] = a}) + 1
              ELSE Cardinality({x \in links : Referrer[x] = a})
<1> DEFINE old == {x \in links : Referrer[x] = a}
           new == {x \in links \cup {s} : Referrer[x] = a}
<1>1. IsFiniteSet(old)
      BY FS_Subset
<1>2. CASE Referrer[s] = a
  <2>1. new = old \cup {s} /\ s \notin old
        BY <1>2
  <2> QED BY <1>1, <1>2, <2>1, FS_AddElement
<1>3. CASE Referrer[s] # a
      BY <1>3
<1> QED BY <1>2, <1>3

LEMMA CommitStep ==
  ASSUME IInv, NEW s \in Signup, Commit(s)
  PROVE  Stages' /\ IdentOnce' /\ RewardsCreated' /\ LinksSaved' /\ StatsCount'
<1>0. TypeOK /\ pc[s] = "commit" /\ s \notin rows /\ s \in accounts
      BY DEF IInv, Stages, Commit, BeforeCreate, BeforeCommit, Ended, TypeOK
<1>1. /\ accounts' = accounts /\ needKyc' = needKyc
      /\ UNCHANGED walletVars
      BY DEF Commit
<1>2. CASE /\ pc' = [pc EXCEPT ![s] = "failed"]
           /\ UNCHANGED <<rows, stats, links, saveRows>>
      BY <1>0, <1>1, <1>2 DEF IInv, TypeOK, Stages, IdentOnce, RewardsCreated,
         LinksSaved, StatsCount, StatsMatchLinks, Ended, BeforeCreate,
         BeforeCommit, Referred, walletVars
<1>3. CASE /\ rows' = rows \cup {s}
           /\ stats' = Stats(s)
           /\ links' = IF needKyc /\ Referred(s) THEN links \cup {s} ELSE links
           /\ saveRows' = IF needKyc THEN saveRows \cup Legs(s) ELSE saveRows
           /\ pc' = [pc EXCEPT ![s] = IF Referred(s) THEN "done" ELSE "send"]
  <2>1. Stages'
        BY <1>0, <1>1, <1>3 DEF IInv, TypeOK, Stages, Ended, BeforeCreate,
           BeforeCommit, Referred, walletVars
  <2>2. IdentOnce'
        BY <1>1 DEF IInv, IdentOnce
  <2>3. RewardsCreated'
        BY <1>0, <1>1, <1>3 DEF IInv, RewardsCreated, Legs, walletVars
  <2>4. LinksSaved'
        BY <1>3 DEF IInv, LinksSaved, Referred
  <2>5. StatsCount'
    <3>1. s \notin links
          BY <1>0 DEF IInv, LinksSaved
    <3>2. CASE Referred(s)
      <4>1. links' = links \cup {s} /\ Referrer[s] \in Account
            BY <1>0, <1>3, <3>2, ReferrerType DEF IInv, Stages
      <4>2. IsFiniteSet(links')
            BY <4>1, FS_AddElement DEF IInv, StatsCount
      <4>3. stats' = [stats EXCEPT ![Referrer[s]] = @ + 1]
            BY <1>3, <3>2 DEF Stats
      <4>4. \A a \in Account :
               stats'[a] = Cardinality({x \in links' : Referrer[x] = a})
        <5> SUFFICES ASSUME NEW a \in Account
                     PROVE  stats'[a] =
                               Cardinality({x \in links' : Referrer[x] = a})
            OBVIOUS
        <5>1. stats[a] = Cardinality({x \in links : Referrer[x] = a})
              BY DEF IInv, StatsCount, StatsMatchLinks
        <5>2. stats'[a] = IF Referrer[s] = a THEN stats[a] + 1 ELSE stats[a]
              BY <1>0, <4>1, <4>3 DEF TypeOK
        <5> QED BY <3>1, <4>1, <5>1, <5>2, NewLink DEF IInv, StatsCount
      <4> QED BY <4>2, <4>4 DEF StatsCount, StatsMatchLinks
    <3>3. CASE ~ Referred(s)
          BY <1>3, <3>3 DEF IInv, StatsCount, StatsMatchLinks, Stats
    <3> QED BY <3>2, <3>3
  <2> QED BY <2>1, <2>2, <2>3, <2>4, <2>5
<1> QED BY <1>2, <1>3 DEF Commit, Goto

LEMMA Invariance == IInv /\ [Next]_vars => IInv'
<1> SUFFICES ASSUME IInv, [Next]_vars PROVE IInv'
    OBVIOUS
<1>1. TypeOK'
      BY TypeStep DEF IInv
<1>2. ASSUME NEW s \in Signup, Commit(s) PROVE IInv'
      BY <1>1, <1>2, CommitStep DEF IInv
<1>3. CASE \A s \in Signup : ~ Commit(s)
  <2>1. /\ Stages' /\ IdentOnce' /\ RewardsCreated'
        /\ UNCHANGED <<links, stats, rows>>
        BY <1>3, StagesStep
  <2>2. LinksSaved' /\ StatsCount'
        BY <2>1 DEF IInv, LinksSaved, StatsCount, StatsMatchLinks, Referred
  <2> QED BY <1>1, <2>1, <2>2 DEF IInv
<1> QED BY <1>2, <1>3

LEMMA Inductive == Spec => []IInv
<1>1. Init => IInv
  <2> SUFFICES ASSUME Init PROVE IInv
      OBVIOUS
  <2>1. Old \subseteq Account /\ \A s \in Signup : s \notin Old
        BY SignUpAssumption DEF Account
  <2>2. TypeOK
        BY <2>1 DEF Init, TypeOK, Ended
  <2>3. Stages /\ IdentOnce /\ RewardsCreated /\ LinksSaved
        BY <2>1 DEF Init, Stages, IdentOnce, RewardsCreated, LinksSaved, Ended,
                    BeforeCreate, BeforeCommit
  <2>4. StatsCount
    <3>1. \A a \in Account : {s \in links : Referrer[s] = a} = {}
          BY DEF Init
    <3> QED BY <3>1, FS_EmptySet DEF Init, StatsCount, StatsMatchLinks
  <2> QED BY <2>2, <2>3, <2>4 DEF IInv
<1> QED BY <1>1, Invariance, PTL DEF Spec

\* Every variable of the sign-ups keeps its type.
THEOREM TypeCorrect == Spec => []TypeOK
<1>1. IInv => TypeOK
      BY DEF IInv
<1> QED BY <1>1, Inductive, PTL

\* A person is rewarded for one account, although the sign-up token survives
\* its use and two requests can pass the count at once: the unique columns
\* decide.  The account is rewarded once, unless eKYC is needed and it has no
\* referrer: then it is credited and has a waiting reward besides.
\* (authenticator.service.ts, validateSignUp, saveAccount, rewardNewAccount)
THEOREM RewardedOnce == Spec => []RewardOnce
<1>1. ASSUME IInv PROVE RewardOnce
  <2> SUFFICES ASSUME NEW i \in Ident,
                      NEW x \in RewardsOf(i), NEW y \in RewardsOf(i)
               PROVE  /\ x[2] = y[2]
                      /\ x # y => needKyc /\ ~ Referred(x[2])
      BY DEF RewardOnce
  <2>1. \A z \in RewardsOf(i) :
           \E s \in Signup :
              /\ IdentOf[s] = i
              /\ \E a \in Account :
                    \/ z = <<"credited", s>> /\ <<s, a>> \in credited
                    \/ z = <<"waiting", s>> /\ <<s, a>> \in saveRows
    <3>1. PICK C, W :
             /\ C = {s \in Signup : IdentOf[s] = i
                       /\ \E a \in Account : <<s, a>> \in credited}
             /\ W = {s \in Signup : IdentOf[s] = i
                       /\ \E a \in Account : <<s, a>> \in saveRows}
          OBVIOUS
    <3>2. RewardsOf(i) \subseteq {"credited"} \X C \cup {"waiting"} \X W
          BY <3>1 DEF RewardsOf
    <3>3. ASSUME NEW z \in RewardsOf(i)
          PROVE  \/ \E s \in C : z = <<"credited", s>>
                 \/ \E s \in W : z = <<"waiting", s>>
          BY <3>2
    <3> QED BY <3>1, <3>3
  <2>2. \A z \in RewardsOf(i) :
           \E s \in accounts \cap Signup :
              /\ IdentOf[s] = i
              /\ \/ z = <<"credited", s>> /\ ~ Referred(s)
                 \/ z = <<"waiting", s>> /\ needKyc
        BY <2>1, <1>1 DEF IInv, RewardsCreated
  <2>3. PICK s \in accounts \cap Signup :
              /\ IdentOf[s] = i
              /\ \/ x = <<"credited", s>> /\ ~ Referred(s)
                 \/ x = <<"waiting", s>> /\ needKyc
        BY <2>2
  <2>4. PICK t \in accounts \cap Signup :
              /\ IdentOf[t] = i
              /\ \/ y = <<"credited", t>> /\ ~ Referred(t)
                 \/ y = <<"waiting", t>> /\ needKyc
        BY <2>2
  <2>5. s = t
        BY <2>3, <2>4, <1>1 DEF IInv, IdentOnce
  <2> QED BY <2>3, <2>4, <2>5
<1> QED BY <1>1, Inductive, PTL

\* A message that saveAccount sends to the wallet finds the balance rows of its
\* receivers: it is sent after the transaction that creates them.
\* (authenticator.service.ts, rewardNewAccount)
THEOREM WalletFinds == Spec => []WalletFindsRows
<1>1. IInv => WalletFindsRows
      BY ReferrerType DEF IInv, Stages, WalletFindsRows
<1> QED BY <1>1, Inductive, PTL

\* The statistics count the links, however the sign-ups of one referrer
\* interleave and wherever they fail.
\* (authenticator.service.ts, insertAccountReferral)
THEOREM StatsMatch == Spec => []StatsMatchLinks
<1>1. IInv => StatsMatchLinks
      BY DEF IInv, StatsCount
<1> QED BY <1>1, Inductive, PTL

-----------------------------------------------------------------------------
(* What users are shown                                                    *)

\* What is kept under a key belongs to the user in it, or to everyone.
OwnedBy(u, value) == value # None => value.of \in {u, Everyone}

CachesOwned == \A key \in Keys : /\ OwnedBy(key[1], response[key])
                                 /\ OwnedBy(key[1], kept[key])

FlightOwned == \A m \in inFlight : m.key \in Keys /\ OwnedBy(m.key[1], m.value)

\* A client that waits does so for a view or an edit, and is shown nothing.
ClientOwned ==
    \A c \in Client :
        /\ OwnedBy(UserOf[c], client[c].shown)
        /\ client[c].step # "idle" => client[c].at \in Views \cup Edits

OwnInv ==
    /\ DOMAIN response = Keys /\ DOMAIN kept = Keys /\ DOMAIN client = Client
    /\ CachesOwned /\ FlightOwned /\ ClientOwned

\* The database's answer to a view belongs to who is named in its keys, and to
\* everyone if these name everyone.
LEMMA ValueOwned ==
    ASSUME NEW u \in User, NEW v \in Views
    PROVE  OwnedBy(KeptAt(u, v)[1], Value(u, v))
<1>0. Value(u, v).of = Owner(u, CHOOSE i \in Shows(v) : TRUE)
      BY DEF Value
<1>1. CASE v \in SharedResponse
  <2>1. Shows(v) = {"banner"}
    <3>1. CASE v = "banners-v2"
          BY <3>1 DEF Shows, GetBannersV2
    <3>2. CASE v = "ads-banner"
          BY <3>2 DEF Shows, GetAdsBanner
    <3>3. CASE v = "ads-banner-v2"
          BY <3>3 DEF Shows, GetAdsBannerV2
    <3> QED BY <1>1, <3>1, <3>2, <3>3 DEF SharedResponse
  <2>2. (CHOOSE i \in Shows(v) : TRUE) = "banner"
        BY <2>1
  <2> QED BY <1>0, <1>1, <2>2 DEF OwnedBy, KeptAt, Owner
<1>2. CASE v \notin SharedResponse
  <2>1. KeptAt(u, v)[1] = u
        BY <1>2 DEF KeptAt
  <2> QED BY <1>0, <2>1 DEF OwnedBy, Owner
<1> QED BY <1>1, <1>2

\* Both caches use one key, which is the user's own or everyone's.
LEMMA KeyOwned ==
    ASSUME NEW u \in User, NEW v \in Views \cup Edits
    PROVE  /\ TrackBy(u, v) = KeptAt(u, v) /\ KeptAt(u, v) \in Keys
           /\ KeptAt(u, v)[1] \in {u, Everyone}
BY DEF TrackBy, KeptAt, Keys

LEMMA OwnStep == OwnInv /\ [ViewsNext]_viewsVars => OwnInv'
<1> SUFFICES ASSUME OwnInv, [ViewsNext]_viewsVars PROVE OwnInv'
    OBVIOUS
<1>0. /\ \A c \in Client : UserOf[c] \in User
      /\ \A c \in Client : Asks[c] \subseteq Views \cup Edits
      BY ViewsAssumption
<1> USE DEF OwnInv, Becomes, Waits, Idle
<1>1. ASSUME NEW c \in Client, Validate(c) PROVE OwnInv'
  <2> DEFINE u == UserOf[c]
             profile == KeptAt(u, "profile")
  <2>1. PICK what \in Asks[c] :
           /\ client' = [client EXCEPT ![c] = Waits("called", what)]
           /\ inFlight' = IF kept[profile] # None THEN inFlight
                           ELSE inFlight
                                  \cup {Keep(profile, Value(u, "profile"))}
           /\ UNCHANGED <<db, response, kept>>
        BY <1>1 DEF Validate
  <2>2. profile \in Keys /\ OwnedBy(profile[1], Value(u, "profile"))
        BY <1>0, KeyOwned, ValueOwned DEF Views
  <2>3. FlightOwned'
        BY <2>1, <2>2 DEF FlightOwned, Keep, OwnedBy
  <2> QED BY <1>0, <2>1, <2>3 DEF CachesOwned, ClientOwned, OwnedBy
<1>2. ASSUME NEW c \in Client, Intercept(c) PROVE OwnInv'
  <2> DEFINE u == UserOf[c]
             what == client[c].at
             held == response[TrackBy(u, what)]
  <2>1. /\ what \in Views \cup Edits
        /\ client' = [client EXCEPT ![c] = Idle(held)]
           \/ client' = [client EXCEPT ![c] = Waits("handle", what)]
        /\ UNCHANGED <<db, response, kept, inFlight>>
        BY <1>2 DEF Intercept, ClientOwned
  <2>2. OwnedBy(u, held)
        BY <1>0, <2>1, KeyOwned DEF CachesOwned, OwnedBy
  <2>3. ClientOwned'
        BY <2>1, <2>2 DEF ClientOwned, OwnedBy
  <2> QED BY <2>1, <2>3 DEF CachesOwned, FlightOwned, OwnedBy
<1>3. ASSUME NEW c \in Client, Handle(c) PROVE OwnInv'
  <2> DEFINE u == UserOf[c]
             v == client[c].at
             found == v \in Kept /\ kept[KeptAt(u, v)] # None
             value == IF found THEN kept[KeptAt(u, v)] ELSE Value(u, v)
             sets == IF found THEN Renewed(u, v, value)
                      ELSE IF v \in Kept THEN {Keep(KeptAt(u, v), value)}
                           ELSE {}
             fills == IF v \in OwnResponse \cup SharedResponse
                      THEN {Fill(TrackBy(u, v), value)} ELSE {}
  <2>1. /\ v \in Views
        /\ inFlight' = inFlight \cup sets \cup fills
        /\ client' = [client EXCEPT ![c] = Idle(value)]
        /\ UNCHANGED <<db, response, kept>>
        BY <1>3 DEF Handle
  <2>2. /\ KeptAt(u, v) \in Keys /\ TrackBy(u, v) = KeptAt(u, v)
        /\ KeptAt(u, v)[1] \in {u, Everyone}
        BY <1>0, <2>1, KeyOwned
  <2>3. OwnedBy(KeptAt(u, v)[1], value)
        BY <1>0, <2>1, <2>2, ValueOwned DEF CachesOwned
  <2>4. OwnedBy(u, value)
        BY <2>2, <2>3 DEF OwnedBy
  <2> HIDE DEF value
  <2>5. \A m \in sets \cup fills : m.key \in Keys /\ OwnedBy(m.key[1], m.value)
        BY <2>2, <2>3 DEF Renewed, Keep, Fill
  <2>6. FlightOwned'
        BY <2>1, <2>5 DEF FlightOwned, OwnedBy
  <2>7. ClientOwned'
        BY <2>1, <2>4 DEF ClientOwned, OwnedBy
  <2> QED BY <2>1, <2>6, <2>7 DEF CachesOwned, OwnedBy
<1>4. ASSUME NEW c \in Client, Write(c) PROVE OwnInv'
  <2>1. /\ client[c].at \in Edits
        /\ client' = [client EXCEPT ![c] = Waits("clear", client[c].at)]
           \/ client' = [client EXCEPT ![c] = Idle(None)]
        /\ UNCHANGED <<response, kept, inFlight>>
        BY <1>4 DEF Write
  <2> QED BY <2>1 DEF CachesOwned, FlightOwned, ClientOwned, OwnedBy
<1>5. ASSUME NEW c \in Client, ClearResponse(c) PROVE OwnInv'
      BY <1>5 DEF ClearResponse, CachesOwned, FlightOwned, ClientOwned, OwnedBy
<1>6. ASSUME NEW c \in Client, Refused(c) PROVE OwnInv'
      BY <1>6 DEF Refused, CachesOwned, FlightOwned, ClientOwned, OwnedBy
<1>7. ASSUME NEW m \in inFlight, Arrive(m) PROVE OwnInv'
      BY <1>7 DEF Arrive, CachesOwned, FlightOwned, ClientOwned, OwnedBy
<1>8. ASSUME NEW m \in inFlight, Lost(m) PROVE OwnInv'
      BY <1>8 DEF Lost, CachesOwned, FlightOwned, ClientOwned, OwnedBy
<1>9. ASSUME NEW key \in Keys, ResponseExpires(key) \/ KeptExpires(key)
      PROVE  OwnInv'
      BY <1>9 DEF ResponseExpires, KeptExpires, CachesOwned, FlightOwned,
         ClientOwned, OwnedBy
<1>10. CASE UNCHANGED viewsVars
      BY <1>10 DEF viewsVars, CachesOwned, FlightOwned, ClientOwned, OwnedBy
<1> QED BY <1>1, <1>2, <1>3, <1>4, <1>5, <1>6, <1>7, <1>8, <1>9, <1>10
        DEF ViewsNext

\* Whatever the two caches answer, a user is shown data of his own or
\* everyone's: the keys of both name their user.
\* (auth-cache.interceptor.ts, trackBy)
THEOREM ShownIsOwn == ViewsSpec => []OwnShown
<1>1. ViewsInit => OwnInv
      BY DEF ViewsInit, OwnInv, CachesOwned, FlightOwned, ClientOwned, OwnedBy,
             Idle
<1>2. OwnInv => OwnShown
      BY DEF OwnInv, ClientOwned, OwnedBy, OwnShown
<1> QED BY <1>1, <1>2, OwnStep, PTL DEF ViewsSpec

-----------------------------------------------------------------------------
(* Conversions                                                              *)

\* What a run holds, by its next statement: a run that has ended, or has not
\* begun, holds nothing.
Steady ==
    \A r \in Run :
        /\ r \in HoldRun => step[r] \in {"new", "next", "create", "ended"}
        /\ r \in CheckRun => step[r] \in {"new", "find", "ask", "loop", "act",
                                          "wallet", "ended", "finished"}
        /\ ~ Running(r) => /\ todo[r] = {} /\ current[r] = {} /\ block[r] = {}
                           /\ index[r] = 0
        /\ current[r] # {} => step[r] \in {"create", "act"}
        /\ step[r] = "new" => /\ \A u \in writing : u[1] # r
                              /\ \A m \in queue : m[1] # r

\* A row that something refers to exists, and the one that a run is about to
\* insert does not.
RowsExist ==
    /\ \A r \in CheckRun : /\ \A b \in block[r] : status[b[1]] # "none"
                           /\ \A x \in current[r] : status[x[1]] # "none"
    /\ \A u \in writing : status[u[2]] # "none"
    /\ \A m \in queue : status[m[3]] # "none"
    /\ \A h \in HoldRun : \A x \in current[h] :
          x[1][1] = h /\ status[x[1]] = "none"

\* Two runs of one job that are under way, or have something under way, have
\* been noted.
Noted ==
    \A r, s \in Run :
        /\ r # s /\ Busy(r) /\ Busy(s)
        /\ {r, s} \subseteq HoldRun \/ {r, s} \subseteq CheckRun
        => {r, s} \in overlap

\* InsertedOnce, with the rows that are about to be inserted.
Inserts(v) == \/ status[v] # "none"
              \/ \E h \in HoldRun : h = v[1] /\ \E x \in current[h] : x[1] = v
OneRow ==
    \A v, w \in Row :
        v # w /\ v[2] = w[2] /\ Inserts(v) /\ Inserts(w)
            => {v[1], w[1]} \in overlap

\* What is taken for confirmed is.
Confirmed ==
    /\ \A r \in CheckRun :
          /\ \A x \in todo[r] : x[2] = "confirmed" => at[x[1]] = "confirmed"
          /\ \A x \in current[r] :
                /\ x[2] # "hold"
                /\ x[2] = "confirmed" => at[x[1][2]] = "confirmed"
    /\ \A m \in queue \cup paid : at[m[3][2]] = "confirmed"

\* A run looks at a conversion once in a block, at one at a time, and waits for
\* the one payment that it has asked for.
LooksInTurn ==
    \A r \in CheckRun :
        /\ \A x, y \in todo[r] : x[1] = y[1] => x = y
        /\ \A x \in current[r] : \A y \in todo[r] : y[1] # x[1][2]
        /\ \A m \in queue :
              m[1] = r => /\ step[r] \in {"wallet", "ended", "finished"}
                          /\ \A n \in queue : n[1] = r => n = m
                          /\ \A y \in todo[r] : y[1] # m[3][2]

\* A run may still pay the amount of a row: it has read the row with it and
\* not asked AccessTrade yet, or not looked at the answer, or is at the row, or
\* its payment is at the wallet.
MayPay(r, w) ==
    \/ /\ \E b \in block[r] : b[1] = w /\ b[3] = "full"
       /\ step[r] = "ask" \/ \E y \in todo[r] : y[1] = w[2]
    \/ \E x \in current[r] : x[1] = w /\ x[3] = "full"
    \/ \E m \in queue : m[1] = r /\ m[3] = w /\ m[4] = "full"

\* A row that is paid for is not pending, or has no amount left; who may still
\* pay for it has read it before, while the run that paid was under way.
PaidFor ==
    \A p \in paid :
        /\ status[p[3]] = "SUCCESS" \/ amount[p[3]] = "zero"
        /\ \A r \in CheckRun :
              MayPay(r, p[3]) => r # p[1] /\ {p[1], r} \in overlap

\* The rows of S before a row, the rows of U that have fewer than n before
\* them, and the pages that a check has read.
Before(S, w) == {v \in S : v[2] < w[2]}
Within(U, S, n) == {w \in U : Cardinality(Before(S, w)) < n}
PagesRead(r) == IF step[r] = "find" THEN index[r] ELSE index[r] + 1

\* What came up into the pages that a check had read; each row that ceased to
\* be pending lets one row come up.  A row that came to be pending pushes none
\* up, but there is one more than was counted.
CameUp(r) == Within(Missed(r), Pending, PagesRead(r) * MaxItems)
CountedBy(r) ==
    Running(r) /\ unread[r] # {} =>
        /\ unread[r] \subseteq Pending
        /\ Cardinality(CameUp(r)) <= moved[r]
        /\ 2 * (Cardinality(CameUp(r)) + Cardinality(Pending))
              < MaxItems + 2 * (moved[r] + blocks[r] * MaxItems)
Counted == \A r \in CheckRun : CountedBy(r)

ConversionsIInv ==
    /\ ConversionsTypeOK
    /\ Steady
    /\ RowsExist
    /\ Noted
    /\ OneRow
    /\ Confirmed
    /\ LooksInTurn
    /\ PaidFor
    /\ PaidOnceConfirmed
    /\ Counted
    /\ MissesFew

\* Who may pay for a row may do so after any step, or has just read it.
MayStay ==
    \A r \in CheckRun, w \in Row :
        MayPay(r, w)' => MayPay(r, w) \/ (w \in Pending /\ amount[w] = "full")

\* A row that is settled stays so.
Settled(w) == status[w] = "SUCCESS" \/ amount[w] = "zero"
SettledStays ==
    overlap \subseteq overlap' /\ \A w \in Row : Settled(w) => Settled(w)'
OverlapsOnce ==
    \A p, q \in paid :
        p # q /\ p[3] = q[3] /\ p[4] = "full" /\ q[4] = "full"
            => {p[1], q[1]} \in overlap
PaidInv == ConversionsTypeOK /\ Steady /\ RowsExist /\ Noted /\ LooksInTurn
           /\ PaidFor /\ OverlapsOnce

\* A row that is not there was not there before.
RowsStay ==
    \A w \in Row : status'[w] = "none" => status[w] = "none"

\* One row comes to be pending, or ceases to be.
OneMoves ==
    \E v \in Row : \/ v \notin Pending /\ Pending' = Pending \cup {v}
                   \/ v \in Pending /\ Pending' = Pending \ {v}

\* A step leaves the place of s in its blocks as it is, and what s counted
\* too, or a row comes or goes.
KeepsPlace(s) ==
    /\ blocks'[s] = blocks[s] /\ PagesRead(s)' = PagesRead(s)
    /\ Running(s)' => Running(s)
CountStays(s) ==
    /\ Pending' = Pending /\ unread'[s] \subseteq unread[s]
    /\ moved'[s] >= moved[s]
    /\ KeepsPlace(s)
CountMoves(s) ==
    /\ OneMoves /\ unread'[s] \subseteq unread[s] \cap Pending'
    /\ moved'[s] = moved[s] + 1
    /\ KeepsPlace(s)
CountKept(s) == \/ CountStays(s) \/ CountMoves(s)
                \/ unread'[s] = {} \/ ~ Running(s)'
CountSteps ==
    \A s \in CheckRun : CountKept(s) \/ Count(s) \/ FindMany(s)

\* A check that has no more to read counted nothing, came to its last page,
\* found a page empty, or had no more to read before.
EndSteps ==
    \A s \in CheckRun :
        step'[s] = "finished" =>
            \/ Count(s) /\ blocks'[s] = 0
            \/ NextBlock(s) /\ index[s] + 1 = blocks[s]
            \/ FindMany(s) /\ Cardinality(Pending) <= index[s] * MaxItems
            \/ /\ step[s] = "finished" /\ unread'[s] = unread[s]
               /\ moved'[s] = moved[s] \/ unread'[s] = {}

\* Rounding to whole blocks leaves out less than half a block.
LEMMA BlocksRound ==
    ASSUME NEW n \in Nat
    PROVE  Blocks(n) \in Nat /\ 2 * (n - Blocks(n) * MaxItems) < MaxItems
<1>1. PICK d : d = 2 * MaxItems
      OBVIOUS
<1>2. PICK a : a = 2 * n + MaxItems
      OBVIOUS
<1>3. PICK q : q = a \div d
      OBVIOUS
<1>4. d \in Nat /\ d > 0 /\ a \in Nat
      BY <1>1, <1>2, ConversionAssumption
<1>5. q \in Nat /\ a < d * (q + 1)
      BY <1>3, <1>4
<1>6. Blocks(n) = q
      BY <1>1, <1>2, <1>3 DEF Blocks
<1>7. 2 * n + MaxItems < 2 * MaxItems * (q + 1)
      BY <1>1, <1>2, <1>5
<1> QED BY <1>5, <1>6, <1>7, ConversionAssumption

\* A row is of a conversion.
LEMMA RowOfConv == \A w \in Row : w[2] \in Conv
BY DEF Row

\* What a run holds and what the wallet is asked names rows and conversions.
LEMMA Named ==
    ASSUME ConversionsTypeOK
    PROVE  /\ \A r \in CheckRun : /\ \A x \in todo[r] : x[1] \in Conv
                                 /\ \A x \in current[r] : x[1] \in Row
           /\ \A m \in queue \cup paid : m[3] \in Row /\ m[1] \in CheckRun
BY DEF ConversionsTypeOK, Run

\* Rows, and those that are pending, are finitely many.
LEMMA RowsFinite == IsFiniteSet(Row) /\ IsFiniteSet(Pending)
<1>1. IsFiniteSet(HoldRun \cup {Earlier})
      BY ConversionAssumption, FS_AddElement
<1>2. IsFiniteSet(Row)
      BY <1>1, ConversionAssumption, FS_Product DEF Row
<1>3. Pending \subseteq Row
      BY DEF Pending
<1> QED BY <1>2, <1>3, FS_Subset

\* What a check has counted keeps its type when rows move.
LEMMA MovesType ==
    ASSUME ConversionsTypeOK, Moves
    PROVE  unread' \in [CheckRun -> SUBSET Row] /\ moved' \in [CheckRun -> Nat]
<1>1. \A r \in CheckRun : unread[r] \in SUBSET Row /\ moved[r] \in Nat
      BY DEF ConversionsTypeOK
<1>2. unread' \in [CheckRun -> SUBSET Row]
      BY <1>1 DEF Moves
<1>3. moved' \in [CheckRun -> Nat]
      BY <1>1 DEF Moves
<1> QED BY <1>2, <1>3

\* The types are kept.
LEMMA ConversionsTypeStep ==
    ConversionsTypeOK /\ [ConversionsNext]_conversionsVars
        => ConversionsTypeOK'
<1> SUFFICES ASSUME ConversionsTypeOK, [ConversionsNext]_conversionsVars
             PROVE  ConversionsTypeOK'
    OBVIOUS
<1> USE ConversionAssumption DEF ConversionsTypeOK, Run, Over, rowVars, locals,
        paymentVars, histories, Continue, Stop, Begins, State, Status, Amount
<1>1. ASSUME NEW h \in HoldRun, FetchOnHold(h) PROVE ConversionsTypeOK'
      BY <1>1 DEF FetchOnHold
<1>2. ASSUME NEW h \in HoldRun, FindExisting(h) PROVE ConversionsTypeOK'
      BY <1>2, SMTT(30) DEF FindExisting, Row
<1>3. ASSUME NEW h \in HoldRun, InsertCbTransPending(h)
      PROVE  ConversionsTypeOK'
      BY <1>3, MovesType DEF InsertCbTransPending
<1>4. ASSUME NEW h \in HoldRun, HoldEnds(h) PROVE ConversionsTypeOK'
      BY <1>4 DEF HoldEnds
<1>5. ASSUME NEW r \in CheckRun, Count(r) PROVE ConversionsTypeOK'
  <2>1. Cardinality(Pending) \in Nat /\ Pending \subseteq Row
        BY RowsFinite, FS_CardinalityType DEF Pending
  <2>2. Blocks(Cardinality(Pending)) \in Nat
        BY <2>1, BlocksRound
  <2> QED BY <1>5, <2>1, <2>2 DEF Count
<1>6. ASSUME NEW r \in CheckRun, FindMany(r) PROVE ConversionsTypeOK'
  <2>0. UNCHANGED <<at, status, amount, writing, queue, paid, moved, overlap>>
        BY <1>6 DEF FindMany
  <2>1. CASE Stop({r}, "finished") /\ unread' = unread
        BY <2>0, <2>1
  <2>2. ASSUME NEW B \in Page(Pending, index[r] * MaxItems),
               block' = [block EXCEPT ![r] =
                            {<<w, status[w], amount[w]>> : w \in B}],
               unread' = [unread EXCEPT ![r] = @ \ B],
               Continue(r, "ask"), UNCHANGED <<todo, current, index, blocks>>
        PROVE  ConversionsTypeOK'
    <3>1. B \subseteq Row
          BY DEF Page, Pending
    <3>2. PICK C : C = {<<w, status[w], amount[w]>> : w \in B}
          OBVIOUS
    <3>3. C \subseteq Row \X Status \X Amount
      <4>1. \A w \in B : status[w] \in Status /\ amount[w] \in Amount
            BY <3>1
      <4> QED BY <3>1, <3>2, <4>1
    <3>4. block' \in [Run -> SUBSET (Row \X Status \X Amount)]
          BY <2>2, <3>2, <3>3
    <3>5. unread' \in [CheckRun -> SUBSET Row]
          BY <2>2
    <3> QED BY <2>0, <2>2, <3>4, <3>5
  <2> QED BY <1>6, <2>1, <2>2 DEF FindMany
<1>7. ASSUME NEW r \in CheckRun, Ask(r) PROVE ConversionsTypeOK'
      BY <1>7 DEF Ask
<1>8. ASSUME NEW r \in CheckRun, Look(r) PROVE ConversionsTypeOK'
  <2>1. CASE Stop({r}, "ended")
        BY <1>8, <2>1, MovesType DEF Look
  <2>2. ASSUME NEW x \in todo[r], NEW b \in block[r], x[2] # "hold",
               current' = [current EXCEPT ![r] = {<<b[1], x[2], b[3]>>}],
               todo' = [todo EXCEPT ![r] = @ \ {x}],
               Continue(r, "act"), UNCHANGED <<block, index, blocks>>
        PROVE  ConversionsTypeOK'
    <3>1. b[1] \in Row /\ x[2] \in State /\ b[3] \in Amount
          OBVIOUS
    <3> QED BY <1>8, <2>2, <3>1, MovesType DEF Look
  <2> QED BY <1>8, <2>1, <2>2 DEF Look
<1>9. ASSUME NEW r \in CheckRun, Pay(r) PROVE ConversionsTypeOK'
      BY <1>9 DEF Pay
<1>10. ASSUME NEW r \in CheckRun, WriteStatus(r) PROVE ConversionsTypeOK'
      BY <1>10 DEF WriteStatus, NewStatus
<1>11. ASSUME NEW r \in CheckRun, NextBlock(r) PROVE ConversionsTypeOK'
      BY <1>11, SMTT(30) DEF NextBlock
<1>12. ASSUME NEW r \in Run, StatementFails(r) PROVE ConversionsTypeOK'
      BY <1>12, MovesType DEF StatementFails
<1>13. ASSUME NEW u \in writing, WriteCommits(u) \/ WriteFails(u)
       PROVE  ConversionsTypeOK'
      BY <1>13, MovesType DEF WriteCommits, WriteFails
<1>14. ASSUME NEW m \in queue, WalletPays(m) \/ WalletRefuses(m)
       PROVE  ConversionsTypeOK'
  <2>1. m[1] \in Run /\ m[3] \in Row
        OBVIOUS
  <2>2. /\ status' = status \/ status' = [status EXCEPT ![m[3]] = "SUCCESS"]
        /\ queue' = queue \ {m} /\ paid' \in {paid, paid \cup {m}}
        /\ UNCHANGED <<at, amount, writing, overlap>>
        /\ Moves
        BY <1>14 DEF WalletPays, WalletRefuses
  <2>3. /\ status' \in [Row -> Status]
        /\ queue' \subseteq CheckRun \X Nat \X Row \X Amount
        /\ paid' \subseteq CheckRun \X Nat \X Row \X Amount
        BY <2>1, <2>2
  <2>4. \E ok \in BOOLEAN : Answer(m[1], ok)
        BY <1>14 DEF WalletPays, WalletRefuses
  <2>5. CASE UNCHANGED <<step, locals>>
        BY <2>2, <2>3, <2>5, MovesType
  <2>6. CASE Continue(m[1], "loop") /\ UNCHANGED locals
        BY <2>1, <2>2, <2>3, <2>6, MovesType
  <2>7. CASE Stop({m[1]}, "ended")
        BY <2>1, <2>2, <2>3, <2>7, MovesType
  <2> QED BY <2>4, <2>5, <2>6, <2>7 DEF Answer
<1>15. ASSUME NEW c \in Conv, AccessTradeDecides(c) PROVE ConversionsTypeOK'
      BY <1>15 DEF AccessTradeDecides
<1>16. CASE SchedulerCrash
      BY <1>16, MovesType DEF SchedulerCrash
<1>17. CASE UNCHANGED conversionsVars
      BY <1>17 DEF conversionsVars
<1> QED BY <1>1, <1>2, <1>3, <1>4, <1>5, <1>6, <1>7, <1>8, <1>9, <1>10, <1>11,
           <1>12, <1>13, <1>14, <1>15, <1>16, <1>17 DEF ConversionsNext

\* A run that has ended holds nothing, before and after a step.
LEMMA SteadyStep ==
    ConversionsTypeOK /\ Steady /\ [ConversionsNext]_conversionsVars
        => Steady'
<1> SUFFICES ASSUME ConversionsTypeOK /\ Steady,
                    [ConversionsNext]_conversionsVars
             PROVE  Steady'
    OBVIOUS
<1> USE ConversionAssumption DEF ConversionsTypeOK, Steady, Running, Run, Over,
        rowVars, locals, paymentVars, histories, Continue, Stop, Begins
<1>1. ASSUME NEW h \in HoldRun, FetchOnHold(h) PROVE Steady'
      BY <1>1 DEF FetchOnHold
<1>2. ASSUME NEW h \in HoldRun, FindExisting(h) PROVE Steady'
      BY <1>2 DEF FindExisting
<1>3. ASSUME NEW h \in HoldRun, InsertCbTransPending(h) PROVE Steady'
      BY <1>3 DEF InsertCbTransPending, Moves
<1>4. ASSUME NEW h \in HoldRun, HoldEnds(h) PROVE Steady'
      BY <1>4 DEF HoldEnds
<1>5. ASSUME NEW r \in CheckRun, Count(r) PROVE Steady'
      BY <1>5 DEF Count
<1>6. ASSUME NEW r \in CheckRun, FindMany(r) PROVE Steady'
      BY <1>6 DEF FindMany
<1>7. ASSUME NEW r \in CheckRun, Ask(r) PROVE Steady'
      BY <1>7 DEF Ask
<1>8. ASSUME NEW r \in CheckRun, Look(r) PROVE Steady'
      BY <1>8 DEF Look
<1>9. ASSUME NEW r \in CheckRun, Pay(r) PROVE Steady'
      BY <1>9 DEF Pay
<1>10. ASSUME NEW r \in CheckRun, WriteStatus(r) PROVE Steady'
      BY <1>10 DEF WriteStatus
<1>11. ASSUME NEW r \in CheckRun, NextBlock(r) PROVE Steady'
      BY <1>11 DEF NextBlock
<1>12. ASSUME NEW r \in Run, StatementFails(r) PROVE Steady'
      BY <1>12 DEF StatementFails
<1>13. ASSUME NEW u \in writing, WriteCommits(u) \/ WriteFails(u) PROVE Steady'
      BY <1>13 DEF WriteCommits, WriteFails, Moves
<1>14. ASSUME NEW m \in queue, WalletPays(m) \/ WalletRefuses(m) PROVE Steady'
      BY <1>14 DEF WalletPays, WalletRefuses, Answer, Moves
<1>15. ASSUME NEW c \in Conv, AccessTradeDecides(c) PROVE Steady'
      BY <1>15 DEF AccessTradeDecides
<1>16. CASE SchedulerCrash
      BY <1>16 DEF SchedulerCrash
<1>17. CASE UNCHANGED conversionsVars
      BY <1>17 DEF conversionsVars
<1> QED BY <1>1, <1>2, <1>3, <1>4, <1>5, <1>6, <1>7, <1>8, <1>9, <1>10, <1>11,
           <1>12, <1>13, <1>14, <1>15, <1>16, <1>17 DEF ConversionsNext

\* Rows do not go away, and are inserted where there was none.
LEMMA RowsExistStep ==
    /\ ConversionsTypeOK /\ Steady /\ RowsExist
    /\ [ConversionsNext]_conversionsVars
    => RowsExist'
<1> SUFFICES ASSUME ConversionsTypeOK /\ Steady /\ RowsExist,
                    [ConversionsNext]_conversionsVars
             PROVE  RowsExist'
    OBVIOUS
<1> USE ConversionAssumption DEF ConversionsTypeOK, Steady, Running, RowsExist,
        Run, Over, rowVars, locals, paymentVars, histories, Continue, Stop,
        Begins
<1>1. ASSUME NEW h \in HoldRun, FetchOnHold(h) PROVE RowsExist'
      BY <1>1 DEF FetchOnHold
<1>2. ASSUME NEW h \in HoldRun, FindExisting(h) PROVE RowsExist'
  <2>1. CASE UNCHANGED <<step, current>>
        BY <1>2, <2>1 DEF FindExisting
  <2>2. ASSUME NEW x \in todo[h], ~ Exists(x[1]),
               current' = [current EXCEPT ![h] =
                              {<<<<h, x[1]>>, "hold", "full">>}]
        PROVE  RowsExist'
    <3>1. <<h, x[1]>> \in Row
          BY DEF Row
    <3>2. status[<<h, x[1]>>] = "none"
          BY <2>2, <3>1 DEF Exists
    <3>3. UNCHANGED <<status, block, writing, queue>>
          BY <1>2 DEF FindExisting
    <3>4. \A r \in CheckRun : current'[r] = current[r]
          BY <2>2
    <3>5. \A g \in HoldRun : \A y \in current'[g] :
             y[1][1] = g /\ status[y[1]] = "none"
          BY <2>2, <3>2
    <3> QED BY <3>3, <3>4, <3>5
  <2> QED BY <1>2, <2>1, <2>2 DEF FindExisting
<1>3. ASSUME NEW h \in HoldRun, InsertCbTransPending(h) PROVE RowsExist'
      BY <1>3 DEF InsertCbTransPending, Moves
<1>4. ASSUME NEW h \in HoldRun, HoldEnds(h) PROVE RowsExist'
      BY <1>4 DEF HoldEnds
<1>5. ASSUME NEW r \in CheckRun, Count(r) PROVE RowsExist'
      BY <1>5 DEF Count
<1>6. ASSUME NEW r \in CheckRun, FindMany(r) PROVE RowsExist'
      BY <1>6, SMTT(30) DEF FindMany, Page, Pending
<1>7. ASSUME NEW r \in CheckRun, Ask(r) PROVE RowsExist'
      BY <1>7 DEF Ask
<1>8. ASSUME NEW r \in CheckRun, Look(r) PROVE RowsExist'
      BY <1>8, SMTT(30) DEF Look
<1>9. ASSUME NEW r \in CheckRun, Pay(r) PROVE RowsExist'
      BY <1>9 DEF Pay
<1>10. ASSUME NEW r \in CheckRun, WriteStatus(r) PROVE RowsExist'
      BY <1>10 DEF WriteStatus
<1>11. ASSUME NEW r \in CheckRun, NextBlock(r) PROVE RowsExist'
      BY <1>11 DEF NextBlock
<1>12. ASSUME NEW r \in Run, StatementFails(r) PROVE RowsExist'
      BY <1>12 DEF StatementFails
<1>13. ASSUME NEW u \in writing, WriteCommits(u) \/ WriteFails(u)
       PROVE  RowsExist'
      BY <1>13 DEF WriteCommits, WriteFails, Moves
<1>14. ASSUME NEW m \in queue, WalletPays(m) \/ WalletRefuses(m)
       PROVE  RowsExist'
      BY <1>14, SMTT(30) DEF WalletPays, WalletRefuses, Answer, Moves
<1>15. ASSUME NEW c \in Conv, AccessTradeDecides(c) PROVE RowsExist'
      BY <1>15 DEF AccessTradeDecides
<1>16. CASE SchedulerCrash
      BY <1>16 DEF SchedulerCrash
<1>17. CASE UNCHANGED conversionsVars
      BY <1>17 DEF conversionsVars
<1> QED BY <1>1, <1>2, <1>3, <1>4, <1>5, <1>6, <1>7, <1>8, <1>9, <1>10, <1>11,
           <1>12, <1>13, <1>14, <1>15, <1>16, <1>17 DEF ConversionsNext

\* Who begins beside another run is noted.
LEMMA NotedStep ==
    ConversionsTypeOK /\ Steady /\ Noted /\ [ConversionsNext]_conversionsVars
        => Noted'
<1> SUFFICES ASSUME ConversionsTypeOK /\ Steady /\ Noted,
                    [ConversionsNext]_conversionsVars
             PROVE  Noted'
    OBVIOUS
<1> USE ConversionAssumption DEF ConversionsTypeOK, Steady, Running, Run, Over,
        rowVars, locals, paymentVars, histories, Continue, Stop
<1>a. ASSUME overlap' = overlap, \A q \in Run : Busy(q)' => Busy(q)
      PROVE  Noted'
      BY <1>a DEF Noted
<1>b. ASSUME overlap' = overlap, writing' = writing, queue' = queue,
             \A q \in Run : Running(q)' => Running(q)
      PROVE  Noted'
  <2>1. \A q \in Run : Busy(q)' => Busy(q)
        BY <1>b DEF Busy
  <2> QED BY <1>a, <1>b, <2>1
<1>c. ASSUME NEW r \in Run, NEW R \in {HoldRun, CheckRun}, r \in R,
             Begins(r, R), writing' = writing, queue' = queue,
             \A q \in Run \ {r} : step'[q] = step[q]
      PROVE  Noted'
  <2>1. \A q \in Run \ {r} : Busy(q)' <=> Busy(q)
        BY <1>c DEF Busy
  <2>2. /\ overlap \subseteq overlap'
        /\ \A q \in R \ {r} : Busy(q) => {r, q} \in overlap'
        BY <1>c DEF Begins
  <2>3. ASSUME NEW p \in Run, NEW q \in Run, p # q, Busy(p)', Busy(q)',
               {p, q} \subseteq HoldRun \/ {p, q} \subseteq CheckRun
        PROVE  {p, q} \in overlap'
    <3>1. CASE p = r
      <4>1. q \in R \ {r} /\ Busy(q)
            BY <1>c, <2>1, <2>3, <3>1
      <4> QED BY <2>2, <3>1, <4>1
    <3>2. CASE q = r
      <4>1. p \in R \ {r} /\ Busy(p)
            BY <1>c, <2>1, <2>3, <3>2
      <4>2. {p, q} = {r, p}
            BY <3>2
      <4> QED BY <2>2, <4>1, <4>2
    <3>3. CASE p # r /\ q # r
          BY <2>1, <2>2, <2>3, <3>3 DEF Noted
    <3> QED BY <3>1, <3>2, <3>3
  <2> QED BY <2>3 DEF Noted
<1>1. ASSUME NEW h \in HoldRun, FetchOnHold(h) PROVE Noted'
  <2>1. /\ Begins(h, HoldRun) /\ writing' = writing /\ queue' = queue
        /\ \A q \in Run \ {h} : step'[q] = step[q]
        BY <1>1 DEF FetchOnHold
  <2> QED BY <1>c, <2>1
<1>2. ASSUME NEW h \in HoldRun, FindExisting(h) PROVE Noted'
  <2>1. \A q \in Run : Running(q)' => Running(q)
        BY <1>2 DEF FindExisting
  <2> QED BY <1>b, <1>2, <2>1 DEF FindExisting
<1>3. ASSUME NEW h \in HoldRun, InsertCbTransPending(h) PROVE Noted'
      BY <1>b, <1>3 DEF InsertCbTransPending
<1>4. ASSUME NEW h \in HoldRun, HoldEnds(h) PROVE Noted'
      BY <1>b, <1>4 DEF HoldEnds
<1>5. ASSUME NEW r \in CheckRun, Count(r) PROVE Noted'
  <2>1. /\ Begins(r, CheckRun) /\ writing' = writing /\ queue' = queue
        /\ \A q \in Run \ {r} : step'[q] = step[q]
        BY <1>5 DEF Count
  <2> QED BY <1>c, <2>1
<1>6. ASSUME NEW r \in CheckRun, FindMany(r) PROVE Noted'
  <2>1. /\ step[r] = "find" /\ \A q \in Run \ {r} : step'[q] = step[q]
        /\ overlap' = overlap /\ writing' = writing /\ queue' = queue
        BY <1>6 DEF FindMany
  <2> QED BY <1>b, <2>1
<1>7. ASSUME NEW r \in CheckRun, Ask(r) PROVE Noted'
      BY <1>b, <1>7 DEF Ask
<1>8. ASSUME NEW r \in CheckRun, Look(r) PROVE Noted'
  <2>1. /\ step[r] = "loop" /\ \A q \in Run \ {r} : step'[q] = step[q]
        /\ overlap' = overlap /\ writing' = writing /\ queue' = queue
        BY <1>8 DEF Look
  <2> QED BY <1>b, <2>1
<1>9. ASSUME NEW r \in CheckRun, Pay(r) PROVE Noted'
  <2>1. PICK z : queue' = queue \cup {<<r, index[r], z[1], z[3]>>}
        BY <1>9 DEF Pay
  <2>2. \A q \in Run : Busy(q)' => Busy(q)
        BY <1>9, <2>1 DEF Pay, Busy
  <2> QED BY <1>a, <1>9, <2>2 DEF Pay
<1>10. ASSUME NEW r \in CheckRun, WriteStatus(r) PROVE Noted'
  <2>1. PICK x \in current[r] :
           writing' = writing \cup {<<r, x[1], NewStatus(x[2])>>}
        BY <1>10 DEF WriteStatus
  <2>0. /\ step[r] = "act" /\ step' = [step EXCEPT ![r] = "loop"]
        /\ queue' = queue
        BY <1>10 DEF WriteStatus
  <2>a. Running(r)
        BY <2>0
  <2>b. \A q \in Run : Running(q)' => Running(q)
        BY <2>0
  <2>2. \A q \in Run : Busy(q)' => Busy(q)
        BY <2>0, <2>1, <2>a, <2>b DEF Busy
  <2> QED BY <1>a, <1>10, <2>2 DEF WriteStatus
<1>11. ASSUME NEW r \in CheckRun, NextBlock(r) PROVE Noted'
  <2>1. /\ step[r] = "loop" /\ \A q \in Run \ {r} : step'[q] = step[q]
        /\ overlap' = overlap /\ writing' = writing /\ queue' = queue
        BY <1>11 DEF NextBlock
  <2> QED BY <1>b, <2>1
<1>12. ASSUME NEW r \in Run, StatementFails(r) PROVE Noted'
      BY <1>b, <1>12 DEF StatementFails
<1>13. ASSUME NEW u \in writing, WriteCommits(u) \/ WriteFails(u) PROVE Noted'
  <2>1. \A q \in Run : Busy(q)' => Busy(q)
        BY <1>13 DEF WriteCommits, WriteFails, Busy
  <2> QED BY <1>a, <1>13, <2>1 DEF WriteCommits, WriteFails
<1>14. ASSUME NEW m \in queue, WalletPays(m) \/ WalletRefuses(m) PROVE Noted'
  <2>1. /\ overlap' = overlap /\ writing' = writing /\ queue' = queue \ {m}
        /\ \E ok \in BOOLEAN : Answer(m[1], ok)
        BY <1>14 DEF WalletPays, WalletRefuses
  <2>2. m[1] \in CheckRun
        BY Named
  <2>3. \A q \in Run : Running(q)' => Running(q)
        BY <2>1, <2>2 DEF Answer
  <2>4. \A q \in Run : Busy(q)' => Busy(q)
        BY <2>1, <2>3 DEF Busy
  <2> QED BY <1>a, <2>1, <2>4
<1>15. ASSUME NEW c \in Conv, AccessTradeDecides(c) PROVE Noted'
      BY <1>b, <1>15 DEF AccessTradeDecides
<1>16. CASE SchedulerCrash
  <2>1. \A q \in Run : Busy(q)' => Busy(q)
        BY <1>16 DEF SchedulerCrash, Busy
  <2> QED BY <1>a, <1>16, <2>1 DEF SchedulerCrash
<1>17. CASE UNCHANGED conversionsVars
      BY <1>b, <1>17 DEF conversionsVars
<1> QED BY <1>1, <1>2, <1>3, <1>4, <1>5, <1>6, <1>7, <1>8, <1>9, <1>10, <1>11,
           <1>12, <1>13, <1>14, <1>15, <1>16, <1>17 DEF ConversionsNext

\* A row is about to be inserted only if there is none of its conversion.
LEMMA OneRowStep ==
    /\ ConversionsTypeOK /\ Steady /\ RowsExist /\ Noted /\ OneRow
    /\ [ConversionsNext]_conversionsVars
    => OneRow'
<1> SUFFICES ASSUME ConversionsTypeOK, Steady, RowsExist, Noted, OneRow,
                    [ConversionsNext]_conversionsVars
             PROVE  OneRow'
    OBVIOUS
<1> USE ConversionAssumption DEF ConversionsTypeOK, Steady, Running, Inserts,
        RowsExist, OneRow, Run, Over, rowVars, locals, paymentVars, histories,
        Continue, Stop, Begins
<1>a. ASSUME status' = status, overlap' = overlap,
             \A h \in HoldRun : current'[h] = current[h]
      PROVE  OneRow'
  <2>1. \A v \in Row : Inserts(v)' => Inserts(v)
        BY <1>a
  <2> QED BY <1>a, <2>1
<1>b. \A r \in CheckRun, h \in HoldRun : h # r
      OBVIOUS
<1>1. ASSUME NEW h \in HoldRun, FetchOnHold(h) PROVE OneRow'
      BY <1>1 DEF FetchOnHold
<1>2. ASSUME NEW h \in HoldRun, FindExisting(h) PROVE OneRow'
  <2>1. CASE UNCHANGED <<step, current>>
        BY <1>2, <2>1 DEF FindExisting
  <2>2. ASSUME NEW x \in todo[h], ~ Exists(x[1]),
               current' = [current EXCEPT ![h] =
                              {<<<<h, x[1]>>, "hold", "full">>}]
        PROVE  OneRow'
    <3>1. /\ status' = status /\ overlap' = overlap
          /\ step[h] = "next"
          BY <1>2 DEF FindExisting
    <3>2. \A v \in Row : Inserts(v)' => Inserts(v) \/ v = <<h, x[1]>>
          BY <2>2, <3>1
    <3>3. ASSUME NEW v \in Row, v # <<h, x[1]>>, v[2] = x[1], Inserts(v)
          PROVE  {v[1], h} \in overlap
      <4>1. status[v] = "none"
            BY <2>2, <3>3 DEF Exists
      <4>2. PICK g \in HoldRun : g = v[1] /\ current[g] # {}
            BY <3>3, <4>1
      <4>3. g # h
            BY <3>3, <4>2 DEF Row
      <4>a. step[g] \in {"create", "act"} /\ step[h] = "next"
            BY <3>1, <4>2
      <4>4. Running(g) /\ Running(h)
            BY <4>a
      <4>5. Busy(g) /\ Busy(h)
            BY <4>4 DEF Busy
      <4>6. {g, h} \in overlap
            BY <4>2, <4>3, <4>5 DEF Noted
      <4> QED BY <4>2, <4>6
    <3> QED BY <3>1, <3>2, <3>3 DEF Row
  <2> QED BY <1>2, <2>1, <2>2 DEF FindExisting
<1>3. ASSUME NEW h \in HoldRun, InsertCbTransPending(h) PROVE OneRow'
  <2>1. PICK x \in current[h] : status' = [status EXCEPT ![x[1]] = "PROCESSING"]
        BY <1>3 DEF InsertCbTransPending
  <2>2. current' = [current EXCEPT ![h] = {}] /\ overlap' = overlap
        BY <1>3 DEF InsertCbTransPending
  <2>3. x[1] \in Row /\ x[1][1] = h
        OBVIOUS
  <2>4. \A v \in Row : Inserts(v)' => Inserts(v)
        BY <2>1, <2>2, <2>3
  <2> QED BY <2>2, <2>4
<1>4. ASSUME NEW h \in HoldRun, HoldEnds(h) PROVE OneRow'
      BY <1>4 DEF HoldEnds
<1>5. ASSUME NEW r \in CheckRun, Count(r) PROVE OneRow'
      BY <1>5 DEF Count
<1>6. ASSUME NEW r \in CheckRun, FindMany(r) PROVE OneRow'
  <2>1. /\ status' = status /\ overlap' = overlap
        /\ \A q \in Run \ {r} : current'[q] = current[q]
        BY <1>6 DEF FindMany
  <2> QED BY <1>a, <1>b, <2>1
<1>7. ASSUME NEW r \in CheckRun, Ask(r) PROVE OneRow'
      BY <1>7 DEF Ask
<1>8. ASSUME NEW r \in CheckRun, Look(r) PROVE OneRow'
  <2>1. /\ status' = status /\ overlap' = overlap
        /\ \A q \in Run \ {r} : current'[q] = current[q]
        BY <1>8 DEF Look
  <2> QED BY <1>a, <1>b, <2>1
<1>9. ASSUME NEW r \in CheckRun, Pay(r) PROVE OneRow'
      BY <1>9 DEF Pay
<1>10. ASSUME NEW r \in CheckRun, WriteStatus(r) PROVE OneRow'
      BY <1>10 DEF WriteStatus
<1>11. ASSUME NEW r \in CheckRun, NextBlock(r) PROVE OneRow'
  <2>1. /\ status' = status /\ overlap' = overlap
        /\ \A q \in Run \ {r} : current'[q] = current[q]
        BY <1>11 DEF NextBlock
  <2> QED BY <1>a, <1>b, <2>1
<1>12. ASSUME NEW r \in Run, StatementFails(r) PROVE OneRow'
      BY <1>12 DEF StatementFails
<1>13. ASSUME NEW u \in writing, WriteCommits(u) \/ WriteFails(u) PROVE OneRow'
      BY <1>13 DEF WriteCommits, WriteFails, Moves
<1>14. ASSUME NEW m \in queue, WalletPays(m) \/ WalletRefuses(m) PROVE OneRow'
  <2>0. m[3] \in Row /\ m[1] \in CheckRun /\ status[m[3]] # "none"
        BY Named
  <2>1. /\ \A v \in Row : status'[v] # "none" => status[v] # "none"
        /\ overlap' = overlap
    <3>1. status' = status \/ status' = [status EXCEPT ![m[3]] = "SUCCESS"]
          BY <1>14 DEF WalletPays, WalletRefuses
    <3>2. overlap' = overlap
          BY <1>14 DEF WalletPays, WalletRefuses
    <3> QED BY <2>0, <3>1, <3>2
  <2>2. \A h \in HoldRun : current'[h] = current[h]
        BY <1>14, <2>0 DEF WalletPays, WalletRefuses, Answer
  <2>3. \A v \in Row : Inserts(v)' => Inserts(v)
        BY <2>1, <2>2
  <2> QED BY <2>1, <2>3
<1>15. ASSUME NEW c \in Conv, AccessTradeDecides(c) PROVE OneRow'
      BY <1>15 DEF AccessTradeDecides
<1>16. CASE SchedulerCrash
      BY <1>16 DEF SchedulerCrash
<1>17. CASE UNCHANGED conversionsVars
      BY <1>17 DEF conversionsVars
<1> QED BY <1>1, <1>2, <1>3, <1>4, <1>5, <1>6, <1>7, <1>8, <1>9, <1>10, <1>11,
           <1>12, <1>13, <1>14, <1>15, <1>16, <1>17 DEF ConversionsNext

\* AccessTrade does not take back a confirmation.
LEMMA ConfirmedStep ==
    /\ ConversionsTypeOK /\ Steady /\ Confirmed
    /\ [ConversionsNext]_conversionsVars
    => Confirmed'
<1> SUFFICES ASSUME ConversionsTypeOK /\ Steady /\ Confirmed,
                    [ConversionsNext]_conversionsVars
             PROVE  Confirmed'
    OBVIOUS
<1> USE ConversionAssumption DEF ConversionsTypeOK, Steady, Running, Confirmed,
        Run, Over, rowVars, locals, paymentVars, histories, Continue, Stop,
        Begins
<1>1. ASSUME NEW h \in HoldRun, FetchOnHold(h) PROVE Confirmed'
      BY <1>1 DEF FetchOnHold
<1>2. ASSUME NEW h \in HoldRun, FindExisting(h) PROVE Confirmed'
      BY <1>2 DEF FindExisting
<1>3. ASSUME NEW h \in HoldRun, InsertCbTransPending(h) PROVE Confirmed'
      BY <1>3 DEF InsertCbTransPending, Moves
<1>4. ASSUME NEW h \in HoldRun, HoldEnds(h) PROVE Confirmed'
      BY <1>4 DEF HoldEnds
<1>5. ASSUME NEW r \in CheckRun, Count(r) PROVE Confirmed'
      BY <1>5 DEF Count
<1>6. ASSUME NEW r \in CheckRun, FindMany(r) PROVE Confirmed'
      BY <1>6 DEF FindMany
<1>7. ASSUME NEW r \in CheckRun, Ask(r) PROVE Confirmed'
      BY <1>7 DEF Ask
<1>8. ASSUME NEW r \in CheckRun, Look(r) PROVE Confirmed'
      BY <1>8, SMTT(30) DEF Look
<1>9. ASSUME NEW r \in CheckRun, Pay(r) PROVE Confirmed'
      BY <1>9 DEF Pay, NewStatus, State
<1>10. ASSUME NEW r \in CheckRun, WriteStatus(r) PROVE Confirmed'
      BY <1>10 DEF WriteStatus
<1>11. ASSUME NEW r \in CheckRun, NextBlock(r) PROVE Confirmed'
      BY <1>11 DEF NextBlock
<1>12. ASSUME NEW r \in Run, StatementFails(r) PROVE Confirmed'
      BY <1>12 DEF StatementFails
<1>13. ASSUME NEW u \in writing, WriteCommits(u) \/ WriteFails(u)
       PROVE  Confirmed'
      BY <1>13 DEF WriteCommits, WriteFails, Moves
<1>14. ASSUME NEW m \in queue, WalletPays(m) \/ WalletRefuses(m)
       PROVE  Confirmed'
      BY <1>14, SMTT(30) DEF WalletPays, WalletRefuses, Answer, Moves
<1>15. ASSUME NEW c \in Conv, AccessTradeDecides(c) PROVE Confirmed'
  <2>1. \A d \in Conv : at[d] = "confirmed" => at'[d] = "confirmed"
    <3>1. PICK s : at' = [at EXCEPT ![c] = s] /\ at[c] # "confirmed"
          BY <1>15 DEF AccessTradeDecides
    <3> QED BY <3>1
  <2>2. UNCHANGED <<todo, current, queue, paid>>
        BY <1>15 DEF AccessTradeDecides
  <2>3. \A m \in queue \cup paid : at'[m[3][2]] = "confirmed"
        BY <2>1, Named, RowOfConv
  <2>4. ASSUME NEW r \in CheckRun
        PROVE  /\ \A x \in todo[r] :
                     x[2] = "confirmed" => at'[x[1]] = "confirmed"
               /\ \A x \in current[r] :
                     x[2] = "confirmed" => at'[x[1][2]] = "confirmed"
    <3>1. ASSUME NEW x \in todo[r], x[2] = "confirmed"
          PROVE  at'[x[1]] = "confirmed"
      <4>1. x[1] \in Conv
            BY Named
      <4>2. at[x[1]] = "confirmed"
            BY <3>1
      <4> QED BY <2>1, <4>1, <4>2
    <3>2. ASSUME NEW x \in current[r], x[2] = "confirmed"
          PROVE  at'[x[1][2]] = "confirmed"
      <4>1. x[1][2] \in Conv
            BY Named, RowOfConv
      <4>2. at[x[1][2]] = "confirmed"
            BY <3>2
      <4> QED BY <2>1, <4>1, <4>2
    <3> QED BY <3>1, <3>2
  <2>5. \A r \in CheckRun : \A x \in current[r] : x[2] # "hold"
        OBVIOUS
  <2> QED BY <2>2, <2>3, <2>4, <2>5
<1>16. CASE SchedulerCrash
      BY <1>16 DEF SchedulerCrash
<1>17. CASE UNCHANGED conversionsVars
      BY <1>17 DEF conversionsVars
<1> QED BY <1>1, <1>2, <1>3, <1>4, <1>5, <1>6, <1>7, <1>8, <1>9, <1>10, <1>11,
           <1>12, <1>13, <1>14, <1>15, <1>16, <1>17 DEF ConversionsNext

\* A run keeps to one conversion, and to one payment.
LEMMA LooksStep ==
    /\ ConversionsTypeOK /\ Steady /\ LooksInTurn
    /\ [ConversionsNext]_conversionsVars
    => LooksInTurn'
<1> SUFFICES ASSUME ConversionsTypeOK /\ Steady /\ LooksInTurn,
                    [ConversionsNext]_conversionsVars
             PROVE  LooksInTurn'
    OBVIOUS
<1> USE ConversionAssumption DEF ConversionsTypeOK, Steady, Running,
        LooksInTurn, Run, Over, rowVars, locals, paymentVars, histories,
        Continue, Stop, Begins
<1>1. ASSUME NEW h \in HoldRun, FetchOnHold(h) PROVE LooksInTurn'
      BY <1>1 DEF FetchOnHold
<1>2. ASSUME NEW h \in HoldRun, FindExisting(h) PROVE LooksInTurn'
      BY <1>2 DEF FindExisting
<1>3. ASSUME NEW h \in HoldRun, InsertCbTransPending(h) PROVE LooksInTurn'
      BY <1>3 DEF InsertCbTransPending, Moves
<1>4. ASSUME NEW h \in HoldRun, HoldEnds(h) PROVE LooksInTurn'
      BY <1>4 DEF HoldEnds
<1>5. ASSUME NEW r \in CheckRun, Count(r) PROVE LooksInTurn'
      BY <1>5 DEF Count
<1>6. ASSUME NEW r \in CheckRun, FindMany(r) PROVE LooksInTurn'
      BY <1>6 DEF FindMany
<1>7. ASSUME NEW r \in CheckRun, Ask(r) PROVE LooksInTurn'
  <2>1. PICK C : todo' = [todo EXCEPT ![r] = {<<c, at[c]>> : c \in C}]
        BY <1>7 DEF Ask
  <2>2. /\ step[r] = "ask" /\ step' = [step EXCEPT ![r] = "loop"]
        /\ current' = current /\ queue' = queue
        BY <1>7 DEF Ask
  <2>3. \A x, y \in todo'[r] : x[1] = y[1] => x = y
        BY <2>1
  <2>4. current[r] = {} /\ \A m \in queue : m[1] # r
        BY <2>2
  <2>5. \A q \in CheckRun \ {r} : todo'[q] = todo[q] /\ step'[q] = step[q]
        BY <2>1, <2>2
  <2> QED BY <2>2, <2>3, <2>4, <2>5
<1>8. ASSUME NEW r \in CheckRun, Look(r) PROVE LooksInTurn'
      BY <1>8 DEF Look
<1>9. ASSUME NEW r \in CheckRun, Pay(r) PROVE LooksInTurn'
  <2>1. PICK x \in current[r] :
           queue' = queue \cup {<<r, index[r], x[1], x[3]>>}
        BY <1>9 DEF Pay
  <2>2. PICK m : m = <<r, index[r], x[1], x[3]>>
        OBVIOUS
  <2>3. queue' = queue \cup {m} /\ m[1] = r /\ m[3] = x[1]
        BY <2>1, <2>2
  <2>4. /\ step[r] = "act" /\ step' = [step EXCEPT ![r] = "wallet"]
        /\ todo' = todo /\ current' = [current EXCEPT ![r] = {}]
        BY <1>9 DEF Pay
  <2>5. /\ \A y \in todo[r] : y[1] # m[3][2]
        /\ \A n \in queue : n[1] # r
        BY <2>3, <2>4
  <2>6. ASSUME NEW s \in CheckRun
        PROVE  /\ \A x1, y1 \in todo'[s] : x1[1] = y1[1] => x1 = y1
               /\ \A x1 \in current'[s] : \A y \in todo'[s] : y[1] # x1[1][2]
        BY <2>4
  <2>7. ASSUME NEW s \in CheckRun, NEW n \in queue', n[1] = s
        PROVE  /\ step'[s] \in {"wallet", "ended", "finished"}
               /\ \A n1 \in queue' : n1[1] = s => n1 = n
               /\ \A y \in todo'[s] : y[1] # n[3][2]
    <3>1. CASE s = r
          BY <2>3, <2>4, <2>5, <2>7, <3>1
    <3>2. CASE s # r
          BY <2>3, <2>4, <2>7, <3>2
    <3> QED BY <3>1, <3>2
  <2> QED BY <2>6, <2>7
<1>10. ASSUME NEW r \in CheckRun, WriteStatus(r) PROVE LooksInTurn'
      BY <1>10 DEF WriteStatus
<1>11. ASSUME NEW r \in CheckRun, NextBlock(r) PROVE LooksInTurn'
      BY <1>11 DEF NextBlock
<1>12. ASSUME NEW r \in Run, StatementFails(r) PROVE LooksInTurn'
      BY <1>12 DEF StatementFails
<1>13. ASSUME NEW u \in writing, WriteCommits(u) \/ WriteFails(u)
       PROVE  LooksInTurn'
      BY <1>13 DEF WriteCommits, WriteFails, Moves
<1>14. ASSUME NEW m \in queue, WalletPays(m) \/ WalletRefuses(m)
       PROVE  LooksInTurn'
      BY <1>14 DEF WalletPays, WalletRefuses, Answer, Moves
<1>15. ASSUME NEW c \in Conv, AccessTradeDecides(c) PROVE LooksInTurn'
      BY <1>15 DEF AccessTradeDecides
<1>16. CASE SchedulerCrash
      BY <1>16 DEF SchedulerCrash
<1>17. CASE UNCHANGED conversionsVars
      BY <1>17 DEF conversionsVars
<1> QED BY <1>1, <1>2, <1>3, <1>4, <1>5, <1>6, <1>7, <1>8, <1>9, <1>10, <1>11,
           <1>12, <1>13, <1>14, <1>15, <1>16, <1>17 DEF ConversionsNext

\* A run comes to pay for a row by reading it with its amount.
LEMMA MayPayStep ==
    /\ ConversionsTypeOK /\ Steady /\ LooksInTurn
    /\ [ConversionsNext]_conversionsVars
    => MayStay
<1> SUFFICES ASSUME ConversionsTypeOK /\ Steady /\ LooksInTurn,
                    [ConversionsNext]_conversionsVars
             PROVE  MayStay
    OBVIOUS
<1> USE ConversionAssumption DEF ConversionsTypeOK, Steady, Running,
        LooksInTurn, MayPay, MayStay, Run, Over, rowVars, locals, paymentVars,
        histories, Continue, Stop, Begins
<1>1. ASSUME NEW h \in HoldRun, FetchOnHold(h) PROVE MayStay
      BY <1>1 DEF FetchOnHold
<1>2. ASSUME NEW h \in HoldRun, FindExisting(h) PROVE MayStay
      BY <1>2 DEF FindExisting
<1>3. ASSUME NEW h \in HoldRun, InsertCbTransPending(h) PROVE MayStay
      BY <1>3 DEF InsertCbTransPending, Moves
<1>4. ASSUME NEW h \in HoldRun, HoldEnds(h) PROVE MayStay
      BY <1>4 DEF HoldEnds
<1>5. ASSUME NEW r \in CheckRun, Count(r) PROVE MayStay
      BY <1>5 DEF Count
<1>6. ASSUME NEW r \in CheckRun, FindMany(r) PROVE MayStay
      BY <1>6, SMTT(30) DEF FindMany, Page, Pending
<1>7. ASSUME NEW r \in CheckRun, Ask(r) PROVE MayStay
      BY <1>7 DEF Ask
<1>8. ASSUME NEW r \in CheckRun, Look(r) PROVE MayStay
      BY <1>8, SMTT(30) DEF Look
<1>9. ASSUME NEW r \in CheckRun, Pay(r) PROVE MayStay
      BY <1>9 DEF Pay
<1>10. ASSUME NEW r \in CheckRun, WriteStatus(r) PROVE MayStay
      BY <1>10 DEF WriteStatus
<1>11. ASSUME NEW r \in CheckRun, NextBlock(r) PROVE MayStay
      BY <1>11 DEF NextBlock
<1>12. ASSUME NEW r \in Run, StatementFails(r) PROVE MayStay
      BY <1>12 DEF StatementFails
<1>13. ASSUME NEW u \in writing, WriteCommits(u) \/ WriteFails(u) PROVE MayStay
      BY <1>13 DEF WriteCommits, WriteFails, Moves
<1>14. ASSUME NEW m \in queue, WalletPays(m) \/ WalletRefuses(m) PROVE MayStay
      BY <1>14 DEF WalletPays, WalletRefuses, Answer, Moves
<1>15. ASSUME NEW c \in Conv, AccessTradeDecides(c) PROVE MayStay
      BY <1>15 DEF AccessTradeDecides
<1>16. CASE SchedulerCrash
      BY <1>16 DEF SchedulerCrash
<1>17. CASE UNCHANGED conversionsVars
      BY <1>17 DEF conversionsVars
<1> QED BY <1>1, <1>2, <1>3, <1>4, <1>5, <1>6, <1>7, <1>8, <1>9, <1>10, <1>11,
           <1>12, <1>13, <1>14, <1>15, <1>16, <1>17 DEF ConversionsNext

\* What is settled or noted stays so.
LEMMA SettledStay ==
    /\ ConversionsTypeOK /\ Steady /\ RowsExist
    /\ [ConversionsNext]_conversionsVars
    => SettledStays
<1> SUFFICES ASSUME ConversionsTypeOK /\ Steady /\ RowsExist,
                    [ConversionsNext]_conversionsVars
             PROVE  SettledStays
    OBVIOUS
<1> USE ConversionAssumption DEF ConversionsTypeOK, Steady, Running, RowsExist,
        Settled, SettledStays, Run, Over, rowVars, locals, paymentVars,
        histories, Continue, Stop, Begins
<1>1. ASSUME NEW h \in HoldRun, FetchOnHold(h) PROVE SettledStays
      BY <1>1 DEF FetchOnHold
<1>2. ASSUME NEW h \in HoldRun, FindExisting(h) PROVE SettledStays
      BY <1>2 DEF FindExisting
<1>3. ASSUME NEW h \in HoldRun, InsertCbTransPending(h) PROVE SettledStays
      BY <1>3 DEF InsertCbTransPending, Moves
<1>4. ASSUME NEW h \in HoldRun, HoldEnds(h) PROVE SettledStays
      BY <1>4 DEF HoldEnds
<1>5. ASSUME NEW r \in CheckRun, Count(r) PROVE SettledStays
      BY <1>5 DEF Count
<1>6. ASSUME NEW r \in CheckRun, FindMany(r) PROVE SettledStays
      BY <1>6 DEF FindMany
<1>7. ASSUME NEW r \in CheckRun, Ask(r) PROVE SettledStays
      BY <1>7 DEF Ask
<1>8. ASSUME NEW r \in CheckRun, Look(r) PROVE SettledStays
      BY <1>8 DEF Look
<1>9. ASSUME NEW r \in CheckRun, Pay(r) PROVE SettledStays
      BY <1>9 DEF Pay
<1>10. ASSUME NEW r \in CheckRun, WriteStatus(r) PROVE SettledStays
      BY <1>10 DEF WriteStatus
<1>11. ASSUME NEW r \in CheckRun, NextBlock(r) PROVE SettledStays
      BY <1>11 DEF NextBlock
<1>12. ASSUME NEW r \in Run, StatementFails(r) PROVE SettledStays
      BY <1>12 DEF StatementFails
<1>13. ASSUME NEW u \in writing, WriteCommits(u) \/ WriteFails(u)
       PROVE  SettledStays
      BY <1>13 DEF WriteCommits, WriteFails, Moves
<1>14. ASSUME NEW m \in queue, WalletPays(m) \/ WalletRefuses(m)
       PROVE  SettledStays
      BY <1>14 DEF WalletPays, WalletRefuses, Answer, Moves
<1>15. ASSUME NEW c \in Conv, AccessTradeDecides(c) PROVE SettledStays
      BY <1>15 DEF AccessTradeDecides
<1>16. CASE SchedulerCrash
      BY <1>16 DEF SchedulerCrash
<1>17. CASE UNCHANGED conversionsVars
      BY <1>17 DEF conversionsVars
<1> QED BY <1>1, <1>2, <1>3, <1>4, <1>5, <1>6, <1>7, <1>8, <1>9, <1>10, <1>11,
           <1>12, <1>13, <1>14, <1>15, <1>16, <1>17 DEF ConversionsNext

\* Of two payments one comes first, and the other run has read the row before.
LEMMA PaidStep ==
    PaidInv /\ [ConversionsNext]_conversionsVars
        => PaidFor' /\ OverlapsOnce'
<1> SUFFICES ASSUME PaidInv, [ConversionsNext]_conversionsVars
             PROVE  PaidFor' /\ OverlapsOnce'
    OBVIOUS
<1>1. MayStay
      BY MayPayStep DEF PaidInv
<1>2. overlap \subseteq overlap' /\ \A w \in Row : Settled(w) => Settled(w)'
      BY SettledStay DEF SettledStays, PaidInv
<1>3. \A p \in paid : p[3] \in Row /\ p[1] \in CheckRun
      BY DEF PaidInv, ConversionsTypeOK
<1>4. \A p \in paid : /\ Settled(p[3])
                     /\ \A r \in CheckRun : MayPay(r, p[3])'
                           => r # p[1] /\ {p[1], r} \in overlap
  <2>1. \A p \in paid : Settled(p[3])
        BY DEF PaidInv, PaidFor, Settled
  <2>2. \A w \in Row : Settled(w) => ~ (w \in Pending /\ amount[w] = "full")
        BY DEF Settled, Pending
  <2> QED BY <1>1, <1>3, <2>1, <2>2 DEF PaidInv, PaidFor, MayStay
<1>5. CASE paid' = paid
      BY <1>2, <1>3, <1>4, <1>5 DEF PaidInv, PaidFor, OverlapsOnce, Settled
<1>6. ASSUME NEW m \in queue, WalletPays(m), paid' = paid \cup {m},
             status' = [status EXCEPT ![m[3]] = "SUCCESS"]
      PROVE  PaidFor' /\ OverlapsOnce'
  <2>1. m[1] \in CheckRun /\ m[3] \in Row /\ m[1] \in Run
        BY DEF PaidInv, ConversionsTypeOK, Run
  <2>2. Settled(m[3])'
        BY <1>6, <2>1 DEF Settled, PaidInv, ConversionsTypeOK
  <2>3. ~ MayPay(m[1], m[3])'
    <3>1. /\ step[m[1]] \in {"wallet", "ended", "finished"}
          /\ \A n \in queue' : n[1] # m[1]
          /\ \A y \in todo[m[1]] : y[1] # m[3][2]
          BY <1>6, <2>1 DEF PaidInv, LooksInTurn, WalletPays
    <3>2. /\ \A y \in todo'[m[1]] : y[1] # m[3][2]
          /\ current'[m[1]] = {} /\ step'[m[1]] # "ask"
          BY <1>6, <2>1, <3>1
          DEF WalletPays, Answer, Continue, Stop, locals, Over, PaidInv,
              Steady, ConversionsTypeOK
    <3> QED BY <3>1, <3>2 DEF MayPay
  <2>4. ASSUME NEW r \in CheckRun, MayPay(r, m[3])'
        PROVE  r # m[1] /\ {m[1], r} \in overlap'
    <3>1. r # m[1]
          BY <2>3, <2>4
    <3>2. Busy(m[1]) /\ r \in Run
          BY DEF Busy, Run
    <3>3. Busy(r)'
          BY <2>4, <3>2, SteadyStep
          DEF MayPay, Busy, Running, Over, PaidInv, Steady
    <3>4. Busy(r)
          BY <1>6, <2>1, <3>1, <3>2, <3>3
          DEF Busy, Running, Over, WalletPays, Answer, Continue, Stop, locals,
              PaidInv, ConversionsTypeOK
    <3> QED BY <1>2, <2>1, <3>1, <3>2, <3>4 DEF PaidInv, Noted
  <2>5. PaidFor'
    <3> SUFFICES ASSUME NEW p \in paid'
                 PROVE  /\ Settled(p[3])'
                        /\ \A r \in CheckRun : MayPay(r, p[3])'
                              => r # p[1] /\ {p[1], r} \in overlap'
        BY DEF PaidFor, Settled
    <3>1. CASE p = m
          BY <2>2, <2>4, <3>1
    <3>2. CASE p \in paid
          BY <1>2, <1>3, <1>4, <3>2
    <3> QED BY <1>6, <3>1, <3>2
  <2>6. \A p \in paid : p[3] = m[3] /\ m[4] = "full"
                       => {p[1], m[1]} \in overlap'
        BY <1>2, <2>1 DEF PaidInv, PaidFor, MayPay
  <2>7. \A p \in paid : {p[1], m[1]} = {m[1], p[1]}
        OBVIOUS
  <2>8. OverlapsOnce'
        BY <1>2, <1>6, <2>6, <2>7 DEF PaidInv, OverlapsOnce
  <2> QED BY <2>5, <2>8
<1>7. \/ paid' = paid
      \/ \E m \in queue : /\ WalletPays(m) /\ paid' = paid \cup {m}
                          /\ status' = [status EXCEPT ![m[3]] = "SUCCESS"]
      BY DEF ConversionsNext, conversionsVars, paymentVars, FetchOnHold,
         FindExisting, InsertCbTransPending, HoldEnds, Count, FindMany, Ask,
         Look, Pay, WriteStatus, NextBlock, StatementFails, WriteCommits,
         WriteFails, WalletPays, WalletRefuses, AccessTradeDecides,
         SchedulerCrash
<1> QED BY <1>5, <1>6, <1>7

\* Disjoint sets add up.
LEMMA DisjointAdds ==
    ASSUME NEW S, IsFiniteSet(S), NEW T, IsFiniteSet(T), S \cap T = {}
    PROVE  Cardinality(S \cup T) = Cardinality(S) + Cardinality(T)
<1>1. Cardinality(S \cap T) = 0
      BY FS_EmptySet
<1>2. Cardinality(S \cup T)
         = Cardinality(S) + Cardinality(T) - Cardinality(S \cap T)
      BY FS_Union
<1>3. Cardinality(S) \in Nat /\ Cardinality(T) \in Nat
      BY FS_CardinalityType
<1> QED BY <1>1, <1>2, <1>3

\* A row that is alone and comes after a page comes after the next one, or is
\* on it: rows of one conversion may change places, and it has no such row.
LEMMA PageComes ==
    ASSUME ConversionsTypeOK, NEW k \in Nat, NEW B \in Page(Pending, k),
           NEW w \in Pending \ B, Alone(w),
           Cardinality(Before(Pending, w)) >= k
    PROVE  Cardinality(Before(Pending, w)) >= k + MaxItems
<1>1. PICK before \in SUBSET (Pending \ B) :
          LET after == Pending \ (B \cup before) IN
          /\ Cardinality(before) = k
          /\ \A v \in before, x \in B : v[2] <= x[2]
          /\ \A v \in B \cup before, x \in after : v[2] <= x[2]
          /\ after # {} => Cardinality(B) = MaxItems
      BY DEF Page
<1>2. PICK after : after = Pending \ (B \cup before)
      OBVIOUS
<1>3. /\ Cardinality(before) = k
      /\ \A v \in before, x \in B : v[2] <= x[2]
      /\ \A v \in B \cup before, x \in after : v[2] <= x[2]
      /\ after # {} => Cardinality(B) = MaxItems
      BY <1>1, <1>2
<1>4. B \subseteq Pending /\ Before(Pending, w) \subseteq Pending
      BY DEF Page, Before
<1>5. /\ \A v \in Pending : v \in Row /\ v[2] \in Nat /\ status[v] # "none"
      /\ Pending \subseteq Row
      BY ConversionAssumption DEF Pending, Row
<1>6. /\ IsFiniteSet(B) /\ IsFiniteSet(before)
      /\ IsFiniteSet(Before(Pending, w))
      /\ IsFiniteSet(B \cup before)
      BY <1>4, RowsFinite, FS_Subset
<1>7. w \notin before
  <2> SUFFICES ASSUME w \in before PROVE FALSE
      OBVIOUS
  <2>1. \A v \in Before(Pending, w) : v \in before \ {w}
    <3> SUFFICES ASSUME NEW v \in Before(Pending, w) PROVE v \in before \ {w}
        OBVIOUS
    <3>1. v \in Pending /\ v[2] < w[2] /\ v[2] \in Nat /\ w[2] \in Nat
          BY <1>5 DEF Before
    <3>2. v \notin B /\ v \notin after
          BY <1>3, <3>1
    <3> QED BY <1>2, <3>1, <3>2
  <2>2. Cardinality(before \ {w}) = k - 1 /\ IsFiniteSet(before \ {w})
        BY <1>3, <1>6, FS_RemoveElement
  <2>3. Cardinality(Before(Pending, w)) <= k - 1
        BY <2>1, <2>2, FS_Subset
  <2>4. Cardinality(Before(Pending, w)) \in Nat
        BY <1>6, FS_CardinalityType
  <2> QED BY <2>3, <2>4
<1>8. w \in after
      BY <1>2, <1>7
<1>9. \A v \in B \cup before : v \in Before(Pending, w)
  <2> SUFFICES ASSUME NEW v \in B \cup before PROVE v \in Before(Pending, w)
      OBVIOUS
  <2>1. v \in Pending /\ v # w /\ v[2] \in Nat /\ w[2] \in Nat /\ v \in Row
        BY <1>4, <1>5, <1>7
  <2>2. v[2] <= w[2]
        BY <1>3, <1>8
  <2>3. v[2] # w[2]
        BY <1>5, <2>1 DEF Alone
  <2> QED BY <2>1, <2>2, <2>3 DEF Before
<1>10. Cardinality(B \cup before) = MaxItems + k
  <2>1. Cardinality(B) = MaxItems /\ B \cap before = {}
        BY <1>3, <1>8
  <2> QED BY <1>3, <1>6, <2>1, DisjointAdds
<1>11. Cardinality(B \cup before) <= Cardinality(Before(Pending, w))
       BY <1>6, <1>9, FS_Subset
<1> QED BY <1>10, <1>11, ConversionAssumption

\* Rows that all come after the first n are no more than what is left then.
LEMMA FewLeft ==
    ASSUME ConversionsTypeOK, NEW U \in SUBSET Pending, U # {}, NEW n \in Nat,
           \A w \in U : Cardinality(Before(Pending, w)) >= n
    PROVE  Cardinality(U) + n <= Cardinality(Pending)
<1>1. \A v \in Pending : v[2] \in Nat
      BY ConversionAssumption DEF Pending, Row
<1>2. PICK F : F = {Before(Pending, w) : w \in U}
      OBVIOUS
<1>3. F \in SUBSET SUBSET Pending /\ F # {}
      BY <1>2 DEF Before
<1>4. PICK T \in F : \A V \in SUBSET T : V # T => V \notin F
      BY <1>3, RowsFinite, Minimal
<1>5. PICK w \in U : T = Before(Pending, w)
      BY <1>2
<1>6. U \cap T = {}
  <2> SUFFICES ASSUME NEW v \in U, v \in Before(Pending, w) PROVE FALSE
      BY <1>5
  <2>1. v[2] < w[2] /\ v[2] \in Nat /\ w[2] \in Nat
        BY <1>1 DEF Before
  <2>2. /\ Before(Pending, v) \subseteq Before(Pending, w)
        /\ v \notin Before(Pending, v)
        BY <1>1, <2>1 DEF Before
  <2> QED BY <1>2, <1>4, <1>5, <2>2
<1>7. IsFiniteSet(U) /\ IsFiniteSet(T) /\ U \cup T \subseteq Pending
      BY <1>3, RowsFinite, FS_Subset
<1>8. Cardinality(U \cup T) = Cardinality(U) + Cardinality(T)
      BY <1>6, <1>7, DisjointAdds
<1>9. Cardinality(U \cup T) <= Cardinality(Pending)
      BY <1>7, RowsFinite, FS_Subset
<1>10. /\ Cardinality(U) \in Nat /\ Cardinality(T) \in Nat
       /\ Cardinality(Pending) \in Nat
      BY <1>7, RowsFinite, FS_CardinalityType
<1>11. Cardinality(T) >= n
      BY <1>5
<1> QED BY <1>8, <1>9, <1>10, <1>11

\* A row that is there stays there.
LEMMA NoneBefore ==
    /\ ConversionsTypeOK /\ Steady /\ RowsExist
    /\ [ConversionsNext]_conversionsVars
    => RowsStay
<1> SUFFICES ASSUME ConversionsTypeOK /\ Steady /\ RowsExist,
                    [ConversionsNext]_conversionsVars
             PROVE  RowsStay
    OBVIOUS
<1> USE ConversionAssumption DEF ConversionsTypeOK, Steady, Running, RowsExist,
        RowsStay, Run, Over, rowVars, locals, paymentVars, histories, Continue,
        Stop, Begins
<1>1. ASSUME NEW h \in HoldRun, FetchOnHold(h) PROVE RowsStay
      BY <1>1 DEF FetchOnHold
<1>2. ASSUME NEW h \in HoldRun, FindExisting(h) PROVE RowsStay
      BY <1>2 DEF FindExisting
<1>3. ASSUME NEW h \in HoldRun, InsertCbTransPending(h) PROVE RowsStay
      BY <1>3 DEF InsertCbTransPending, Moves
<1>4. ASSUME NEW h \in HoldRun, HoldEnds(h) PROVE RowsStay
      BY <1>4 DEF HoldEnds
<1>5. ASSUME NEW r \in CheckRun, Count(r) PROVE RowsStay
      BY <1>5 DEF Count
<1>6. ASSUME NEW r \in CheckRun, FindMany(r) PROVE RowsStay
      BY <1>6 DEF FindMany
<1>7. ASSUME NEW r \in CheckRun, Ask(r) PROVE RowsStay
      BY <1>7 DEF Ask
<1>8. ASSUME NEW r \in CheckRun, Look(r) PROVE RowsStay
      BY <1>8 DEF Look
<1>9. ASSUME NEW r \in CheckRun, Pay(r) PROVE RowsStay
      BY <1>9 DEF Pay
<1>10. ASSUME NEW r \in CheckRun, WriteStatus(r) PROVE RowsStay
      BY <1>10 DEF WriteStatus
<1>11. ASSUME NEW r \in CheckRun, NextBlock(r) PROVE RowsStay
      BY <1>11 DEF NextBlock
<1>12. ASSUME NEW r \in Run, StatementFails(r) PROVE RowsStay
      BY <1>12 DEF StatementFails
<1>13. ASSUME NEW u \in writing, WriteCommits(u) \/ WriteFails(u)
       PROVE  RowsStay
      BY <1>13 DEF WriteCommits, WriteFails, Moves
<1>14. ASSUME NEW m \in queue, WalletPays(m) \/ WalletRefuses(m) PROVE RowsStay
      BY <1>14 DEF WalletPays, WalletRefuses, Answer, Moves
<1>15. ASSUME NEW c \in Conv, AccessTradeDecides(c) PROVE RowsStay
      BY <1>15 DEF AccessTradeDecides
<1>16. CASE SchedulerCrash
      BY <1>16 DEF SchedulerCrash
<1>17. CASE UNCHANGED conversionsVars
      BY <1>17 DEF conversionsVars
<1> QED BY <1>1, <1>2, <1>3, <1>4, <1>5, <1>6, <1>7, <1>8, <1>9, <1>10, <1>11,
           <1>12, <1>13, <1>14, <1>15, <1>16, <1>17 DEF ConversionsNext

\* A row changes its status: no other row moves.
LEMMA RowMoves ==
    ASSUME NEW v \in Row, NEW z, status \in [Row -> Status],
           status' = [status EXCEPT ![v] = z]
    PROVE  Pending' = Pending \/ OneMoves
<1>1. \A w \in Row \ {v} : w \in Pending' <=> w \in Pending
      BY DEF Pending
<1>2. Pending \subseteq Row /\ Pending' \subseteq Row
      BY DEF Pending
<1>3. CASE v \in Pending
  <2>1. v \in Pending' => Pending' = Pending
        BY <1>1, <1>2, <1>3
  <2>2. v \notin Pending' => Pending' = Pending \ {v}
        BY <1>1, <1>2, <1>3
  <2> QED BY <1>3, <2>1, <2>2 DEF OneMoves
<1>4. CASE v \notin Pending
  <2>1. v \notin Pending' => Pending' = Pending
        BY <1>1, <1>2, <1>4
  <2>2. v \in Pending' => Pending' = Pending \cup {v}
        BY <1>1, <1>2, <1>4
  <2> QED BY <1>4, <2>1, <2>2 DEF OneMoves
<1> QED BY <1>3, <1>4

\* What Moves does to a check that keeps its place.
LEMMA MovesKeep ==
    ASSUME ConversionsTypeOK, Moves, Pending' = Pending \/ OneMoves,
           NEW s \in CheckRun, KeepsPlace(s) \/ ~ Running(s)'
    PROVE  CountKept(s)
<1> SUFFICES ASSUME Running(s)', unread'[s] # {} PROVE CountKept(s)
    BY DEF CountKept
<1>1. Running(s) /\ step'[s] # "ended" /\ KeepsPlace(s)
      BY DEF KeepsPlace, Running, Over
<1>2. unread'[s] = unread[s] \cap Pending'
      BY <1>1 DEF Moves
<1>3. moved[s] \in Nat
      BY DEF ConversionsTypeOK
<1>4. moved'[s] = IF Pending' # Pending THEN moved[s] + 1 ELSE moved[s]
      BY <1>1 DEF Moves
<1>5. CASE Pending' = Pending
      BY <1>1, <1>2, <1>3, <1>4, <1>5 DEF CountKept, CountStays
<1>6. CASE Pending' # Pending
      BY <1>1, <1>2, <1>3, <1>4, <1>6 DEF CountKept, CountMoves
<1> QED BY <1>5, <1>6

\* A step that changes neither rows nor histories.
LEMMA QuietKeeps ==
    ASSUME ConversionsTypeOK, UNCHANGED <<status, unread, moved>>,
           NEW s \in CheckRun, KeepsPlace(s) \/ ~ Running(s)'
    PROVE  CountKept(s)
<1>1. Pending' = Pending /\ moved[s] \in Nat
      BY DEF Pending, ConversionsTypeOK
<1> QED BY <1>1 DEF CountKept, CountStays

\* Only Count and FindMany change what a check has counted, and rows that move.
LEMMA CountStep ==
    ConversionsTypeOK /\ Steady /\ [ConversionsNext]_conversionsVars
        => CountSteps
<1> SUFFICES ASSUME ConversionsTypeOK /\ Steady,
                    [ConversionsNext]_conversionsVars
             PROVE  CountSteps
    OBVIOUS
<1> DEFINE Place == \A s \in CheckRun : KeepsPlace(s) \/ ~ Running(s)'
           Quiet == UNCHANGED <<status, unread, moved>>
           Moved == Moves /\ (Pending' = Pending \/ OneMoves)
<1>a. Place /\ (Quiet \/ Moved) => CountSteps
      BY MovesKeep, QuietKeeps DEF CountSteps
<1>b. status' = status => Pending' = Pending
      BY DEF Pending
<1>c. status \in [Row -> Status] /\ \A m \in queue : m[3] \in Row
      BY Named DEF ConversionsTypeOK
<1> HIDE DEF Quiet, Moved
<1> USE ConversionAssumption DEF ConversionsTypeOK, Steady, Running,
        PagesRead, Run, Over, rowVars, locals, paymentVars, histories,
        Continue, Stop, Begins
<1>1. ASSUME NEW h \in HoldRun, FetchOnHold(h) PROVE CountSteps
  <2>1. Place
        BY <1>1 DEF FetchOnHold, KeepsPlace
  <2>2. Quiet
        BY <1>1 DEF FetchOnHold, Quiet
  <2> QED BY <1>a, <2>1, <2>2
<1>2. ASSUME NEW h \in HoldRun, FindExisting(h) PROVE CountSteps
  <2>1. Place
        BY <1>2 DEF FindExisting, KeepsPlace
  <2>2. Quiet
        BY <1>2 DEF FindExisting, Quiet
  <2> QED BY <1>a, <2>1, <2>2
<1>3. ASSUME NEW h \in HoldRun, InsertCbTransPending(h) PROVE CountSteps
  <2>1. Place
        BY <1>3 DEF InsertCbTransPending, KeepsPlace
  <2>2. PICK x \in current[h] :
           status' = [status EXCEPT ![x[1]] = "PROCESSING"]
        BY <1>3 DEF InsertCbTransPending
  <2>3. PICK v : v = x[1]
        OBVIOUS
  <2>4. v \in Row /\ status' = [status EXCEPT ![v] = "PROCESSING"]
        BY <2>2, <2>3
  <2>5. Pending' = Pending \/ OneMoves
        BY <1>c, <2>4, RowMoves
  <2>6. Moved
        BY <1>3, <2>5 DEF InsertCbTransPending, Moved
  <2> QED BY <1>a, <2>1, <2>6
<1>4. ASSUME NEW h \in HoldRun, HoldEnds(h) PROVE CountSteps
  <2>1. Place
        BY <1>4 DEF HoldEnds, KeepsPlace
  <2>2. Quiet
        BY <1>4 DEF HoldEnds, Quiet
  <2> QED BY <1>a, <2>1, <2>2
<1>5. ASSUME NEW r \in CheckRun, Count(r) PROVE CountSteps
  <2>1. ASSUME NEW s \in CheckRun, s # r PROVE CountStays(s)
        BY <1>5, <2>1 DEF Count, Pending, CountStays, KeepsPlace
  <2>2. ASSUME NEW s \in CheckRun, s = r PROVE Count(s)
        BY <1>5, <2>2
  <2> QED BY <2>1, <2>2 DEF CountSteps, CountKept
<1>6. ASSUME NEW r \in CheckRun, FindMany(r) PROVE CountSteps
  <2>1. ASSUME NEW s \in CheckRun, s # r PROVE CountStays(s)
    <3>0. UNCHANGED <<status, moved>>
          BY <1>6 DEF FindMany
    <3>a. unread'[s] = unread[s]
      <4>1. PICK B : unread' = unread \/ unread' = [unread EXCEPT ![r] = @ \ B]
            BY <1>6 DEF FindMany
      <4> QED BY <2>1, <4>1
    <3>1. /\ Pending' = Pending /\ moved' = moved
          /\ unread'[s] = unread[s]
          BY <3>0, <3>a DEF Pending
    <3>2. s \in Run /\ r \in Run /\ moved[s] \in Nat
          OBVIOUS
    <3>3. CASE Stop({r}, "finished")
          BY <2>1, <3>1, <3>2, <3>3 DEF CountStays, KeepsPlace
    <3>4. CASE Continue(r, "ask") /\ UNCHANGED <<index, blocks>>
          BY <2>1, <3>1, <3>2, <3>4 DEF CountStays, KeepsPlace
    <3> QED BY <1>6, <3>3, <3>4 DEF FindMany
  <2>2. ASSUME NEW s \in CheckRun, s = r PROVE FindMany(s)
        BY <1>6, <2>2
  <2> QED BY <2>1, <2>2 DEF CountSteps, CountKept
<1>7. ASSUME NEW r \in CheckRun, Ask(r) PROVE CountSteps
  <2>1. Place
        BY <1>7 DEF Ask, KeepsPlace
  <2>2. Quiet
        BY <1>7 DEF Ask, Quiet
  <2> QED BY <1>a, <2>1, <2>2
<1>8. ASSUME NEW r \in CheckRun, Look(r) PROVE CountSteps
  <2>1. Place
        BY <1>8 DEF Look, KeepsPlace
  <2>2. Moved
        BY <1>8, <1>b DEF Look, Moved
  <2> QED BY <1>a, <2>1, <2>2
<1>9. ASSUME NEW r \in CheckRun, Pay(r) PROVE CountSteps
  <2>1. Place
        BY <1>9 DEF Pay, KeepsPlace
  <2>2. Quiet
        BY <1>9 DEF Pay, Quiet
  <2> QED BY <1>a, <2>1, <2>2
<1>10. ASSUME NEW r \in CheckRun, WriteStatus(r) PROVE CountSteps
  <2>1. Place
        BY <1>10 DEF WriteStatus, KeepsPlace
  <2>2. Quiet
        BY <1>10 DEF WriteStatus, Quiet
  <2> QED BY <1>a, <2>1, <2>2
<1>11. ASSUME NEW r \in CheckRun, NextBlock(r) PROVE CountSteps
  <2>1. Place
        BY <1>11 DEF NextBlock, KeepsPlace
  <2>2. Quiet
        BY <1>11 DEF NextBlock, Quiet
  <2> QED BY <1>a, <2>1, <2>2
<1>12. ASSUME NEW r \in Run, StatementFails(r) PROVE CountSteps
  <2>1. Place
        BY <1>12 DEF StatementFails, KeepsPlace
  <2>2. Moved
        BY <1>12, <1>b DEF StatementFails, Moved
  <2> QED BY <1>a, <2>1, <2>2
<1>13. ASSUME NEW u \in writing, WriteCommits(u) PROVE CountSteps
  <2>1. Place
        BY <1>13 DEF WriteCommits, KeepsPlace
  <2>2. PICK v, z : v = u[2] /\ z = u[3]
        OBVIOUS
  <2>3. v \in Row /\ status' = [status EXCEPT ![v] = z]
        BY <1>13, <2>2 DEF WriteCommits
  <2>4. Pending' = Pending \/ OneMoves
        BY <1>c, <2>3, RowMoves
  <2>5. Moved
        BY <1>13, <2>4 DEF WriteCommits, Moved
  <2> QED BY <1>a, <2>1, <2>5
<1>14. ASSUME NEW u \in writing, WriteFails(u) PROVE CountSteps
  <2>1. Place
        BY <1>14 DEF WriteFails, KeepsPlace
  <2>2. Quiet
        BY <1>14 DEF WriteFails, Quiet
  <2> QED BY <1>a, <2>1, <2>2
<1>15. ASSUME NEW m \in queue, WalletPays(m) PROVE CountSteps
  <2>1. Place
        BY <1>15 DEF WalletPays, Answer, KeepsPlace
  <2>2. PICK v : v = m[3]
        OBVIOUS
  <2>3. \/ v \in Row /\ status' = [status EXCEPT ![v] = "SUCCESS"]
        \/ status' = status
        BY <1>15, <1>c, <2>2 DEF WalletPays
  <2>4. Pending' = Pending \/ OneMoves
        BY <1>b, <1>c, <2>3, RowMoves
  <2>5. Moved
        BY <1>15, <2>4 DEF WalletPays, Moved
  <2> QED BY <1>a, <2>1, <2>5
<1>16. ASSUME NEW m \in queue, WalletRefuses(m) PROVE CountSteps
  <2>1. Place
        BY <1>16 DEF WalletRefuses, Answer, KeepsPlace
  <2>2. Moved
        BY <1>16, <1>b DEF WalletRefuses, Moved
  <2> QED BY <1>a, <2>1, <2>2
<1>17. ASSUME NEW c \in Conv, AccessTradeDecides(c) PROVE CountSteps
  <2>1. Place
        BY <1>17 DEF AccessTradeDecides, KeepsPlace
  <2>2. Quiet
        BY <1>17 DEF AccessTradeDecides, Quiet
  <2> QED BY <1>a, <2>1, <2>2
<1>18. CASE SchedulerCrash
  <2>1. Place
        BY <1>18 DEF SchedulerCrash, KeepsPlace
  <2>2. Moved
        BY <1>18, <1>b DEF SchedulerCrash, Moved
  <2> QED BY <1>a, <2>1, <2>2
<1>19. CASE UNCHANGED conversionsVars
  <2>1. Place
        BY <1>19 DEF conversionsVars, KeepsPlace
  <2>2. Quiet
        BY <1>19 DEF conversionsVars, Quiet
  <2> QED BY <1>a, <2>1, <2>2
<1> QED BY <1>1, <1>2, <1>3, <1>4, <1>5, <1>6, <1>7, <1>8, <1>9, <1>10, <1>11,
           <1>12, <1>13, <1>14, <1>15, <1>16, <1>17, <1>18, <1>19
        DEF ConversionsNext

\* Rows of different conversions: when a row goes, one of them at most comes
\* up into the first n.
LEMMA OneComesUp ==
    ASSUME NEW S \in SUBSET Row, NEW v, NEW U \in SUBSET (S \ {v}),
           \A u, w \in U : u[2] = w[2] => u = w, NEW n \in Nat
    PROVE  Cardinality(Within(U, S \ {v}, n))
              <= Cardinality(Within(U, S, n)) + 1
<1>1. PICK A, B : A = Within(U, S, n) /\ B = Within(U, S \ {v}, n)
      OBVIOUS
<1>2. A \in SUBSET Row /\ B \in SUBSET Row /\ S \in SUBSET Row
      BY <1>1 DEF Within
<1>3. /\ IsFiniteSet(A) /\ IsFiniteSet(B) /\ IsFiniteSet(S)
      /\ Cardinality(A) \in Nat /\ Cardinality(B) \in Nat
      BY <1>2, RowsFinite, FS_Subset, FS_CardinalityType
<1>4. \A w \in Row : w[2] \in Nat
      BY RowOfConv, ConversionAssumption
<1>5. ASSUME NEW w \in B \ A PROVE Cardinality(Before(S, w)) = n
  <2>1. PICK X, Y : X = Before(S, w) /\ Y = Before(S \ {v}, w)
        OBVIOUS
  <2>2. X \in SUBSET S /\ Y = X \ {v}
        BY <2>1 DEF Before
  <2>3. /\ IsFiniteSet(X) /\ IsFiniteSet(Y)
        /\ Cardinality(X) \in Nat /\ Cardinality(Y) \in Nat
        BY <1>3, <2>2, FS_Subset, FS_CardinalityType
  <2>4. Cardinality(X) <= Cardinality(Y) + 1
    <3>1. CASE v \in X
      <4>1. Cardinality(X \ {v}) = Cardinality(X) - 1
            BY <2>3, <3>1, FS_RemoveElement
      <4> QED BY <2>2, <2>3, <4>1
    <3>2. CASE v \notin X
      <4>1. X = Y
            BY <2>2, <3>2
      <4> QED BY <2>3, <4>1
    <3> QED BY <3>1, <3>2
  <2>5. Cardinality(Y) < n /\ ~ (Cardinality(X) < n)
        BY <1>1, <2>1 DEF Within
  <2> QED BY <2>1, <2>3, <2>4, <2>5
<1>6. ASSUME NEW u \in B \ A, NEW w \in B \ A, u[2] < w[2] PROVE FALSE
  <2>1. PICK X, Y : X = Before(S, u) /\ Y = Before(S, w)
        OBVIOUS
  <2>2. u \in S /\ w \in S /\ u \in Row /\ w \in Row
        BY <1>1 DEF Within
  <2>3. /\ X \in SUBSET S /\ Y \in SUBSET S
        /\ X \cup {u} \subseteq Y /\ u \notin X
        BY <1>2, <1>4, <1>6, <2>1, <2>2 DEF Before
  <2>4. IsFiniteSet(X) /\ IsFiniteSet(Y)
        BY <1>3, <2>3, FS_Subset
  <2>5. Cardinality(X \cup {u}) = Cardinality(X) + 1
        BY <2>3, <2>4, FS_AddElement
  <2>6. Cardinality(X \cup {u}) <= Cardinality(Y)
        BY <2>3, <2>4, FS_Subset
  <2>7. Cardinality(X) = n /\ Cardinality(Y) = n
        BY <1>5, <2>1
  <2> QED BY <2>5, <2>6, <2>7
<1>7. CASE B \subseteq A
  <2>1. Cardinality(B) <= Cardinality(A)
        BY <1>3, <1>7, FS_Subset
  <2> QED BY <1>1, <1>3, <2>1
<1>8. ASSUME NEW w \in B \ A PROVE Cardinality(B) <= Cardinality(A) + 1
  <2>1. \A u \in B \ A : u = w
    <3> SUFFICES ASSUME NEW u \in B \ A, u # w PROVE FALSE
        OBVIOUS
    <3>1. u \in U /\ w \in U /\ u \in Row /\ w \in Row
          BY <1>1 DEF Within
    <3>2. u[2] # w[2] /\ u[2] \in Nat /\ w[2] \in Nat
          BY <1>4, <3>1
    <3> QED BY <1>6, <3>2
  <2>2. B \subseteq A \cup {w}
        BY <2>1
  <2>3. IsFiniteSet(A \cup {w}) /\ Cardinality(A \cup {w}) = Cardinality(A) + 1
        BY <1>3, <1>8, FS_AddElement
  <2>4. Cardinality(B) <= Cardinality(A \cup {w})
        BY <2>2, <2>3, FS_Subset
  <2> QED BY <2>3, <2>4
<1> QED BY <1>1, <1>7, <1>8

\* With more rows, or more before them, no more come up.
LEMMA NoneComesUp ==
    ASSUME NEW S \in SUBSET Row, NEW T \in SUBSET Row, S \subseteq T,
           NEW U \in SUBSET Row, NEW V \in SUBSET U, NEW n \in Nat
    PROVE  Cardinality(Within(V, T, n)) <= Cardinality(Within(U, S, n))
<1>1. PICK A, B : A = Within(U, S, n) /\ B = Within(V, T, n)
      OBVIOUS
<1>2. A \in SUBSET Row /\ IsFiniteSet(A) /\ IsFiniteSet(T)
      BY <1>1, RowsFinite, FS_Subset DEF Within
<1>3. ASSUME NEW w \in B PROVE w \in A
  <2>1. PICK X, Y : X = Before(S, w) /\ Y = Before(T, w)
        OBVIOUS
  <2>2. X \subseteq Y /\ Y \subseteq T
        BY <2>1 DEF Before
  <2>3. IsFiniteSet(Y) /\ IsFiniteSet(X)
        BY <1>2, <2>2, FS_Subset
  <2>4. /\ Cardinality(X) <= Cardinality(Y)
        /\ Cardinality(X) \in Nat /\ Cardinality(Y) \in Nat
        BY <2>2, <2>3, FS_Subset, FS_CardinalityType
  <2>5. w \in U /\ Cardinality(Y) < n
        BY <1>1, <2>1 DEF Within
  <2>6. Cardinality(X) < n
        BY <2>4, <2>5
  <2> QED BY <1>1, <2>1, <2>5, <2>6 DEF Within
<1>4. Cardinality(B) <= Cardinality(A)
      BY <1>2, <1>3, FS_Subset
<1> QED BY <1>1, <1>4

\* What came up into the pages that were read is counted.
LEMMA CountedStep ==
    ASSUME ConversionsTypeOK, Steady, RowsExist, Counted,
           [ConversionsNext]_conversionsVars
    PROVE  Counted'
<1> SUFFICES ASSUME NEW s \in CheckRun, Running(s)', unread'[s] # {}
             PROVE  CountedBy(s)'
    BY DEF Counted, CountedBy
<1>1. ConversionsTypeOK' /\ Steady'
      BY ConversionsTypeStep, SteadyStep
<1>2. /\ unread[s] \subseteq Row /\ unread'[s] \subseteq Row
      /\ moved[s] \in Nat /\ moved'[s] \in Nat /\ index[s] \in Nat
      /\ blocks[s] \in Nat /\ blocks'[s] \in Nat /\ index'[s] \in Nat
      BY <1>1 DEF ConversionsTypeOK, Run
<1>3. \A w \in Row : Alone(w)' => Alone(w)
      BY NoneBefore DEF RowsStay, Alone
<1>4. unread'[s] \subseteq unread[s] => Missed(s)' \subseteq Missed(s)
      BY <1>2, <1>3 DEF Missed
<1>5. PICK U, V : U = Missed(s) /\ V = Missed(s)'
      OBVIOUS
<1>6. U \subseteq unread[s] /\ V \subseteq unread'[s]
      BY <1>5 DEF Missed
<1>7. /\ IsFiniteSet(Pending) /\ Pending \subseteq Row
      /\ IsFiniteSet(Pending') /\ Pending' \subseteq Row
      /\ Cardinality(Pending) \in Nat /\ Cardinality(Pending') \in Nat
  <2>1. Pending \subseteq Row /\ Pending' \subseteq Row
        BY DEF Pending
  <2> QED BY <2>1, RowsFinite, FS_Subset, FS_CardinalityType
<1>8. PICK n, k : n = PagesRead(s) * MaxItems /\ k = PagesRead(s)' * MaxItems
      OBVIOUS
<1>9. n \in Nat /\ k \in Nat
      BY <1>2, <1>8, ConversionAssumption DEF PagesRead
<1>10. PICK A, B : A = Within(U, Pending, n) /\ B = Within(V, Pending', k)
       OBVIOUS
<1>11. CameUp(s) = A /\ CameUp(s)' = B
       BY <1>5, <1>8, <1>10 DEF CameUp, Within, Before
<1>12. Cardinality(A) \in Nat /\ Cardinality(B) \in Nat
  <2>1. A \subseteq Row /\ B \subseteq Row
        BY <1>2, <1>6, <1>10 DEF Within
  <2> QED BY <2>1, RowsFinite, FS_Subset, FS_CardinalityType
<1>13. PICK m, d : m = blocks[s] * MaxItems /\ d = blocks'[s] * MaxItems
       OBVIOUS
<1>14. m \in Nat /\ d \in Nat
       BY <1>2, <1>13, ConversionAssumption
<1>15. SUFFICES
          /\ unread'[s] \subseteq Pending'
          /\ Cardinality(B) <= moved'[s]
          /\ 2 * (Cardinality(B) + Cardinality(Pending'))
                < MaxItems + 2 * (moved'[s] + d)
       BY <1>11, <1>13 DEF CountedBy
<1>16. Running(s) /\ unread[s] # {} =>
          /\ unread[s] \subseteq Pending
          /\ Cardinality(A) <= moved[s]
          /\ 2 * (Cardinality(A) + Cardinality(Pending))
                < MaxItems + 2 * (moved[s] + m)
       BY <1>11, <1>13 DEF Counted, CountedBy
<1>17. ASSUME KeepsPlace(s), unread'[s] \subseteq unread[s]
       PROVE  /\ k = n /\ d = m /\ V \subseteq U
              /\ unread[s] \subseteq Pending
              /\ Cardinality(A) <= moved[s]
              /\ 2 * (Cardinality(A) + Cardinality(Pending))
                    < MaxItems + 2 * (moved[s] + m)
       BY <1>4, <1>5, <1>8, <1>13, <1>16, <1>17 DEF KeepsPlace
<1>18. CASE CountStays(s)
  <2>1. /\ Pending' = Pending /\ unread'[s] \subseteq unread[s]
        /\ moved'[s] >= moved[s] /\ KeepsPlace(s)
        BY <1>18 DEF CountStays
  <2>2. Cardinality(B) <= Cardinality(A)
        BY <1>2, <1>6, <1>7, <1>9, <1>10, <1>17, <2>1, NoneComesUp
  <2> QED BY <1>2, <1>7, <1>12, <1>14, <1>17, <2>1, <2>2, ConversionAssumption
<1>19. CASE CountMoves(s)
  <2>1. /\ unread'[s] \subseteq unread[s] /\ unread'[s] \subseteq Pending'
        /\ moved'[s] = moved[s] + 1 /\ KeepsPlace(s) /\ OneMoves
        BY <1>19 DEF CountMoves
  <2>2. ASSUME NEW v, v \notin Pending, Pending' = Pending \cup {v}
        PROVE  /\ Cardinality(B) <= Cardinality(A)
               /\ Cardinality(Pending') = Cardinality(Pending) + 1
    <3>1. Cardinality(B) <= Cardinality(A)
          BY <1>2, <1>6, <1>7, <1>9, <1>10, <1>17, <2>1, <2>2, NoneComesUp
    <3> QED BY <1>7, <2>2, <3>1, FS_AddElement
  <2>3. ASSUME NEW v, v \in Pending, Pending' = Pending \ {v}
        PROVE  /\ Cardinality(B) <= Cardinality(A) + 1
               /\ Cardinality(Pending') = Cardinality(Pending) - 1
    <3>1. V \subseteq Pending \ {v}
          BY <1>6, <2>1, <2>3
    <3>2. \A x, y \in V : x[2] = y[2] => x = y
      <4> SUFFICES ASSUME NEW x \in V, NEW y \in V, x[2] = y[2], x # y
                   PROVE  FALSE
          OBVIOUS
      <4>1. x \in Row /\ y \in Row /\ Alone(x) /\ y \in Pending
            BY <1>2, <1>5, <1>6, <1>17, <2>1, <3>1 DEF Missed
      <4>2. status[y] = "none"
            BY <4>1 DEF Alone
      <4> QED BY <4>1, <4>2 DEF Pending
    <3>3. Cardinality(Within(V, Pending \ {v}, n))
             <= Cardinality(Within(V, Pending, n)) + 1
          BY <1>7, <1>9, <3>1, <3>2, OneComesUp
    <3>4. Cardinality(Within(V, Pending, n)) <= Cardinality(A)
          BY <1>2, <1>6, <1>7, <1>9, <1>10, <1>17, <2>1, NoneComesUp
    <3>5. Cardinality(Within(V, Pending, n)) \in Nat
      <4>1. Within(V, Pending, n) \subseteq Row
            BY <1>2, <1>6 DEF Within
      <4> QED BY <4>1, RowsFinite, FS_Subset, FS_CardinalityType
    <3>6. B = Within(V, Pending \ {v}, n)
          BY <1>10, <1>17, <2>1, <2>3
    <3>7. Cardinality(B) <= Cardinality(A) + 1
          BY <1>12, <3>3, <3>4, <3>5, <3>6
    <3>8. Cardinality(Pending') = Cardinality(Pending) - 1
          BY <1>7, <2>3, FS_RemoveElement
    <3> QED BY <3>7, <3>8
  <2>4. \/ /\ Cardinality(B) <= Cardinality(A)
           /\ Cardinality(Pending') = Cardinality(Pending) + 1
        \/ /\ Cardinality(B) <= Cardinality(A) + 1
           /\ Cardinality(Pending') = Cardinality(Pending) - 1
        BY <2>1, <2>2, <2>3 DEF OneMoves
  <2> QED BY <1>2, <1>7, <1>12, <1>14, <1>17, <2>1, <2>4, ConversionAssumption
<1>20. CASE Count(s)
  <2>1. /\ Pending' = Pending /\ unread'[s] = Pending /\ index'[s] = 0
        /\ blocks'[s] = Blocks(Cardinality(Pending))
        /\ step'[s] \in {"find", "finished"}
        BY <1>20 DEF Count, rowVars, Pending, Continue, Steady, Running, Over,
           Run, ConversionsTypeOK
  <2>2. k = 0
        BY <1>8, <2>1, ConversionAssumption DEF Running, Over, PagesRead
  <2>3. B = {}
    <3>1. \A w : Cardinality(Before(Pending', w)) \in Nat
      <4>1. \A w : Before(Pending', w) \subseteq Pending'
            BY DEF Before
      <4> QED BY <1>7, <4>1, FS_Subset, FS_CardinalityType
    <3> QED BY <1>10, <2>2, <3>1 DEF Within
  <2>4. 2 * (Cardinality(Pending) - d) < MaxItems
        BY <1>7, <1>13, <2>1, BlocksRound
  <2> QED BY <1>2, <1>7, <1>14, <2>1, <2>3, <2>4, FS_EmptySet,
             ConversionAssumption
<1>21. CASE FindMany(s)
  <2>1. /\ step[s] = "find" /\ UNCHANGED <<status, moved>>
        /\ step'[s] = "ask" /\ index' = index /\ blocks' = blocks
        /\ \E P \in Page(Pending, index[s] * MaxItems) :
              unread'[s] = unread[s] \ P
        BY <1>21 DEF FindMany, Running, Stop, Over, Continue, Run, rowVars,
           ConversionsTypeOK
  <2>2. PICK P \in Page(Pending, index[s] * MaxItems) :
              unread'[s] = unread[s] \ P
        BY <2>1
  <2>3. Running(s) /\ PagesRead(s) = index[s] /\ PagesRead(s)' = index[s] + 1
        BY <2>1 DEF Running, Over, PagesRead
  <2>4. n = index[s] * MaxItems /\ k = n + MaxItems /\ d = m
        BY <1>2, <1>8, <1>13, <2>1, <2>3, ConversionAssumption
  <2>5. /\ unread[s] # {} /\ Pending' = Pending
        /\ unread'[s] \subseteq unread[s]
        BY <2>1, <2>2 DEF Pending
  <2>6. unread[s] \subseteq Pending /\ V \subseteq U
        BY <1>4, <1>5, <1>16, <2>3, <2>5
  <2>7. ASSUME NEW w \in B PROVE w \in A
    <3>1. w \in V /\ Cardinality(Before(Pending, w)) < k
          BY <1>10, <2>5, <2>7 DEF Within
    <3>2. w \in Pending \ P /\ w \in U /\ Alone(w)
          BY <1>5, <1>6, <2>2, <2>6, <3>1 DEF Missed
    <3>3. P \in Page(Pending, n)
          BY <2>2, <2>4
    <3>4. Cardinality(Before(Pending, w)) \in Nat
      <4>1. Before(Pending, w) \subseteq Pending
            BY DEF Before
      <4> QED BY <1>7, <4>1, FS_Subset, FS_CardinalityType
    <3>5. Cardinality(Before(Pending, w)) < n
      <4> SUFFICES ASSUME Cardinality(Before(Pending, w)) >= n PROVE FALSE
          BY <1>9, <3>4
      <4>1. Cardinality(Before(Pending, w)) >= n + MaxItems
            BY <1>9, <3>2, <3>3, PageComes
      <4> QED BY <1>9, <2>4, <3>1, <3>4, <4>1, ConversionAssumption
    <3> QED BY <1>10, <3>2, <3>5 DEF Within
  <2>8. Cardinality(B) <= Cardinality(A)
    <3>1. A \subseteq Row /\ B \subseteq A
          BY <1>2, <1>6, <1>10, <2>7 DEF Within
    <3> QED BY <3>1, RowsFinite, FS_Subset
  <2>9. moved'[s] = moved[s]
        BY <2>1
  <2> QED BY <1>2, <1>7, <1>12, <1>14, <1>16, <2>3, <2>4, <2>5, <2>6, <2>8,
             <2>9, ConversionAssumption
<1> QED BY <1>18, <1>19, <1>20, <1>21, CountStep DEF CountSteps, CountKept

\* How a check comes to have no more to read.
LEMMA EndStep ==
    ConversionsTypeOK /\ Steady /\ [ConversionsNext]_conversionsVars
        => EndSteps
<1> SUFFICES ASSUME ConversionsTypeOK /\ Steady,
                    [ConversionsNext]_conversionsVars
             PROVE  EndSteps
    OBVIOUS
<1> USE ConversionAssumption DEF ConversionsTypeOK, Steady, Running, Run, Over,
        rowVars, locals, paymentVars, histories, Continue, Stop, Begins
<1>1. ASSUME NEW h \in HoldRun, FetchOnHold(h) PROVE EndSteps
      BY <1>1 DEF FetchOnHold, EndSteps
<1>2. ASSUME NEW h \in HoldRun, FindExisting(h) PROVE EndSteps
      BY <1>2 DEF FindExisting, EndSteps
<1>3. ASSUME NEW h \in HoldRun, InsertCbTransPending(h) PROVE EndSteps
      BY <1>3 DEF InsertCbTransPending, Moves, EndSteps
<1>4. ASSUME NEW h \in HoldRun, HoldEnds(h) PROVE EndSteps
      BY <1>4 DEF HoldEnds, EndSteps
<1>5. ASSUME NEW r \in CheckRun, Count(r) PROVE EndSteps
  <2>1. blocks'[r] # 0 => step'[r] = "find"
        BY <1>5 DEF Count
  <2>2. \A s \in CheckRun \ {r} :
           /\ step'[s] = step[s] /\ unread'[s] = unread[s]
           /\ moved'[s] = moved[s]
        BY <1>5 DEF Count
  <2>3. step'[r] = "finished" => Count(r) /\ blocks'[r] = 0
        BY <1>5, <2>1
  <2>4. \A s \in CheckRun : s = r \/ s \in CheckRun \ {r}
        OBVIOUS
  <2> QED BY <2>2, <2>3, <2>4 DEF EndSteps
<1>6. ASSUME NEW r \in CheckRun, FindMany(r) PROVE EndSteps
  <2>1. \A s \in CheckRun \ {r} :
           /\ step'[s] = step[s] /\ unread'[s] = unread[s]
           /\ moved'[s] = moved[s]
        BY <1>6 DEF FindMany
  <2>2. step'[r] = "finished" =>
           FindMany(r) /\ Cardinality(Pending) <= index[r] * MaxItems
        BY <1>6 DEF FindMany
  <2>3. \A s \in CheckRun : s = r \/ s \in CheckRun \ {r}
        OBVIOUS
  <2> QED BY <2>1, <2>2, <2>3 DEF EndSteps
<1>7. ASSUME NEW r \in CheckRun, Ask(r) PROVE EndSteps
      BY <1>7 DEF Ask, EndSteps
<1>8. ASSUME NEW r \in CheckRun, Look(r) PROVE EndSteps
      BY <1>8 DEF Look, Moves, EndSteps
<1>9. ASSUME NEW r \in CheckRun, Pay(r) PROVE EndSteps
      BY <1>9 DEF Pay, EndSteps
<1>10. ASSUME NEW r \in CheckRun, WriteStatus(r) PROVE EndSteps
      BY <1>10 DEF WriteStatus, EndSteps
<1>11. ASSUME NEW r \in CheckRun, NextBlock(r) PROVE EndSteps
      BY <1>11 DEF NextBlock, EndSteps
<1>12. ASSUME NEW r \in Run, StatementFails(r) PROVE EndSteps
      BY <1>12 DEF StatementFails, Moves, EndSteps
<1>13. ASSUME NEW u \in writing, WriteCommits(u) \/ WriteFails(u)
       PROVE  EndSteps
      BY <1>13 DEF WriteCommits, WriteFails, Moves, EndSteps
<1>14. ASSUME NEW m \in queue, WalletPays(m) PROVE EndSteps
      BY <1>14 DEF WalletPays, Answer, Moves, EndSteps
<1>15. ASSUME NEW m \in queue, WalletRefuses(m) PROVE EndSteps
      BY <1>15 DEF WalletRefuses, Answer, Moves, EndSteps
<1>16. ASSUME NEW c \in Conv, AccessTradeDecides(c) PROVE EndSteps
      BY <1>16 DEF AccessTradeDecides, EndSteps
<1>17. CASE SchedulerCrash
      BY <1>17 DEF SchedulerCrash, Moves, EndSteps
<1>18. CASE UNCHANGED conversionsVars
      BY <1>18 DEF conversionsVars, EndSteps
<1> QED BY <1>1, <1>2, <1>3, <1>4, <1>5, <1>6, <1>7, <1>8, <1>9, <1>10, <1>11,
           <1>12, <1>13, <1>14, <1>15, <1>16, <1>17, <1>18 DEF ConversionsNext

\* What a check has missed came up into its pages, or comes after them.
LEMMA MissedSplits ==
    ASSUME ConversionsTypeOK, NEW s \in CheckRun, unread[s] \subseteq Pending,
           NEW n \in Nat, n = PagesRead(s) * MaxItems
    PROVE  \/ Cardinality(Missed(s)) <= Cardinality(CameUp(s))
           \/ Cardinality(Missed(s)) + n
                 <= Cardinality(CameUp(s)) + Cardinality(Pending)
<1>1. PICK U, A : U = Missed(s) /\ A = CameUp(s)
      OBVIOUS
<1>2. PICK R : R = U \ A
      OBVIOUS
<1>3. A \subseteq U /\ U \subseteq Pending /\ Pending \subseteq Row
      BY <1>1 DEF CameUp, Within, Missed, Pending
<1>4. IsFiniteSet(U) /\ IsFiniteSet(A) /\ IsFiniteSet(R)
      BY <1>2, <1>3, RowsFinite, FS_Subset
<1>5. CASE R = {}
  <2>1. U = A
        BY <1>2, <1>3, <1>5
  <2>2. Cardinality(A) \in Nat
        BY <1>4, FS_CardinalityType
  <2> QED BY <1>1, <2>1, <2>2
<1>6. CASE R # {}
  <2>1. ASSUME NEW w \in R PROVE Cardinality(Before(Pending, w)) >= n
    <3>1. ~ (Cardinality(Before(Pending, w)) < n)
          BY <1>1, <1>2 DEF CameUp, Within
    <3>2. Before(Pending, w) \subseteq Pending
          BY DEF Before
    <3>3. Cardinality(Before(Pending, w)) \in Nat
          BY <3>2, RowsFinite, FS_Subset, FS_CardinalityType
    <3> QED BY <3>1, <3>3
  <2>2. R \in SUBSET Pending
        BY <1>2, <1>3
  <2>3. Cardinality(R) + n <= Cardinality(Pending)
        BY <1>6, <2>1, <2>2, FewLeft
  <2>4. U = A \cup R /\ A \cap R = {}
        BY <1>2, <1>3
  <2>5. Cardinality(U) = Cardinality(A) + Cardinality(R)
        BY <1>4, <2>4, DisjointAdds
  <2>6. /\ Cardinality(A) \in Nat /\ Cardinality(R) \in Nat
        /\ Cardinality(Pending) \in Nat
        BY <1>4, RowsFinite, FS_CardinalityType
  <2> QED BY <1>1, <2>3, <2>5, <2>6
<1> QED BY <1>5, <1>6

\* A check with no more to read has missed few.
LEMMA MissesStep ==
    ASSUME ConversionsTypeOK, Steady, RowsExist, Counted, MissesFew,
           [ConversionsNext]_conversionsVars
    PROVE  MissesFew'
<1> SUFFICES ASSUME NEW s \in CheckRun, step'[s] = "finished"
             PROVE  2 * Cardinality(Missed(s)') < MaxItems + 2 * moved'[s]
    BY DEF MissesFew
<1>1. \A w \in Row : Alone(w)' => Alone(w)
      BY NoneBefore DEF RowsStay, Alone
<1>2. /\ unread[s] \subseteq Row /\ unread'[s] \subseteq Row
      /\ moved[s] \in Nat /\ moved'[s] \in Nat
      /\ index[s] \in Nat /\ blocks[s] \in Nat
      BY ConversionsTypeStep DEF ConversionsTypeOK, Run
<1>3. PICK U, V, A : U = Missed(s) /\ V = Missed(s)' /\ A = CameUp(s)
      OBVIOUS
<1>4. /\ Cardinality(U) \in Nat /\ Cardinality(V) \in Nat
      /\ Cardinality(A) \in Nat /\ IsFiniteSet(U)
  <2>1. U \subseteq Row /\ V \subseteq Row /\ A \subseteq Row
        BY <1>2, <1>3 DEF Missed, CameUp, Within
  <2> QED BY <2>1, RowsFinite, FS_Subset, FS_CardinalityType
<1>5. IsFiniteSet(Pending) /\ Cardinality(Pending) \in Nat
      BY RowsFinite, FS_CardinalityType
<1>6. unread'[s] = {} => 2 * Cardinality(V) < MaxItems + 2 * moved'[s]
  <2>1. unread'[s] = {} => V = {}
        BY <1>3 DEF Missed
  <2>2. unread'[s] = {} => Cardinality(V) = 0
        BY <2>1, FS_EmptySet
  <2>3. PICK n, m : n = MaxItems /\ m = moved'[s]
        OBVIOUS
  <2>4. n \in Nat \ {0} /\ m \in Nat
        BY <1>2, <2>3, ConversionAssumption
  <2>5. 2 * 0 < n + 2 * m
        BY <2>4
  <2> QED BY <2>2, <2>3, <2>5
<1>7. unread'[s] \subseteq unread[s] => Cardinality(V) <= Cardinality(U)
  <2>1. unread'[s] \subseteq unread[s] => V \subseteq U
        BY <1>1, <1>2, <1>3 DEF Missed
  <2> QED BY <1>4, <2>1, FS_Subset
<1>8. CASE /\ step[s] = "finished" /\ unread'[s] = unread[s]
           /\ moved'[s] = moved[s] \/ unread'[s] = {}
  <2>1. 2 * Cardinality(U) < MaxItems + 2 * moved[s]
        BY <1>3, <1>8 DEF MissesFew
  <2> QED BY <1>2, <1>3, <1>4, <1>6, <1>7, <1>8, <2>1, ConversionAssumption
<1>9. CASE Count(s) /\ blocks'[s] = 0
  <2>1. unread'[s] = Pending /\ Blocks(Cardinality(Pending)) = 0
        BY <1>9 DEF Count, ConversionsTypeOK, Run
  <2>2. Cardinality(V) <= Cardinality(Pending)
    <3>1. V \subseteq Pending
          BY <1>3, <2>1 DEF Missed
    <3> QED BY <1>5, <3>1, FS_Subset
  <2>3. 2 * (Cardinality(Pending) - 0 * MaxItems) < MaxItems
        BY <1>5, <2>1, BlocksRound
  <2> QED BY <1>2, <1>3, <1>4, <1>5, <2>2, <2>3, ConversionAssumption
<1>10. PICK n : n = PagesRead(s) * MaxItems
       OBVIOUS
<1>11. n \in Nat
       BY <1>2, <1>10, ConversionAssumption DEF PagesRead
<1>12. ASSUME Running(s), unread'[s] = unread[s], unread'[s] # {}
       PROVE  /\ Cardinality(V) <= Cardinality(A)
                    \/ Cardinality(V) + n <= Cardinality(A) + Cardinality(Pending)
              /\ Cardinality(A) <= moved[s]
              /\ 2 * (Cardinality(A) + Cardinality(Pending))
                    < MaxItems + 2 * (moved[s] + blocks[s] * MaxItems)
  <2>1. CountedBy(s)
        BY DEF Counted
  <2>2. /\ unread[s] \subseteq Pending
        /\ Cardinality(A) <= moved[s]
        /\ 2 * (Cardinality(A) + Cardinality(Pending))
              < MaxItems + 2 * (moved[s] + blocks[s] * MaxItems)
        BY <1>3, <1>12, <2>1 DEF CountedBy
  <2>3. \/ Cardinality(U) <= Cardinality(A)
        \/ Cardinality(U) + n <= Cardinality(A) + Cardinality(Pending)
        BY <1>3, <1>10, <1>11, <2>2, MissedSplits
  <2>4. Cardinality(V) <= Cardinality(U)
        BY <1>7, <1>12
  <2> QED BY <1>4, <1>5, <1>11, <2>2, <2>3, <2>4
<1>13. CASE NextBlock(s) /\ index[s] + 1 = blocks[s]
  <2>1. step[s] = "loop" /\ unread' = unread /\ moved' = moved
        BY <1>13 DEF NextBlock, histories
  <2>2. Running(s) /\ n = blocks[s] * MaxItems
        BY <1>10, <1>13, <2>1 DEF Running, Over, PagesRead
  <2>3. CASE unread'[s] # {}
        BY <1>2, <1>3, <1>4, <1>5, <1>11, <1>12, <2>1, <2>2, <2>3,
           ConversionAssumption
  <2> QED BY <1>3, <1>6, <2>3
<1>14. CASE FindMany(s) /\ Cardinality(Pending) <= index[s] * MaxItems
  <2>1. step[s] = "find" /\ unread' = unread /\ moved' = moved
        BY <1>14, ConversionAssumption DEF FindMany
  <2>2. Running(s) /\ Cardinality(Pending) <= n
        BY <1>10, <1>14, <2>1 DEF Running, Over, PagesRead
  <2>3. CASE unread'[s] # {}
        BY <1>2, <1>3, <1>4, <1>5, <1>11, <1>12, <2>1, <2>2, <2>3,
           ConversionAssumption
  <2> QED BY <1>3, <1>6, <2>3
<1> QED BY <1>8, <1>9, <1>13, <1>14, EndStep DEF EndSteps

\* Nothing is under way at the start, and the rows are those of one run.
LEMMA ConversionsStart == ConversionsInit => ConversionsIInv
<1> SUFFICES ASSUME ConversionsInit PROVE ConversionsIInv
    OBVIOUS
<1> USE ConversionAssumption DEF ConversionsInit, Run
<1>1. PICK b \in Start :
         /\ at = b.at
         /\ status = [w \in Row |-> IF w[1] = Earlier /\ w[2] \in b.known
                                    THEN "PROCESSING" ELSE "none"]
      OBVIOUS
<1>2. b.at \in [Conv -> State]
      OBVIOUS
<1>3. ConversionsTypeOK
      BY <1>1, <1>2 DEF ConversionsTypeOK, Over, Status, Amount
<1>4. Steady /\ RowsExist /\ Noted
      BY DEF Steady, RowsExist, Noted, Busy, Running, Over
<1>5. OneRow
      BY <1>1 DEF OneRow, Inserts, Row
<1>6. Confirmed /\ LooksInTurn /\ PaidFor /\ OverlapsOnce /\ PaidOnceConfirmed
      BY DEF Confirmed, LooksInTurn, PaidFor, OverlapsOnce, PaidOnceConfirmed
<1>7. Counted /\ MissesFew
      BY DEF Counted, CountedBy, Running, Over, MissesFew
<1> QED BY <1>3, <1>4, <1>5, <1>6, <1>7 DEF ConversionsIInv

\* Every step keeps the invariant.
LEMMA ConversionsStep ==
    ConversionsIInv /\ [ConversionsNext]_conversionsVars => ConversionsIInv'
<1> SUFFICES ASSUME ConversionsIInv, [ConversionsNext]_conversionsVars
             PROVE  ConversionsIInv'
    OBVIOUS
<1>1. ConversionsTypeOK' /\ Steady' /\ RowsExist' /\ Noted' /\ OneRow'
      BY ConversionsTypeStep, SteadyStep, RowsExistStep, NotedStep, OneRowStep
      DEF ConversionsIInv
<1>2. Confirmed' /\ LooksInTurn'
      BY ConfirmedStep, LooksStep DEF ConversionsIInv
<1>3. PaidFor' /\ OverlapsOnce'
  <2>1. PaidInv
        BY DEF ConversionsIInv, PaidInv, PaidOnceConfirmed, OverlapsOnce
  <2> QED BY <2>1, PaidStep
<1>4. PaidOnceConfirmed'
      BY <1>2, <1>3 DEF Confirmed, OverlapsOnce, PaidOnceConfirmed
<1>5. Counted' /\ MissesFew'
      BY CountedStep, MissesStep DEF ConversionsIInv
<1> QED BY <1>1, <1>2, <1>3, <1>4, <1>5 DEF ConversionsIInv

\* The jobs' inductive invariant.
THEOREM ConversionsInductive == ConversionsSpec => []ConversionsIInv
<1> QED BY ConversionsStart, ConversionsStep, PTL DEF ConversionsSpec

\* Every variable of the jobs keeps its type.
THEOREM ConversionsTypeCorrect == ConversionsSpec => []ConversionsTypeOK
<1>1. ConversionsIInv => ConversionsTypeOK
      BY DEF ConversionsIInv
<1> QED BY <1>1, ConversionsInductive, PTL

\* A conversion has two rows only if the runs that inserted them overlapped,
\* for any conversions and any number of runs.
\* (access-trade.job.ts 768-774, 841)
THEOREM RowsAreSingle == ConversionsSpec => []InsertedOnce
<1>1. ConversionsIInv => InsertedOnce
      BY DEF ConversionsIInv, OneRow, Inserts, InsertedOnce
<1> QED BY <1>1, ConversionsInductive, PTL

\* What is paid has been confirmed, and a row's amount is paid twice only by
\* checks that overlapped, whatever writes come late, payments are not
\* answered, and crashes there are.
\* (access-trade.job.ts 319-347, 384-390, 472-482)
THEOREM PaymentsAreDue == ConversionsSpec => []PaidOnceConfirmed
<1>1. ConversionsIInv => PaidOnceConfirmed
      BY DEF ConversionsIInv
<1> QED BY <1>1, ConversionsInductive, PTL

\* A check that has no more to read has missed less than half a block of the
\* rows that it counted, and at most one more for each row that came or went
\* under it, for any size of a block and any number of rows and runs.
\* (access-trade.job.ts 316, 344-346)
THEOREM FewAreMissed == ConversionsSpec => []MissesFew
<1>1. ConversionsIInv => MissesFew
      BY DEF ConversionsIInv
<1> QED BY <1>1, ConversionsInductive, PTL

=============================================================================

---------------------------- MODULE AccountProofs -----------------------------
(***************************************************************************)
(* Proofs about module Account, for any requests, addresses and numbers:   *)
(* its types, and that only handlers that ran beside each other, or timers *)
(* lost in a crash, can lose an entry of the histories, mark an address    *)
(* verified without a code, accept a code or its token twice, leave a      *)
(* locked account a session, or reserve two numbers.                       *)
(*                                                                         *)
(* All rest on MetInv: two requests that are open at once have met.  What  *)
(* one of them writes over the other's back, it writes over a request that *)
(* it has met.                                                             *)
(***************************************************************************)
EXTENDS Account, TLAPS

\* The steps of a request's handler.
StepsOf(r) == DOMAIN Script(r) \ {"start"}

Steps == {"exists", "token", "verify", "read", "profile", "cacheProfile",
          "setAccess", "setRefresh", "write", "look", "keepCode", "newToken",
          "reservation", "reserve"}

StepInv == \A r \in Request :
              pc[r] \notin Ended \cup {"new"}
                  => kind[r] \in Kinds /\ pc[r] \in StepsOf(r)

KeyInv == \A r \in Request :
             pc[r] # "new" => kind[r] \in Kinds /\ key[r] \in KeysOf(r)

\* A request that was not made has nothing to delete.
IdleInv == \A r \in Request : pc[r] = "new" => unawaited[r] = {}

TypeInv == TypeOK /\ StepInv /\ KeyInv /\ IdleInv

-----------------------------------------------------------------------------
(* The handlers                                                            *)

\* A handler stays among its steps until it is done.
LEMMA ScriptStays ==
    ASSUME NEW r \in Request, kind[r] \in Kinds
    PROVE  /\ StepsOf(r) \subseteq Steps
           /\ Script(r)["start"] \in StepsOf(r)
           /\ \A s \in StepsOf(r) : Script(r)[s] \in StepsOf(r) \cup {"done"}
<1> USE DEF StepsOf, Steps
<1>1. CASE kind[r] = "changeEmail"
      BY <1>1 DEF Script, ChangeEmail
<1>2. CASE kind[r] = "confirmEmail"
      BY <1>2 DEF Script, ConfirmEmail
<1>3. CASE kind[r] = "changePhone"
      BY <1>3 DEF Script, ChangePhone
<1>4. CASE kind[r] = "resetPasscode"
      BY <1>4 DEF Script, ResetPasscode
<1>5. CASE kind[r] = "requestOtp"
      BY <1>5 DEF Script, ProcessOTP
<1>6. CASE kind[r] = "checkOtp"
      BY <1>6 DEF Script, CheckOTP
<1>7. CASE kind[r] = "signIn"
      BY <1>7 DEF Script, VerifyPasscodeSignIn
<1>8. CASE kind[r] = "refresh"
      BY <1>8 DEF Script, RefreshToken
<1>9. CASE kind[r] \in {"confirmPhone", "editPasscode", "google", "lock", "unlock",
                        "cmsReset", "upgrade"}
  <2>1. Script(r) = ReadAndWrite
    <3>1. CASE kind[r] = "confirmPhone"
          BY <3>1 DEF Script, ConfirmPhone
    <3>2. CASE kind[r] = "editPasscode"
          BY <3>2 DEF Script, EditAccount
    <3>3. CASE kind[r] = "google"
          BY <3>3 DEF Script, ProcessSignInWithThirdParty
    <3>4. CASE kind[r] = "lock"
          BY <3>4 DEF Script, UpdateAccount
    <3>5. CASE kind[r] = "unlock"
          BY <3>5 DEF Script, UpdateAccount
    <3>6. CASE kind[r] = "cmsReset"
          BY <3>6 DEF Script, CmsResetPasscode
    <3>7. CASE kind[r] = "upgrade"
          BY <3>7 DEF Script, UpgradePartnerUser
    <3> QED BY <1>9, <3>1, <3>2, <3>3, <3>4, <3>5, <3>6, <3>7
  <2> QED BY <2>1 DEF ReadAndWrite
<1>10. CASE kind[r] \in {"preCheckPhone", "preCheckPhoneOtp"}
  <2>1. Script(r) = PreCheckPhone
    <3>1. CASE kind[r] = "preCheckPhone"
          BY <3>1 DEF Script
    <3>2. CASE kind[r] = "preCheckPhoneOtp"
          BY <3>2 DEF Script, PreCheckPhoneOtp
    <3> QED BY <1>10, <3>1, <3>2
  <2> QED BY <2>1 DEF PreCheckPhone
<1> QED BY <1>1, <1>2, <1>3, <1>4, <1>5, <1>6, <1>7, <1>8, <1>9, <1>10 DEF Kinds

\* Which handlers take a step, as far as it matters what they are.
LEMMA WhoTakes ==
    ASSUME NEW r \in Request, kind[r] \in Kinds
    PROVE  /\ "token" \in StepsOf(r) =>
                 kind[r] \in {"resetPasscode", "checkOtp", "refresh"}
           /\ "verify" \in StepsOf(r) => kind[r] \in {"confirmEmail", "checkOtp"}
           /\ "write" \in StepsOf(r) => kind[r] \in Recorded \cup {"google"}
           /\ "profile" \in StepsOf(r) => "cacheProfile" \in StepsOf(r)
<1>1. CASE kind[r] \in Recorded \cup {"google"} \cup {"checkOtp", "refresh"}
  <2>1. CASE kind[r] \in {"changeEmail", "changePhone", "resetPasscode"}
        BY <2>1 DEF StepsOf, Script, ChangeEmail, ChangePhone, ResetPasscode,
                    Recorded
  <2>2. CASE kind[r] \in {"confirmEmail", "checkOtp", "refresh"}
        BY <2>2 DEF StepsOf, Script, ConfirmEmail, CheckOTP, RefreshToken,
                    Recorded
  <2>3. CASE kind[r] \in {"confirmPhone", "editPasscode", "google"} \cup Cms
        BY <2>3 DEF StepsOf, Script, ConfirmPhone, EditAccount, Cms, Recorded,
                    ProcessSignInWithThirdParty, UpdateAccount,
                    CmsResetPasscode, UpgradePartnerUser, ReadAndWrite
  <2> QED BY <1>1, <2>1, <2>2, <2>3 DEF Recorded
<1>2. CASE kind[r] \in {"requestOtp", "signIn", "preCheckPhone", "preCheckPhoneOtp"}
      BY <1>2 DEF StepsOf, Script, ProcessOTP, VerifyPasscodeSignIn,
                  PreCheckPhone, PreCheckPhoneOtp
<1> QED BY <1>1, <1>2 DEF Kinds, Recorded, Cms

-----------------------------------------------------------------------------
(* A step of a request moves it alone, along its handler or to its end.    *)

LEMMA Advances ==
    ASSUME TypeInv, NEW r \in Request, Step(r)
    PROVE  /\ kind' = kind /\ kind[r] \in Kinds
           /\ pc' \in [Request -> Ended \cup {"new"} \cup Steps]
           /\ \A x \in Request \ {r} : pc'[x] = pc[x]
           /\ \/ pc'[r] \in StepsOf(r) \cup {"done", "failed"}
              \/ pc'[r] = pc[r] /\ pc[r] # "new"
<1> USE DEF Goes, GoesOrFails, Becomes
<1>0. /\ pc \in [Request -> Ended \cup {"new"} \cup Steps]
      /\ kind \in [Request -> Kinds \cup {"none"}]
      BY DEF TypeInv, TypeOK, Steps
<1>1. CASE Start(r)
  <2>1. kind' = kind /\ kind[r] \in Kinds
        BY <1>0, <1>1 DEF Start
  <2>2. pc' = [pc EXCEPT ![r] = Script(r)["start"]]
        BY <1>1 DEF Start
  <2> QED BY <1>0, <2>1, <2>2, ScriptStays
<1>2. CASE DeleteArrives(r)
  <2>1. pc[r] # "new" /\ kind' = kind /\ pc' = pc
        BY <1>2 DEF DeleteArrives, TypeInv, IdleInv
  <2> QED BY <1>0, <2>1 DEF TypeInv, KeyInv
<1>3. CASE ~Start(r) /\ ~DeleteArrives(r)
  <2>1. kind' = kind /\ pc[r] \notin Ended \cup {"new"}
        BY <1>3 DEF Step, CountExisting, CheckToken, VerifyOTP, Read, Write,
                    GenerateOTP, SetCode, SetToken, GetProfile, KeepProfile,
                    ProcessLogin, LookUpReservation, SetReservation, Fails, Ended
  <2>2. /\ kind[r] \in Kinds /\ pc[r] \in StepsOf(r)
        /\ Script(r)[pc[r]] \in StepsOf(r) \cup {"done"}
        /\ StepsOf(r) \subseteq Steps
        BY <2>1, ScriptStays DEF TypeInv, StepInv
  <2>3. \/ pc' = [pc EXCEPT ![r] = Script(r)[pc[r]]]
        \/ pc' = [pc EXCEPT ![r] = "failed"]
        \/ pc' = [pc EXCEPT ![r] = "done"]
        \/ pc[r] = "profile" /\ pc' = [pc EXCEPT ![r] = "cacheProfile"]
        BY <1>3 DEF Step, CountExisting, CheckToken, VerifyOTP, Read, Write,
                    GenerateOTP, SetCode, SetToken, GetProfile, KeepProfile,
                    ProcessLogin, LookUpReservation, SetReservation, Fails
  <2> QED BY <1>0, <2>1, <2>2, <2>3, WhoTakes DEF Ended
<1> QED BY <1>1, <1>2, <1>3

\* What a request presents is the request that was answered it.
LEMMA PresentedType ==
    ASSUME TypeInv, NEW r \in Request, pc[r] = "token", NEW t \in Presented(r)
    PROVE  t \in Request
<1>1. kind[r] \in {"resetPasscode", "checkOtp", "refresh"}
      BY WhoTakes DEF TypeInv, StepInv, Ended
<1>2. CASE kind[r] = "checkOtp"
      BY <1>2 DEF Presented, Answered
<1>3. CASE kind[r] = "resetPasscode"
      BY <1>3 DEF Presented, Answered
<1>4. CASE kind[r] = "refresh"
      BY <1>4 DEF Presented, Answered
<1> QED BY <1>1, <1>2, <1>3, <1>4

\* What it names is an address or a number.
LEMMA KeyType ==
    ASSUME NEW r \in Request, kind[r] \in Kinds
    PROVE  /\ KeysOf(r) \subseteq Key
           /\ kind[r] \in {"changeEmail", "confirmEmail", "google"}
                 => KeysOf(r) = Email
           /\ kind[r] = "changePhone" => KeysOf(r) = Phone
<1>1. CASE kind[r] \in {"changeEmail", "confirmEmail", "google"}
      BY <1>1, AccountAssumption DEF KeysOf
<1>2. CASE kind[r] \in {"changePhone", "requestOtp", "checkOtp", "resetPasscode",
                        "preCheckPhone", "preCheckPhoneOtp"}
      BY <1>2, AccountAssumption DEF KeysOf
<1>3. CASE ~(kind[r] \in {"changeEmail", "confirmEmail", "google", "changePhone",
                          "requestOtp", "checkOtp", "resetPasscode",
                          "preCheckPhone", "preCheckPhoneOtp"})
      BY <1>3, AccountAssumption DEF KeysOf
<1> QED BY <1>1, <1>2, <1>3

\* The row stays one whatever a handler writes.
LEMMA RowType ==
    ASSUME TypeInv, NEW r \in Request, pc[r] = "write"
    PROVE  /\ Updated(r) \in Row
           /\ kind[r] # "google" =>
                 Updated(r).histories = seen[r].histories \cup {r}
           /\ kind[r] = "google" => Updated(r).histories = row.histories
           /\ kind[r] \in {"changeEmail", "google"} => ~Updated(r).verified
           /\ kind[r] \notin {"changeEmail", "google"} =>
                 /\ Updated(r).email = row.email
                 /\ Updated(r).verified
                       => row.verified \/ kind[r] = "confirmEmail"
<1>0. /\ row \in Row /\ seen[r] \in Row /\ r \in Request
      /\ kind[r] \in Recorded \cup {"google"} /\ kind[r] \in Kinds
      /\ key[r] \in KeysOf(r)
      BY WhoTakes DEF TypeInv, TypeOK, StepInv, KeyInv, Ended
<1>1. Entered(r) \in Row
      BY <1>0 DEF Entered, Row
<1>2. /\ Entered(r).histories = seen[r].histories \cup {r}
      /\ Entered(r).email = row.email /\ Entered(r).verified = row.verified
      BY <1>0 DEF Entered, Row
<1>3. CASE kind[r] = "confirmPhone"
      BY <1>1, <1>2, <1>3 DEF Updated, Row
<1>4. CASE kind[r] = "changePhone"
  <2>1. key[r] \in Phone
        BY <1>0, <1>4, KeyType
  <2> QED BY <2>1, <1>1, <1>2, <1>4 DEF Updated, Row
<1>5. CASE kind[r] = "changeEmail"
  <2>1. key[r] \in Email
        BY <1>0, <1>5, KeyType
  <2> QED BY <2>1, <1>1, <1>2, <1>5 DEF Updated, Row
<1>6. CASE kind[r] = "confirmEmail"
      BY <1>1, <1>2, <1>6 DEF Updated, Row
<1>7. CASE kind[r] \in {"editPasscode", "resetPasscode", "cmsReset"}
      BY <1>0, <1>1, <1>2, <1>7 DEF Updated, Row
<1>8. CASE kind[r] = "lock"
      BY <1>1, <1>2, <1>8, AccountAssumption DEF Updated, Row
<1>9. CASE kind[r] = "unlock"
      BY <1>1, <1>2, <1>9, AccountAssumption DEF Updated, Row
<1>10. CASE kind[r] = "upgrade"
      BY <1>1, <1>2, <1>10 DEF Updated, Row
<1>11. CASE kind[r] = "google"
  <2>1. key[r] \in Email
        BY <1>0, <1>11, KeyType
  <2> QED BY <2>1, <1>0, <1>11 DEF Updated, Row
<1> QED BY <1>0, <1>3, <1>4, <1>5, <1>6, <1>7, <1>8, <1>9, <1>10, <1>11
        DEF Recorded, Cms

LEMMA TypeInit == Init => TypeInv
<1> SUFFICES ASSUME Init PROVE TypeInv
    OBVIOUS
<1>1. SessionTypeOK
      BY DEF Init, SessionInit, SessionTypeOK
<1>2. NewRow \in Row /\ FirstEmail \in Key
      BY AccountAssumption DEF NewRow, Row
<1>3. kind \in [Request -> Kinds \cup {"none"}]
      BY AccountAssumption DEF Init
<1>4. TypeOK
      BY <1>1, <1>2, <1>3 DEF Init, TypeOK
<1> QED BY <1>4 DEF Init, TypeInv, StepInv, KeyInv, IdleInv

\* What a step leaves in Redis.
LEMMA RedisStep ==
    ASSUME TypeInv, NEW r \in Request, Step(r)
    PROVE  SessionTypeOK'
<1> USE DEF SessionTypeOK
<1>0. /\ SessionTypeOK /\ kind[r] \in Kinds /\ None \notin Request
      /\ token[r] \in Request \cup {None} /\ seen[r] \in Row
      /\ key[r] \in Key
      BY Advances, AccountAssumption DEF TypeInv, TypeOK
<1>1. CASE UNCHANGED redis
      BY <1>0, <1>1 DEF redis, session, codes, reservation
<1>2. CASE SetCode(r)
      BY <1>0, <1>2 DEF SetCode, KeepCode, session, reservation
<1>3. CASE SetToken(r)
      BY <1>0, <1>3 DEF SetToken, session, reservation
<1>4. CASE KeepProfile(r)
  <2>1. seen[r].status \in Status
        BY <1>0 DEF Row
  <2> QED BY <1>0, <1>4, <2>1 DEF KeepProfile, CacheProfile, codes, reservation
<1>5. CASE ProcessLogin(r)
      BY <1>0, <1>5 DEF ProcessLogin, SetAccess, SetRefresh, codes, reservation
<1>6. CASE SetReservation(r)
      BY <1>0, <1>6 DEF SetReservation, Reserve, session, codes
<1>7. CASE DeleteArrives(r)
  <2>1. PICK what \in unawaited[r] : Delete(what, key[r], token[r])
        BY <1>7 DEF DeleteArrives
  <2>2. what \in {"access", "refresh", "code", "token"}
        BY DEF TypeInv, TypeOK
  <2>3. CASE what = "access"
        BY <1>0, <2>1, <2>3 DEF Delete, codes, reservation
  <2>4. CASE what = "refresh"
        BY <1>0, <2>1, <2>4 DEF Delete, codes, reservation
  <2>5. CASE what = "code"
        BY <1>0, <2>1, <2>5 DEF Delete, session, reservation
  <2>6. CASE what = "token"
        BY <1>0, <2>1, <2>6 DEF Delete, session, reservation
  <2> QED BY <2>2, <2>3, <2>4, <2>5, <2>6
<1> QED BY <1>1, <1>2, <1>3, <1>4, <1>5, <1>6, <1>7
        DEF Step, Start, CountExisting, CheckToken, VerifyOTP, Read, Write,
            GenerateOTP, GetProfile, LookUpReservation, Fails

\* What it leaves of a request's own record, of the row and of the history.
LEMMA RecordStep ==
    ASSUME TypeInv, NEW r \in Request, Step(r)
    PROVE  /\ row' \in Row /\ key' \in [Request -> Key]
           /\ passcode' \in [Request -> Request \cup {FirstPasscode}]
           /\ seen' \in [Request -> Row]
           /\ token' \in [Request -> Request \cup {None}]
           /\ unawaited' \in [Request -> SUBSET {"access", "refresh", "code",
                                                  "token"}]
           /\ met' \in [Request -> SUBSET Request]
           /\ proof' \in [Request -> Request \cup {None}]
           /\ confirmed' \subseteq Email /\ stale' \subseteq Request
<1>0. /\ TypeOK /\ SessionTypeOK /\ kind[r] \in Kinds /\ row \in Row
      BY Advances DEF TypeInv, TypeOK
<1>1. CASE UNCHANGED <<row, local, unawaited, met, proof, confirmed, stale>>
      BY <1>0, <1>1 DEF local, TypeOK
<1>2. CASE Start(r)
  <2>1. key' \in [Request -> Key]
        BY <1>0, <1>2, KeyType DEF Start, TypeOK
  <2>2. row.passcode \in Request \cup {FirstPasscode}
        BY <1>0 DEF Row
  <2> QED BY <1>0, <1>2, <2>1, <2>2 DEF Start, TypeOK
<1>3. CASE CheckToken(r)
  <2>1. token' \in [Request -> Request \cup {None}]
        BY <1>0, <1>3, PresentedType DEF CheckToken, TypeOK
  <2> QED BY <1>0, <1>3, <2>1 DEF CheckToken, TypeOK
<1>4. CASE VerifyOTP(r)
  <2>1. pc[r] = "verify" /\ key[r] \in KeysOf(r)
        BY <1>4 DEF VerifyOTP, TypeInv, KeyInv
  <2>2. kind[r] = "confirmEmail" => key[r] \in Email
        BY <1>0, <2>1, KeyType
  <2>3. otp[key[r]] \in Request \cup {None}
        BY <1>0 DEF TypeOK, SessionTypeOK
  <2> QED BY <1>0, <1>4, <2>2, <2>3 DEF VerifyOTP, Issue, local, TypeOK
<1>5. CASE Read(r)
  <2>1. unawaited' \in [Request -> SUBSET {"access", "refresh", "code", "token"}]
        BY <1>0, <1>5 DEF Read, Issue, TypeOK
  <2> QED BY <1>0, <1>5, <2>1 DEF Read, TypeOK
<1>6. CASE Write(r)
  <2>1. row' \in Row
        BY <1>0, <1>6, RowType DEF Write
  <2>2. unawaited' \in [Request -> SUBSET {"access", "refresh", "code", "token"}]
        BY <1>0, <1>6 DEF Write, Issue, TypeOK
  <2> QED BY <1>0, <1>6, <2>1, <2>2 DEF Write, local, TypeOK
<1>7. CASE GetProfile(r)
      BY <1>0, <1>7 DEF GetProfile, TypeOK
<1>8. CASE LookUpReservation(r)
      BY <1>0, <1>8 DEF LookUpReservation, TypeOK, SessionTypeOK
<1>9. CASE DeleteArrives(r)
      BY <1>0, <1>9 DEF DeleteArrives, TypeOK, local
<1> QED BY <1>1, <1>2, <1>3, <1>4, <1>5, <1>6, <1>7, <1>8, <1>9
        DEF Step, CountExisting, GenerateOTP, SetCode, SetToken, KeepProfile,
            ProcessLogin, SetReservation, Fails

\* Only a start names a key and meets others; the rest is its own affair.
LEMMA Alone ==
    ASSUME TypeInv, NEW r \in Request, Step(r)
    PROVE  /\ \A x \in Request \ {r} : /\ key'[x] = key[x]
                                       /\ seen'[x] = seen[x]
                                       /\ unawaited'[x] = unawaited[x]
           /\ ~Start(r) => key' = key /\ met' = met /\ pc[r] # "new"
           /\ Start(r) => key'[r] \in KeysOf(r) /\ unawaited' = unawaited
<1>0. TypeOK
      BY DEF TypeInv
<1>1. CASE Start(r)
      BY <1>0, <1>1, KeyType, Advances DEF Start, TypeOK
<1>2. CASE ~Start(r)
  <2>1. key' = key /\ met' = met
        BY <1>2 DEF Step, CountExisting, CheckToken, VerifyOTP, Read, Write,
                    GenerateOTP, SetCode, SetToken, GetProfile, KeepProfile,
                    ProcessLogin, LookUpReservation, SetReservation, Fails,
                    DeleteArrives, local
  <2>2. \A x \in Request \ {r} : seen'[x] = seen[x] /\ unawaited'[x] = unawaited[x]
        BY <1>0, <1>2 DEF Step, CountExisting, CheckToken, VerifyOTP, Read,
                    Write, GenerateOTP, SetCode, SetToken, GetProfile,
                    KeepProfile, ProcessLogin, LookUpReservation, Issue,
                    SetReservation, Fails, DeleteArrives, local, TypeOK
  <2>3. pc[r] # "new"
        BY <1>2 DEF Step, CountExisting, CheckToken, VerifyOTP, Read, Write,
                    GenerateOTP, SetCode, SetToken, GetProfile, KeepProfile,
                    ProcessLogin, LookUpReservation, SetReservation, Fails,
                    DeleteArrives, TypeInv, IdleInv
  <2> QED BY <1>2, <2>1, <2>2, <2>3
<1> QED BY <1>1, <1>2

-----------------------------------------------------------------------------
(* Types                                                                   *)

LEMMA TypeStep == TypeInv /\ [Next]_vars => TypeInv'
<1> SUFFICES ASSUME TypeInv, [Next]_vars PROVE TypeInv'
    OBVIOUS
<1>0. /\ TypeOK /\ SessionTypeOK
      /\ pc \in [Request -> Ended \cup {"new"} \cup Steps]
      BY DEF TypeInv, TypeOK, Steps
<1>1. ASSUME NEW r \in Request, Step(r) PROVE TypeInv'
  <2>1. /\ kind' = kind /\ kind[r] \in Kinds
        /\ pc' \in [Request -> Ended \cup {"new"} \cup Steps]
        /\ \A x \in Request \ {r} : pc'[x] = pc[x]
        /\ \/ pc'[r] \in StepsOf(r) \cup {"done", "failed"}
           \/ pc'[r] = pc[r] /\ pc[r] # "new"
        BY <1>1, Advances
  <2>2. \A x \in Request : StepsOf(x)' = StepsOf(x) /\ KeysOf(x)' = KeysOf(x)
        BY <2>1 DEF StepsOf, Script, KeysOf
  <2>3. TypeOK'
        BY <1>0, <1>1, <2>1, RedisStep, RecordStep DEF TypeOK, Steps
  <2>4. StepInv'
        BY <2>1, <2>2 DEF TypeInv, StepInv, Ended
  <2>5. KeyInv'
    <3>1. key'[r] \in KeysOf(r)
          BY <1>0, <1>1, Alone DEF TypeInv, KeyInv
    <3> QED BY <1>1, <2>1, <2>2, <3>1, Alone DEF TypeInv, KeyInv
  <2>6. IdleInv'
    <3>1. pc'[r] # "new"
      <4>1. "new" \notin StepsOf(r)
            BY <2>1, ScriptStays DEF Steps
      <4> QED BY <2>1, <4>1
    <3> QED BY <1>1, <2>1, <3>1, Alone DEF TypeInv, IdleInv
  <2> QED BY <2>3, <2>4, <2>5, <2>6 DEF TypeInv
<1>2. CASE Crash
  <2>1. \A x \in Request :
           \/ pc'[x] = "lost" /\ unawaited'[x] = {} /\ pc[x] # "new"
           \/ pc'[x] = pc[x] /\ unawaited'[x] = unawaited[x]
    <3> DEFINE Ends(p) == {x \in Request : Open(x) /\ ProcessOf(x) = p}
    <3>1. PICK p \in {"cms", "gateway", "authenticator"} :
             /\ pc' = [x \in Request |-> IF x \in Ends(p) THEN "lost" ELSE pc[x]]
             /\ unawaited' = [x \in Request |->
                                 IF x \in Ends(p) THEN {} ELSE unawaited[x]]
          BY <1>2 DEF Crash
    <3> QED BY <3>1 DEF Open
  <2>2. UNCHANGED <<redis, row, kind, local, met, proof, confirmed, stale>>
        BY <1>2 DEF Crash
  <2>3. \A x \in Request : StepsOf(x)' = StepsOf(x) /\ KeysOf(x)' = KeysOf(x)
        BY <2>2 DEF StepsOf, Script, KeysOf
  <2>4. /\ pc' \in [Request -> Ended \cup {"new"} \cup Steps]
        /\ unawaited' \in [Request -> SUBSET {"access", "refresh", "code", "token"}]
    <3>1. \A x \in Request : /\ pc'[x] \in Ended \cup {"new"} \cup Steps
                             /\ unawaited'[x] \in SUBSET {"access", "refresh",
                                                          "code", "token"}
          BY <1>0, <2>1 DEF TypeOK, Ended
    <3>2. /\ \E p : pc' = [x \in Request |-> p[x]]
          /\ \E p : unawaited' = [x \in Request |-> p[x]]
      <4>1. PICK ends : /\ pc' = [x \in Request |-> IF x \in ends THEN "lost" ELSE pc[x]]
                        /\ unawaited' = [x \in Request |->
                              IF x \in ends THEN {} ELSE unawaited[x]]
            BY <1>2 DEF Crash
      <4> QED BY <4>1
    <3> QED BY <3>1, <3>2
  <2>5. TypeOK'
        BY <1>0, <2>2, <2>4 DEF TypeOK, SessionTypeOK, redis, session, codes,
                                reservation, local, Steps
  <2>6. StepInv' /\ KeyInv' /\ IdleInv'
        BY <2>1, <2>2, <2>3 DEF TypeInv, StepInv, KeyInv, IdleInv, Ended, local
  <2> QED BY <2>5, <2>6 DEF TypeInv
<1>3. CASE RedisMoves
  <2>1. UNCHANGED <<row, kind, pc, local, unawaited, met, proof, confirmed, stale>>
        BY <1>3 DEF RedisMoves
  <2>2. SessionTypeOK'
    <3> USE <1>0 DEF SessionTypeOK, session, codes, reservation
    <3>1. CASE ExpireSession
          BY <3>1 DEF ExpireSession
    <3>2. CASE ExpireCode
          BY <3>2 DEF ExpireCode
    <3>3. CASE ExpireReservation
          BY <3>3 DEF ExpireReservation
    <3>4. CASE ResendTimePasses
          BY <3>4 DEF ResendTimePasses
    <3>5. CASE \E r \in Reservations : ReservationPasses(r)
          BY <3>5 DEF Reservations, ReservationPasses
    <3> QED BY <1>3, <3>1, <3>2, <3>3, <3>4, <3>5 DEF RedisMoves, Expire
  <2>3. \A x \in Request : StepsOf(x)' = StepsOf(x) /\ KeysOf(x)' = KeysOf(x)
        BY <2>1 DEF StepsOf, Script, KeysOf
  <2> QED BY <1>0, <2>1, <2>2, <2>3
          DEF TypeInv, TypeOK, StepInv, KeyInv, IdleInv, local
<1>4. CASE UNCHANGED vars
  <2>1. \A x \in Request : StepsOf(x)' = StepsOf(x) /\ KeysOf(x)' = KeysOf(x)
        BY <1>4 DEF StepsOf, Script, KeysOf, vars
  <2> QED BY <1>0, <1>4, <2>1
          DEF TypeInv, TypeOK, StepInv, KeyInv, IdleInv, local, vars, redis,
              session, codes, reservation, SessionTypeOK
<1> QED BY <1>1, <1>2, <1>3, <1>4 DEF Next

\* Every state is typed: the row, the requests and what Redis holds.
THEOREM TypeCorrect == Spec => []TypeOK
<1>1. TypeInv => TypeOK
      BY DEF TypeInv
<1> QED BY <1>1, TypeInit, TypeStep, PTL DEF Spec

-----------------------------------------------------------------------------
(* Requests that are open at once                                          *)

MetInv == \A r, x \in Request : r # x /\ Open(r) /\ Open(x) => x \in met[r]

\* A request opens when it is started, and meets those that are open.
LEMMA Opens ==
    ASSUME TypeInv, NEW r \in Request, Step(r)
    PROVE  /\ \A x \in Request : met[x] \subseteq met'[x]
           /\ \A x \in Request \ {r} : Open(x)' = Open(x)
           /\ \/ Open(r)
              \/ \A x \in Request \ {r} :
                    Open(x) => x \in met'[r] /\ r \in met'[x]
<1>0. TypeOK
      BY DEF TypeInv
<1>1. \A x \in Request \ {r} : Open(x)' = Open(x)
      BY Advances, Alone DEF Open
<1>2. CASE Start(r)
      BY <1>0, <1>1, <1>2 DEF Start, TypeOK
<1>3. CASE ~Start(r)
  <2>1. Open(r)
        BY <1>3 DEF Step, CountExisting, CheckToken, VerifyOTP, Read, Write,
                    GenerateOTP, SetCode, SetToken, GetProfile, KeepProfile,
                    ProcessLogin, LookUpReservation, SetReservation, Fails,
                    DeleteArrives, TypeInv, IdleInv, Open, Ended
  <2> QED BY <1>1, <1>3, <2>1, Alone
<1> QED BY <1>2, <1>3

\* What else may happen opens nothing, and leaves what was met and written.
LEMMA NothingOpens ==
    ASSUME TypeInv, [Next]_vars, \A r \in Request : ~Step(r)
    PROVE  /\ UNCHANGED <<row, kind, local, met, confirmed>>
           /\ \A x \in Request : /\ Open(x)' => Open(x)
                                 /\ pc'[x] = pc[x] \/ pc'[x] = "lost"
<1>1. CASE Crash
  <2> DEFINE Ends(p) == {x \in Request : Open(x) /\ ProcessOf(x) = p}
  <2>1. PICK p \in {"cms", "gateway", "authenticator"} :
           /\ pc' = [x \in Request |-> IF x \in Ends(p) THEN "lost" ELSE pc[x]]
           /\ unawaited' = [x \in Request |->
                               IF x \in Ends(p) THEN {} ELSE unawaited[x]]
        BY <1>1 DEF Crash
  <2>2. UNCHANGED <<row, kind, local, met, confirmed>>
        BY <1>1 DEF Crash
  <2> QED BY <2>1, <2>2 DEF Open, Ended
<1>2. CASE RedisMoves \/ UNCHANGED vars
      BY <1>2 DEF RedisMoves, vars, Open, local
<1> QED BY <1>1, <1>2 DEF Next

LEMMA MetInit == Init => MetInv
BY DEF Init, MetInv, Open

LEMMA MetStep == TypeInv /\ MetInv /\ [Next]_vars => MetInv'
<1> SUFFICES ASSUME TypeInv, MetInv, [Next]_vars PROVE MetInv'
    OBVIOUS
<1>1. ASSUME NEW r \in Request, Step(r) PROVE MetInv'
      BY <1>1, Opens DEF MetInv
<1>2. ASSUME \A r \in Request : ~Step(r) PROVE MetInv'
      BY <1>2, NothingOpens DEF MetInv
<1> QED BY <1>1, <1>2

-----------------------------------------------------------------------------
(* Addresses                                                               *)

Changers == {"changeEmail", "google"}

ChangerMet(r) == \E x \in met[r] : kind[x] \in Changers

\* What a confirmation has found, and that its address is still the account's
\* unless it met one that changes it.
ConfirmInv ==
    \A r \in Request : kind[r] = "confirmEmail" =>
        /\ pc[r] \in {"read", "write"} => key[r] \in confirmed
        /\ pc[r] = "write" => row.email = key[r] \/ ChangerMet(r)

VerifiedInv == VerifiedWasConfirmed /\ ConfirmInv

LEMMA VerifiedInit == Init => VerifiedInv
BY DEF Init, NewRow, VerifiedInv, VerifiedWasConfirmed, ConfirmInv

\* A confirmation comes to read and to write by its steps before them.
LEMMA ConfirmSteps ==
    ASSUME TypeInv, NEW r \in Request, Step(r), kind[r] = "confirmEmail"
    PROVE  /\ pc'[r] = "read" => key[r] \in confirmed' \/ pc[r] = "read"
           /\ pc'[r] = "write" =>
                 \/ pc[r] = "read" /\ row' = row /\ row.email = key[r]
                 \/ pc[r] = "write" /\ row' = row
<1> USE DEF Goes, GoesOrFails, Becomes
<1>1. Script(r) = ConfirmEmail
      BY DEF Script
<1>2. pc[r] \in Ended \cup {"new", "verify", "read", "write"}
      BY <1>1 DEF TypeInv, StepInv, StepsOf, ConfirmEmail
<1>3. pc \in [Request -> Ended \cup {"new"} \cup Steps]
      BY DEF TypeInv, TypeOK, Steps
<1>4. CASE Start(r)
      BY <1>1, <1>3, <1>4 DEF Start, ConfirmEmail
<1>5. CASE VerifyOTP(r)
      BY <1>1, <1>3, <1>5 DEF VerifyOTP, ConfirmEmail
<1>6. CASE Read(r)
      BY <1>1, <1>3, <1>6 DEF Read, ConfirmEmail, Accepts
<1>7. CASE Write(r)
      BY <1>1, <1>3, <1>7 DEF Write, ConfirmEmail
<1>8. CASE DeleteArrives(r)
      BY <1>8 DEF DeleteArrives
<1>9. CASE Fails(r)
      BY <1>3, <1>9 DEF Fails
<1> QED BY <1>2, <1>4, <1>5, <1>6, <1>7, <1>8, <1>9
        DEF Step, CountExisting, CheckToken, GenerateOTP, SetCode, SetToken,
            GetProfile, KeepProfile, ProcessLogin, LookUpReservation,
            SetReservation, Ended

\* The row is written by Write alone, and confirmed only grows.
LEMMA RowChanges ==
    ASSUME TypeInv, NEW r \in Request, Step(r)
    PROVE  /\ confirmed \subseteq confirmed'
           /\ row' = row \/ (pc[r] = "write" /\ row' = Updated(r) /\ Write(r))
<1>1. confirmed \subseteq confirmed'
  <2>1. CASE VerifyOTP(r)
        BY <2>1 DEF VerifyOTP
  <2> QED BY <2>1 DEF Step, Start, CountExisting, CheckToken, Read, Write,
             GenerateOTP, SetCode, SetToken, GetProfile, KeepProfile, ProcessLogin,
             LookUpReservation, SetReservation, DeleteArrives, Fails
<1>2. CASE Write(r)
      BY <1>1, <1>2 DEF Write
<1>3. CASE ~Write(r)
      BY <1>1, <1>3
         DEF Step, Start, CountExisting, CheckToken, VerifyOTP, Read, GenerateOTP,
             SetCode, SetToken, GetProfile, KeepProfile, ProcessLogin,
             LookUpReservation, SetReservation, DeleteArrives, Fails
<1> QED BY <1>2, <1>3

LEMMA VerifiedStep ==
    TypeInv /\ MetInv /\ VerifiedInv /\ [Next]_vars => VerifiedInv'
<1> SUFFICES ASSUME TypeInv, MetInv, VerifiedInv, [Next]_vars
             PROVE  VerifiedInv'
    OBVIOUS
<1>1. ASSUME NEW r \in Request, Step(r) PROVE VerifiedInv'
  <2>0. /\ kind' = kind /\ \A x \in Request \ {r} : pc'[x] = pc[x]
        /\ \A x \in Request \ {r} : key'[x] = key[x]
        /\ \A x \in Request : met[x] \subseteq met'[x]
        /\ confirmed \subseteq confirmed'
        /\ kind[r] \in Kinds
        BY <1>1, Advances, Alone, Opens, RowChanges
  <2>1. \A x \in Request : ChangerMet(x) => ChangerMet(x)'
        BY <2>0 DEF ChangerMet
  <2>2. VerifiedWasConfirmed'
    <3>1. CASE row' = row
          BY <2>0, <3>1 DEF VerifiedInv, VerifiedWasConfirmed
    <3>2. CASE pc[r] = "write" /\ row' = Updated(r)
      <4>1. CASE kind[r] \in Changers
            BY <3>2, <4>1, RowType DEF Changers, VerifiedWasConfirmed
      <4>2. CASE kind[r] \notin Changers /\ row.verified
        <5>1. row'.email = row.email
              BY <3>2, <4>2, RowType DEF Changers
        <5> QED BY <2>0, <4>2, <5>1 DEF VerifiedInv, VerifiedWasConfirmed
      <4>3. CASE kind[r] = "confirmEmail"
        <5>1. row'.email = row.email
              BY <3>2, <4>3, RowType
        <5>2. key[r] \in confirmed /\ (row.email = key[r] \/ ChangerMet(r))
              BY <3>2, <4>3 DEF VerifiedInv, ConfirmInv
        <5>3. CASE row.email = key[r]
              BY <2>0, <5>1, <5>2, <5>3 DEF VerifiedWasConfirmed
        <5>4. CASE ChangerMet(r)
          <6>1. PICK x \in met[r] : kind[x] \in Changers
                BY <5>4 DEF ChangerMet
          <6>2. x \in Request /\ x \in met'[r]
                BY <2>0, <6>1 DEF TypeInv, TypeOK
          <6> QED BY <2>0, <4>3, <6>1, <6>2 DEF VerifiedWasConfirmed, Changers
        <5> QED BY <5>2, <5>3, <5>4
      <4>4. CASE kind[r] \notin Changers \cup {"confirmEmail"} /\ ~row.verified
        <5>1. ~row'.verified
              BY <3>2, <4>4, RowType DEF Changers
        <5> QED BY <5>1 DEF VerifiedWasConfirmed
      <4> QED BY <4>1, <4>2, <4>3, <4>4
    <3> QED BY <1>1, <3>1, <3>2, RowChanges
  <2>3. ConfirmInv'
    <3> SUFFICES ASSUME NEW x \in Request, kind[x] = "confirmEmail"
                 PROVE  /\ pc'[x] \in {"read", "write"} => key'[x] \in confirmed'
                        /\ pc'[x] = "write" =>
                              row'.email = key'[x] \/ ChangerMet(x)'
        BY <2>0 DEF ConfirmInv
    <3>1. CASE x = r
      <4>1. pc'[r] \in {"read", "write"} => key' = key
        <5>1. CASE Start(r)
              BY <3>1, <5>1 DEF Start, Goes, Becomes, Script, ConfirmEmail,
                                TypeInv, TypeOK
        <5> QED BY <1>1, <5>1, Alone
      <4> QED BY <1>1, <2>0, <2>1, <3>1, <4>1, ConfirmSteps
              DEF VerifiedInv, ConfirmInv
    <3>2. CASE x # r
      <4>1. pc'[x] \in {"read", "write"} => key'[x] \in confirmed'
            BY <2>0, <3>2 DEF VerifiedInv, ConfirmInv
      <4>2. ASSUME pc[x] = "write", row' = Updated(r), pc[r] = "write",
                   kind[r] \in Changers
            PROVE  ChangerMet(x)
        <5>1. Open(x) /\ Open(r)
              BY <4>2 DEF Open, Ended
        <5>2. r \in met[x]
              BY <3>2, <5>1 DEF MetInv
        <5> QED BY <4>2, <5>2 DEF ChangerMet
      <4>3. ASSUME row' = Updated(r), pc[r] = "write", kind[r] \notin Changers
            PROVE  row'.email = row.email
            BY <4>3, RowType DEF Changers
      <4> QED BY <1>1, <2>0, <2>1, <3>2, <4>1, <4>2, <4>3, RowChanges
              DEF VerifiedInv, ConfirmInv
    <3> QED BY <3>1, <3>2
  <2> QED BY <2>2, <2>3 DEF VerifiedInv
<1>2. ASSUME \A r \in Request : ~Step(r) PROVE VerifiedInv'
      BY <1>2, NothingOpens DEF VerifiedInv, VerifiedWasConfirmed, ConfirmInv,
                                ChangerMet, local
<1> QED BY <1>1, <1>2

\* An address is verified without its code only where a confirmation ran
\* beside a handler that changed the address.
THEOREM VerifiedIsConfirmed == Spec => []VerifiedWasConfirmed
<1>1. VerifiedInv => VerifiedWasConfirmed
      BY DEF VerifiedInv
<1> QED BY <1>1, TypeInit, TypeStep, MetInit, MetStep, VerifiedInit,
           VerifiedStep, PTL DEF Spec

-----------------------------------------------------------------------------
(* Histories                                                               *)

\* A request that records has written its entry.
Written(r) ==
    /\ kind[r] \in Recorded
    /\ pc[r] = "done" \/ (kind[r] = "changeEmail" /\ pc[r] \in {"look", "keepCode"})

RecorderMet(r) == \E x \in met[r] : kind[x] \in Recorded

\* The entry is in the row, and in the copy of every handler that is about to
\* write, unless the request met one that records.
HistoryInv ==
    \A r \in Request : Written(r) =>
        /\ r \in row.histories \/ RecorderMet(r)
        /\ \A x \in Request \ {r} :
              kind[x] \in Recorded /\ pc[x] = "write"
                  => r \in seen[x].histories \/ RecorderMet(r)

\* How a handler that records goes on.
LEMMA RecordedScript ==
    ASSUME NEW r \in Request, kind[r] \in Recorded
    PROVE  /\ StepsOf(r) \subseteq {"exists", "token", "verify", "read",
                                     "write", "look", "keepCode"}
           /\ Script(r)["start"] \notin {"write", "look", "keepCode", "done"}
           /\ \A s \in StepsOf(r) \ {"write"} :
                 /\ Script(r)[s] = "write" => s = "read"
                 /\ s \notin {"look", "keepCode"}
                       => Script(r)[s] \notin {"look", "keepCode", "done"}
           /\ \A s \in StepsOf(r) \cap {"look", "keepCode"} :
                 kind[r] = "changeEmail"
           /\ "write" \in StepsOf(r) /\ Script(r)["write"] # "write"
<1>1. CASE kind[r] = "changeEmail"
      BY <1>1 DEF Script, ChangeEmail, StepsOf
<1>2. CASE kind[r] = "confirmEmail"
      BY <1>2 DEF Script, ConfirmEmail, StepsOf
<1>3. CASE kind[r] = "changePhone"
      BY <1>3 DEF Script, ChangePhone, StepsOf
<1>4. CASE kind[r] = "resetPasscode"
      BY <1>4 DEF Script, ResetPasscode, StepsOf
<1>5. CASE kind[r] \in {"confirmPhone", "editPasscode"} \cup Cms
  <2>1. Script(r) = ReadAndWrite
    <3>1. CASE kind[r] = "confirmPhone"
          BY <3>1 DEF Script, ConfirmPhone
    <3>2. CASE kind[r] = "editPasscode"
          BY <3>2 DEF Script, EditAccount
    <3>3. CASE kind[r] = "lock"
          BY <3>3 DEF Script, UpdateAccount
    <3>4. CASE kind[r] = "unlock"
          BY <3>4 DEF Script, UpdateAccount
    <3>5. CASE kind[r] = "cmsReset"
          BY <3>5 DEF Script, CmsResetPasscode
    <3>6. CASE kind[r] = "upgrade"
          BY <3>6 DEF Script, UpgradePartnerUser
    <3> QED BY <1>5, <3>1, <3>2, <3>3, <3>4, <3>5, <3>6 DEF Cms
  <2> QED BY <2>1 DEF ReadAndWrite, StepsOf
<1> QED BY <1>1, <1>2, <1>3, <1>4, <1>5 DEF Recorded

\* It is written by its write alone, which comes after its read.
LEMMA RecordedSteps ==
    ASSUME TypeInv, NEW r \in Request, Step(r), kind[r] \in Recorded
    PROVE  /\ Written(r)' =>
                 \/ Written(r) /\ pc[r] # "write" /\ row' = row
                 \/ pc[r] = "write" /\ row' = Updated(r)
           /\ pc'[r] = "write" =>
                 \/ pc[r] = "read" /\ seen'[r] = row /\ row' = row
                 \/ pc[r] = "write" /\ seen'[r] = seen[r] /\ row' = row
<1> USE DEF Goes, GoesOrFails, Becomes, Written
<1>1. /\ pc \in [Request -> Ended \cup {"new"} \cup Steps]
      /\ seen \in [Request -> Row] /\ kind' = kind
      BY Advances DEF TypeInv, TypeOK, Steps
<1>2. pc[r] \in Ended \cup {"new"} \/ pc[r] \in StepsOf(r)
      BY DEF TypeInv, StepInv
<1>3. pc[r] \in Ended \cup {"new", "exists", "token", "verify", "read",
                            "write", "look", "keepCode"}
      BY <1>2, RecordedScript
<1>4. CASE Start(r)
      BY <1>1, <1>4, RecordedScript DEF Start
<1>5. CASE CountExisting(r) \/ CheckToken(r) \/ VerifyOTP(r)
  <2>1. /\ pc[r] \in StepsOf(r) \cap {"exists", "token", "verify"}
        /\ pc' = [pc EXCEPT ![r] = Script(r)[pc[r]]]
           \/ pc' = [pc EXCEPT ![r] = "failed"]
        BY <1>2, <1>5 DEF CountExisting, CheckToken, VerifyOTP, Ended
  <2> QED BY <1>1, <2>1, RecordedScript
<1>6. CASE Read(r)
  <2>1. /\ pc[r] \in StepsOf(r) /\ pc[r] = "read"
        /\ pc' = [pc EXCEPT ![r] = Script(r)["read"]]
           \/ pc' = [pc EXCEPT ![r] = "failed"]
        /\ seen'[r] = row /\ row' = row
        BY <1>1, <1>2, <1>6 DEF Read, Ended
  <2> QED BY <1>1, <2>1, RecordedScript
<1>7. CASE Write(r)
  <2>1. CASE row' = Updated(r) /\ pc' = [pc EXCEPT ![r] = Script(r)["write"]]
        BY <1>1, <1>7, <2>1, RecordedScript DEF Write
  <2>2. CASE pc' = [pc EXCEPT ![r] = "failed"]
        BY <1>1, <2>2
  <2> QED BY <1>7, <2>1, <2>2 DEF Write
<1>8. CASE GenerateOTP(r) \/ SetCode(r)
  <2>1. /\ pc[r] \in StepsOf(r) \cap {"look", "keepCode"}
        /\ row' = row
        /\ \/ pc' = [pc EXCEPT ![r] = Script(r)[pc[r]]]
           \/ pc' = [pc EXCEPT ![r] = "failed"]
           \/ pc' = [pc EXCEPT ![r] = "done"]
        BY <1>2, <1>8 DEF GenerateOTP, SetCode, Ended
  <2> QED BY <1>1, <2>1, RecordedScript
<1>9. CASE DeleteArrives(r)
  <2>1. UNCHANGED <<row, pc, seen>>
        BY <1>9 DEF DeleteArrives, local
  <2>2. pc[r] = "write" => ~Written(r)
        OBVIOUS
  <2> QED BY <1>1, <2>1, <2>2
<1>10. CASE Fails(r)
      BY <1>1, <1>10 DEF Fails
<1> QED BY <1>3, <1>4, <1>5, <1>6, <1>7, <1>8, <1>9, <1>10
        DEF Step, SetToken, GetProfile, KeepProfile, ProcessLogin,
            LookUpReservation, SetReservation, Ended

LEMMA HistoryInit == Init => HistoryInv
BY DEF Init, HistoryInv, Written

LEMMA HistoryStep ==
    TypeInv /\ MetInv /\ HistoryInv /\ [Next]_vars => HistoryInv'
<1> SUFFICES ASSUME TypeInv, MetInv, HistoryInv, [Next]_vars
             PROVE  HistoryInv'
    OBVIOUS
<1>1. ASSUME NEW r \in Request, Step(r) PROVE HistoryInv'
  <2>0. /\ kind' = kind /\ \A x \in Request \ {r} : pc'[x] = pc[x]
        /\ \A x \in Request \ {r} : seen'[x] = seen[x]
        /\ \A x \in Request : met[x] \subseteq met'[x]
        /\ kind[r] \in Kinds
        BY <1>1, Advances, Alone, Opens
  <2>1. \A x \in Request : RecorderMet(x) => RecorderMet(x)'
        BY <2>0 DEF RecorderMet
  <2> SUFFICES ASSUME NEW w \in Request, Written(w)', ~RecorderMet(w)'
               PROVE  /\ w \in row'.histories
                      /\ \A x \in Request \ {w} :
                            kind[x] \in Recorded /\ pc'[x] = "write"
                                => w \in seen'[x].histories
      BY <2>0 DEF HistoryInv
  <2>2. kind[w] \in Recorded /\ ~RecorderMet(w)
        BY <2>0, <2>1 DEF Written
  <2>3. CASE w = r /\ pc[w] = "write" /\ row' = Updated(w)
    <3>1. row'.histories = seen[w].histories \cup {w}
          BY <2>2, <2>3, RowType DEF Recorded, Cms
    <3>2. ASSUME NEW x \in Request \ {w}, kind[x] \in Recorded, pc'[x] = "write"
          PROVE  FALSE
      <4>1. Open(w) /\ Open(x)
            BY <2>0, <2>3, <3>2 DEF Open, Ended
      <4> QED BY <2>2, <3>2, <4>1 DEF MetInv, RecorderMet
    <3> QED BY <3>1, <3>2
  <2>4. CASE Written(w) /\ ~(w = r /\ pc[w] = "write")
    <3>1. /\ w \in row.histories
          /\ \A x \in Request \ {w} : kind[x] \in Recorded /\ pc[x] = "write"
                                         => w \in seen[x].histories
          BY <2>2, <2>4 DEF HistoryInv
    <3>2. w \in row'.histories
      <4>1. CASE row' = row
            BY <3>1, <4>1
      <4>2. CASE pc[r] = "write" /\ row' = Updated(r) /\ kind[r] = "google"
            BY <3>1, <4>2, RowType
      <4>3. CASE pc[r] = "write" /\ row' = Updated(r) /\ kind[r] # "google"
        <5>1. kind[r] \in Recorded
              BY <4>3, WhoTakes DEF TypeInv, StepInv, Ended
        <5>2. w # r
              BY <2>4, <4>3
        <5> QED BY <3>1, <4>3, <5>1, <5>2, RowType
      <4> QED BY <1>1, <4>1, <4>2, <4>3, RowChanges
    <3>3. ASSUME NEW x \in Request \ {w}, kind[x] \in Recorded, pc'[x] = "write"
          PROVE  w \in seen'[x].histories
      <4>1. CASE x # r
            BY <2>0, <3>1, <3>3, <4>1
      <4>2. CASE x = r
            BY <1>1, <3>1, <3>3, <4>2, RecordedSteps
      <4> QED BY <4>1, <4>2
    <3> QED BY <3>2, <3>3
  <2> QED
    <3>1. CASE w = r
          BY <1>1, <2>2, <2>3, <2>4, <3>1, RecordedSteps
    <3>2. CASE w # r
          BY <2>0, <2>4, <3>2 DEF Written
    <3> QED BY <3>1, <3>2
<1>2. ASSUME \A r \in Request : ~Step(r) PROVE HistoryInv'
  <2>1. /\ UNCHANGED <<row, kind, seen, met>>
        /\ \A x \in Request : pc'[x] = pc[x] \/ pc'[x] = "lost"
        BY <1>2, NothingOpens DEF local
  <2> QED BY <2>1 DEF HistoryInv, Written, RecorderMet
<1> QED BY <1>1, <1>2

\* The entry of a handler that has finished is lost only to one that records
\* and ran beside it.
THEOREM HistoryIsKept == Spec => []HistoryKept
<1>1. HistoryInv => HistoryKept
      BY DEF HistoryInv, HistoryKept, Written, RecorderMet
<1> QED BY <1>1, TypeInit, TypeStep, MetInit, MetStep, HistoryInit,
           HistoryStep, PTL DEF Spec

-----------------------------------------------------------------------------
(* What a step leaves of the tokens, the codes and the rest of Redis       *)

LEMMA Fields ==
    ASSUME TypeInv, NEW r \in Request, Step(r)
    PROVE  /\ \A x \in Request \ {r} : token'[x] = token[x] /\ proof'[x] = proof[x]
           /\ ~CheckToken(r) /\ ~LookUpReservation(r) => token' = token
           /\ ~VerifyOTP(r) => proof' = proof
           /\ stale \subseteq stale'
           /\ pc[r] \in Ended => pc'[r] = pc[r]
<1>0. TypeOK
      BY DEF TypeInv
<1>1. \A x \in Request \ {r} : token'[x] = token[x]
      BY <1>0 DEF Step, Start, CountExisting, CheckToken, VerifyOTP, Read, Write,
                  GenerateOTP, SetCode, SetToken, GetProfile, KeepProfile,
                  ProcessLogin, LookUpReservation, SetReservation, Fails,
                  DeleteArrives, local, TypeOK
<1>2. \A x \in Request \ {r} : proof'[x] = proof[x]
      BY <1>0 DEF Step, Start, CountExisting, CheckToken, VerifyOTP, Read, Write,
                  GenerateOTP, SetCode, SetToken, GetProfile, KeepProfile,
                  ProcessLogin, LookUpReservation, SetReservation, Fails,
                  DeleteArrives, TypeOK
<1>3. /\ ~CheckToken(r) /\ ~LookUpReservation(r) => token' = token
      /\ ~VerifyOTP(r) => proof' = proof
      BY DEF Step, Start, CountExisting, CheckToken, VerifyOTP, Read, Write,
             GenerateOTP, SetCode, SetToken, GetProfile, KeepProfile,
             ProcessLogin, LookUpReservation, SetReservation, Fails,
             DeleteArrives, local
<1>4. stale \subseteq stale'
      BY DEF Step, Start, CountExisting, CheckToken, VerifyOTP, Read, Write,
             GenerateOTP, SetCode, SetToken, GetProfile, KeepProfile,
             ProcessLogin, LookUpReservation, SetReservation, Fails,
             DeleteArrives
<1>5. pc[r] \in Ended => pc'[r] = pc[r]
      BY DEF Step, Start, CountExisting, CheckToken, VerifyOTP, Read, Write,
             GenerateOTP, SetCode, SetToken, GetProfile, KeepProfile,
             ProcessLogin, LookUpReservation, SetReservation, Fails,
             DeleteArrives, Ended
<1> QED BY <1>1, <1>2, <1>3, <1>4, <1>5

LEMMA RedisChanges ==
    ASSUME TypeInv, NEW r \in Request, Step(r)
    PROVE  /\ ~SetCode(r) /\ ~DeleteArrives(r) => otp' = otp
           /\ ~SetToken(r) /\ ~DeleteArrives(r) => tokens' = tokens
           /\ ~ProcessLogin(r) /\ ~DeleteArrives(r)
                 => access' = access /\ refresh' = refresh
           /\ ~SetReservation(r) => reserved' = reserved
           /\ overdue' = overdue
<1> USE DEF redis, session, codes, reservation
<1>1. CASE UNCHANGED redis
      BY <1>1
<1>2. CASE SetCode(r)
      BY <1>2 DEF SetCode, ProcessLogin, SetReservation
<1>3. CASE SetToken(r)
      BY <1>3 DEF SetToken
<1>4. CASE KeepProfile(r)
      BY <1>4 DEF KeepProfile, CacheProfile
<1>5. CASE ProcessLogin(r)
      BY <1>5 DEF ProcessLogin, SetAccess, SetRefresh
<1>6. CASE SetReservation(r)
      BY <1>6 DEF SetReservation, Reserve
<1>7. CASE DeleteArrives(r)
      BY <1>7 DEF DeleteArrives, Delete
<1> QED BY <1>1, <1>2, <1>3, <1>4, <1>5, <1>6, <1>7
        DEF Step, Start, CountExisting, CheckToken, VerifyOTP, Read, Write,
            GenerateOTP, GetProfile, LookUpReservation, Fails

\* A delete that arrives removes what it names, and nothing else.
LEMMA Deletes ==
    ASSUME TypeInv, NEW r \in Request, DeleteArrives(r)
    PROVE  \E what \in {"access", "refresh", "code", "token"} :
              /\ what \in unawaited[r]
              /\ unawaited' = [unawaited EXCEPT ![r] = @ \ {what}]
              /\ access' = IF what = "access" THEN None ELSE access
              /\ refresh' = IF what = "refresh" THEN None ELSE refresh
              /\ otp' = IF what = "code" THEN [otp EXCEPT ![key[r]] = None]
                        ELSE otp
              /\ tokens' = IF what = "token" THEN tokens \ {token[r]} ELSE tokens
              /\ UNCHANGED <<row, kind, pc, local, met, proof, stale>>
<1>1. PICK what \in unawaited[r] :
         /\ Delete(what, key[r], token[r])
         /\ unawaited' = [unawaited EXCEPT ![r] = @ \ {what}]
         /\ UNCHANGED <<row, kind, pc, local, met, proof, stale>>
      BY DEF DeleteArrives
<1>2. what \in {"access", "refresh", "code", "token"}
      BY DEF TypeInv, TypeOK
<1>3. CASE what = "access"
      BY <1>1, <1>3 DEF Delete, codes
<1>4. CASE what = "refresh"
      BY <1>1, <1>4 DEF Delete, codes
<1>5. CASE what = "code"
      BY <1>1, <1>5 DEF Delete, session
<1>6. CASE what = "token"
      BY <1>1, <1>6 DEF Delete, session
<1> QED BY <1>2, <1>3, <1>4, <1>5, <1>6

\* What else may happen adds nothing to Redis.  A request that a crash ends is
\* lost, and with it what it had not awaited.
LEMMA NothingAdded ==
    ASSUME TypeInv, [Next]_vars, \A r \in Request : ~Step(r)
    PROVE  /\ \A k \in Key : otp'[k] \in {otp[k], None}
           /\ tokens' \subseteq tokens
           /\ access' \in {access, None} /\ refresh' \in {refresh, None}
           /\ reserved' = reserved \/ reserved \in overdue
           /\ overdue \subseteq overdue'
           /\ proof' = proof /\ stale' = stale
           /\ \A x \in Request : pc'[x] = "lost" \/ unawaited'[x] = unawaited[x]
<1>1. CASE Crash
  <2> DEFINE Ends(p) == {x \in Request : Open(x) /\ ProcessOf(x) = p}
  <2>1. PICK p \in {"cms", "gateway", "authenticator"} :
           /\ pc' = [x \in Request |-> IF x \in Ends(p) THEN "lost" ELSE pc[x]]
           /\ unawaited' = [x \in Request |->
                               IF x \in Ends(p) THEN {} ELSE unawaited[x]]
        BY <1>1 DEF Crash
  <2>2. UNCHANGED <<redis, proof, stale>>
        BY <1>1 DEF Crash
  <2>3. \A x \in Request : pc'[x] = "lost" \/ unawaited'[x] = unawaited[x]
        BY <2>1 DEF TypeInv, TypeOK
  <2> QED BY <2>2, <2>3 DEF redis, session, codes, reservation
<1>2. CASE RedisMoves
  <2>1. UNCHANGED <<unawaited, proof, stale>>
        BY <1>2 DEF RedisMoves
  <2> USE DEF session, codes, reservation, TypeInv, TypeOK, SessionTypeOK
  <2>2. CASE ExpireSession
        BY <2>1, <2>2 DEF ExpireSession
  <2>3. CASE ExpireCode
        BY <2>1, <2>3 DEF ExpireCode
  <2>4. CASE ExpireReservation
        BY <2>1, <2>4 DEF ExpireReservation
  <2>5. CASE ResendTimePasses
        BY <2>1, <2>5 DEF ResendTimePasses
  <2>6. CASE \E r \in Reservations : ReservationPasses(r)
        BY <2>1, <2>6 DEF ReservationPasses
  <2> QED BY <1>2, <2>2, <2>3, <2>4, <2>5, <2>6 DEF RedisMoves, Expire
<1>3. CASE UNCHANGED vars
      BY <1>3 DEF vars, redis, session, codes, reservation
<1> QED BY <1>1, <1>2, <1>3 DEF Next

-----------------------------------------------------------------------------
(* Codes and the tokens that stand for them                                *)

\* How the handlers that make a code or a token go on from there.
LEMMA CodeScript ==
    ASSUME NEW r \in Request, kind[r] \in Kinds
    PROVE  /\ "keepCode" \in StepsOf(r)
                 => Script(r)["keepCode"] \in {"newToken", "done"}
           /\ "newToken" \in StepsOf(r) => Script(r)["newToken"] = "done"
<1>1. CASE kind[r] = "changeEmail"
      BY <1>1 DEF StepsOf, Script, ChangeEmail
<1>2. CASE kind[r] = "requestOtp"
      BY <1>2 DEF StepsOf, Script, ProcessOTP
<1>3. CASE kind[r] = "checkOtp"
      BY <1>3 DEF StepsOf, Script, CheckOTP
<1>4. CASE kind[r] \in Recorded \ {"changeEmail"}
  <2>1. "newToken" \notin StepsOf(r)
        BY <1>4, RecordedScript
  <2>2. CASE "keepCode" \in StepsOf(r)
        BY <1>4, <2>2, RecordedScript
  <2> QED BY <2>1, <2>2
<1>5. CASE kind[r] = "google"
      BY <1>5 DEF StepsOf, Script, ProcessSignInWithThirdParty, ReadAndWrite
<1>6. CASE kind[r] = "signIn"
      BY <1>6 DEF StepsOf, Script, VerifyPasscodeSignIn
<1>7. CASE kind[r] = "refresh"
      BY <1>7 DEF StepsOf, Script, RefreshToken
<1>8. CASE kind[r] \in {"preCheckPhone", "preCheckPhoneOtp"}
      BY <1>8 DEF StepsOf, Script, PreCheckPhone, PreCheckPhoneOtp
<1> QED BY <1>1, <1>2, <1>3, <1>4, <1>5, <1>6, <1>7, <1>8
        DEF Kinds, Recorded, Cms

\* Where a request that has made a code may stand.
Mailed == {"newToken"} \cup Ended

\* It stays there, and a request that makes one comes there; only one that is
\* done, or was lost since, has made a token.
LEMMA MailedStays ==
    ASSUME TypeInv, NEW r \in Request, Step(r)
    PROVE  /\ pc[r] \in Mailed => pc'[r] \in Mailed
           /\ SetCode(r) => pc[r] \notin Mailed /\ pc'[r] \in Mailed
           /\ SetToken(r) => pc[r] \notin Ended /\ pc'[r] = "done"
<1> USE DEF Goes, Becomes, Mailed, Ended
<1>0. /\ pc \in [Request -> Ended \cup {"new"} \cup Steps] /\ kind[r] \in Kinds
      BY Advances DEF TypeInv, TypeOK, Steps
<1>1. CASE SetCode(r)
  <2>1. pc[r] = "keepCode" /\ pc' = [pc EXCEPT ![r] = Script(r)["keepCode"]]
        BY <1>1 DEF SetCode
  <2>2. "keepCode" \in StepsOf(r)
        BY <2>1 DEF TypeInv, StepInv
  <2> QED BY <1>0, <2>1, <2>2, CodeScript DEF SetToken
<1>2. CASE SetToken(r)
  <2>1. pc[r] = "newToken" /\ pc' = [pc EXCEPT ![r] = Script(r)["newToken"]]
        BY <1>2 DEF SetToken
  <2>2. "newToken" \in StepsOf(r)
        BY <2>1 DEF TypeInv, StepInv
  <2> QED BY <1>0, <2>1, <2>2, CodeScript DEF SetCode
<1>3. CASE ~SetToken(r) /\ pc[r] = "newToken"
  <2>1. Fails(r) \/ DeleteArrives(r)
        BY <1>3 DEF Step, Start, CountExisting, CheckToken, VerifyOTP, Read,
                    Write, GenerateOTP, SetCode, GetProfile, KeepProfile,
                    ProcessLogin, LookUpReservation, SetReservation
  <2>2. CASE Fails(r)
        BY <1>0, <1>3, <2>2 DEF Fails, SetCode
  <2>3. CASE DeleteArrives(r)
        BY <1>0, <1>3, <2>3 DEF DeleteArrives, SetCode
  <2> QED BY <2>1, <2>2, <2>3
<1> QED BY <1>1, <1>2, <1>3, Fields

\* A code that is kept was made under its key.  One that a request has accepted
\* is cleared, or about to be: its timer runs, unless a crash has stopped it.
\* So two accept the same only if they met, or lost their timers.
CodeInv ==
    /\ \A k \in Key : otp[k] # None => pc[otp[k]] \in Mailed
    /\ \A x \in Request : proof[x] # None =>
          /\ pc[x] # "new" /\ pc[proof[x]] \in Mailed
          /\ otp[key[x]] = proof[x] => "code" \in unawaited[x] \/ pc[x] = "lost"
    /\ \A k, l \in Key : otp[k] = otp[l] /\ otp[k] # None => k = l
    /\ \A x \in Request, k \in Key :
          proof[x] # None /\ otp[k] = proof[x] => k = key[x]
    /\ \A x \in Request :
          /\ kind[x] \in {"checkOtp", "confirmEmail"}
          /\ pc[x] \in {"newToken", "read", "write", "done"}
          => proof[x] # None
    /\ \A r, x \in Request :
          r # x /\ proof[r] = proof[x] /\ proof[r] # None =>
              x \in met[r] \/ "lost" \in {pc[r], pc[x]}

\* A handler that answers to a code has accepted one.
LEMMA ProofSteps ==
    ASSUME TypeInv, NEW r \in Request, Step(r),
           kind[r] \in {"checkOtp", "confirmEmail"},
           pc'[r] \in {"newToken", "read", "write", "done"}
    PROVE  VerifyOTP(r) \/ pc[r] \in {"newToken", "read", "write", "done"}
<1> USE DEF Goes, GoesOrFails, Becomes
<1>1. CASE kind[r] = "checkOtp"
  <2>1. Script(r) = CheckOTP
        BY <1>1 DEF Script
  <2>2. pc[r] \in Ended \cup {"new", "token", "verify", "newToken"}
        BY <2>1 DEF TypeInv, StepInv, StepsOf, CheckOTP
  <2>3. pc \in [Request -> Ended \cup {"new"} \cup Steps]
        BY DEF TypeInv, TypeOK, Steps
  <2>4. CASE Start(r)
        BY <2>1, <2>3, <2>4 DEF Start, CheckOTP
  <2>5. CASE CheckToken(r)
        BY <2>1, <2>3, <2>5 DEF CheckToken, CheckOTP
  <2>6. CASE DeleteArrives(r)
        BY <2>6 DEF DeleteArrives
  <2>7. CASE Fails(r)
        BY <2>3, <2>7 DEF Fails
  <2> QED BY <2>2, <2>4, <2>5, <2>6, <2>7
          DEF Step, CountExisting, Read, Write, GenerateOTP, SetCode, SetToken,
              GetProfile, KeepProfile, ProcessLogin, LookUpReservation,
              SetReservation, Ended
<1>2. CASE kind[r] = "confirmEmail"
  <2>1. Script(r) = ConfirmEmail
        BY <1>2 DEF Script
  <2>2. pc[r] \in Ended \cup {"new", "verify", "read", "write"}
        BY <2>1 DEF TypeInv, StepInv, StepsOf, ConfirmEmail
  <2>3. pc \in [Request -> Ended \cup {"new"} \cup Steps]
        BY DEF TypeInv, TypeOK, Steps
  <2>4. CASE Start(r)
        BY <2>1, <2>3, <2>4 DEF Start, ConfirmEmail
  <2>5. CASE DeleteArrives(r)
        BY <2>5 DEF DeleteArrives
  <2>6. CASE Fails(r)
        BY <2>3, <2>6 DEF Fails
  <2> QED BY <2>2, <2>4, <2>5, <2>6
          DEF Step, CountExisting, CheckToken, Read, Write, GenerateOTP,
              SetCode, SetToken, GetProfile, KeepProfile, ProcessLogin,
              LookUpReservation, SetReservation, Ended
<1> QED BY <1>1, <1>2

LEMMA CodeInit == Init => CodeInv
BY AccountAssumption DEF Init, SessionInit, CodeInv

LEMMA CodeStep == TypeInv /\ MetInv /\ CodeInv /\ [Next]_vars => CodeInv'
<1> SUFFICES ASSUME TypeInv, MetInv, CodeInv, [Next]_vars PROVE CodeInv'
    OBVIOUS
<1>0. /\ otp \in [Key -> Request \cup {None}] /\ key \in [Request -> Key]
      /\ proof \in [Request -> Request \cup {None}] /\ None \notin Request
      /\ unawaited \in [Request -> SUBSET {"access", "refresh", "code", "token"}]
      /\ kind \in [Request -> Kinds \cup {"none"}]
      BY AccountAssumption DEF TypeInv, TypeOK, SessionTypeOK
<1>1. ASSUME NEW r \in Request, Step(r) PROVE CodeInv'
  <2>0. /\ kind' = kind /\ \A x \in Request \ {r} : pc'[x] = pc[x]
        /\ \A x \in Request \ {r} : unawaited'[x] = unawaited[x]
        /\ \A x \in Request : pc[x] # "new" => key'[x] = key[x]
        /\ \A x \in Request : met[x] \subseteq met'[x]
        /\ \A x \in Request : pc[x] \in Mailed => pc'[x] \in Mailed
        /\ \A x \in Request : pc[x] = "lost" => pc'[x] = "lost"
        /\ \A x \in Request : pc[x] # "new" => pc'[x] # "new"
    <3>1. pc[r] # "new" => key'[r] = key[r]
          BY <1>1, Alone DEF Start
    <3>2. pc'[r] # "new" \/ pc[r] = "new"
          BY <1>1, Advances, ScriptStays DEF Steps, Ended
    <3> QED BY <1>1, <3>1, <3>2, Advances, Alone, Opens, MailedStays, Fields
            DEF Ended
  <2>1. \A x \in Request :
           /\ kind[x] \in {"checkOtp", "confirmEmail"}
           /\ pc'[x] \in {"newToken", "read", "write", "done"}
           => \/ x = r /\ VerifyOTP(r)
              \/ pc[x] \in {"newToken", "read", "write", "done"}
        BY <1>1, <2>0, ProofSteps
  <2>2. CASE VerifyOTP(r)
    <3>1. /\ pc[r] = "verify" /\ otp[key[r]] # None /\ otp' = otp /\ key' = key
          /\ proof' = [proof EXCEPT ![r] = otp[key[r]]]
          /\ "code" \in unawaited'[r]
          BY <1>0, <2>2 DEF VerifyOTP, Issue, redis, codes, local
    <3>2. \A x \in Request \ {r} : proof[x] = otp[key[r]]
                       => \/ x \in met'[r] /\ r \in met'[x]
                          \/ pc'[x] = "lost"
      <4> SUFFICES ASSUME NEW x \in Request \ {r}, proof[x] = otp[key[r]],
                          pc[x] # "lost"
                   PROVE  x \in met[r] /\ r \in met[x]
          BY <2>0
      <4>1. key[r] = key[x] /\ "code" \in unawaited[x] /\ pc[x] # "new"
            BY <1>0, <3>1 DEF CodeInv
      <4>2. Open(x) /\ Open(r)
            BY <3>1, <4>1 DEF Open, Ended
      <4> QED BY <4>2 DEF MetInv
    <3>3. proof'[r] = otp[key[r]] /\ \A x \in Request \ {r} : proof'[x] = proof[x]
          BY <1>0, <3>1
    <3>4. \A x \in Request : proof'[x] # None =>
             /\ pc'[x] # "new" /\ pc'[proof'[x]] \in Mailed
             /\ otp'[key'[x]] = proof'[x]
                   => "code" \in unawaited'[x] \/ pc'[x] = "lost"
      <4>1. pc'[r] # "new" /\ pc'[proof'[r]] \in Mailed
            BY <1>0, <2>0, <3>1, <3>3 DEF CodeInv
      <4> QED BY <1>0, <2>0, <3>1, <3>3, <4>1 DEF CodeInv
    <3>5. \A k \in Key : otp'[k] # None => pc'[otp'[k]] \in Mailed
          BY <1>0, <2>0, <3>1 DEF CodeInv
    <3>6. /\ \A k, l \in Key : otp'[k] = otp'[l] /\ otp'[k] # None => k = l
          /\ \A x \in Request, k \in Key :
                proof'[x] # None /\ otp'[k] = proof'[x] => k = key'[x]
          BY <1>0, <3>1, <3>3 DEF CodeInv
    <3>7. \A x \in Request :
             /\ kind'[x] \in {"checkOtp", "confirmEmail"}
             /\ pc'[x] \in {"newToken", "read", "write", "done"}
             => proof'[x] # None
          BY <2>0, <2>1, <3>1, <3>3 DEF CodeInv
    <3>8. \A y, x \in Request :
             y # x /\ proof'[y] = proof'[x] /\ proof'[y] # None =>
                 x \in met'[y] \/ "lost" \in {pc'[y], pc'[x]}
          BY <2>0, <3>2, <3>3 DEF CodeInv
    <3> QED BY <3>4, <3>5, <3>6, <3>7, <3>8 DEF CodeInv
  <2>3. CASE SetCode(r)
    <3>1. /\ otp' = [otp EXCEPT ![key[r]] = r] /\ proof' = proof /\ key' = key
          /\ pc[r] \notin Mailed /\ pc'[r] \in Mailed /\ unawaited' = unawaited
          BY <1>1, <2>3, MailedStays DEF SetCode, KeepCode, local
    <3>2. \A k \in Key : otp'[k] = IF k = key[r] THEN r ELSE otp[k]
          BY <1>0, <3>1
    <3>3. \A x \in Request : proof[x] # r
          BY <1>0, <3>1 DEF CodeInv
    <3>4. \A k \in Key : otp[k] # r
          BY <1>0, <3>1 DEF CodeInv
    <3>5. \A k \in Key : otp'[k] # None => pc'[otp'[k]] \in Mailed
          BY <1>0, <2>0, <3>1, <3>2 DEF CodeInv
    <3>6. \A x \in Request : proof'[x] # None =>
             /\ pc'[x] # "new" /\ pc'[proof'[x]] \in Mailed
             /\ otp'[key'[x]] = proof'[x]
                   => "code" \in unawaited'[x] \/ pc'[x] = "lost"
          BY <1>0, <2>0, <3>1, <3>2, <3>3 DEF CodeInv
    <3>7. /\ \A k, l \in Key : otp'[k] = otp'[l] /\ otp'[k] # None => k = l
          /\ \A x \in Request, k \in Key :
                proof'[x] # None /\ otp'[k] = proof'[x] => k = key'[x]
          BY <1>0, <3>1, <3>2, <3>3, <3>4 DEF CodeInv
    <3>8. \A x \in Request :
             /\ kind'[x] \in {"checkOtp", "confirmEmail"}
             /\ pc'[x] \in {"newToken", "read", "write", "done"}
             => proof'[x] # None
          BY <2>0, <2>1, <2>3, <3>1 DEF CodeInv, VerifyOTP, SetCode
    <3>9. \A y, x \in Request :
             y # x /\ proof'[y] = proof'[x] /\ proof'[y] # None =>
                 x \in met'[y] \/ "lost" \in {pc'[y], pc'[x]}
          BY <2>0, <3>1 DEF CodeInv
    <3> QED BY <3>5, <3>6, <3>7, <3>8, <3>9 DEF CodeInv
  <2>4. CASE ~VerifyOTP(r) /\ ~SetCode(r)
    <3>1. proof' = proof
          BY <1>1, <2>4, Fields
    <3>2. /\ \A k \in Key : otp'[k] \in {otp[k], None}
          /\ \A x \in Request : proof[x] # None /\ otp'[key[x]] = proof[x]
                /\ "code" \in unawaited[x] => "code" \in unawaited'[x]
      <4>1. CASE DeleteArrives(r)
        <5>1. PICK what \in {"access", "refresh", "code", "token"} :
                 /\ unawaited' = [unawaited EXCEPT ![r] = @ \ {what}]
                 /\ otp' = IF what = "code" THEN [otp EXCEPT ![key[r]] = None]
                           ELSE otp
              BY <4>1, Deletes
        <5> QED BY <1>0, <5>1
      <4>2. CASE ~DeleteArrives(r)
        <5>1. otp' = otp
              BY <1>1, <2>4, <4>2, RedisChanges
        <5>2. unawaited[r] \subseteq unawaited'[r]
              BY <1>0, <1>1, <2>4, <4>2
                 DEF Step, Start, CountExisting, CheckToken, Read, Write,
                     GenerateOTP, SetToken, GetProfile, KeepProfile,
                     ProcessLogin, LookUpReservation, SetReservation, Fails,
                     Issue
        <5> QED BY <1>0, <2>0, <5>1, <5>2
      <4> QED BY <4>1, <4>2
    <3>3. \A k \in Key : otp'[k] # None => pc'[otp'[k]] \in Mailed
          BY <1>0, <2>0, <3>2 DEF CodeInv
    <3>4. \A x \in Request : proof'[x] # None =>
             /\ pc'[x] # "new" /\ pc'[proof'[x]] \in Mailed /\ key'[x] = key[x]
             /\ otp'[key'[x]] = proof'[x]
                   => "code" \in unawaited'[x] \/ pc'[x] = "lost"
          BY <1>0, <2>0, <3>1, <3>2 DEF CodeInv
    <3>5. /\ \A k, l \in Key : otp'[k] = otp'[l] /\ otp'[k] # None => k = l
          /\ \A x \in Request, k \in Key :
                proof'[x] # None /\ otp'[k] = proof'[x] => k = key'[x]
          BY <1>0, <3>1, <3>2, <3>4 DEF CodeInv
    <3>6. \A x \in Request :
             /\ kind'[x] \in {"checkOtp", "confirmEmail"}
             /\ pc'[x] \in {"newToken", "read", "write", "done"}
             => proof'[x] # None
          BY <2>0, <2>1, <2>4, <3>1 DEF CodeInv
    <3>7. \A y, x \in Request :
             y # x /\ proof'[y] = proof'[x] /\ proof'[y] # None =>
                 x \in met'[y] \/ "lost" \in {pc'[y], pc'[x]}
          BY <2>0, <3>1 DEF CodeInv
    <3> QED BY <3>3, <3>4, <3>5, <3>6, <3>7 DEF CodeInv
  <2> QED BY <2>2, <2>3, <2>4
<1>2. ASSUME \A r \in Request : ~Step(r) PROVE CodeInv'
  <2>1. /\ kind' = kind /\ key' = key /\ met' = met /\ proof' = proof
        /\ \A x \in Request : pc'[x] = pc[x] \/ pc'[x] = "lost"
        /\ \A k \in Key : otp'[k] \in {otp[k], None}
        /\ \A x \in Request : pc'[x] = "lost" \/ unawaited'[x] = unawaited[x]
        BY <1>2, NothingOpens, NothingAdded DEF local
  <2>2. /\ \A k \in Key : otp'[k] # None => pc'[otp'[k]] \in Mailed
        /\ \A k, l \in Key : otp'[k] = otp'[l] /\ otp'[k] # None => k = l
        /\ \A x \in Request, k \in Key :
              proof'[x] # None /\ otp'[k] = proof'[x] => k = key'[x]
        BY <1>0, <2>1 DEF CodeInv, Mailed, Ended
  <2>3. \A x \in Request : proof'[x] # None =>
           /\ pc'[x] # "new" /\ pc'[proof'[x]] \in Mailed
           /\ otp'[key'[x]] = proof'[x]
                 => "code" \in unawaited'[x] \/ pc'[x] = "lost"
        BY <1>0, <2>1 DEF CodeInv, Mailed, Ended
  <2>4. /\ \A x \in Request :
              /\ kind'[x] \in {"checkOtp", "confirmEmail"}
              /\ pc'[x] \in {"newToken", "read", "write", "done"}
              => proof'[x] # None
        /\ \A y, x \in Request :
              y # x /\ proof'[y] = proof'[x] /\ proof'[y] # None =>
                  x \in met'[y] \/ "lost" \in {pc'[y], pc'[x]}
        BY <2>1 DEF CodeInv
  <2> QED BY <2>2, <2>3, <2>4 DEF CodeInv
<1> QED BY <1>1, <1>2

\* A token that is kept was answered.  One that has reset the passcode is
\* deleted, or about to be; so two reset it with the same only if they met.
TokenInv ==
    /\ \A t \in tokens : pc[t] \in {"done", "lost"}
    /\ \A x \in Request :
          kind[x] = "resetPasscode" /\ pc[x] \in {"read", "write", "done"} =>
              /\ token[x] \in Request /\ pc[token[x]] \in {"done", "lost"}
              /\ \/ pc[x] = "read" \/ token[x] \notin tokens
                 \/ "token" \in unawaited[x]
    /\ \A r, x \in Request :
          /\ r # x /\ kind[r] = "resetPasscode" /\ kind[x] = "resetPasscode"
          /\ {pc[r], pc[x]} \subseteq {"read", "write", "done"}
          /\ token[r] = token[x]
          => x \in met[r]

\* A reset looks its token up, reads the row, which issues the delete, and
\* writes it.
LEMMA ResetSteps ==
    ASSUME TypeInv, NEW r \in Request, Step(r), kind[r] = "resetPasscode"
    PROVE  /\ pc'[r] \in {"read", "write", "done"} =>
                 \/ CheckToken(r) /\ pc'[r] = "read" /\ token'[r] \in tokens
                                  /\ token'[r] \in Request
                 \/ pc[r] \in {"read", "write", "done"} /\ token' = token
           /\ pc'[r] \in {"write", "done"} =>
                 \/ Read(r) /\ "token" \in unawaited'[r]
                 \/ pc[r] \in {"write", "done"}
<1> USE DEF Goes, GoesOrFails, Becomes
<1>1. Script(r) = ResetPasscode
      BY DEF Script
<1>2. pc[r] \in Ended \cup {"new", "token", "read", "write"}
      BY <1>1 DEF TypeInv, StepInv, StepsOf, ResetPasscode
<1>3. /\ pc \in [Request -> Ended \cup {"new"} \cup Steps]
      /\ token \in [Request -> Request \cup {None}]
      /\ unawaited \in [Request -> SUBSET {"access", "refresh", "code", "token"}]
      BY DEF TypeInv, TypeOK, Steps
<1>4. CASE Start(r)
      BY <1>1, <1>3, <1>4 DEF Start, ResetPasscode
<1>5. CASE CheckToken(r)
  <2>1. PICK t \in Presented(r) :
           /\ token' = [token EXCEPT ![r] = t]
           /\ GoesOrFails(r, "token", t \in tokens)
        BY <1>5 DEF CheckToken
  <2>2. t \in Request
        BY <1>5, PresentedType DEF CheckToken
  <2> QED BY <1>1, <1>3, <1>5, <2>1, <2>2 DEF ResetPasscode
<1>6. CASE Read(r)
  <2>1. token' = token /\ pc[r] = "read"
        BY <1>6 DEF Read
  <2>2. CASE Accepts(r)
        BY <1>1, <1>3, <1>6, <2>1, <2>2 DEF Read, Issue, ResetPasscode
  <2>3. CASE ~Accepts(r)
        BY <1>1, <1>3, <1>6, <2>1, <2>3 DEF Read, ResetPasscode
  <2> QED BY <2>2, <2>3
<1>7. CASE Write(r)
      BY <1>1, <1>3, <1>7 DEF Write, ResetPasscode, local
<1>8. CASE DeleteArrives(r)
      BY <1>8 DEF DeleteArrives, local
<1>9. CASE Fails(r)
      BY <1>3, <1>9 DEF Fails
<1> QED BY <1>2, <1>4, <1>5, <1>6, <1>7, <1>8, <1>9
        DEF Step, CountExisting, VerifyOTP, GenerateOTP, SetCode, SetToken,
            GetProfile, KeepProfile, ProcessLogin, LookUpReservation,
            SetReservation, Ended

LEMMA TokenInit == Init => TokenInv
BY DEF Init, SessionInit, TokenInv

LEMMA TokenStep == TypeInv /\ MetInv /\ TokenInv /\ [Next]_vars => TokenInv'
<1> SUFFICES ASSUME TypeInv, MetInv, TokenInv, [Next]_vars PROVE TokenInv'
    OBVIOUS
<1>0. /\ tokens \subseteq Request /\ token \in [Request -> Request \cup {None}]
      /\ unawaited \in [Request -> SUBSET {"access", "refresh", "code", "token"}]
      BY DEF TypeInv, TypeOK, SessionTypeOK
<1>1. ASSUME NEW r \in Request, Step(r) PROVE TokenInv'
  <2>0. /\ kind' = kind /\ \A x \in Request \ {r} : pc'[x] = pc[x]
        /\ \A x \in Request \ {r} : /\ unawaited'[x] = unawaited[x]
                                    /\ token'[x] = token[x]
        /\ \A x \in Request : met[x] \subseteq met'[x]
        /\ \A x \in Request : pc[x] \in {"done", "lost"} => pc'[x] = pc[x]
        BY <1>1, Advances, Alone, Opens, Fields DEF Ended
  <2>1. tokens' \subseteq tokens \cup {r}
    <3>1. CASE DeleteArrives(r)
          BY <3>1, Deletes
    <3>2. CASE SetToken(r)
          BY <3>2 DEF SetToken
    <3> QED BY <1>1, <3>1, <3>2, RedisChanges
  <2>2. r \in tokens' => r \in tokens \/ SetToken(r)
    <3>1. CASE DeleteArrives(r)
          BY <3>1, Deletes
    <3> QED BY <1>1, <3>1, RedisChanges
  <2>3. SetToken(r) => pc[r] \notin Ended /\ pc'[r] = "done"
        BY <1>1, MailedStays
  <2>4. \A t \in tokens' : pc'[t] \in {"done", "lost"}
        BY <1>0, <2>0, <2>1, <2>2, <2>3 DEF TokenInv
  <2>5. \A x \in Request :
           kind[x] = "resetPasscode" /\ pc'[x] \in {"read", "write", "done"} =>
              /\ token'[x] \in Request /\ pc[token'[x]] \in {"done", "lost"}
        BY <1>1, <2>0, ResetSteps DEF TokenInv
  <2>6. \A t \in Request : pc[t] \in {"done", "lost"} /\ t \in tokens'
                              => t \in tokens
        BY <2>1, <2>2, <2>3 DEF Ended
  <2>7. ASSUME NEW x \in Request, kind[x] = "resetPasscode",
               pc'[x] \in {"write", "done"}
        PROVE  token'[x] \notin tokens' \/ "token" \in unawaited'[x]
    <3>1. CASE x # r
          BY <2>0, <2>5, <2>6, <2>7, <3>1 DEF TokenInv
    <3>2. CASE x = r /\ DeleteArrives(r)
      <4>1. PICK what \in {"access", "refresh", "code", "token"} :
               /\ unawaited' = [unawaited EXCEPT ![r] = @ \ {what}]
               /\ tokens' = IF what = "token" THEN tokens \ {token[r]} ELSE tokens
               /\ pc' = pc /\ token' = token
            BY <3>2, Deletes DEF local
      <4> QED BY <1>0, <2>7, <3>2, <4>1 DEF TokenInv
    <3>3. CASE x = r /\ ~DeleteArrives(r) /\ ~Read(r)
      <4>1. pc[r] \in {"write", "done"} /\ token' = token
            BY <1>1, <2>7, <3>3, ResetSteps
      <4>2. unawaited[r] \subseteq unawaited'[r]
            BY <1>0, <1>1, <3>3
               DEF Step, Start, CountExisting, CheckToken, VerifyOTP, Write,
                   GenerateOTP, SetCode, SetToken, GetProfile, KeepProfile,
                   ProcessLogin, LookUpReservation, SetReservation, Fails, Issue
      <4> QED BY <2>5, <2>6, <2>7, <3>3, <4>1, <4>2 DEF TokenInv
    <3>4. CASE x = r /\ Read(r)
      <4>1. pc[r] = "read"
            BY <3>4 DEF Read
      <4> QED BY <1>1, <2>7, <3>4, <4>1, ResetSteps
    <3> QED BY <3>1, <3>2, <3>3, <3>4
  <2>8. ASSUME NEW y \in Request, NEW x \in Request, y # x,
               kind[y] = "resetPasscode", kind[x] = "resetPasscode",
               {pc'[y], pc'[x]} \subseteq {"read", "write", "done"},
               token'[y] = token'[x]
        PROVE  x \in met'[y]
    <3>1. ASSUME NEW z \in Request \ {r}, kind[r] = "resetPasscode",
                 kind[z] = "resetPasscode",
                 pc'[z] \in {"read", "write", "done"}, token'[r] = token[z],
                 CheckToken(r), token'[r] \in tokens
          PROVE  r \in met'[z] /\ z \in met'[r]
      <4>1. pc[z] = "read" \/ "token" \in unawaited[z]
            BY <2>0, <3>1 DEF TokenInv
      <4>2. pc[z] # "new" /\ pc[r] = "token"
            BY <2>0, <3>1 DEF CheckToken
      <4>3. Open(z) /\ Open(r)
            BY <4>1, <4>2 DEF Open, Ended
      <4> QED BY <2>0, <3>1, <4>3 DEF MetInv
    <3>2. CASE y # r /\ x # r
          BY <2>0, <2>8, <3>2 DEF TokenInv
    <3>3. CASE (y = r \/ x = r) /\ CheckToken(r)
      <4>1. token'[r] \in tokens
        <5>1. pc'[r] \in {"read", "write", "done"} /\ kind[r] = "resetPasscode"
              BY <2>8, <3>3
        <5>2. pc[r] = "token"
              BY <3>3 DEF CheckToken
        <5> QED BY <1>1, <5>1, <5>2, ResetSteps
      <4> QED BY <2>0, <2>8, <3>1, <3>3, <4>1
    <3>4. CASE (y = r \/ x = r) /\ ~CheckToken(r)
          BY <1>1, <2>0, <2>8, <3>4, ResetSteps DEF TokenInv
    <3> QED BY <3>2, <3>3, <3>4
  <2>9. \A x \in Request :
           kind[x] = "resetPasscode" /\ pc'[x] \in {"read", "write", "done"} =>
              /\ token'[x] \in Request /\ pc'[token'[x]] \in {"done", "lost"}
        BY <2>0, <2>5
  <2> QED BY <2>0, <2>4, <2>7, <2>8, <2>9 DEF TokenInv
<1>2. ASSUME \A r \in Request : ~Step(r) PROVE TokenInv'
  <2>1. /\ kind' = kind /\ met' = met /\ token' = token
        /\ \A x \in Request : pc'[x] = pc[x] \/ pc'[x] = "lost"
        /\ tokens' \subseteq tokens
        /\ \A x \in Request : pc'[x] = "lost" \/ unawaited'[x] = unawaited[x]
        BY <1>2, NothingOpens, NothingAdded DEF local
  <2> QED BY <1>0, <2>1 DEF TokenInv
<1> QED BY <1>1, <1>2

\* A code is accepted once, and its token resets the passcode once, but for
\* requests that ran beside each other and for timers lost in a crash.
THEOREM ProofIsUsedOnce == Spec => []ProofUsedOnce
<1>1. TypeInv /\ CodeInv /\ TokenInv => ProofUsedOnce
  <2> SUFFICES ASSUME TypeInv, CodeInv, TokenInv,
                      NEW r \in Request, NEW x \in Request, r # x,
                      pc[r] = "done", pc[x] = "done", x \notin met[r]
               PROVE  /\ {kind[r], kind[x]} \subseteq {"checkOtp", "confirmEmail"}
                            => proof[r] # proof[x]
                      /\ {kind[r], kind[x]} = {"resetPasscode"}
                            => token[r] # token[x]
      BY DEF ProofUsedOnce
  <2>1. ASSUME {kind[r], kind[x]} \subseteq {"checkOtp", "confirmEmail"}
        PROVE  proof[r] # proof[x]
        BY <2>1 DEF CodeInv
  <2>2. ASSUME {kind[r], kind[x]} = {"resetPasscode"}
        PROVE  token[r] # token[x]
        BY <2>2 DEF TokenInv
  <2> QED BY <2>1, <2>2
<1> QED BY <1>1, TypeInit, TypeStep, MetInit, MetStep, CodeInit, CodeStep,
           TokenInit, TokenStep, PTL DEF Spec

-----------------------------------------------------------------------------
(* Sessions of a locked account                                            *)

LockMet(r) == \E l \in met[r] : kind[l] = "lock"

\* A login that has found the account active, in the row or in a profile.
Admitted(r) == \/ pc[r] \in {"setAccess", "setRefresh"}
               \/ pc[r] = "cacheProfile" /\ seen[r].status = "ACTIVE"

AdmittedInv ==
    row.status = "INACTIVE" =>
        \A r \in Request : Admitted(r) => r \in stale \/ LockMet(r)

Held(what) == IF what = "access" THEN access ELSE refresh

\* A lock has this delete under way, or lost it in a crash.
Ending(what) == \E l \in Request : /\ kind[l] = "lock"
                                   /\ what \in unawaited[l] \/ pc[l] = "lost"

\* Before a lock writes, it has deleted the token, is about to, or has met the
\* login that set it.
HeldInv ==
    \A what \in {"access", "refresh"} : Held(what) # None =>
        /\ row.status = "INACTIVE" =>
              Held(what) \in stale \/ LockMet(Held(what)) \/ Ending(what)
        /\ \A l \in Request :
              kind[l] = "lock" /\ pc[l] = "write" =>
                  what \in unawaited[l] \/ l \in met[Held(what)]

LockInv == AdmittedInv /\ HeldInv

\* Only locks and unlocks change the status.
LEMMA StatusWritten ==
    ASSUME TypeInv, NEW r \in Request, pc[r] = "write",
           Updated(r).status = "INACTIVE"
    PROVE  row.status = "INACTIVE" \/ kind[r] = "lock"
<1>0. row \in Row /\ kind[r] \in Recorded \cup {"google"}
      BY WhoTakes DEF TypeInv, TypeOK, StepInv, Ended
<1>1. Entered(r).status = row.status
      BY <1>0 DEF Entered, Row
<1>2. [Entered(r) EXCEPT !.status = "ACTIVE"].status = "ACTIVE"
      BY <1>0 DEF Entered, Row
<1>3. kind[r] # "unlock"
      BY <1>2 DEF Updated
<1>4. CASE kind[r] = "confirmPhone"
      BY <1>0, <1>1, <1>4 DEF Updated, Entered, Row
<1>5. CASE kind[r] = "changePhone"
      BY <1>0, <1>1, <1>5 DEF Updated, Entered, Row
<1>6. CASE kind[r] = "changeEmail"
      BY <1>0, <1>1, <1>6 DEF Updated, Entered, Row
<1>7. CASE kind[r] = "confirmEmail"
      BY <1>0, <1>1, <1>7 DEF Updated, Entered, Row
<1>8. CASE kind[r] \in {"editPasscode", "resetPasscode", "cmsReset"}
      BY <1>0, <1>1, <1>8 DEF Updated, Entered, Row
<1>9. CASE kind[r] = "upgrade"
      BY <1>0, <1>1, <1>9 DEF Updated, Entered, Row
<1>10. CASE kind[r] = "google"
      BY <1>0, <1>10 DEF Updated, Row
<1> QED BY <1>0, <1>3, <1>4, <1>5, <1>6, <1>7, <1>8, <1>9, <1>10
        DEF Recorded, Cms

\* Only the gateway's handlers log in.
LEMMA LoginScript ==
    ASSUME NEW r \in Request, kind[r] \in Kinds,
           {"setAccess", "setRefresh", "cacheProfile"} \cap StepsOf(r) # {}
    PROVE  kind[r] \in Gateway
<1>1. CASE kind[r] \in Recorded
      BY <1>1, RecordedScript
<1>2. CASE kind[r] = "google"
      BY <1>2 DEF StepsOf, Script, ProcessSignInWithThirdParty, ReadAndWrite
<1>3. CASE kind[r] = "requestOtp"
      BY <1>3 DEF StepsOf, Script, ProcessOTP
<1>4. CASE kind[r] = "checkOtp"
      BY <1>4 DEF StepsOf, Script, CheckOTP
<1>5. CASE kind[r] \in {"preCheckPhone", "preCheckPhoneOtp"}
      BY <1>5 DEF StepsOf, Script, PreCheckPhone, PreCheckPhoneOtp
<1> QED BY <1>1, <1>2, <1>3, <1>4, <1>5 DEF Kinds, Gateway, Recorded, Cms

\* A login is admitted while the account is active, or on a stale profile.
LEMMA AdmittedSteps ==
    ASSUME TypeInv, NEW r \in Request, Step(r), Admitted(r)'
    PROVE  /\ kind[r] \in Gateway
           /\ \/ Admitted(r)
              \/ row' = row /\ (row.status = "ACTIVE" \/ r \in stale')
<1> USE DEF Goes, GoesOrFails, Becomes, Admitted
<1>0. /\ pc \in [Request -> Ended \cup {"new"} \cup Steps]
      /\ seen \in [Request -> Row] /\ kind[r] \in Kinds /\ stale \subseteq Request
      BY Advances DEF TypeInv, TypeOK, Steps
<1>1. kind[r] \in Gateway
  <2>1. pc'[r] \in {"setAccess", "setRefresh", "cacheProfile"}
        OBVIOUS
  <2>2. pc'[r] \in StepsOf(r)
        BY <2>1, Advances DEF TypeInv, StepInv, Ended
  <2> QED BY <1>0, <2>1, <2>2, LoginScript
<1>2. CASE kind[r] = "signIn"
  <2>1. Script(r) = VerifyPasscodeSignIn
        BY <1>2 DEF Script
  <2>2. pc[r] \in Ended \cup {"new", "read", "setAccess", "setRefresh"}
        BY <2>1 DEF TypeInv, StepInv, StepsOf, VerifyPasscodeSignIn
  <2>3. CASE Start(r)
        BY <1>0, <2>1, <2>3 DEF Start, VerifyPasscodeSignIn
  <2>4. CASE Read(r)
    <3>1. Accepts(r)
          BY <1>0, <2>4 DEF Read
    <3>2. row.status = "ACTIVE"
          BY <1>2, <3>1 DEF Accepts
    <3> QED BY <1>1, <2>4, <3>2 DEF Read
  <2>5. CASE ProcessLogin(r)
        BY <1>1, <2>5 DEF ProcessLogin
  <2>6. CASE DeleteArrives(r)
        BY <1>1, <2>6 DEF DeleteArrives, local
  <2>7. CASE Fails(r)
        BY <1>0, <2>7 DEF Fails
  <2> QED BY <2>2, <2>3, <2>4, <2>5, <2>6, <2>7
          DEF Step, CountExisting, CheckToken, VerifyOTP, Write, GenerateOTP,
              SetCode, SetToken, GetProfile, KeepProfile, LookUpReservation,
              SetReservation, Ended
<1>3. CASE kind[r] = "refresh"
  <2>1. Script(r) = RefreshToken
        BY <1>3 DEF Script
  <2>2. pc[r] \in Ended \cup {"new", "token", "profile", "cacheProfile",
                              "setAccess", "setRefresh"}
        BY <2>1 DEF TypeInv, StepInv, StepsOf, RefreshToken
  <2>3. CASE Start(r)
        BY <1>0, <2>1, <2>3 DEF Start, RefreshToken
  <2>4. CASE CheckToken(r)
    <3>1. \/ pc' = [pc EXCEPT ![r] = "profile"] \/ pc' = [pc EXCEPT ![r] = "failed"]
          BY <2>1, <2>4 DEF CheckToken, RefreshToken
    <3> QED BY <1>0, <3>1
  <2>5. CASE GetProfile(r)
    <3>1. CASE profile # None
      <4>1. profile = "ACTIVE"
            BY <1>0, <2>5, <3>1 DEF GetProfile
      <4> QED BY <1>1, <2>5, <3>1, <4>1 DEF GetProfile
    <3>2. CASE profile = None
          BY <1>0, <1>1, <2>5, <3>2 DEF GetProfile
    <3> QED BY <3>1, <3>2
  <2>6. CASE KeepProfile(r)
        BY <1>0, <1>1, <2>6 DEF KeepProfile
  <2>7. CASE ProcessLogin(r)
        BY <1>1, <2>7 DEF ProcessLogin
  <2>8. CASE DeleteArrives(r)
        BY <1>1, <2>8 DEF DeleteArrives, local
  <2>9. CASE Fails(r)
        BY <1>0, <2>9 DEF Fails
  <2> QED BY <2>2, <2>3, <2>4, <2>5, <2>6, <2>7, <2>8, <2>9
          DEF Step, CountExisting, VerifyOTP, Read, Write, GenerateOTP,
              SetCode, SetToken, LookUpReservation, SetReservation, Ended
<1> QED BY <1>1, <1>2, <1>3 DEF Gateway

\* A lock comes to its write by the read that issues both deletes.
LEMMA LockSteps ==
    ASSUME TypeInv, NEW r \in Request, Step(r), kind[r] = "lock",
           pc'[r] = "write"
    PROVE  {"access", "refresh"} \subseteq unawaited'[r] \/ pc[r] = "write"
<1> USE DEF Goes, GoesOrFails, Becomes
<1>0. /\ pc \in [Request -> Ended \cup {"new"} \cup Steps]
      /\ unawaited \in [Request -> SUBSET {"access", "refresh", "code", "token"}]
      BY DEF TypeInv, TypeOK, Steps
<1>1. Script(r) = ReadAndWrite
      BY DEF Script, UpdateAccount
<1>2. pc[r] \in Ended \cup {"new", "read", "write"}
      BY <1>1 DEF TypeInv, StepInv, StepsOf, ReadAndWrite
<1>3. CASE Start(r)
      BY <1>0, <1>1, <1>3 DEF Start, ReadAndWrite
<1>4. CASE Read(r)
  <2>1. Accepts(r)
        BY <1>0, <1>4 DEF Read
  <2> QED BY <1>0, <1>4, <2>1 DEF Read, Issue
<1>5. CASE DeleteArrives(r)
      BY <1>5 DEF DeleteArrives
<1>6. CASE Fails(r)
      BY <1>0, <1>6 DEF Fails
<1> QED BY <1>2, <1>3, <1>4, <1>5, <1>6
        DEF Step, CountExisting, CheckToken, VerifyOTP, Write, GenerateOTP,
            SetCode, SetToken, GetProfile, KeepProfile, ProcessLogin,
            LookUpReservation, SetReservation, Ended

\* A token is set by a login that was admitted, and is gone when a delete of
\* it arrives.
LEMMA HeldSteps ==
    ASSUME TypeInv, NEW r \in Request, Step(r),
           NEW what \in {"access", "refresh"}, Held(what)' # None
    PROVE  \/ /\ Held(what)' = r /\ pc[r] \in {"setAccess", "setRefresh"}
              /\ row' = row
           \/ /\ Held(what)' = Held(what)
              /\ \A l \in Request : what \in unawaited[l] => what \in unawaited'[l]
<1> USE DEF Held
<1>0. unawaited \in [Request -> SUBSET {"access", "refresh", "code", "token"}]
      BY DEF TypeInv, TypeOK
<1>1. CASE DeleteArrives(r)
  <2>1. PICK d \in {"access", "refresh", "code", "token"} :
           /\ unawaited' = [unawaited EXCEPT ![r] = @ \ {d}]
           /\ access' = IF d = "access" THEN None ELSE access
           /\ refresh' = IF d = "refresh" THEN None ELSE refresh
        BY <1>1, Deletes
  <2> QED BY <1>0, <2>1
<1>2. CASE ProcessLogin(r)
  <2>1. \/ Held(what)' = r \/ Held(what)' = Held(what)
        BY <1>2 DEF ProcessLogin, SetAccess, SetRefresh
  <2> QED BY <1>2, <2>1 DEF ProcessLogin
<1>3. CASE ~DeleteArrives(r) /\ ~ProcessLogin(r)
  <2>1. Held(what)' = Held(what)
        BY <1>3, RedisChanges
  <2>2. unawaited[r] \subseteq unawaited'[r]
        BY <1>0, <1>3
           DEF Step, Start, CountExisting, CheckToken, VerifyOTP, Read, Write,
               GenerateOTP, SetCode, SetToken, GetProfile, KeepProfile,
               LookUpReservation, SetReservation, Fails, Issue
  <2> QED BY <2>1, <2>2, Alone
<1> QED BY <1>1, <1>2, <1>3

LEMMA LockInit == Init => LockInv
BY DEF Init, SessionInit, NewRow, LockInv, AdmittedInv, HeldInv, Held

LEMMA LockStep == TypeInv /\ MetInv /\ LockInv /\ [Next]_vars => LockInv'
<1> SUFFICES ASSUME TypeInv, MetInv, LockInv, [Next]_vars PROVE LockInv'
    OBVIOUS
<1>0. access \in Request \cup {None} /\ refresh \in Request \cup {None}
      BY DEF TypeInv, TypeOK, SessionTypeOK
<1>1. ASSUME NEW r \in Request, Step(r) PROVE LockInv'
  <2>0. /\ kind' = kind /\ \A x \in Request \ {r} : pc'[x] = pc[x]
        /\ \A x \in Request \ {r} : seen'[x] = seen[x]
        /\ \A x \in Request : met[x] \subseteq met'[x]
        /\ stale \subseteq stale'
        /\ \A x \in Request : pc[x] = "lost" => pc'[x] = "lost"
        BY <1>1, Advances, Alone, Opens, Fields DEF Ended
  <2>1. \A x \in Request : LockMet(x) => LockMet(x)'
        BY <2>0 DEF LockMet
  <2>2. row'.status = "INACTIVE" =>
           \/ row.status = "INACTIVE"
           \/ kind[r] = "lock" /\ pc[r] = "write"
        BY <1>1, RowChanges, StatusWritten
  <2>3. AdmittedInv'
    <3> SUFFICES ASSUME row'.status = "INACTIVE", NEW x \in Request, Admitted(x)'
                 PROVE  x \in stale' \/ LockMet(x)'
        BY DEF AdmittedInv
    <3>1. CASE x # r
      <4>1. Admitted(x)
            BY <2>0, <3>1 DEF Admitted
      <4>2. CASE row.status = "INACTIVE"
            BY <2>0, <2>1, <4>1, <4>2 DEF LockInv, AdmittedInv
      <4>3. CASE kind[r] = "lock" /\ pc[r] = "write"
        <5>1. Open(x) /\ Open(r)
              BY <4>1, <4>3 DEF Admitted, Open, Ended
        <5>2. r \in met[x]
              BY <3>1, <5>1 DEF MetInv
        <5> QED BY <2>1, <4>3, <5>2 DEF LockMet
      <4> QED BY <2>2, <4>2, <4>3
    <3>2. CASE x = r
      <4>1. kind[r] # "lock"
            BY <1>1, <3>2, AdmittedSteps DEF Gateway
      <4>2. row.status = "INACTIVE"
            BY <2>2, <4>1
      <4> QED BY <1>1, <2>0, <2>1, <3>2, <4>2, AdmittedSteps
              DEF LockInv, AdmittedInv
    <3> QED BY <3>1, <3>2
  <2>4. HeldInv'
    <3> SUFFICES ASSUME NEW what \in {"access", "refresh"}, Held(what)' # None
                 PROVE  /\ row'.status = "INACTIVE" =>
                              \/ Held(what)' \in stale' \/ LockMet(Held(what))'
                              \/ Ending(what)'
                        /\ \A l \in Request : kind'[l] = "lock" /\ pc'[l] = "write" =>
                              what \in unawaited'[l] \/ l \in met'[Held(what)']
        BY DEF HeldInv
    <3>1. CASE /\ Held(what)' = r /\ pc[r] \in {"setAccess", "setRefresh"}
               /\ row' = row
      <4>1. row'.status = "INACTIVE" => r \in stale' \/ LockMet(r)'
            BY <2>0, <2>1, <3>1 DEF LockInv, AdmittedInv, Admitted
      <4>2. ASSUME NEW l \in Request, kind[l] = "lock", pc'[l] = "write"
            PROVE  l \in met'[r]
        <5>1. l # r
          <6>1. kind[r] \in Gateway
            <7>1. pc[r] \in StepsOf(r) /\ kind[r] \in Kinds
                  BY <3>1 DEF TypeInv, StepInv, Ended
            <7> QED BY <3>1, <7>1, LoginScript
          <6> QED BY <4>2, <6>1 DEF Gateway
        <5>2. Open(l) /\ Open(r)
              BY <2>0, <3>1, <4>2, <5>1 DEF Open, Ended
        <5> QED BY <2>0, <5>1, <5>2 DEF MetInv
      <4>3. LockMet(r)' => LockMet(Held(what))'
            BY <3>1 DEF LockMet
      <4> QED BY <2>0, <3>1, <4>1, <4>2, <4>3
    <3>2. CASE /\ Held(what)' = Held(what)
               /\ \A l \in Request : what \in unawaited[l] => what \in unawaited'[l]
      <4>0. Held(what) \in Request /\ Held(what) # None
            BY <1>0, <3>2 DEF Held
      <4>1. Ending(what) => Ending(what)'
            BY <2>0, <3>2 DEF Ending
      <4>2. LockMet(Held(what)) => LockMet(Held(what))'
            BY <2>0, <3>2, <4>0 DEF LockMet
      <4>3. ASSUME row'.status = "INACTIVE"
            PROVE  \/ Held(what)' \in stale' \/ LockMet(Held(what))'
                   \/ Ending(what)'
        <5>1. CASE row.status = "INACTIVE"
              BY <2>0, <3>2, <4>0, <4>1, <4>2, <5>1 DEF LockInv, HeldInv
        <5>2. CASE kind[r] = "lock" /\ pc[r] = "write"
          <6>1. what \in unawaited[r] \/ r \in met[Held(what)]
                BY <4>0, <5>2 DEF LockInv, HeldInv
          <6>2. CASE what \in unawaited[r]
                BY <4>1, <5>2, <6>2 DEF Ending
          <6>3. CASE r \in met[Held(what)]
                BY <4>2, <5>2, <6>3 DEF LockMet
          <6> QED BY <6>1, <6>2, <6>3
        <5> QED BY <2>2, <4>3, <5>1, <5>2
      <4>4. ASSUME NEW l \in Request, kind[l] = "lock", pc'[l] = "write"
            PROVE  what \in unawaited'[l] \/ l \in met'[Held(what)']
        <5>1. CASE pc[l] = "write"
              BY <2>0, <3>2, <4>0, <4>4, <5>1 DEF LockInv, HeldInv
        <5>2. CASE pc[l] # "write"
              BY <1>1, <2>0, <4>4, <5>2, LockSteps
        <5> QED BY <5>1, <5>2
      <4> QED BY <2>0, <4>3, <4>4
    <3> QED BY <1>1, <3>1, <3>2, HeldSteps
  <2> QED BY <2>3, <2>4 DEF LockInv
<1>2. ASSUME \A r \in Request : ~Step(r) PROVE LockInv'
  <2>1. /\ UNCHANGED <<row, kind, seen, met, stale>>
        /\ \A x \in Request : pc'[x] = pc[x] \/ pc'[x] = "lost"
        /\ access' \in {access, None} /\ refresh' \in {refresh, None}
        /\ \A x \in Request : pc'[x] = "lost" \/ unawaited'[x] = unawaited[x]
        BY <1>2, NothingOpens, NothingAdded DEF local
  <2>2. AdmittedInv'
        BY <2>1 DEF LockInv, AdmittedInv, Admitted, LockMet
  <2>3. HeldInv'
    <3> SUFFICES ASSUME NEW what \in {"access", "refresh"}, Held(what)' # None
                 PROVE  /\ row'.status = "INACTIVE" =>
                              \/ Held(what)' \in stale' \/ LockMet(Held(what))'
                              \/ Ending(what)'
                        /\ \A l \in Request : kind'[l] = "lock" /\ pc'[l] = "write" =>
                              what \in unawaited'[l] \/ l \in met'[Held(what)']
        BY DEF HeldInv
    <3>1. Held(what)' = Held(what) /\ Held(what) # None
          BY <2>1 DEF Held
    <3>2. Ending(what) => Ending(what)'
          BY <2>1 DEF Ending
    <3>3. LockMet(Held(what)) => LockMet(Held(what))'
          BY <2>1, <3>1 DEF LockMet
    <3> QED BY <2>1, <3>1, <3>2, <3>3 DEF LockInv, HeldInv
  <2> QED BY <2>2, <2>3 DEF LockInv
<1> QED BY <1>1, <1>2

\* A locked account keeps a token only where a login ran beside the lock, on a
\* stale profile, or where a delete of the lock is under way or was lost.
THEOREM LockEndsSessions == Spec => []LockedSessionOnlyByOverlap
<1>1. TypeInv /\ LockInv => LockedSessionOnlyByOverlap
  <2> SUFFICES ASSUME TypeInv, LockInv, row.status = "INACTIVE",
                      NEW x \in {access, refresh} \ {None}
               PROVE  \/ x \in stale
                      \/ \E l \in Request :
                            /\ kind[l] = "lock"
                            /\ l \in met[x] \/ unawaited[l] # {} \/ pc[l] = "lost"
      BY DEF LockedSessionOnlyByOverlap
  <2>1. PICK what \in {"access", "refresh"} : x = Held(what)
        BY DEF Held
  <2>2. x \in stale \/ LockMet(x) \/ Ending(what)
        BY <2>1 DEF LockInv, HeldInv
  <2>3. x \in Request /\ met \in [Request -> SUBSET Request]
        BY DEF TypeInv, TypeOK, SessionTypeOK
  <2>4. CASE LockMet(x)
        BY <2>3, <2>4 DEF LockMet
  <2>5. CASE Ending(what)
        BY <2>5 DEF Ending
  <2> QED BY <2>2, <2>4, <2>5
<1> QED BY <1>1, TypeInit, TypeStep, MetInit, MetStep, LockInit, LockStep,
           PTL DEF Spec

-----------------------------------------------------------------------------
(* Reservations                                                            *)

PreChecks == {"preCheckPhone", "preCheckPhoneOtp"}

\* A request that reserved a number beside no other such request, and whose
\* reservation has not passed.
Undisturbed(r) ==
    /\ r \in Reservations \ overdue
    /\ \A o \in met[r] : kind[o] \notin PreChecks

\* Its reservation is the one Redis holds, and whoever looked since is to set
\* it again or was refused.
ReservationInv ==
    \A r \in Request : Undisturbed(r) =>
        /\ reserved = r
        /\ \A x \in Request \ {r} :
              kind[x] \in PreChecks /\ pc[x] = "reserve"
                  => kind[x] = "preCheckPhoneOtp" /\ token[x] = r

\* Only the gateway's checks of a phone reserve.
LEMMA ReserveScript ==
    ASSUME NEW r \in Request, kind[r] \in Kinds, "reserve" \in StepsOf(r)
    PROVE  kind[r] \in PreChecks
<1>1. CASE kind[r] \in Recorded
      BY <1>1, RecordedScript
<1>2. CASE kind[r] = "google"
      BY <1>2 DEF StepsOf, Script, ProcessSignInWithThirdParty, ReadAndWrite
<1>3. CASE kind[r] = "requestOtp"
      BY <1>3 DEF StepsOf, Script, ProcessOTP
<1>4. CASE kind[r] = "checkOtp"
      BY <1>4 DEF StepsOf, Script, CheckOTP
<1>5. CASE kind[r] = "signIn"
      BY <1>5 DEF StepsOf, Script, VerifyPasscodeSignIn
<1>6. CASE kind[r] = "refresh"
      BY <1>6 DEF StepsOf, Script, RefreshToken
<1> QED BY <1>1, <1>2, <1>3, <1>4, <1>5, <1>6
        DEF Kinds, PreChecks, Recorded, Cms

\* A reservation is looked up and then set.
LEMMA ReserveSteps ==
    ASSUME TypeInv, NEW r \in Request, Step(r), kind[r] \in PreChecks
    PROVE  /\ pc'[r] = "reserve" =>
                 \/ pc[r] = "reserve" /\ token' = token
                 \/ /\ LookUpReservation(r) /\ token'[r] = reserved
                    /\ kind[r] = "preCheckPhone" => MayReserve
           /\ pc'[r] = "done" =>
                 pc[r] = "done" \/ (pc[r] = "reserve" /\ SetReservation(r))
<1> USE DEF Goes, GoesOrFails, Becomes
<1>0. /\ pc \in [Request -> Ended \cup {"new"} \cup Steps]
      /\ token \in [Request -> Request \cup {None}]
      BY DEF TypeInv, TypeOK, Steps
<1>1. Script(r) = PreCheckPhone
  <2>1. CASE kind[r] = "preCheckPhone"
        BY <2>1 DEF Script
  <2>2. CASE kind[r] = "preCheckPhoneOtp"
        BY <2>2 DEF Script, PreCheckPhoneOtp
  <2> QED BY <2>1, <2>2 DEF PreChecks
<1>2. pc[r] \in Ended \cup {"new", "reservation", "reserve"}
      BY <1>1 DEF TypeInv, StepInv, StepsOf, PreCheckPhone
<1>3. CASE Start(r)
      BY <1>0, <1>1, <1>3 DEF Start, PreCheckPhone
<1>4. CASE LookUpReservation(r)
      BY <1>0, <1>1, <1>4 DEF LookUpReservation, PreCheckPhone
<1>5. CASE SetReservation(r)
      BY <1>0, <1>1, <1>5 DEF SetReservation, PreCheckPhone
<1>6. CASE DeleteArrives(r)
      BY <1>6 DEF DeleteArrives, local
<1>7. CASE Fails(r)
      BY <1>0, <1>7 DEF Fails
<1> QED BY <1>2, <1>3, <1>4, <1>5, <1>6, <1>7
        DEF Step, CountExisting, CheckToken, VerifyOTP, Read, Write,
            GenerateOTP, SetCode, SetToken, GetProfile, KeepProfile,
            ProcessLogin, Ended

LEMMA ReservationInit == Init => ReservationInv
BY DEF Init, ReservationInv, Undisturbed, Reservations

LEMMA ReservationStep ==
    TypeInv /\ MetInv /\ ReservationInv /\ [Next]_vars => ReservationInv'
<1> SUFFICES ASSUME TypeInv, MetInv, ReservationInv, [Next]_vars
             PROVE  ReservationInv'
    OBVIOUS
<1>0. reserved \in Request \cup {None}
      BY DEF TypeInv, TypeOK, SessionTypeOK
<1>1. ASSUME NEW r \in Request, Step(r) PROVE ReservationInv'
  <2>0. /\ kind' = kind /\ \A x \in Request \ {r} : pc'[x] = pc[x]
        /\ \A x \in Request \ {r} : token'[x] = token[x]
        /\ \A x \in Request : met[x] \subseteq met'[x]
        /\ overdue' = overdue
        BY <1>1, Advances, Alone, Opens, Fields, RedisChanges
  <2> SUFFICES ASSUME NEW u \in Request, Undisturbed(u)'
               PROVE  /\ reserved' = u
                      /\ \A x \in Request \ {u} :
                            kind[x] \in PreChecks /\ pc'[x] = "reserve" =>
                                kind[x] = "preCheckPhoneOtp" /\ token'[x] = u
      BY <2>0 DEF ReservationInv
  <2>1. /\ kind[u] = "preCheckPhone" /\ pc'[u] = "done" /\ u \notin overdue
        /\ \A o \in met[u] : kind[o] \notin PreChecks
        BY <2>0 DEF Undisturbed, Reservations
  <2>2. CASE pc[u] = "done"
    <3>1. Undisturbed(u)
          BY <2>1, <2>2 DEF Undisturbed, Reservations
    <3>2. reserved = u /\ ~MayReserve
          BY <1>0, <2>1, <3>1, AccountAssumption DEF ReservationInv, MayReserve
    <3>3. ASSUME NEW x \in Request \ {u}, kind[x] \in PreChecks,
                 pc'[x] = "reserve"
          PROVE  kind[x] = "preCheckPhoneOtp" /\ token'[x] = u
      <4>1. CASE x # r
            BY <2>0, <3>1, <3>3, <4>1 DEF ReservationInv
      <4>2. CASE x = r /\ pc[r] = "reserve" /\ token' = token
            BY <3>1, <3>3, <4>2 DEF ReservationInv
      <4>3. CASE x = r /\ token'[r] = reserved /\ kind[r] # "preCheckPhone"
            BY <3>2, <3>3, <4>3 DEF PreChecks
      <4> QED BY <1>1, <3>2, <3>3, <4>1, <4>2, <4>3, ReserveSteps
    <3>4. reserved' = u
      <4>1. CASE SetReservation(r)
        <5>1. /\ pc[r] = "reserve"
              /\ reserved' = IF kind[r] = "preCheckPhone" THEN r ELSE token[r]
              BY <4>1 DEF SetReservation, Reserve
        <5>2. kind[r] \in PreChecks
          <6>1. "reserve" \in StepsOf(r) /\ kind[r] \in Kinds
                BY <5>1 DEF TypeInv, StepInv, Ended
          <6> QED BY <6>1, ReserveScript
        <5> QED BY <2>2, <3>1, <5>1, <5>2 DEF ReservationInv
      <4> QED BY <1>1, <3>2, <4>1, RedisChanges
    <3> QED BY <3>3, <3>4
  <2>3. CASE pc[u] # "done"
    <3>1. u = r /\ pc[r] = "reserve" /\ SetReservation(r)
          BY <1>1, <2>0, <2>1, <2>3, ReserveSteps DEF PreChecks
    <3>2. reserved' = u
          BY <2>1, <3>1 DEF SetReservation, Reserve
    <3>3. ASSUME NEW x \in Request \ {u}, kind[x] \in PreChecks,
                 pc'[x] = "reserve"
          PROVE  FALSE
      <4>1. Open(x) /\ Open(u)
            BY <2>0, <3>1, <3>3 DEF Open, Ended
      <4> QED BY <2>1, <3>3, <4>1 DEF MetInv
    <3> QED BY <3>2, <3>3
  <2> QED BY <2>2, <2>3
<1>2. ASSUME \A r \in Request : ~Step(r) PROVE ReservationInv'
  <2>1. /\ kind' = kind /\ token' = token /\ met' = met
        /\ \A x \in Request : pc'[x] = pc[x] \/ pc'[x] = "lost"
        /\ reserved' = reserved \/ reserved \in overdue
        /\ overdue \subseteq overdue'
        BY <1>2, NothingOpens, NothingAdded DEF local
  <2> QED BY <2>1 DEF ReservationInv, Undisturbed, Reservations
<1> QED BY <1>1, <1>2

\* An account has one reservation that has not passed, unless one of the two
\* was made beside another such request.
THEOREM ReservesOnce == Spec => []ReservedOnce
<1>1. ReservationInv => ReservedOnce
  <2> SUFFICES ASSUME ReservationInv, NEW r \in Reservations \ overdue,
                      NEW x \in Reservations \ overdue, r # x,
                      \A o \in met[r] \cup met[x] :
                          kind[o] \notin {"preCheckPhone", "preCheckPhoneOtp"}
               PROVE  FALSE
      BY DEF ReservedOnce
  <2>1. Undisturbed(r) /\ Undisturbed(x) /\ r \in Request /\ x \in Request
        BY DEF Undisturbed, PreChecks, Reservations
  <2> QED BY <2>1 DEF ReservationInv
<1> QED BY <1>1, TypeInit, TypeStep, MetInit, MetStep, ReservationInit,
           ReservationStep, PTL DEF Spec

=============================================================================

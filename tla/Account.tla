------------------------------- MODULE Account -------------------------------
(***************************************************************************)
(* The handlers that read an account's row and write it back: those of the *)
(* authenticator (apps/authenticator/src/authenticator.service.ts), and of *)
(* the CMS (apps/cms/src/module/account/account.service.ts), with the      *)
(* sign-in and the refresh of the gateway (apps/gateway/src/               *)
(* auth.service.ts), whose tokens they end or outlive.                     *)
(*                                                                         *)
(* A handler reads the row, and writes some of its columns a few awaits    *)
(* later; those that keep a history write back the whole list they read.   *)
(* One account is modelled: an address or a number of another one is       *)
(* refused by the unique columns, and shows as a statement that fails.     *)
(***************************************************************************)
EXTENDS Session, FiniteSets

CONSTANTS
    Email, Phone,       \* addresses and numbers
    Kindings,           \* what the requests may ask for, as functions
    FirstEmail, FirstPhone, FirstPasscode

Kinds == {"confirmPhone", "changePhone", "changeEmail", "confirmEmail",
          "editPasscode", "google", "requestOtp", "checkOtp", "resetPasscode",
          "signIn", "refresh", "lock", "unlock", "cmsReset", "upgrade",
          "preCheckPhone", "preCheckPhoneOtp"}

ASSUME AccountAssumption ==
    /\ Email \cup Phone = Key
    /\ FirstEmail \in Email /\ FirstPhone \in Phone
    /\ FirstPasscode \notin Request
    /\ Status = {"ACTIVE", "INACTIVE"}
    /\ Kindings \subseteq [Request -> Kinds \cup {"none"}]
    /\ None \notin Request \cup Status

VARIABLES
    row,        \* the account
    kind,       \* what each request asks for; "none": it is never made
    key,        \* the address or the number it names
    passcode,   \* the passcode it was given: the one in force when it began
    pc,
    seen,       \* the row as the request read it
    token,      \* the token it presents, or the reservation it has looked up
    unawaited,  \* deletes it has issued, or has a timer for, and not awaited
    \* history variables
    met,        \* requests that ran while it did
    proof,      \* the code it accepted
    confirmed,  \* addresses whose code confirmEmail accepted
    stale       \* refreshes that read an outdated profile

local == <<key, passcode, seen, token>>
vars == <<redis, row, kind, pc, local, unawaited, met, proof, confirmed, stale>>

Row == [email : Email, verified : BOOLEAN,
        phone : Phone, phoneVerified : BOOLEAN,
        passcode : Request \cup {FirstPasscode},
        status : Status, partner : BOOLEAN,
        histories : SUBSET Request]

Cms == {"lock", "unlock", "cmsReset", "upgrade"}
Gateway == {"signIn", "refresh"}
\* Handlers that add an entry to the account's histories.
Recorded == {"confirmPhone", "changePhone", "changeEmail", "confirmEmail",
             "editPasscode", "resetPasscode"} \cup Cms

Ended == {"done", "failed", "lost"}
Open(r) == pc[r] # "new" /\ (pc[r] \notin Ended \/ unawaited[r] # {})

TypeOK ==
    /\ SessionTypeOK
    /\ row \in Row
    /\ kind \in [Request -> Kinds \cup {"none"}]
    /\ key \in [Request -> Key]
    /\ passcode \in [Request -> Request \cup {FirstPasscode}]
    /\ pc \in [Request -> Ended \cup {"new", "exists", "token", "verify",
                  "read", "profile", "cacheProfile", "setAccess", "setRefresh",
                  "write", "look", "keepCode", "newToken", "reservation",
                  "reserve"}]
    /\ seen \in [Request -> Row]
    /\ token \in [Request -> Request \cup {None}]
    /\ unawaited \in [Request -> SUBSET {"access", "refresh", "code", "token"}]
    /\ met \in [Request -> SUBSET Request]
    /\ proof \in [Request -> Request \cup {None}]
    /\ confirmed \subseteq Email
    /\ stale \subseteq Request

\* A new account has the one entry of its creation, which is not counted.
NewRow == [email |-> FirstEmail, verified |-> FALSE,
           phone |-> FirstPhone, phoneVerified |-> FALSE,
           passcode |-> FirstPasscode, status |-> "ACTIVE", partner |-> FALSE,
           histories |-> {}]

Init ==
    /\ SessionInit
    /\ row = NewRow
    /\ kind \in Kindings
    /\ key = [r \in Request |-> FirstEmail]
    /\ passcode = [r \in Request |-> FirstPasscode]
    /\ pc = [r \in Request |-> "new"]
    /\ seen = [r \in Request |-> NewRow]
    /\ token = [r \in Request |-> None]
    /\ unawaited = [r \in Request |-> {}]
    /\ met = [r \in Request |-> {}]
    /\ proof = [r \in Request |-> None]
    /\ confirmed = {}
    /\ stale = {}

-----------------------------------------------------------------------------
(* The handlers, as the steps they take in order.                          *)

ChangeEmail == [start |-> "exists", exists |-> "read", read |-> "write",
                write |-> "look", look |-> "keepCode", keepCode |-> "done"]
ConfirmEmail == [start |-> "verify", verify |-> "read", read |-> "write",
                 write |-> "done"]
ChangePhone == [start |-> "exists", exists |-> "read", read |-> "write",
                write |-> "done"]
ResetPasscode == [start |-> "token", token |-> "read", read |-> "write",
                  write |-> "done"]
ProcessOTP == [start |-> "look", look |-> "keepCode", keepCode |-> "newToken",
               newToken |-> "done"]
CheckOTP == [start |-> "token", token |-> "verify", verify |-> "newToken",
             newToken |-> "done"]
VerifyPasscodeSignIn == [start |-> "read", read |-> "setAccess",
                         setAccess |-> "setRefresh", setRefresh |-> "done"]
RefreshToken == [start |-> "token", token |-> "profile",
                 profile |-> "setAccess", cacheProfile |-> "setAccess",
                 setAccess |-> "setRefresh", setRefresh |-> "done"]
PreCheckPhone == [start |-> "reservation", reservation |-> "reserve",
                  reserve |-> "done"]
PreCheckPhoneOtp == PreCheckPhone
ReadAndWrite == [start |-> "read", read |-> "write", write |-> "done"]
ConfirmPhone == ReadAndWrite
EditAccount == ReadAndWrite
ProcessSignInWithThirdParty == ReadAndWrite
UpdateAccount == ReadAndWrite
CmsResetPasscode == ReadAndWrite
UpgradePartnerUser == ReadAndWrite

Script(r) ==
    CASE kind[r] = "changeEmail"   -> ChangeEmail
      [] kind[r] = "confirmEmail"  -> ConfirmEmail
      [] kind[r] = "changePhone"   -> ChangePhone
      [] kind[r] = "resetPasscode" -> ResetPasscode
      [] kind[r] = "requestOtp"    -> ProcessOTP
      [] kind[r] = "checkOtp"      -> CheckOTP
      [] kind[r] = "signIn"        -> VerifyPasscodeSignIn
      [] kind[r] = "refresh"       -> RefreshToken
      [] kind[r] = "confirmPhone"  -> ConfirmPhone
      [] kind[r] = "editPasscode"  -> EditAccount
      [] kind[r] = "google"        -> ProcessSignInWithThirdParty
      [] kind[r] \in {"lock", "unlock"} -> UpdateAccount
      [] kind[r] = "cmsReset"      -> CmsResetPasscode
      [] kind[r] = "upgrade"       -> UpgradePartnerUser
      [] kind[r] = "preCheckPhone" -> PreCheckPhone
      [] kind[r] = "preCheckPhoneOtp" -> PreCheckPhoneOtp

Becomes(r, step) == pc' = [pc EXCEPT ![r] = step]
Goes(r, step) == Becomes(r, Script(r)[step])
GoesOrFails(r, step, ok) == IF ok THEN Goes(r, step) ELSE Becomes(r, "failed")
Issue(r, deletes) == unawaited' = [unawaited EXCEPT ![r] = @ \cup deletes]

Answered == {t \in Request : pc[t] \in {"done", "lost"}}

\* Tokens a client presents: of its codes, the one requestOTP or checkOTP
\* answered; of its sessions, the refresh token of an earlier login.
Presented(r) ==
    CASE kind[r] = "checkOtp" ->
            {t \in Answered : kind[t] = "requestOtp" /\ key[t] = key[r]}
      [] kind[r] = "resetPasscode" ->
            {t \in Answered : kind[t] = "checkOtp" /\ key[t] = key[r]}
      [] kind[r] = "refresh" ->
            {t \in Answered : kind[t] \in Gateway}

-----------------------------------------------------------------------------
(* Plausible mistakes in the steps below.                                  *)

\* Only the new entry is written.
Entered_Alone(r) == [row EXCEPT !.histories = {r}]

\* The condition of processLogin is dropped.
Accepts_AnyStatus(r) ==
    CASE kind[r] \in {"changeEmail", "editPasscode", "signIn"} ->
            passcode[r] = row.passcode
      [] kind[r] = "confirmEmail" -> row.email = key[r] /\ ~row.verified
      [] OTHER -> TRUE

\* confirmEmail does not ask for the address the code was mailed to.
Accepts_AnyEmail(r) ==
    CASE kind[r] = "confirmEmail" -> ~row.verified
      [] OTHER -> TRUE

\* The token is not looked for.
CheckToken_Unchecked(r) ==
    /\ pc[r] = "token"
    /\ \E t \in Presented(r) : token' = [token EXCEPT ![r] = t]
    /\ Goes(r, "token")
    /\ UNCHANGED <<redis, row, kind, key, passcode, seen, unawaited, met,
                   proof, confirmed, stale>>

\* The gateway does not look for a reservation.
LookUpReservation_Unchecked(r) ==
    /\ pc[r] = "reservation"
    /\ kind[r] = "preCheckPhoneOtp" => reserved # None
    /\ token' = [token EXCEPT ![r] = reserved]
    /\ Goes(r, "reservation")
    /\ UNCHANGED <<redis, row, kind, key, passcode, seen, unawaited, met,
                   proof, confirmed, stale>>

-----------------------------------------------------------------------------
(* The steps                                                               *)

KeysOf(r) ==
    CASE kind[r] \in {"changeEmail", "confirmEmail", "google"} -> Email
      [] kind[r] \in {"changePhone", "requestOtp", "checkOtp",
                      "resetPasscode", "preCheckPhone",
                      "preCheckPhoneOtp"} -> Phone
      [] OTHER -> {FirstPhone}

Start(r) ==
    /\ pc[r] = "new"
    /\ kind[r] # "none"
    /\ \E k \in KeysOf(r) : key' = [key EXCEPT ![r] = k]
    /\ passcode' = [passcode EXCEPT ![r] = row.passcode]
    /\ LET others == {x \in Request \ {r} : Open(x)}
       IN met' = [x \in Request |->
                    IF x = r THEN met[x] \cup others
                    ELSE IF x \in others THEN met[x] \cup {r} ELSE met[x]]
    /\ Goes(r, "start")
    /\ UNCHANGED <<redis, row, kind, seen, token, unawaited, proof, confirmed,
                   stale>>

\* changeEmail and changePhone count the accounts with the new value.
CountExisting(r) ==
    /\ pc[r] = "exists"
    /\ GoesOrFails(r, "exists", key[r] \notin {row.email, row.phone})
    /\ UNCHANGED <<redis, row, kind, local, unawaited, met, proof, confirmed,
                   stale>>

\* The token is looked up: as a key of its own, or as the refresh token.
CheckToken(r) ==
    /\ pc[r] = "token"
    /\ \E t \in Presented(r) :
        /\ token' = [token EXCEPT ![r] = t]
        /\ GoesOrFails(r, "token", IF kind[r] = "refresh" THEN refresh = t
                                   ELSE t \in tokens)
    /\ UNCHANGED <<redis, row, kind, key, passcode, seen, unawaited, met,
                   proof, confirmed, stale>>

\* The code that is mailed under the key is entered: verifyOTP clears it a
\* tenth of a second later.
VerifyOTP(r) ==
    /\ pc[r] = "verify"
    /\ otp[key[r]] # None
    /\ proof' = [proof EXCEPT ![r] = otp[key[r]]]
    /\ confirmed' = IF kind[r] = "confirmEmail" THEN confirmed \cup {key[r]}
                    ELSE confirmed
    /\ Issue(r, IF kind[r] = "checkOtp" THEN {"code", "token"} ELSE {"code"})
    /\ Goes(r, "verify")
    /\ UNCHANGED <<redis, row, kind, local, met, stale>>

\* The condition under which a handler goes on after it has read the row.
Accepts(r) ==
    CASE kind[r] \in {"changeEmail", "editPasscode"} ->
            passcode[r] = row.passcode
      [] kind[r] = "confirmEmail" -> row.email = key[r] /\ ~row.verified
      [] kind[r] = "resetPasscode" -> row.phone = key[r]
      [] kind[r] = "signIn" ->
            passcode[r] = row.passcode /\ row.status = "ACTIVE"
      [] kind[r] \in {"lock", "cmsReset"} -> row.status = "ACTIVE"
      [] kind[r] = "unlock" -> row.status = "INACTIVE"
      [] kind[r] = "upgrade" -> ~row.partner
      [] OTHER -> TRUE

\* updateAccount of the CMS deletes the tokens before it writes;
\* resetPasscode, the token it was given.
Read(r) ==
    /\ pc[r] = "read"
    /\ seen' = [seen EXCEPT ![r] = row]
    /\ GoesOrFails(r, "read", Accepts(r))
    /\ Issue(r, CASE ~Accepts(r) -> {}
                  [] kind[r] = "lock" -> {"access", "refresh"}
                  [] kind[r] = "resetPasscode" -> {"token"}
                  [] OTHER -> {})
    /\ UNCHANGED <<redis, row, kind, key, passcode, token, met, proof,
                   confirmed, stale>>

Entered(r) == [row EXCEPT !.histories = seen[r].histories \cup {r}]

\* The row as the handler's update leaves it.
Updated(r) ==
    CASE kind[r] = "confirmPhone" -> [Entered(r) EXCEPT !.phoneVerified = TRUE]
      [] kind[r] = "changePhone"  -> [Entered(r) EXCEPT !.phone = key[r],
                                                !.phoneVerified = FALSE]
      [] kind[r] = "changeEmail"  -> [Entered(r) EXCEPT !.email = key[r],
                                                !.verified = FALSE]
      [] kind[r] = "confirmEmail" -> [Entered(r) EXCEPT !.verified = TRUE]
      [] kind[r] \in {"editPasscode", "resetPasscode", "cmsReset"} ->
            [Entered(r) EXCEPT !.passcode = r]
      [] kind[r] = "lock"    -> [Entered(r) EXCEPT !.status = "INACTIVE"]
      [] kind[r] = "unlock"  -> [Entered(r) EXCEPT !.status = "ACTIVE"]
      [] kind[r] = "upgrade" -> [Entered(r) EXCEPT !.partner = TRUE]
      \* The fields of the third party: an address only if the account's was
      \* not verified, and emailVerified, which is always false.
      [] kind[r] = "google" ->
            [row EXCEPT !.email = IF seen[r].verified THEN @ ELSE key[r],
                        !.verified = FALSE]

\* editAccount deletes the access token once it has changed the passcode.
Write(r) ==
    /\ pc[r] = "write"
    /\ IF kind[r] = "resetPasscode" /\ row.phone # key[r]
       THEN Becomes(r, "failed") /\ UNCHANGED <<row, unawaited>>
       ELSE /\ row' = Updated(r)
            /\ Issue(r, IF kind[r] = "editPasscode" THEN {"access"} ELSE {})
            /\ Goes(r, "write")
    /\ UNCHANGED <<redis, kind, local, met, proof, confirmed, stale>>

GenerateOTP(r) ==
    /\ pc[r] = "look"
    /\ IF MayGenerate(key[r]) THEN Goes(r, "look")
       \* changeEmail answers all the same.
       ELSE Becomes(r, IF kind[r] = "changeEmail" THEN "done" ELSE "failed")
    /\ UNCHANGED <<redis, row, kind, local, unawaited, met, proof, confirmed,
                   stale>>

SetCode(r) ==
    /\ pc[r] = "keepCode"
    /\ KeepCode(r, key[r])
    /\ Goes(r, "keepCode")
    /\ UNCHANGED <<session, tokens, reservation, row, kind, local, unawaited,
                   met, proof, confirmed, stale>>

\* The token that processOTP or checkOTP answers.
SetToken(r) ==
    /\ pc[r] = "newToken"
    /\ tokens' = tokens \cup {r}
    /\ Goes(r, "newToken")
    /\ UNCHANGED <<session, otp, resendLater, reservation, row, kind, local,
                   unawaited, met, proof, confirmed, stale>>

\* GET_PROFILE answers the profile it keeps, or reads the row; processLogin
\* refuses an inactive account.
GetProfile(r) ==
    /\ pc[r] = "profile"
    /\ IF profile # None
       THEN /\ GoesOrFails(r, "profile", profile = "ACTIVE")
            /\ stale' = IF profile # row.status THEN stale \cup {r} ELSE stale
            /\ UNCHANGED seen
       ELSE /\ Becomes(r, "cacheProfile")
            /\ seen' = [seen EXCEPT ![r] = row]
            /\ UNCHANGED stale
    /\ UNCHANGED <<redis, row, kind, key, passcode, token, unawaited, met,
                   proof, confirmed>>

KeepProfile(r) ==
    /\ pc[r] = "cacheProfile"
    /\ CacheProfile(seen[r].status)
    /\ GoesOrFails(r, "cacheProfile", seen[r].status = "ACTIVE")
    /\ UNCHANGED <<row, kind, local, unawaited, met, proof, confirmed, stale>>

ProcessLogin(r) ==
    /\ \/ pc[r] = "setAccess" /\ SetAccess(r)
       \/ pc[r] = "setRefresh" /\ SetRefresh(r)
    /\ Goes(r, pc[r])
    /\ UNCHANGED <<row, kind, local, unawaited, met, proof, confirmed, stale>>

\* The gateway refuses a new number while one is reserved, and a code for one
\* that is not.  Numbers of other accounts, which the authenticator counts
\* next, show as a statement that fails.
LookUpReservation(r) ==
    /\ pc[r] = "reservation"
    /\ token' = [token EXCEPT ![r] = reserved]
    /\ GoesOrFails(r, "reservation",
          IF kind[r] = "preCheckPhone" THEN MayReserve
          ELSE ~MayReserve /\ key[reserved] = key[r])
    /\ UNCHANGED <<redis, row, kind, key, passcode, seen, unawaited, met,
                   proof, confirmed, stale>>

\* With a code, what was looked up is set again.
SetReservation(r) ==
    /\ pc[r] = "reserve"
    /\ Reserve(IF kind[r] = "preCheckPhone" THEN r ELSE token[r])
    /\ Goes(r, "reserve")
    /\ UNCHANGED <<row, kind, local, unawaited, met, proof, confirmed, stale>>

\* A delete reaches Redis.  Those of updateAccount keep their order.
DeleteArrives(r) ==
    \E what \in unawaited[r] :
        /\ what = "refresh" => "access" \notin unawaited[r]
        /\ Delete(what, key[r], token[r])
        /\ unawaited' = [unawaited EXCEPT ![r] = @ \ {what}]
        /\ UNCHANGED <<row, kind, pc, local, met, proof, confirmed, stale>>

\* A statement is refused, or the code or the passcode is not the right one.
Fails(r) ==
    /\ pc[r] \notin Ended \cup {"new", "setAccess", "setRefresh"}
    /\ Becomes(r, "failed")
    /\ UNCHANGED <<redis, row, kind, local, unawaited, met, proof, confirmed,
                   stale>>

ProcessOf(r) == CASE kind[r] \in Cms -> "cms" 
                  [] kind[r] \in Gateway \cup {"preCheckPhoneOtp"} -> "gateway"
                  [] OTHER -> "authenticator"

\* A process ends, and with it its requests and its timers.
Crash ==
    \E p \in {"cms", "gateway", "authenticator"} :
        LET ends == {r \in Request : Open(r) /\ ProcessOf(r) = p}
        IN /\ ends # {}
           /\ pc' = [r \in Request |-> IF r \in ends THEN "lost" ELSE pc[r]]
           /\ unawaited' = [r \in Request |->
                                IF r \in ends THEN {} ELSE unawaited[r]]
           /\ UNCHANGED <<redis, row, kind, local, met, proof, confirmed, stale>>

Reservations == {r \in Request : kind[r] = "preCheckPhone" /\ pc[r] = "done"}

RedisMoves ==
    /\ Expire \/ ResendTimePasses \/ \E r \in Reservations : ReservationPasses(r)
    /\ UNCHANGED <<row, kind, pc, local, unawaited, met, proof, confirmed, stale>>

Step(r) ==
    \/ Start(r) \/ CountExisting(r) \/ CheckToken(r) \/ VerifyOTP(r)
    \/ Read(r) \/ Write(r) \/ GenerateOTP(r) \/ SetCode(r) \/ SetToken(r)
    \/ GetProfile(r) \/ KeepProfile(r) \/ ProcessLogin(r)
    \/ LookUpReservation(r) \/ SetReservation(r)
    \/ DeleteArrives(r) \/ Fails(r)

Next == (\E r \in Request : Step(r)) \/ Crash \/ RedisMoves

Spec == Init /\ [][Next]_vars

-----------------------------------------------------------------------------
(* Properties                                                              *)

\* The entry a finished handler made is still in the account's histories,
\* unless another one that records ran beside it: each reads the list, adds
\* to its copy and writes the whole of it (authenticator.service.ts, the
\* histories of confirmPhone, changeEmail and the rest; account.service.ts).
HistoryKept ==
    \A r \in Request :
        kind[r] \in Recorded /\ pc[r] = "done" /\ r \notin row.histories
            => \E x \in met[r] : kind[x] \in Recorded

\* An address is marked verified only if confirmEmail accepted a code mailed
\* to it, unless a confirmation ran beside a handler that changed the
\* address (confirmEmail looks the address up and updates by id alone).
VerifiedWasConfirmed ==
    row.verified /\ row.email \notin confirmed
        => \E r, x \in Request :
              /\ kind[r] = "confirmEmail" /\ x \in met[r]
              /\ kind[x] \in {"changeEmail", "google"}

\* A code is accepted once, and a token that stands for it changes the
\* passcode once.  Twice only if the two ran beside each other (verifyOTP
\* leaves the code for a tenth of a second, resetPasscode deletes the token
\* after it has looked it up), or if a crash lost the timer or the delete.
ProofUsedOnce ==
    \A r, x \in Request :
        r # x /\ {pc[r], pc[x]} = {"done"} /\ x \notin met[r] =>
            /\ {kind[r], kind[x]} \subseteq {"checkOtp", "confirmEmail"}
                    => proof[r] # proof[x]
            /\ {kind[r], kind[x]} = {"resetPasscode"} => token[r] # token[x]

\* A locked account has no token left, unless the login that set it, or a
\* delete of the lock, was still under way (updateAccount deletes the tokens
\* before it writes the status, processLogin sets them after it has read
\* it), or the refresh was answered a profile from before.
LockedSessionOnlyByOverlap ==
    row.status = "INACTIVE" =>
        \A x \in {access, refresh} \ {None} :
            \/ x \in stale
            \/ \E l \in Request :
                  /\ kind[l] = "lock"
                  /\ l \in met[x] \/ unawaited[l] # {} \/ pc[l] = "lost"

\* An account holds one reservation that has not passed, unless one of the two
\* was asked for, or a code for another was, beside some other such request:
\* both look first and set later, and a code sets again what it had looked up,
\* over a newer reservation (auth.controller.ts of the gateway, preCheckPhone
\* and preCheckPhoneOtp).
ReservedOnce ==
    \A r, x \in Reservations \ overdue :
        r # x => \E o \in met[r] \cup met[x] :
                    kind[o] \in {"preCheckPhone", "preCheckPhoneOtp"}

=============================================================================

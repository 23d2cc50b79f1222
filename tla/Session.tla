------------------------------- MODULE Session -------------------------------
(***************************************************************************)
(* What Redis keeps of an account between requests (libs/caching, used by  *)
(* the gateway, the authenticator and the CMS): its one pair of access and *)
(* refresh token, the profile that answered a GET_PROFILE less than ten    *)
(* seconds ago, the one-time codes mailed to its addresses, the tokens     *)
(* that stand for a code that was asked for or accepted, and the number it *)
(* has reserved for five minutes.  Every entry is named by the request     *)
(* that wrote it.  Entries expire at any time, a reservation after the     *)
(* time it tells.                                                          *)
(*                                                                         *)
(* Module Account composes these steps with the handlers that take them.   *)
(***************************************************************************)
CONSTANTS
    Request,
    Key,            \* addresses and phone numbers a code is kept under
    Status,         \* account.status
    None            \* a key Redis does not hold

VARIABLES
    access, refresh,    \* BITBACK-<id>, BITBACK-REFRESH-<id>
    profile,            \* FIND_ACCOUNT<id>-true: the status it holds
    otp,                \* the code kept under each key
    resendLater,        \* keys whose resendTime is still ahead
    tokens,             \* tokens held as keys of their own
    reserved,           \* PRE-CHECK-PHONE-<id>: whose reservation it holds
    overdue             \* reservations whose expiresIn has passed

codes == <<otp, resendLater, tokens>>
session == <<access, refresh, profile>>
reservation == <<reserved, overdue>>
redis == <<session, codes, reservation>>

SessionTypeOK ==
    /\ access \in Request \cup {None}
    /\ refresh \in Request \cup {None}
    /\ profile \in Status \cup {None}
    /\ otp \in [Key -> Request \cup {None}]
    /\ resendLater \subseteq Key
    /\ tokens \subseteq Request
    /\ reserved \in Request \cup {None}
    /\ overdue \subseteq Request

SessionInit ==
    /\ access = None
    /\ refresh = None
    /\ profile = None
    /\ otp = [k \in Key |-> None]
    /\ resendLater = {}
    /\ tokens = {}
    /\ reserved = None
    /\ overdue = {}

-----------------------------------------------------------------------------
(* processLogin: the two sets reach Redis one after the other.             *)

SetAccess(r) ==
    /\ access' = r
    /\ UNCHANGED <<refresh, profile, codes, reservation>>

SetRefresh(r) ==
    /\ refresh' = r
    /\ UNCHANGED <<access, profile, codes, reservation>>

CacheProfile(status) ==
    /\ profile' = status
    /\ UNCHANGED <<access, refresh, codes, reservation>>

-----------------------------------------------------------------------------
(* OTPService                                                              *)

\* generateOTP answers nothing while the last code may not be sent again.
MayGenerate(k) == otp[k] = None \/ k \notin resendLater

\* The code is kept, and its resendTime set, after generateOTP has looked.
KeepCode(r, k) ==
    /\ otp' = [otp EXCEPT ![k] = r]
    /\ resendLater' = resendLater \cup {k}

-----------------------------------------------------------------------------
(* PRE-CHECK-PHONE-<id>                                                    *)

\* A reservation that is kept and has not passed stands in the way.
MayReserve == reserved = None \/ reserved \in overdue

Reserve(r) ==
    /\ reserved' = r
    /\ UNCHANGED <<session, codes, overdue>>

-----------------------------------------------------------------------------
\* Deletes that are not awaited, by the key they name.
Delete(what, k, t) ==
    /\ CASE what = "access" ->
               access' = None /\ UNCHANGED <<refresh, profile, codes>>
         [] what = "refresh" ->
               refresh' = None /\ UNCHANGED <<access, profile, codes>>
         [] what = "code" ->
               /\ otp' = [otp EXCEPT ![k] = None]
               /\ UNCHANGED <<session, resendLater, tokens>>
         [] what = "token" ->
               tokens' = tokens \ {t} /\ UNCHANGED <<session, otp, resendLater>>
    /\ UNCHANGED reservation

ExpireSession ==
    /\ \/ access # None /\ access' = None /\ UNCHANGED <<refresh, profile>>
       \/ refresh # None /\ refresh' = None /\ UNCHANGED <<access, profile>>
       \/ profile # None /\ profile' = None /\ UNCHANGED <<access, refresh>>
    /\ UNCHANGED <<codes, reservation>>

ExpireCode ==
    /\ \/ \E k \in Key : /\ otp[k] # None
                         /\ otp' = [otp EXCEPT ![k] = None]
                         /\ UNCHANGED tokens
       \/ \E t \in tokens : tokens' = tokens \ {t} /\ UNCHANGED otp
    /\ UNCHANGED <<session, resendLater, reservation>>

\* The key of a reservation is set after its expiresIn was computed, and for
\* as long again: it does not go before.
ExpireReservation ==
    /\ reserved \in overdue
    /\ reserved' = None
    /\ UNCHANGED <<session, codes, overdue>>

Expire == ExpireSession \/ ExpireCode \/ ExpireReservation

\* resendTime passes: half a minute to two minutes after the code was made.
ResendTimePasses ==
    \E k \in resendLater :
        /\ resendLater' = resendLater \ {k}
        /\ UNCHANGED <<session, otp, tokens, reservation>>

ReservationPasses(r) ==
    /\ r \notin overdue
    /\ overdue' = overdue \cup {r}
    /\ UNCHANGED <<session, codes, reserved>>

=============================================================================

-------------------------------- MODULE Views --------------------------------
(***************************************************************************)
(* The views a client of the gateway reads (the GET routes of apps/        *)
(* gateway/src/auth.controller.ts, answered by apps/authenticator/src/     *)
(* authenticator.service.ts), and the two caches between it and the        *)
(* database: the response an interceptor keeps under the URL, and the      *)
(* answer a service keeps under the account's id.  An edit writes the      *)
(* database and leaves both; they expire.  Every guarded request reads the *)
(* profile first (jwt.strategy.ts), so that an edit itself fills it.       *)
(*                                                                         *)
(* What the database holds is abstracted to items, each with a version     *)
(* that an edit increments.  A view is a function of some of them.         *)
(***************************************************************************)
EXTENDS Naturals, FiniteSets

CONSTANTS
    User,
    Client, UserOf,     \* a client reads one thing at a time
    Asks,               \* the views a client reads and the edits it makes
    MaxVersion,         \* bound on the edits of an item
    MaxInFlight,        \* bound on the sets in flight before a request
    Everyone,           \* who the banners belong to
    None

Views == {"profile", "contact", "notification", "count",
          "transaction-history", "referral", "banners-v2", "ads-banner",
          "ads-banner-v2", "get-account"}
Items == {"account", "setting", "contacts", "notifications", "transactions",
          "banner"}
Edits == {"editProfile", "updateDeviceToken", "updateAccountSetting",
          "settingProfile", "syncContacts", "updateNotification",
          "readAllNotifications"}

ASSUME ViewsAssumption ==
    /\ UserOf \in [Client -> User]
    /\ Asks \in [Client -> SUBSET (Views \cup Edits)]
    /\ MaxVersion \in Nat /\ MaxInFlight \in Nat
    /\ Everyone \notin User

VARIABLES
    db,         \* version of each item of each user
    response,   \* responses kept under a URL, for its user
    kept,       \* answers kept by DEFAULT_EXPIRES_GET
    inFlight,   \* sets of either that are not awaited
    client      \* the request each client waits for, or what it is shown

viewsVars == <<db, response, kept, inFlight, client>>

-----------------------------------------------------------------------------
(* The views: the items they show, and the caches before them.             *)

\* getAccount reads the account's settings with the profile.  (Of the
\* accounts get-account may be asked for, the client's own.)
GetProfile == {"account", "setting"}
FindAccount == {"account"}
GetContacts == {"contacts"}
GetNotification == {"notifications"}
CountNotification == {"notifications"}
GetTransactionHistory == {"transactions"}
GetReferrals == {"account", "transactions"}
GetBannersV2 == {"banner"}
GetAdsBanner == {"banner"}
GetAdsBannerV2 == {"banner"}

Shows(v) == CASE v = "profile" -> GetProfile
              [] v = "get-account" -> FindAccount
              [] v = "contact" -> GetContacts
              [] v = "notification" -> GetNotification
              [] v = "count" -> CountNotification
              [] v = "transaction-history" -> GetTransactionHistory
              [] v = "referral" -> GetReferrals
              [] v = "banners-v2" -> GetBannersV2
              [] v = "ads-banner" -> GetAdsBanner
              [] v = "ads-banner-v2" -> GetAdsBannerV2

\* Routes with AuthCacheInterceptor, and with the CacheInterceptor of NestJS.
OwnResponse == {"profile", "contact", "transaction-history", "notification",
                "referral"}
SharedResponse == {"banners-v2", "ads-banner", "ads-banner-v2"}
\* Views whose answer a service keeps.
Kept == {"profile", "get-account", "contact", "banners-v2", "ads-banner"}

\* A plausible mistake: trackBy leaves out the user.
TrackBy_UrlAlone(u, v) == <<Everyone, v>>

\* trackBy: the user's id and the URL, or the URL alone.
TrackBy(u, v) == IF v \in SharedResponse THEN <<Everyone, v>> ELSE <<u, v>>
KeptAt(u, v) == IF v \in SharedResponse THEN <<Everyone, v>> ELSE <<u, v>>

Owner(u, i) == IF i = "banner" THEN Everyone ELSE u
Value(u, v) == [of |-> Owner(u, CHOOSE i \in Shows(v) : TRUE),
                items |-> [i \in Shows(v) |-> db[<<Owner(u, i), i>>]]]

\* The item an edit writes.
EditAccount == "account"
UpdateDeviceToken == "account"
UpdateAccountSetting == "setting"
SettingProfile == "setting"
SyncContacts == "contacts"
UpdateSeenNotification == "notifications"
ReadAllNotifications == "notifications"

Writes(e) == CASE e = "editProfile" -> EditAccount
               [] e = "updateDeviceToken" -> UpdateDeviceToken
               [] e = "updateAccountSetting" -> UpdateAccountSetting
               [] e = "settingProfile" -> SettingProfile
               [] e = "syncContacts" -> SyncContacts
               [] e = "updateNotification" -> UpdateSeenNotification
               [] e = "readAllNotifications" -> ReadAllNotifications

Keys == (User \cup {Everyone}) \X (Views \cup Edits)

\* A client that waits is at a step of a view or edit; one that does not is
\* shown what it was answered, if it was.
Waits(step, what) == [step |-> step, at |-> what, shown |-> None]
Idle(value) == [step |-> "idle", at |-> None, shown |-> value]

ViewsInit ==
    /\ db = [k \in (User \cup {Everyone}) \X Items |-> 0]
    /\ response = [k \in Keys |-> None]
    /\ kept = [k \in Keys |-> None]
    /\ inFlight = {}
    /\ client = [c \in Client |-> Idle(None)]

Becomes(c, state) == client' = [client EXCEPT ![c] = state]
Keep(key, value) == [cache |-> "kept", key |-> key, value |-> value]
Fill(key, value) == [cache |-> "response", key |-> key, value |-> value]

-----------------------------------------------------------------------------
(* The steps                                                               *)

\* A plausible mistake: an answer that was found is kept again for its whole
\* time.
Renewed_Always(u, v, value) == {Keep(KeptAt(u, v), value)}

\* What is set again when an answer was found: nothing.
Renewed(u, v, value) == {}

\* The guard of a route has the profile read before the handler runs.
Validate(c) ==
    LET profile == KeptAt(UserOf[c], "profile") IN
    /\ client[c].step = "idle"
    /\ Cardinality(inFlight) < MaxInFlight
    /\ \E what \in Asks[c] :
        /\ Becomes(c, Waits("called", what))
        /\ inFlight' = IF kept[profile] # None THEN inFlight
                       ELSE inFlight \cup {Keep(profile,
                                               Value(UserOf[c], "profile"))}
    /\ UNCHANGED <<db, response, kept>>

\* A response that is kept answers the request; without one, or without an
\* interceptor, the handler does.
Intercept(c) ==
    LET what == client[c].at
        held == response[TrackBy(UserOf[c], what)]
    IN /\ client[c].step = "called"
       /\ Becomes(c, IF what \in OwnResponse \cup SharedResponse /\ held # None
                     THEN Idle(held) ELSE Waits("handle", what))
       /\ UNCHANGED <<db, response, kept, inFlight>>

\* The handler of a view answers what a service keeps, or what the service
\* reads and will keep; the interceptor keeps the response.
Handle(c) ==
    LET u == UserOf[c]
        v == client[c].at
        found == v \in Kept /\ kept[KeptAt(u, v)] # None
        value == IF found THEN kept[KeptAt(u, v)] ELSE Value(u, v)
        sets == IF found THEN Renewed(u, v, value)
                ELSE IF v \in Kept THEN {Keep(KeptAt(u, v), value)} ELSE {}
        fills == IF v \in OwnResponse \cup SharedResponse
                 THEN {Fill(TrackBy(u, v), value)} ELSE {}
    IN /\ client[c].step = "handle"
       /\ v \in Views
       /\ inFlight' = inFlight \cup sets \cup fills
       /\ Becomes(c, Idle(value))
       /\ UNCHANGED <<db, response, kept>>

\* Bound: an item is edited at most MaxVersion times.
Write(c) ==
    LET e == client[c].at
        item == <<UserOf[c], Writes(e)>>
    IN /\ client[c].step = "handle"
       /\ e \in Edits
       /\ db[item] < MaxVersion
       /\ db' = [db EXCEPT ![item] = @ + 1]
       /\ Becomes(c, IF e = "readAllNotifications" THEN Waits("clear", e)
                     ELSE Idle(None))
       /\ UNCHANGED <<response, kept, inFlight>>

\* readAllNotifications deletes the response kept under its own URL.
ClearResponse(c) ==
    /\ client[c].step = "clear"
    /\ response' = [response EXCEPT ![<<UserOf[c], client[c].at>>] = None]
    /\ Becomes(c, Idle(None))
    /\ UNCHANGED <<db, kept, inFlight>>

\* A request is refused or lost.
Refused(c) ==
    /\ client[c].step # "idle"
    /\ Becomes(c, Idle(None))
    /\ UNCHANGED <<db, response, kept, inFlight>>

Arrive(m) ==
    /\ m \in inFlight
    /\ inFlight' = inFlight \ {m}
    /\ IF m.cache = "kept"
       THEN kept' = [kept EXCEPT ![m.key] = m.value] /\ UNCHANGED response
       ELSE response' = [response EXCEPT ![m.key] = m.value] /\ UNCHANGED kept
    /\ UNCHANGED <<db, client>>

\* The process that would have set it ends.
Lost(m) ==
    /\ m \in inFlight
    /\ inFlight' = inFlight \ {m}
    /\ UNCHANGED <<db, response, kept, client>>

ResponseExpires(key) ==
    /\ response[key] # None
    /\ response' = [response EXCEPT ![key] = None]
    /\ UNCHANGED <<db, kept, inFlight, client>>

KeptExpires(key) ==
    /\ kept[key] # None
    /\ kept' = [kept EXCEPT ![key] = None]
    /\ UNCHANGED <<db, response, inFlight, client>>

ViewsNext ==
    \/ \E c \in Client : \/ Validate(c) \/ Intercept(c) \/ Handle(c)
                         \/ Write(c) \/ ClearResponse(c) \/ Refused(c)
    \/ \E m \in inFlight : Arrive(m) \/ Lost(m)
    \/ \E key \in Keys : ResponseExpires(key) \/ KeptExpires(key)

\* Entries expire, and what is in flight arrives or is lost with its process.
Fairness ==
    /\ \A key \in Keys : WF_viewsVars(ResponseExpires(key)) /\ WF_viewsVars(KeptExpires(key))
    /\ WF_viewsVars(\E m \in inFlight : Arrive(m) \/ Lost(m))

ViewsSpec == ViewsInit /\ [][ViewsNext]_viewsVars /\ Fairness

-----------------------------------------------------------------------------
(* Properties                                                              *)

\* A user is shown data of his own, or everyone's (auth-cache.interceptor.ts
\* puts the user's id into the key).
OwnShown ==
    \A c \in Client :
        client[c].shown # None => client[c].shown.of \in {UserOf[c], Everyone}

Fresh(u, v) ==
    /\ response[TrackBy(u, v)] \in {None, Value(u, v)}
    /\ kept[KeptAt(u, v)] \in {None, Value(u, v)}

\* However the two caches fill each other, and although every request may
\* fill the profile, an edit is shown in the end: once nothing is edited any
\* more, every view that is kept becomes that of the database, and remains it.
EditShown == \A u \in User, v \in Views : <>[]Fresh(u, v)

=============================================================================

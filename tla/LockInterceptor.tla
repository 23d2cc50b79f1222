-------------------------- MODULE LockInterceptor --------------------------
(***************************************************************************)
(* The LockInterceptor of libs/common: HTTP requests of the gateway, some  *)
(* of which must hold a Redlock lock before their handler is called.  The  *)
(* interceptor acquires the lock and never unlocks it (the unlock is       *)
(* commented out), so that only Redis' expiry after REDLOCK_TTL frees it.  *)
(***************************************************************************)
CONSTANTS
    Request,    \* HTTP requests
    Locked,     \* those whose handler is under @UseInterceptors
    Key,        \* lock keys
    KeyOf,      \* [Locked -> Key], meta.key and the suffix intercept gives it
    Free        \* no holder

ASSUME LockAssumption ==
    /\ Locked \subseteq Request
    /\ KeyOf \in [Locked -> Key]
    /\ Free \notin Request

VARIABLES
    holder,     \* [Key -> Request \cup {Free}], the locks in Redis
    gate        \* the state of each request in the gateway

lockVars == <<holder, gate>>

LockInit ==
    /\ holder = [k \in Key |-> Free]
    /\ gate = [r \in Request |-> "new"]

LockTypeOK ==
    /\ holder \in [Key -> Request \cup {Free}]
    /\ gate \in [Request -> {"new", "handling", "refused", "answered", "lost"}]

\* acquire ignores a lock that another request holds.
Acquire_Reentrant(r) ==
    /\ gate[r] = "new"
    /\ holder' = IF r \in Locked THEN [holder EXCEPT ![KeyOf[r]] = r]
                                 ELSE holder
    /\ gate' = [gate EXCEPT ![r] = "handling"]

\* intercept gets the lock, if the route asks for one, and calls the handler.
Acquire(r) ==
    /\ gate[r] = "new"
    /\ IF r \in Locked
       THEN /\ holder[KeyOf[r]] = Free
            /\ holder' = [holder EXCEPT ![KeyOf[r]] = r]
       ELSE UNCHANGED holder
    /\ gate' = [gate EXCEPT ![r] = "handling"]

\* The attempts of acquire are used up, or Redis fails: meta.error.
Refuse(r) ==
    /\ gate[r] = "new"
    /\ r \in Locked
    /\ gate' = [gate EXCEPT ![r] = "refused"]
    /\ UNCHANGED holder

\* tap or catchError: the reply goes to the client and the lock stays.  (The
\* replies of other routes pass through no interceptor and are left out.)
Answer(r) ==
    /\ gate[r] = "handling"
    /\ r \in Locked
    /\ gate' = [gate EXCEPT ![r] = "answered"]
    /\ UNCHANGED holder

\* REDLOCK_TTL has passed, whatever the holder is doing.
Expire(k) ==
    /\ holder[k] # Free
    /\ holder' = [holder EXCEPT ![k] = Free]
    /\ UNCHANGED gate

\* The gateway dies with the requests it was handling; Redis keeps the locks.
GatewayCrash ==
    /\ \E r \in Locked : gate[r] = "handling"
    /\ gate' = [r \in Request |->
                   IF r \in Locked /\ gate[r] = "handling" THEN "lost"
                                                          ELSE gate[r]]
    /\ UNCHANGED holder

=============================================================================

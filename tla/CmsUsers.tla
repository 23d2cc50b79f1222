------------------------------- MODULE CmsUsers -------------------------------
(***************************************************************************)
(* The users of the back office (apps/cms/src/module/user, module/auth,    *)
(* jwt): who may act, and which roles he may give or take away.            *)
(*                                                                         *)
(* A token carries the role its user had when it was signed, and stays     *)
(* good as long as any token of that user is kept: the guard compares      *)
(* nothing else and does not look at the user again.  An edit or a         *)
(* deletion reads its target's role and writes the row an await later.     *)
(*                                                                         *)
(* A user name stands for its user and its address, which is taken as      *)
(* fixed; the edit of one's own profile writes neither role nor status.    *)
(* Passwords are left out: sign-in has its comparison commented out, and   *)
(* nothing else reads one.  A signed token that lapses is one that is not  *)
(* used any more.                                                          *)
(***************************************************************************)
EXTENDS Integers

CONSTANTS
    CmsUser,        \* user names
    FirstRole,      \* roles of the users there are in the beginning
    CmsCall,        \* requests to the back office
    Callings,       \* what each of them asks for, in every combination tried
    NoUser, NoToken

Roles == 1..4
ADMIN == 1
MANAGER == 2
EDITOR == 3
USER == 4

NoRole == 0     \* a role that is not given
NoStatus == 2   \* a status that is not given: 0 is inactive, 1 active

UserRow == [role : Roles, status : {0, 1}, deleted : BOOLEAN]
Token == [id : CmsUser, role : Roles]
Body == [role : Roles \cup {NoRole}, status : {0, 1, NoStatus}]

Guarded == {"create", "edit", "delete"}
Public == {"signIn", "forgot", "reset"}

\* A call that asks for nothing is not made.
Calling == [asks : Guarded \cup Public \cup {"none"}, target : CmsUser,
            body : Body]

ASSUME CmsUsersAssumption ==
    /\ DOMAIN FirstRole \subseteq CmsUser
    /\ \A u \in DOMAIN FirstRole : FirstRole[u] \in Roles
    /\ Callings \subseteq [CmsCall -> Calling]
    /\ NoUser \notin UserRow
    /\ NoToken \notin Token

VARIABLES
    user,           \* the rows of table user
    signedIn,       \* users of whom Redis keeps a token
    forgot,         \* users of whom it keeps a token to reset a password
    signed,         \* tokens that were signed
    call,           \* what each call asks for, about whom, and what it gives
    step,           \* its next step
    actor,          \* the token it presents
    \* history variables
    beside,         \* calls that ran while it did
    overwrote       \* the role that its write found

kept == <<signedIn, forgot, signed>>
history == <<beside, overwrote>>
userVars == <<user, kept, call, step, actor, history>>

Over == {"done", "failed"}
UnderWay(c) == step[c] \notin Over \cup {"new"}

UsersTypeOK ==
    /\ user \in [CmsUser -> UserRow \cup {NoUser}]
    /\ signedIn \subseteq CmsUser
    /\ forgot \subseteq CmsUser
    /\ signed \subseteq Token
    /\ step \in [CmsCall -> Over \cup {"new", "guard", "find", "token",
                                       "session", "write"}]
    /\ call \in Callings
    /\ actor \in [CmsCall -> Token \cup {NoToken}]
    /\ beside \in [CmsCall -> SUBSET CmsCall]
    /\ overwrote \in [CmsCall -> Roles \cup {NoRole}]

UsersInit ==
    /\ user = [u \in CmsUser |->
                  IF u \in DOMAIN FirstRole
                  THEN [role |-> FirstRole[u], status |-> 1, deleted |-> FALSE]
                  ELSE NoUser]
    /\ signedIn = {}
    /\ forgot = {}
    /\ signed = {}
    /\ step = [c \in CmsCall |-> "new"]
    /\ call \in Callings
    /\ actor = [c \in CmsCall |-> NoToken]
    /\ beside = [c \in CmsCall |-> {}]
    /\ overwrote = [c \in CmsCall |-> NoRole]

-----------------------------------------------------------------------------
\* A plausible mistake: a manager may give any role.
CheckRoleValid_AnyOfManager(by, role) ==
    \/ role = NoRole
    \/ by \in {ADMIN, MANAGER}
    \/ by = EDITOR /\ role \in {EDITOR, USER}
    \/ by = USER /\ role = USER

CheckRoleValid(by, role) ==
    \/ role = NoRole
    \/ by = ADMIN
    \/ by = MANAGER /\ role \in {MANAGER, EDITOR, USER}
    \/ by = EDITOR /\ role \in {EDITOR, USER}
    \/ by = USER /\ role = USER

\* A plausible mistake: the role of the user to be edited is not looked at.
MayTouch_Anyone(by, u) == user[u] # NoUser /\ ~user[u].deleted

\* The user is there, and his role is covered.
MayTouch(by, u) == /\ user[u] # NoUser /\ ~user[u].deleted
                   /\ CheckRoleValid(by, user[u].role)

\* Sign-in and a forgotten password ask for an active user.
Active(u) == user[u] # NoUser /\ ~user[u].deleted /\ user[u].status = 1

Moves(c, s) == step' = [step EXCEPT ![c] = s]
Sign(u) == signed' = signed \cup {[id |-> u, role |-> user[u].role]}

-----------------------------------------------------------------------------
(* The steps                                                               *)

\* A call arrives.
Arrive(c) ==
    /\ step[c] = "new" /\ call[c].asks # "none"
    /\ Moves(c, CASE call[c].asks \in Guarded  -> "guard"
                  [] call[c].asks = "reset"     -> "token"
                  [] OTHER                      -> "find")
    /\ beside' = [d \in CmsCall |->
                     IF d = c THEN {e \in CmsCall : UnderWay(e)}
                     ELSE beside[d] \cup {e \in {c} : UnderWay(d)}]
    /\ UNCHANGED <<user, kept, call, actor, overwrote>>

\* The guard finds that some token of the user is kept.  The handler then looks
\* at the role that is to be given, or refuses its maker's own deletion.
CanActivate(c) ==
    /\ step[c] = "guard"
    /\ \E t \in signed :
          /\ t.id \in signedIn
          /\ actor' = [actor EXCEPT ![c] = t]
          /\ CheckRoleValid(t.role, call[c].body.role)
          /\ call[c].asks = "delete" => t.id # call[c].target
          /\ Moves(c, IF call[c].asks = "delete" /\ t.role = ADMIN
                      THEN "write" ELSE "find")
    /\ UNCHANGED <<user, kept, call, history>>

\* A user of that name must not be there; an edited or deleted one must be.
FindOther(c) ==
    /\ step[c] = "find" /\ call[c].asks \in Guarded
    /\ IF call[c].asks = "create" THEN user[call[c].target] = NoUser
       ELSE MayTouch(actor[c].role, call[c].target)
    /\ Moves(c, "write")
    /\ UNCHANGED <<user, kept, call, actor, history>>

\* The name is unique: of two that create it, one fails.
CreateUser(c) ==
    /\ step[c] = "write" /\ call[c].asks = "create"
    /\ user[call[c].target] = NoUser
    /\ user' = [user EXCEPT ![call[c].target] =
                   [role    |-> IF call[c].body.role = NoRole THEN USER
                                ELSE call[c].body.role,
                    status  |-> IF call[c].body.status = NoStatus THEN 1
                                ELSE call[c].body.status,
                    deleted |-> FALSE]]
    /\ Moves(c, "done")
    /\ UNCHANGED <<kept, call, actor, history>>

\* What the write of an edit or a deletion leaves of the row.
Written(c, row) ==
    IF call[c].asks = "delete" THEN [row EXCEPT !.deleted = TRUE]
    ELSE [row EXCEPT !.role = IF call[c].body.role = NoRole THEN @ ELSE call[c].body.role,
                     !.status = IF call[c].body.status = NoStatus THEN @
                                ELSE call[c].body.status]

\* The row is written by its id alone.
WriteUser(c) ==
    /\ step[c] = "write" /\ call[c].asks \in {"edit", "delete"}
    /\ user[call[c].target] # NoUser
    /\ overwrote' = [overwrote EXCEPT ![c] = user[call[c].target].role]
    /\ user' = [user EXCEPT ![call[c].target] = Written(c, @)]
    /\ Moves(c, "done")
    /\ UNCHANGED <<kept, call, actor, beside>>

SignIn(c) ==
    /\ step[c] = "find" /\ call[c].asks = "signIn"
    /\ Active(call[c].target)
    /\ Sign(call[c].target)
    /\ Moves(c, "session")
    /\ UNCHANGED <<user, signedIn, forgot, call, actor, history>>

\* The token is kept by a call that nobody waits for.
KeepToken(c) ==
    /\ step[c] = "session"
    /\ signedIn' = signedIn \cup {call[c].target}
    /\ Moves(c, "done")
    /\ UNCHANGED <<user, forgot, signed, call, actor, history>>

ProcessForgot(c) ==
    /\ step[c] = "find" /\ call[c].asks = "forgot"
    /\ Active(call[c].target)
    /\ forgot' = forgot \cup {call[c].target}
    /\ Moves(c, "done")
    /\ UNCHANGED <<user, signedIn, signed, call, actor, history>>

\* The deletion of the token is not awaited: see TokenGone.
CheckForgotten(c) ==
    /\ step[c] = "token" /\ call[c].asks = "reset"
    /\ call[c].target \in forgot
    /\ Moves(c, "write")
    /\ UNCHANGED <<user, kept, call, actor, history>>

\* The row is found by its address alone, inactive or deleted as it may be, and
\* its user is signed in.
ResetPassword(c) ==
    /\ step[c] = "write" /\ call[c].asks = "reset"
    /\ user[call[c].target] # NoUser
    /\ Sign(call[c].target)
    /\ Moves(c, "session")
    /\ UNCHANGED <<user, signedIn, forgot, call, actor, history>>

\* A call is refused, fails, or its process stops.
Stops(c) ==
    /\ UnderWay(c)
    /\ Moves(c, "failed")
    /\ UNCHANGED <<user, kept, call, actor, history>>

\* What is kept is kept for a time; a reset deletes the token it has read.
TokenGone(u) ==
    /\ \/ signedIn' = signedIn \ {u} /\ UNCHANGED forgot
       \/ forgot' = forgot \ {u} /\ UNCHANGED signedIn
    /\ UNCHANGED <<user, signed, call, step, actor, history>>

UsersStep(c) ==
    \/ Arrive(c) \/ CanActivate(c) \/ FindOther(c) \/ CreateUser(c)
    \/ WriteUser(c) \/ SignIn(c) \/ KeepToken(c) \/ ProcessForgot(c)
    \/ CheckForgotten(c) \/ ResetPassword(c) \/ Stops(c)

UsersNext == \/ \E c \in CmsCall : UsersStep(c)
             \/ \E u \in CmsUser : TokenGone(u)

UsersSpec == UsersInit /\ [][UsersNext]_userVars

-----------------------------------------------------------------------------
(* Properties                                                              *)

\* Roles are numbered from the most to the least powerful.
Covers(by, role) == by <= role
Covered(role) == \E u \in DOMAIN FirstRole : Covers(FirstRole[u], role)

\* Whatever the calls of the back office, stale tokens and edits that overtake
\* each other included, nobody comes by a role that none of its first users
\* could give: neither a row nor a signed token carries one
\* (user.service.ts:124, :177 and :251; auth.controller.ts:44).
NoRoleGained ==
    /\ \A u \in CmsUser : user[u] # NoUser => Covered(user[u].role)
    /\ \A t \in signed : Covered(t.role)

\* An edit or a deletion writes a row whose role its maker does not cover only
\* when an edit that ran beside it, of the same user, gave the user that very
\* role between the look at the role and the write
\* (user.service.ts:182 and :202, :232 and :243).
UncoveredOnlyByOverlap ==
    \A c \in CmsCall :
        overwrote[c] # NoRole
            => \/ Covers(actor[c].role, overwrote[c])
               \/ \E d \in beside[c] :
                     /\ call[d].asks = "edit" /\ step[d] = "done"
                     /\ call[d].target = call[c].target
                     /\ call[d].body.role = overwrote[c]
=============================================================================

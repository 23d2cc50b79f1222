-------------------------------- MODULE MCKyc --------------------------------
(***************************************************************************)
(* An account, the one who referred it, their two referral rewards and the *)
(* welcome reward of the first.  Two requests to approve the account, two  *)
(* to approve its referrer.                                                *)
(*                                                                         *)
(* Or the calls about the users of the back office, in four groups: two    *)
(* edits, or an edit and a deletion, by different users; a user is created *)
(* and acts; a user resets his password while he is edited or deleted;     *)
(* users delete each other.  The two parts share no state and are tried    *)
(* one without the other.                                                  *)
(***************************************************************************)
EXTENDS Kyc, CmsUsers, TLC

CONSTANTS friend, referrer, f1, f2, r1, r2,
          c1, c2, c3, c4, u1, u2, u3

MCAccountOf == [r \in Approval |-> IF r \in {f1, f2} THEN friend ELSE referrer]
MCRow == 1..3
MCSender == <<NoAccount, referrer, friend>>
MCReceiver == <<friend, friend, referrer>>
MCAlone == {1}
MCReferrer == [a \in Account |-> IF a = friend THEN referrer ELSE NoAccount]

Nothing == [role |-> NoRole, status |-> NoStatus]
Giving == {[role |-> ADMIN, status |-> NoStatus],
           [role |-> MANAGER, status |-> NoStatus],
           [role |-> USER, status |-> NoStatus],
           [role |-> NoRole, status |-> 0]}
Ask(k, u) == {[asks |-> k, target |-> u, body |-> Nothing]}
Give(k, us) == [asks : {k}, target : us, body : Giving]

Called(a, b, c, d) ==
    {x \in [CmsCall -> a \cup b \cup c \cup d] :
        x[c1] \in a /\ x[c2] \in b /\ x[c3] \in c /\ x[c4] \in d}

MCCallings ==
    Called(Ask("signIn", u1), Ask("signIn", u2), Give("edit", {u1, u2}),
           Give("edit", {u1, u2}) \cup Ask("delete", u2))
    \cup Called(Ask("signIn", u1), Give("create", {u3}), Ask("signIn", u3),
                Give("create", {u3}) \cup Give("edit", {u1, u2}))
    \cup Called(Ask("forgot", u2), Ask("reset", u2), Ask("signIn", u1),
                Give("edit", {u1, u2}) \cup Ask("delete", u2))
    \cup Called(Ask("signIn", u1), Ask("signIn", u2), Ask("delete", u1),
                Ask("delete", u2))
    \cup Called(Ask("none", u1), Ask("none", u1), Ask("none", u1),
                Ask("none", u1))

MCFirstRole == u1 :> MANAGER @@ u2 :> EDITOR

NoCalls == \A c \in CmsCall : call[c].asks = "none"

MCInit == Init /\ UsersInit
MCNext == \/ NoCalls /\ Next /\ UNCHANGED userVars
          \/ ~NoCalls /\ UsersNext /\ UNCHANGED vars
MCSpec == MCInit /\ [][MCNext]_<<vars, userVars>>
=============================================================================

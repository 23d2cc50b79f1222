------------------------------- MODULE MCViews -------------------------------
(***************************************************************************)
(* Two users with a client each.  One reads and edits the profile, which   *)
(* both caches keep, and the notifications, which one does; the other      *)
(* reads his profile.                                                      *)
(***************************************************************************)
EXTENDS Views

CONSTANTS u1, u2, c1, c2

MCUserOf == [c \in Client |-> IF c = c1 THEN u1 ELSE u2]
MCAsks == [c \in Client |->
    IF c = c1 THEN {"profile", "notification", "editProfile",
                    "readAllNotifications"}
    ELSE {"profile"}]

=============================================================================

------------------------------ MODULE MCSignUp ------------------------------
(***************************************************************************)
(* One person signs up twice with one token, without a referrer; two more  *)
(* sign up with the same referrer, an old account.                         *)
(***************************************************************************)
EXTENDS SignUp

CONSTANTS first, again, friend1, friend2, old, t1, t2, t3, i1, i2, i3

MCTokenOf == [s \in Signup |-> CASE s = friend1 -> t2
                                 [] s = friend2 -> t3
                                 [] OTHER -> t1]
MCIdentOf == [s \in Signup |-> CASE s = friend1 -> i2
                                 [] s = friend2 -> i3
                                 [] OTHER -> i1]
MCReferrer == [s \in Signup |-> CASE s = friend1 -> old
                                  [] s = friend2 -> old
                                  [] OTHER -> Nobody]

=============================================================================

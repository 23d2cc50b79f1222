------------------------------ MODULE MCAccount ------------------------------
(***************************************************************************)
(* The requests of one customer's account, in five groups: changes of its  *)
(* address, codes and a forgotten passcode, sessions and locks, reserved   *)
(* numbers, and a pair of any two that write histories.  Each group is     *)
(* tried with every choice of kinds its requests may have.                 *)
(***************************************************************************)
EXTENDS Account

CONSTANTS r1, r2, r3, r4, e1, e2, p1, p2, first

\* Four requests: the last ones are not made in the smaller groups.
Made(a, b, c, d) ==
    {k \in [Request -> a \cup b \cup c \cup d] :
        k[r1] \in a /\ k[r2] \in b /\ k[r3] \in c /\ k[r4] \in d}

No == {"none"}
MCAddress == Made({"changeEmail"}, {"confirmEmail"},
                  {"changeEmail", "confirmEmail", "google"}, No)
MCCodes == Made({"requestOtp"}, {"checkOtp"}, {"checkOtp", "resetPasscode"},
                {"resetPasscode"})
MCSessions == Made({"signIn"}, {"lock"}, {"refresh"}, {"unlock", "refresh"})
MCReservations == Made({"preCheckPhone"}, {"preCheckPhoneOtp"},
                       {"preCheckPhone"}, {"preCheckPhone"})
MCHistories == Made(Recorded, Recorded, No, No)

MCKindings == MCAddress \cup MCCodes \cup MCSessions
                        \cup MCReservations \cup MCHistories

\* Bounds.  One request fails or is refused.  A code is asked for first, and
\* the others are about its number: those about another have no token to show.
\* Numbers are alike where they are only reserved: the first request reserves
\* the first one.
MCBounds ==
    /\ \A r, x \in Request : pc[r] = "failed" /\ pc[x] = "failed" => r = x
    /\ kind[r1] = "requestOtp" =>
          \A r \in Request : pc[r] # "new" => key[r] = key[r1] /\ pc[r1] # "new"
    /\ kind[r1] = "preCheckPhone" => key[r1] # p2

=============================================================================

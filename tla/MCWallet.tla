------------------------------ MODULE MCWallet ------------------------------
(***************************************************************************)
(* Two accounts and up to four messages: the welcome reward of a, a        *)
(* referral that credits both accounts, and two deposits for one order of  *)
(* a; MCSent says which of them may be under way together.  The amounts    *)
(* are distinct powers of two, so that a sum tells which credits it is     *)
(* made of.  Or the pool as MCPool has it: the two share no state and are  *)
(* tried one without the other.                                            *)
(***************************************************************************)
EXTENDS Wallet, MCPool

CONSTANTS a, b, o1,                               \* model values
          reward, referral, deposit1, deposit2    \* messages

MCPattern ==
    [m \in Msg |-> CASE m = reward -> "NONE_ACCOUNT_REFERRAL"
                     [] m = referral -> "ACCOUNT_REFERRAL"
                     [] OTHER -> "USER_DEPOSIT"]

\* A leg is named by its message and, in a referral, by its receiver.
MCLeg ==
    {<<m, a>> : m \in Msg} \cup {<<m, b>> : m \in Msg \cap {referral}}
MCMsgOf == [l \in MCLeg |-> l[1]]
MCReceiver == [l \in MCLeg |-> l[2]]
MCAmount ==
    [l \in MCLeg |-> CASE l[1] = reward -> 1
                       [] l[1] = referral -> 2
                       [] l[1] = deposit1 -> 4
                       [] l[1] = deposit2 -> 8]
MCVersion == [l \in MCLeg |-> 1]
MCOrderOf == [m \in Msg |-> o1]
MCReferralFrom == [m \in Msg |-> b]

MCSent ==
    {{reward, deposit1, deposit2}, {referral, deposit1}, {referral, reward}}
MCQueued(S) == \A m \in Msg : msg[m] = "queued" <=> m \in S
MCInit == /\ Init /\ \E S \in MCSent : MCQueued(S)
          /\ PoolInit
MCNext == \/ PoolInit /\ Next /\ UNCHANGED poolVars
          \/ Init /\ MCQueued({referral, reward})
             /\ PoolNext /\ MCThree' /\ UNCHANGED vars
MCSpec == MCInit /\ [][MCNext]_<<vars, poolVars>> /\ Fairness

=============================================================================

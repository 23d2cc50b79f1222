--------------------------- MODULE MCPartnerOrder ---------------------------
(***************************************************************************)
(* One account that buys Satoshi twice and VNDC once, cancels and confirms *)
(* its first order.  The configurations choose which requests are made.    *)
(***************************************************************************)
EXTENDS PartnerOrder, TLC

CONSTANTS a, b, k,                                  \* accounts, a lock key
          sat1, sat2, vndc, out,                    \* creations
          cancel, confirm1, confirm2, stranger      \* about order sat1

MCKind == [r \in Request |->
    CASE r \in {sat1, sat2} -> "buySatoshi"
      [] r = vndc -> "buyVNDC"
      [] r = out -> "inquiry"
      [] r = cancel -> "cancel"
      [] OTHER -> "confirm"]
MCAccountOf == [r \in Request |-> IF r = stranger THEN b ELSE a]
\* Cancels and confirms name the first order.
MCTarget == [r \in Request |-> sat1]
MCAmount == [r \in Request |-> IF r = sat1 THEN 1 ELSE 2]
MCLocked == Request \cap {sat1, sat2}
MCSymmetry == Permutations({confirm1, confirm2})
MCKeyOf == [r \in MCLocked |-> k]

=============================================================================

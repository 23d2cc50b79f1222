----------------------------- MODULE MCExchange -----------------------------
(***************************************************************************)
(* Two inquiries, one verified twice, and a submit for each verification,  *)
(* or two for one.  A balance of 10 is enough for two amounts of 4, and 10 *)
(* less 4 has fewer digits than 10.                                        *)
(***************************************************************************)
EXTENDS Exchange

CONSTANTS i1, i2, v1, v2, s1, s2, s3

MCInquiryOf == [v \in Verify |-> IF v = v1 THEN i1 ELSE i2]
MCVerifyOf == [s \in Submit |-> IF s = s3 THEN v2 ELSE v1]
MCAmount == [i \in Inquiry |-> IF i = i1 THEN 4 ELSE 5]

=============================================================================

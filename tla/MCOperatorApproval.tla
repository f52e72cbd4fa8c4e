-------------------------- MODULE MCOperatorApproval --------------------------
(* OperatorApproval for TLC.  Two supervisors, one of them without a         *)
(* decision verifier, share one action; a row may be left over from before   *)
(* operators were authenticated.                                             *)
EXTENDS OperatorApproval
=============================================================================

-------------------------- MODULE MCApprovalNotice --------------------------
(* Small instances of ApprovalNotice: every session numbers its requests    *)
(* from zero again.                                                         *)
EXTENDS ApprovalNotice

CONSTANT zero
=============================================================================

--------------------------- MODULE MCApprovalQueue ----------------------------
(* Finite instances of ApprovalQueue.                                        *)
EXTENDS ApprovalQueue

CONSTANTS o1, o2, x1, x2, x3, A, B

\* x1 and x2 come from two runs over one runbook option, x3 from another one.
MCFingerprint == [x \in Proposals |-> IF x = x3 THEN B ELSE A]
=============================================================================

----------------------------- MODULE MCApproval -----------------------------
EXTENDS Approval, TLC

CONSTANT s1
=============================================================================

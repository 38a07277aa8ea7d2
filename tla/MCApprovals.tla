----------------------------- MODULE MCApprovals ------------------------------
EXTENDS Approvals
===============================================================================

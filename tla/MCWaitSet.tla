----------------------------- MODULE MCWaitSet ------------------------------
EXTENDS WaitSet
=============================================================================

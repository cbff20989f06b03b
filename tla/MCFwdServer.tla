---------------------------- MODULE MCFwdServer ----------------------------
EXTENDS FwdServer
CONSTANTS s1, s2
=============================================================================

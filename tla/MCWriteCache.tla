---------------------------- MODULE MCWriteCache ----------------------------
EXTENDS WriteCache
=============================================================================

---------------------------- MODULE MCListeners -----------------------------
EXTENDS Listeners
=============================================================================

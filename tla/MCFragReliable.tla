--------------------------- MODULE MCFragReliable ---------------------------
EXTENDS FragReliable
CONSTANTS r1, r2
One == <<r1>>
Two == <<r1, r2>>
=============================================================================

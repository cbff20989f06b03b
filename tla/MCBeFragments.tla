--------------------------- MODULE MCBeFragments ----------------------------
EXTENDS BeFragments
CONSTANTS r1, r2
One == <<r1>>
Two == <<r1, r2>>
=============================================================================

--------------------------- MODULE MCRtpsReliable ---------------------------
(* Model-checking instance of RtpsReliable.                                *)
EXTENDS RtpsReliable
=============================================================================

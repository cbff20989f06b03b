---------------------------- MODULE MCSfWriter ----------------------------
(* Model-checking instance of SfWriter.                                    *)
EXTENDS SfWriter
=============================================================================

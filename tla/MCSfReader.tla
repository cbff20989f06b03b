---------------------------- MODULE MCSfReader ----------------------------
(* Model-checking instance of SfReader.                                    *)
EXTENDS SfReader
=============================================================================

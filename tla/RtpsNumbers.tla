---------------------------- MODULE RtpsNumbers ----------------------------
(***************************************************************************)
(* Sequence numbers and submessage counts, as both sides of a reliable     *)
(* exchange use them.                                                      *)
(***************************************************************************)
EXTENDS Naturals

CONSTANTS
    MaxSnr,   \* bound: highest sequence number a writer uses
    CountMod  \* bound: submessage counts wrap at this value (2^32)

Snr == 1..MaxSnr

\* State of a number that no node of a list of changes covers.
None == "none"
=============================================================================

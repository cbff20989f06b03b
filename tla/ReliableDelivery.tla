-------------------------- MODULE ReliableDelivery --------------------------
(***************************************************************************)
(* What a reliable writer and a reliable reader promise each other, without *)
(* lists, timers or submessages: every sample owed to the reader reaches it *)
(* in the order of writing, unless the writer itself dropped the sample     *)
(* from its history before the reader confirmed it; and the writer only     *)
(* takes a sample for confirmed when the reader has it.                     *)
(***************************************************************************)
EXTENDS Naturals

CONSTANT Snr

VARIABLES
    owed,       \* samples queued for the reader
    dropped,    \* samples the writer removed before they were confirmed
    received,   \* samples the reader has, in its cache or waiting for a hole
    delivered,  \* samples handed to the reader's cache
    confirmed   \* samples the writer takes for acknowledged

dvars == <<owed, dropped, received, delivered, confirmed>>

Init ==
    /\ owed \in SUBSET Snr
    /\ dropped = {}
    /\ received = {}
    /\ delivered = {}
    /\ confirmed = {}

\* New samples are queued, numbered behind the ones queued before; a full
\* history may drop others.
Write ==
    /\ owed \subseteq owed' /\ owed' \subseteq Snr
    /\ \A s \in owed' \ owed, t \in owed : t < s
    /\ dropped \subseteq dropped' /\ dropped' \subseteq owed
    /\ UNCHANGED <<received, delivered, confirmed>>

\* Samples arrive; samples are delivered once nothing before them is owed.
Arrive ==
    /\ received \subseteq received' /\ received' \subseteq owed
    /\ delivered \subseteq delivered' /\ delivered' \subseteq received'
    /\ \A d \in delivered', s \in owed : s < d => s \in delivered' \cup dropped
    /\ \A d \in delivered' \ delivered, e \in delivered : e < d
    /\ UNCHANGED <<owed, dropped, confirmed>>

\* Samples that the reader has are acknowledged.
Confirm ==
    /\ confirmed \subseteq confirmed' /\ confirmed' \subseteq received
    /\ UNCHANGED <<owed, dropped, received, delivered>>

Next == Write \/ Arrive \/ Confirm

Spec == Init /\ [][Next]_dvars
=============================================================================

---------------------------- MODULE RtpsReliable ----------------------------
(***************************************************************************)
(* One reliable writer and one reliable reader, joined by a network: the   *)
(* proxies of SfWriter and SfReader exchange DATA, GAP, HEARTBEAT and      *)
(* ACKNACK submessages.  The network keeps the order of the submessages    *)
(* except for at most MaxFaults losses, duplications and, with Overtaking,  *)
(* overtakings.                                                            *)
(***************************************************************************)
EXTENDS SfWriter, SfReader, Sequences, SequencesExt

CONSTANTS
    MaxHb,      \* bound: HEARTBEATs underway
    MaxAck,     \* bound: ACKNACKs underway
    MaxFaults,  \* bound: network faults and operator restarts
    Overtaking  \* submessages may overtake each other

ASSUME NetworkAssumption ==
    /\ {MaxHb, MaxAck, MaxFaults} \subseteq Nat
    /\ Overtaking \in BOOLEAN

VARIABLES
    toReader,   \* submessages underway to the reader
    toWriter,   \* ACKNACKs underway to the writer
    faults,     \* network faults and operator restarts so far
    owed,       \* history: samples queued for the reader
    dropped,    \* history: samples removed before they were acknowledged
    confirmed   \* history: samples acknowledged

vars == <<wvars, rvars, toReader, toWriter, faults, owed, dropped, confirmed>>

\* One side does nothing and puts nothing on the wire.
WriterIdle ==
    /\ rr_sent' = {}
    /\ UNCHANGED <<hc_last, hc_cache, hc_wack, rr_cstate, rr_changes, rr_tstate,
                   rr_astate, rr_active, rr_peer_alive, rr_new_snr, rr_last_ack,
                   rr_nack_timer, rh_timer, heartbeats>>

ReaderIdle ==
    /\ rw_sent' = {}
    /\ UNCHANGED <<rw_cstate, rw_seqnr_next, rw_changes, rw_heartbeats, rw_peer_alive,
                   rw_blocked, rw_last_hb, rw_hbrsp_timer, hc_nchanges, acknacks,
                   delivered, told>>

-----------------------------------------------------------------------------
(* Steps of the two sides.                                                 *)

\* DATA in the order of the numbers, then the GAP collected meanwhile.
WireOrder(m, n) ==
    \/ m.type = "DATA" /\ n.type = "GAP"
    \/ m.type = "DATA" /\ n.type = "DATA" /\ m.snr < n.snr

\* The submessages of a step join those underway.
Queued(channel, msgs, after) ==
    \E batch \in SetToSeqs(msgs) :
        /\ \A i, j \in DOMAIN batch : i < j => ~ WireOrder(batch[j], batch[i])
        /\ after = channel \o batch

\* Bookkeeping of a step of the writer: what it queued, dropped and released.
WriterHistory(removed) ==
    /\ owed' = owed \cup rr_changes'.rel
    /\ dropped' = dropped \cup removed
    /\ confirmed' = confirmed \cup ((hc_wack \ hc_wack') \ removed)
    /\ ReaderIdle

WriterStep == WriterHistory({}) /\ Queued(toReader, rr_sent', toReader')

Removed == hc_wack \ hc_cache'

Write ==
    /\ \E victim \in Victims : hc_add(victim)
    /\ WriterHistory(Removed)
    /\ UNCHANGED <<toReader, toWriter, faults>>

Expire ==
    /\ hc_check_lifespan
    /\ WriterHistory(Removed)
    /\ UNCHANGED <<toReader, toWriter, faults>>

\* Bounds on what the timers put on the wire: the periods of the timers are
\* longer than an exchange takes.  Answers to received submessages are not
\* limited.
AckRoom == Len(toWriter) < MaxAck
Calm ==
    /\ AckRoom
    /\ Cardinality({i \in DOMAIN toReader : toReader[i].type = "HB"}) < MaxHb

SendChanges == rtps_send_changes /\ WriterStep /\ UNCHANGED <<toWriter, faults>>

HeartbeatTimer ==
    Calm /\ sfw_heartbeat_to /\ WriterStep /\ UNCHANGED <<toWriter, faults>>

WriterAliveTimer ==
    Calm /\ sfw_rel_alive_to /\ WriterStep /\ UNCHANGED <<toWriter, faults>>

WriterMatch == sfw_rel_start /\ WriterStep /\ UNCHANGED <<toWriter, faults>>

\* The operator restarts the writer's proxy; counts as a fault to bound it.
WriterRestart ==
    /\ faults < MaxFaults
    /\ faults' = faults + 1
    /\ rtps_matched_reader_restart
    /\ WriterStep
    /\ UNCHANGED toWriter

\* A step of the reader leaves the writer alone.
ReaderStep ==
    /\ Queued(toWriter, rw_sent', toWriter')
    /\ WriterIdle
    /\ UNCHANGED <<owed, dropped, confirmed>>

ReaderMatch == sfr_rel_start /\ ReaderStep /\ UNCHANGED <<toReader, faults>>

ReaderAliveTimer ==
    Calm /\ sfr_rel_alive_to /\ ReaderStep /\ UNCHANGED <<toReader, faults>>

AckTimer == AckRoom /\ sfr_rel_do_ack /\ ReaderStep /\ UNCHANGED <<toReader, faults>>

TakeSample == Take /\ ReaderStep /\ UNCHANGED <<toReader, faults>>

-----------------------------------------------------------------------------
(* The network.                                                            *)

\* Receiving another submessage than the oldest one is a fault.
Overtakes(i) == faults' = IF i = 1 THEN faults ELSE faults + 1
MayTake(i) == i = 1 \/ (Overtaking /\ faults < MaxFaults)

\* submsg_rx_heartbeat: numbers start at 1, so 0..0 is an invalid submessage.
Acceptable(m) == rw_cstate = "ready" /\ ~ (m.type = "HB" /\ m.first = 0)

ReaderReceives(i) ==
    /\ MayTake(i)
    /\ LET m == toReader[i]
       IN  /\ toReader' = RemoveAt(toReader, i)
           /\ \/ ~ Acceptable(m) /\ ReaderIdle
              \/ /\ Acceptable(m)
                 /\ \/ m.type = "DATA" /\ sfr_rel_data(m.snr, FALSE)
                    \/ m.type = "GAP" /\ GapOk(m) /\ sfr_rel_gap(m)
                    \/ m.type = "HB" /\ sfr_rel_heartbeat(m)
    /\ ReaderStep
    /\ Overtakes(i)

WriterReceives(i) ==
    /\ MayTake(i)
    /\ toWriter' = RemoveAt(toWriter, i)
    /\ IF rr_cstate = "ready"
       THEN sfw_rel_acknack(toWriter[i]) /\ WriterStep
       ELSE WriterIdle /\ ReaderIdle /\ UNCHANGED <<toReader, owed, dropped, confirmed>>
    /\ Overtakes(i)

\* A submessage is lost or delivered twice.
Fault ==
    /\ faults < MaxFaults
    /\ faults' = faults + 1
    /\ \/ /\ \E i \in DOMAIN toReader :
                toReader' \in {RemoveAt(toReader, i), InsertAt(toReader, i, toReader[i])}
          /\ UNCHANGED toWriter
       \/ /\ \E i \in DOMAIN toWriter :
                toWriter' \in {RemoveAt(toWriter, i), InsertAt(toWriter, i, toWriter[i])}
          /\ UNCHANGED toReader
    /\ WriterIdle /\ ReaderIdle
    /\ UNCHANGED <<owed, dropped, confirmed>>

Init ==
    /\ WriterInit
    /\ ReaderInit
    /\ toReader = <<>>
    /\ toWriter = <<>>
    /\ faults = 0
    /\ owed = {}
    /\ dropped = {}
    /\ confirmed = {}

Next ==
    \/ Write \/ Expire
    \/ SendChanges \/ HeartbeatTimer \/ WriterAliveTimer
    \/ WriterMatch \/ WriterRestart
    \/ ReaderMatch \/ ReaderAliveTimer \/ AckTimer \/ TakeSample
    \/ \E i \in DOMAIN toReader : ReaderReceives(i)
    \/ \E i \in DOMAIN toWriter : WriterReceives(i)
    \/ Fault

\* The oldest submessage leaves a channel.
Oldest(channel, after) == channel # <<>> /\ after = Tail(channel)

\* Timers fire, activated proxies are served, the network delivers what it
\* does not lose, and the application takes what it is given.  Fairness of the
\* timers is strong because Calm and AckRoom, which only bound the model,
\* disable from time to time a timer that keeps running in the code.
Fairness ==
    /\ WF_vars(WriterMatch) /\ WF_vars(ReaderMatch)
    /\ WF_vars(SendChanges) /\ WF_vars(TakeSample)
    /\ SF_vars(HeartbeatTimer) /\ SF_vars(WriterAliveTimer)
    /\ SF_vars(ReaderAliveTimer) /\ SF_vars(AckTimer)
    /\ WF_toReader(Oldest(toReader, toReader'))
    /\ WF_toWriter(Oldest(toWriter, toWriter'))

Spec == Init /\ [][Next]_vars
LiveSpec == Spec /\ Fairness

-----------------------------------------------------------------------------
(* Properties.                                                             *)

Held == delivered \cup {s \in Snr : rw_changes[s] = Received}

\* A GAP that may arrive next never makes sfr_rel_gap_range count from the
\* wrong number: the environment assumption of SfReader.
GapsAligned ==
    \A i \in DOMAIN toReader :
        rw_cstate = "ready" /\ toReader[i].type = "GAP" => GapOk(toReader[i])

\* The writer takes a sample for acknowledged, and may free it, only when the
\* reader has it.
ConfirmedIsReceived == confirmed \subseteq Held

\* The reader gives up only on samples that the writer dropped from its
\* history: no HEARTBEAT or GAP makes it skip a sample it could still get.
OnlyDroppedGivenUp == \A s \in owed : s \in told => s \in dropped \cup confirmed

\* The pair of proxies implements reliable delivery.
D == INSTANCE ReliableDelivery WITH received <- Held
Reliable == D!Spec

\* Every sample queued for the reader is eventually delivered to it, unless
\* the writer drops it.
EventuallyDelivered ==
    \A s \in Snr : (s \in owed) ~> (s \in delivered \cup dropped)
=============================================================================

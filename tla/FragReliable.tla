---------------------------- MODULE FragReliable ----------------------------
(***************************************************************************)
(* A sample that is sent in fragments from a reliable writer to reliable   *)
(* readers of one participant: DATA_FRAG, HEARTBEAT_FRAG, NACK_FRAG and    *)
(* the ACKNACKs that go with them (rtps_sfrw.c, rtps_sfrr.c, rtps_frag.c). *)
(* The sample is the next one each reader expects; the change lists around *)
(* it are the subject of SfWriter and SfReader.                            *)
(***************************************************************************)
EXTENDS FragInfo

CONSTANTS
    Readers,   \* a sequence: the order of the proxies (rw_next_guid)
    Null,
    Burst,     \* rtps_frag_burst
    PerMsg,    \* fragments that fit in one message (rtps_max_msg_size)
    NackBits,  \* bits of a NACK_FRAG set: 8 * 32
    Drops,     \* the writer may remove the sample from its cache
    MaxFill,   \* bound: how often a reader's cache becomes full
    MaxNet     \* bound: messages under way

ASSUME FragReliableAssumption ==
    /\ {Burst, PerMsg, NackBits} \subseteq Nat \ {0}
    /\ {MaxFill, MaxNet} \subseteq Nat
    /\ Drops \in BOOLEAN
    /\ Readers \in Seq(Range(Readers))
    /\ Null \notin Range(Readers)

R == Range(Readers)

VARIABLES
    proxy,   \* per reader: the state of the change at the writer
    nfrags,  \* per reader: fragments->total at the writer, 0 without context
    wack,    \* c_wack of the change: 0, 1 or 2 for more
    net,     \* messages under way
    state,   \* per reader: what it has of the sample
    ctx,     \* per reader: its context, named after the reader that made it
    fi,      \* the contexts
    out,     \* per reader: the part of the buffer that was filled when the
             \* sample was handed to the cache
    room,    \* per reader: its cache accepts a sample
    fill     \* how often a cache became full

vars == <<proxy, nfrags, wack, net, state, ctx, fi, out, room, fill>>
writerVars == <<proxy, nfrags, wack>>
readerVars == <<state, ctx, fi, out>>
cacheVars  == <<room, fill>>

Init ==
    /\ proxy = [r \in R |-> "unsent"]
    /\ nfrags = [r \in R |-> 0]
    /\ wack = Min({Cardinality(R), 2})
    /\ net = {}
    /\ state = [r \in R |-> "none"]
    /\ ctx = [r \in R |-> Null]
    /\ fi = [r \in R |-> [rfraginfo_create EXCEPT !.nrefs = 0]]
    /\ out = [r \in R |-> {}]
    /\ room = [r \in R |-> TRUE]
    /\ fill = 0

\* The messages ms replace m; a lossy network loses any of them.
Exchange(m, ms, lossy) ==
    \E kept \in IF lossy THEN SUBSET ms ELSE {ms} :
        /\ net' = (net \ m) \cup kept
        /\ Cardinality(net') <= MaxNet

DataFrag(to, first, last) == [type |-> "datafrag", to |-> to, first |-> first, last |-> last]

-----------------------------------------------------------------------------
(* The writer.                                                             *)

\* rtps_msg_add_data: consecutive fragments share a message while they fit.
\* nackfrag calls it once for each run of requested fragments.
DataFrags(to, frags) ==
    LET RunStart(f) == Min({g \in 1..f : g..f \subseteq frags})
        Starts == {f \in frags : (f - RunStart(f)) % PerMsg = 0}
    IN  {DataFrag(to, f, Max({g \in f..(f + PerMsg - 1) : f..g \subseteq frags})) : f \in Starts}

\* sfw_rel_send_data for the change of reader r.  A requested change that has
\* a context waits for a NACK_FRAG.
SendsData(r) == ~ (proxy[r] = "requested" /\ nfrags[r] > 0) /\ wack > 0

sfw_rel_send_data(r, lossy) ==
    /\ proxy[r] \in {"unsent", "requested"}
    /\ proxy' = [proxy EXCEPT ![r] = "underway"]
    /\ IF SendsData(r)
       THEN /\ Exchange({}, DataFrags(IF wack > 1 THEN R ELSE {r}, 1..Min({Burst, Total})), lossy)
            /\ nfrags' = [nfrags EXCEPT ![r] = IF @ = 0 THEN Min({Burst, Total}) ELSE @]
            /\ wack' = 0
       ELSE UNCHANGED <<net, nfrags, wack>>
    /\ UNCHANGED <<readerVars, cacheVars>>

\* The HEARTBEAT_FRAG part of sfw_send_heartbeat.  The timers are slower than
\* the network: at most one of its messages is under way, as with ACKNACKs.
sfw_send_heartbeat(r, lossy) ==
    /\ proxy[r] = "underway"
    /\ nfrags[r] > 0
    /\ ~ \E m \in net : m.type = "hbfrag" /\ m.to = r
    /\ Exchange({}, {[type |-> "hbfrag", to |-> r, last_frag |-> nfrags[r]]}, lossy)
    /\ UNCHANGED <<writerVars, readerVars, cacheVars>>

\* rp->fragments of the writer has a total of the fragments that were sent.
sfw_rel_nackfrag(m, lossy) ==
    /\ m \in net /\ m.type = "nackfrag"
    /\ Exchange({m}, DataFrags({m.from}, {f \in m.frags : f <= nfrags[m.from]}), lossy)
    /\ UNCHANGED <<writerVars, readerVars, cacheVars>>

sfw_rel_acknack(m) ==
    /\ m \in net /\ m.type = "acknack"
    /\ net' = net \ {m}
    /\ IF proxy[m.from] \in {"acked", "removed"} THEN UNCHANGED writerVars
       ELSE IF m.acked
            THEN /\ proxy' = [proxy EXCEPT ![m.from] = "acked"]
                 /\ nfrags' = [nfrags EXCEPT ![m.from] = 0]
                 /\ UNCHANGED wack
            ELSE /\ proxy' = [proxy EXCEPT ![m.from] = IF @ = "unsent" THEN @ ELSE "requested"]
                 /\ wack' = Min({wack + 1, 2})
                 /\ UNCHANGED nfrags
    /\ UNCHANGED <<readerVars, cacheVars>>

\* The history drops the sample: the proxies free their contexts.
sfw_rel_rem_change ==
    /\ Drops
    /\ \E r \in R : proxy[r] \notin {"acked", "removed"}
    /\ proxy' = [r \in R |-> IF proxy[r] = "acked" THEN "acked" ELSE "removed"]
    /\ nfrags' = [r \in R |-> 0]
    /\ UNCHANGED <<wack, net, readerVars, cacheVars>>

-----------------------------------------------------------------------------
(* The readers.                                                            *)

rfraginfo_delete(s, r) ==
    [s EXCEPT !.fi[s.ctx[r]].nrefs = @ - 1, !.ctx[r] = Null]

\* Mutant of TakeContext: the reader that shares a context does not count.
TakeContextUncounted(s, r) ==
    IF s.ctx[r] # Null THEN s
    ELSE IF s.finfo # Null THEN [s EXCEPT !.ctx[r] = s.finfo]
    ELSE [s EXCEPT !.ctx[r] = r, !.fi[r] = rfraginfo_create, !.finfo = r]

\* The context for the fragment: the reader's own, else the one that another
\* reader made for the same message, else a new one.
TakeContext(s, r) ==
    IF s.ctx[r] # Null THEN s
    ELSE IF s.finfo # Null THEN [s EXCEPT !.ctx[r] = s.finfo, !.fi[s.finfo].nrefs = @ + 1]
    ELSE [s EXCEPT !.ctx[r] = r, !.fi[r] = rfraginfo_create, !.finfo = r]

\* Mutant of ignore_last_fragment: first_na is left where it was.
ignore_last_fragment_keeps(fip, last) ==
    [fip EXCEPT !.num_na = 1, !.got = @ \ {last}, !.first_na = last]

ignore_last_fragment(fip, last) ==
    [fip EXCEPT !.num_na = 1, !.got = @ \ {last}, !.first_na = last - 1]

\* sfr_fragment, with its callers in sfr_rel_data: a sample that is in the
\* cache or lost is ignored.  When the last fragment is there the sample is
\* handed to the cache, if the cache accepts it.
sfr_fragment(s, r, m) ==
    IF s.state[r] \notin {"none", "part"} THEN s
    ELSE LET t == TakeContext(s, r)
             c == t.ctx[r]
             fip == mark_fragment(t.fi[c], m.first, m.last)
             u == [t EXCEPT !.fi[c] = fip, !.state[r] = "part"]
         IN  IF fip.num_na > 0 THEN u
             ELSE IF ~room[r]
             THEN [u EXCEPT !.fi[c] = ignore_last_fragment(fip, m.last)]
             ELSE rfraginfo_delete(
                     [u EXCEPT !.out[r] = fip.buf, !.state[r] = "received",
                               !.finfo = IF fip.nrefs = 1 THEN Null ELSE @], r)

\* submsg_rx_data_frag: one message for every destination in turn.
submsg_rx_data_frag(m) ==
    LET s0 == [state |-> state, ctx |-> ctx, fi |-> fi, out |-> out, finfo |-> Null]
        Step(s, r) == IF r \in m.to THEN sfr_fragment(s, r, m) ELSE s
        served[n \in 0..Len(Readers)] ==
            IF n = 0 THEN s0 ELSE Step(served[n - 1], Readers[n])
        s1 == served[Len(Readers)]
    IN  /\ state' = s1.state
        /\ ctx' = s1.ctx
        /\ fi' = s1.fi
        /\ out' = s1.out

ReceiveDataFrag(m, again) ==
    /\ m \in net /\ m.type = "datafrag"
    /\ submsg_rx_data_frag(m)
    /\ net' = IF again THEN net ELSE net \ {m}
    /\ UNCHANGED <<writerVars, cacheVars>>

\* The loop of sfr_rel_hbfrag looks at bit i.  A full bitmap is sent from within
\* the loop, with the index of the first fragment for its number and without
\* its last bit.
NackTurn(a, i, got) ==
    LET open == a.ofs # -1
        set == i + 1 \notin got
        ofs == IF set /\ ~open THEN i ELSE a.ofs
        bits == IF ~set THEN a.bits ELSE IF open THEN a.bits \cup {i - ofs} ELSE {0}
    IN  IF ofs = -1 THEN a
        ELSE IF i - ofs + 1 >= NackBits
        THEN [ofs |-> -1, bits |-> {},
              sets |-> a.sets \cup {{ofs + k : k \in bits \ {Max(bits)}}}]
        ELSE [a EXCEPT !.ofs = ofs, !.bits = bits]

\* The sets of fragments that sfr_rel_hbfrag requests.
NackSets(first, total, got) ==
    LET turns[i \in first..total] ==
            IF i = first THEN [ofs |-> -1, bits |-> {}, sets |-> {}]
            ELSE NackTurn(turns[i - 1], i - 1, got)
        end == turns[total]
    IN  end.sets \cup (IF end.ofs = -1 THEN {} ELSE {{end.ofs + 1 + k : k \in end.bits}})

sfr_rel_hbfrag(m, lossy) ==
    /\ m \in net /\ m.type = "hbfrag"
    /\ LET r == m.to
           fip == fi[ctx[r]]
           sets == IF state[r] = "part" THEN NackSets(fip.first_na, Total, fip.got)
                   ELSE IF state[r] = "none" THEN NackSets(0, m.last_frag, {}) ELSE {}
       IN  Exchange({m}, {[type |-> "nackfrag", from |-> r, frags |-> fs] : fs \in sets}, lossy)
    /\ UNCHANGED <<writerVars, readerVars, cacheVars>>

\* A HEARTBEAT is answered: the sample is requested until it is in the cache.
sfr_rel_do_ack(r, lossy) ==
    /\ \E q \in R : proxy[q] # "unsent"
    /\ proxy[r] \notin {"acked", "removed"}
    /\ ~ \E m \in net : m.type = "acknack" /\ m.from = r
    /\ Exchange({}, {[type |-> "acknack", from |-> r, acked |-> state[r] \in {"received", "lost"}]}, lossy)
    /\ UNCHANGED <<writerVars, readerVars, cacheVars>>

\* A GAP, or a HEARTBEAT with a higher first sequence number, arrives for a
\* sample that the writer dropped (sfr_rel_gap_range, sfr_rel_heartbeat).
MarkLost(r) ==
    /\ proxy[r] = "removed"
    /\ state[r] \in {"none", "part"}
    /\ LET s == [state |-> [state EXCEPT ![r] = "lost"], ctx |-> ctx, fi |-> fi]
           t == IF ctx[r] = Null THEN s ELSE rfraginfo_delete(s, r)
       IN  state' = t.state /\ ctx' = t.ctx /\ fi' = t.fi
    /\ UNCHANGED <<writerVars, net, out, cacheVars>>

\* Other samples fill the cache of a reader, the application takes them.
FillCache(r) ==
    /\ room[r] /\ fill < MaxFill
    /\ room' = [room EXCEPT ![r] = FALSE]
    /\ fill' = fill + 1
    /\ UNCHANGED <<writerVars, net, readerVars>>

TakeSamples(r) ==
    /\ ~room[r]
    /\ room' = [room EXCEPT ![r] = TRUE]
    /\ UNCHANGED <<writerVars, net, readerVars, fill>>

-----------------------------------------------------------------------------
Next ==
    \/ \E r \in R : \/ sfw_rel_send_data(r, TRUE)
                    \/ sfw_send_heartbeat(r, TRUE)
                    \/ sfr_rel_do_ack(r, TRUE)
                    \/ MarkLost(r)
                    \/ FillCache(r)
                    \/ TakeSamples(r)
    \/ \E m \in net : \/ sfw_rel_nackfrag(m, TRUE)
                      \/ sfw_rel_acknack(m)
                      \/ \E again \in BOOLEAN : ReceiveDataFrag(m, again)
                      \/ sfr_rel_hbfrag(m, TRUE)
    \/ sfw_rel_rem_change

Spec == Init /\ [][Next]_vars

\* The transmit queue is served and the heartbeat timer runs; a message that
\* is sent again and again is not lost every time; the application takes what
\* is in the cache.
Fairness ==
    /\ \A r \in R : /\ SF_vars(sfw_rel_send_data(r, FALSE))
                    /\ SF_vars(sfw_send_heartbeat(r, FALSE))
                    /\ SF_vars(sfr_rel_do_ack(r, FALSE))
                    /\ WF_vars(MarkLost(r))
                    /\ WF_vars(TakeSamples(r))
    /\ SF_vars(\E m \in net : sfw_rel_nackfrag(m, FALSE))
    /\ SF_vars(\E m \in net : sfr_rel_hbfrag(m, FALSE))
    /\ WF_vars(\E m \in net : sfw_rel_acknack(m))
    /\ WF_vars(\E m \in net : ReceiveDataFrag(m, FALSE))

FairSpec == Spec /\ Fairness

-----------------------------------------------------------------------------
\* Every variable keeps its type; num_na and nrefs, which are unsigned, never
\* pass below 0 (mark_fragment, rfraginfo_delete).
TypeOK ==
    /\ proxy \in [R -> {"unsent", "requested", "underway", "acked", "removed"}]
    /\ nfrags \in [R -> 0..Total]
    /\ wack \in 0..2
    /\ \A m \in net : \/ m.type = "datafrag" /\ m.to \subseteq R
                         /\ {m.first, m.last} \subseteq Fragments
                      \/ m.type = "hbfrag" /\ m.to \in R /\ m.last_frag \in Fragments
                      \/ m.type = "nackfrag" /\ m.from \in R /\ m.frags \subseteq 0..Total
                      \/ m.type = "acknack" /\ m.from \in R /\ m.acked \in BOOLEAN
    /\ state \in [R -> {"none", "part", "received", "lost"}]
    /\ ctx \in [R -> R \cup {Null}]
    /\ fi \in [R -> [nrefs : 0..Cardinality(R), first_na : 0..Total, num_na : 0..Total,
                     got : SUBSET Fragments, buf : SUBSET Fragments]]
    /\ out \in [R -> SUBSET Fragments]
    /\ room \in [R -> BOOLEAN]
    /\ fill \in 0..MaxFill

\* A reader hands a sample to its cache only when every fragment of it was
\* copied to the buffer (mark_fragment, sfr_fragment), whatever was lost, sent
\* again or refused, and whoever shares the buffer.
DeliveredWhole == \A r \in R : state[r] = "received" => out[r] = Fragments

\* num_na counts the clear bits of a context and first_na is the first of
\* them, so that sfr_rel_hbfrag, which starts at first_na, requests every
\* fragment that is missing.
ContextExact == \A r \in R : ctx[r] # Null => Exact(fi[ctx[r]])

\* nrefs of a context is the number of readers that use it: it is freed when
\* the last of them is done, neither before nor never.
ContextCounted == \A c \in R : fi[c].nrefs = Cardinality({r \in R : ctx[r] = c})

\* The fragments that a NACK_FRAG requests are fragments of the sample, whatever
\* the reader had got when sfr_rel_hbfrag built the bitmap, and it has one.
NackNamesFragments ==
    \A m \in net : m.type = "nackfrag" => m.frags # {} /\ m.frags \subseteq Fragments

\* The context that reader r uses was completed by another reader.
Stranded(r) == ctx[r] # Null /\ fi[ctx[r]].num_na = 0

\* A sample whose last fragment was refused because the cache is full (after
\* ignore_last_fragment) has a fragment that will be requested again: a
\* context that is in use is not complete.
RefusedIsIncomplete == \A r \in R : ~ Stranded(r)

\* Every reader gets the sample in its cache, or it is told that the writer
\* dropped it, unless it is stranded with a context that is complete.
Reassembled == \A r \in R : <>(state[r] \in {"received", "lost"} \/ Stranded(r))
=============================================================================

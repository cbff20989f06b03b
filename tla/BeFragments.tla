---------------------------- MODULE BeFragments -----------------------------
(***************************************************************************)
(* Fragmented samples at best-effort stateful readers of one writer        *)
(* (rtps_sfbr.c, rtps_frag.c).  Every reader keeps at most one sample in   *)
(* reassembly, in the list that the reliable reader uses for its changes.  *)
(***************************************************************************)
EXTENDS FragInfo

CONSTANTS
    Readers,   \* a sequence: the order of the proxies (rw_next_guid)
    Null,
    PerMsg,    \* fragments that fit in one message (rtps_max_msg_size)
    Small,     \* samples that are not fragmented
    MaxSnr     \* bound: samples of the writer

R == Range(Readers)
Snr == 1..MaxSnr

VARIABLES
    changes, \* per reader: rw_changes, a list of nodes
    fi,      \* contexts, each named after the reader that made it
    next,    \* per reader: rw_seqnr_next
    out,     \* per reader: samples handed to the cache, with their buffer
    fault    \* undefined behaviour that was met; it ends the behaviour

vars == <<changes, fi, next, out, fault>>

NoContext == [rfraginfo_create EXCEPT !.nrefs = 0]
Node(snr) == [snr |-> snr, ctx |-> Null, live |-> TRUE]

Init ==
    /\ changes = [r \in R |-> <<>>]
    /\ fi = [r \in R |-> [info |-> NoContext, data |-> FALSE, timer |-> Null]]
    /\ next = [r \in R |-> 1]
    /\ out = [r \in R |-> <<>>]
    /\ fault = "none"

Fault(s, f) == [s EXCEPT !.fault = f]

-----------------------------------------------------------------------------
\* The end of sfr_be_data: an old sample is dropped, the others go to the
\* cache in the order in which they arrive.
AddToCache(s, r, snr, buf) ==
    IF snr < s.next[r] THEN s
    ELSE [s EXCEPT !.out[r] = Append(@, [snr |-> snr, buf |-> buf]), !.next[r] = snr + 1]

\* The i-th node of reader r gives up its context.
rfraginfo_delete(s, r, i) ==
    LET c == s.changes[r][i].ctx
    IN  IF c = Null THEN s
        ELSE [s EXCEPT !.changes[r][i].ctx = Null, !.fi[c].info.nrefs = @ - 1,
                       !.fi[c].timer = IF s.fi[c].info.nrefs = 1 THEN Null ELSE @]

\* The node is done: whatever else the list holds is forgotten.
Unlist(s, r, i) == [rfraginfo_delete(s, r, i) EXCEPT !.changes[r] = <<>>]

\* new_finfo: a context that another reader made for this message is counted,
\* but not kept in refp->fragments.  It was freed if it is complete already.
NewContext(s, r, i) ==
    IF s.finfo # Null
    THEN IF s.fi[s.finfo].info.nrefs = 0 THEN Fault(s, "freed context")
         ELSE [s EXCEPT !.fip = s.finfo, !.fi[s.finfo].info.nrefs = @ + 1]
    ELSE [s EXCEPT !.fip = r, !.finfo = r, !.changes[r][i].ctx = r,
                   !.fi[r] = [info |-> rfraginfo_create, data |-> TRUE, timer |-> Null]]

\* A jump to new_finfo from the reset has max_frags 0: the new context has no
\* room for the bits of its fragments.
ReplacedContext(s, r) ==
    IF s.finfo = Null THEN Fault(s, "no bitmap") ELSE NewContext(s, r, 1)

\* mark_fragment and what follows it: first_na is advanced once more, the
\* timer runs until the sample is complete.
AddFragment(s, r, i, m) ==
    LET c == s.fip
        marked == mark_fragment(s.fi[c].info, m.first, m.last)
        fip == [marked EXCEPT !.first_na = @ + 1]
        t == [s EXCEPT !.fi[c].info = fip]
    IN  IF s.fault # "none" THEN s
        ELSE IF ~s.fi[c].data THEN Fault(s, "no buffer")
        ELSE IF fip.num_na > 0 THEN [t EXCEPT !.fi[c].timer = r]
        ELSE AddToCache(Unlist([t EXCEPT !.fi[c].timer = Null], r, i), r, m.snr, fip.buf)

\* rfraginfo_update clears the whole context, its reference count and its
\* buffer included.
rfraginfo_update(s, c) ==
    [s EXCEPT !.fi[c] = [info |-> NoContext, data |-> FALSE, timer |-> Null], !.fip = c]

\* The fragment part of sfr_be_data: without a context at the head of the list
\* a node is added for the first fragment; another sample resets the context;
\* otherwise only the fragment that first_na names is welcome.
sfr_be_data_frag(s, r, m) ==
    LET q == s.changes[r]
        c == IF q = <<>> THEN Null ELSE Head(q).ctx
        i == Len(q) + 1
    IN  IF q # <<>> /\ ~Head(q).live THEN Fault(s, "freed node")
        ELSE IF c = Null
        THEN IF m.first # 1 THEN s
             ELSE AddFragment(NewContext([s EXCEPT !.changes[r] = Append(@, Node(m.snr))], r, i),
                              r, i, m)
        ELSE IF Head(q).snr # m.snr
        THEN IF m.first # 1 THEN s
             ELSE IF s.fi[c].info.nrefs = 1 THEN AddFragment(rfraginfo_update(s, c), r, 1, m)
             ELSE AddFragment(ReplacedContext(rfraginfo_delete(s, r, 1), r), r, 1, m)
        ELSE IF m.first # s.fi[c].info.first_na + 1 THEN s
        ELSE AddFragment([s EXCEPT !.fip = c], r, 1, m)

\* A sample that is not fragmented ends the reassembly.
sfr_be_data(s, r, snr) ==
    LET q == s.changes[r]
    IN  IF q # <<>> /\ ~Head(q).live THEN Fault(s, "freed node")
        ELSE AddToCache(IF q # <<>> /\ Head(q).ctx # Null THEN Unlist(s, r, 1) ELSE s,
                        r, snr, Fragments)

\* Every reader in turn, with the context that the first of them made.
ForEachReader(Handle(_, _)) ==
    LET s0 == [changes |-> changes, fi |-> fi, next |-> next, out |-> out, fault |-> fault,
               finfo |-> Null, fip |-> Null]
        Step(s, r) == IF s.fault = "none" THEN Handle(s, r) ELSE s
        s1 == FoldLeft(Step, s0, Readers)
    IN  /\ changes' = s1.changes
        /\ fi' = s1.fi
        /\ next' = s1.next
        /\ out' = s1.out
        /\ fault' = s1.fault

\* DATA_FRAG or DATA of any sample, in any order, any number of times.
ReceiveDataFrag(snr, first) ==
    /\ snr \notin Small
    /\ LET m == [snr |-> snr, first |-> first, last |-> Min({first + PerMsg - 1, Total})]
           Handle(s, r) == sfr_be_data_frag(s, r, m)
       IN  ForEachReader(Handle)

ReceiveData(snr) ==
    /\ snr \in Small
    /\ LET Handle(s, r) == sfr_be_data(s, r, snr)
       IN  ForEachReader(Handle)

\* sfr_be_frag_to: the node at the head is freed, the list keeps it.
sfr_be_frag_to(c) ==
    LET r == fi[c].timer
        s == [changes |-> changes, fi |-> [fi EXCEPT ![c].timer = Null]]
        t == rfraginfo_delete(s, r, 1)
    IN  /\ r # Null
        /\ IF changes[r] = <<>>
           THEN /\ fault' = "no node"
                /\ UNCHANGED <<changes, fi>>
           ELSE /\ changes' = [t.changes EXCEPT ![r][1].live = FALSE]
                /\ fi' = t.fi
                /\ UNCHANGED fault
        /\ UNCHANGED <<next, out>>

Next ==
    /\ fault = "none"
    /\ \/ \E snr \in Snr : \/ \E first \in {f \in Fragments : (f - 1) % PerMsg = 0} : ReceiveDataFrag(snr, first)
                           \/ ReceiveData(snr)
       \/ \E c \in R : sfr_be_frag_to(c)

Spec == Init /\ [][Next]_vars

-----------------------------------------------------------------------------
\* The nodes of the lists.
Nodes == UNION {Range(changes[r]) : r \in R}

\* first_na of a context in use is the first fragment that was not received,
\* which sfr_be_data expects next.
FirstMissingExact == \A n \in Nodes : n.ctx # Null => Exact(fi[n.ctx].info)

\* A reader that got the first fragment of a sample (sfr_be_data) has a context
\* for it, also when another reader of the participant got it too.
FirstFragmentHasContext == \A n \in Nodes : n.live => n.ctx # Null

\* mark_fragment only copies to a buffer that exists, also after
\* rfraginfo_update reset the context for another sample.
ResetHasBuffer == fault # "no buffer"

\* rw_changes only holds allocated nodes, also after sfr_be_frag_to.
ListedIsAllocated == \A n \in Nodes : n.live
=============================================================================

------------------------------ MODULE FragInfo ------------------------------
(***************************************************************************)
(* The reassembly context of a fragmented sample (FragInfo_t, rtps_frag.c).*)
(* Fragments have the numbers 1..Total on the wire; first_na counts from 0.*)
(***************************************************************************)
EXTENDS Integers, FiniteSets, SequencesExt, FiniteSetsExt

CONSTANT Total    \* fragments of a sample

ASSUME FragInfoAssumption == Total \in Nat \ {0}

Fragments == 1..Total

\* rfraginfo_create: buf is the part of the buffer that was filled in.
rfraginfo_create == [nrefs |-> 1, first_na |-> 0, num_na |-> Total, got |-> {}, buf |-> {}]

\* The first index from i on whose bit is clear.
NextClear(got, i) == Min({j \in i..Total : j + 1 \notin got})

\* One turn of the loop in mark_fragment.
MarkOne(fip, f) ==
    IF f \in fip.got THEN fip
    ELSE LET got == fip.got \cup {f}
             moves == fip.num_na > 1 /\ fip.first_na = f - 1
         IN  [fip EXCEPT !.got = got, !.buf = @ \cup {f}, !.num_na = @ - 1,
                         !.first_na = IF moves THEN NextClear(got, f) ELSE @]

MarkOneInOrder(fip, f) ==
    [MarkOne(fip, f) EXCEPT !.buf = IF fip.first_na = f - 1 THEN @ ELSE fip.buf]

\* Mutant of mark_fragment: only the fragment that first_na names is copied.
mark_fragment_in_order(fip, first, last) ==
    LET marked[f \in first - 1..last] ==
            IF f < first THEN fip ELSE MarkOneInOrder(marked[f - 1], f)
    IN  marked[last]

mark_fragment(fip, first, last) ==
    LET marked[f \in first - 1..last] ==
            IF f < first THEN fip ELSE MarkOne(marked[f - 1], f)
    IN  marked[last]

\* A context whose bits, count and first missing fragment agree.
Exact(fip) ==
    /\ fip.num_na = Cardinality(Fragments \ fip.got)
    /\ fip.num_na > 0 => fip.first_na = NextClear(fip.got, 0)
=============================================================================

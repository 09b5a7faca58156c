-------------------------- MODULE MCOverloadSearch --------------------------
(* Small instances of OverloadSearch: rank tables over a few ranks.  The   *)
(* ranks chosen stand for the classes the code distinguishes: impossible   *)
(* (0), lossy (2, 3), preferred but inexact (7) and identical (8).         *)
EXTENDS OverloadSearch

CONSTANTS OwnRanks, ConvRanks, OuterRanks

Nested2x2   == <<2, 2>>
InnerIsArgument == <<{}, {1}>>

None == {}
FirstSite  == {<<1, 1>>, <<1, 2>>}
AllButOne == Cand \ {<<2, 2>>}

MCProblems ==
    LET passes == {<<d, c>> \in Cand \X Cand : d[1] \in ArgSites[c[1]]}
        pairs  == {<<c, d>> \in Cand \X Cand : c[1] = d[1] /\ c[2] < d[2]}
    IN  {[own |-> o, conv |-> v, outer |-> u, specific |-> sp] :
            o  \in [Cand -> OwnRanks],
            v  \in [passes -> ConvRanks],
            u  \in [CandidatesOf(NumSites) -> OuterRanks],
            sp \in SUBSET pairs}
=============================================================================

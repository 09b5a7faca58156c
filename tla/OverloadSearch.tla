--------------------------- MODULE OverloadSearch ---------------------------
(***************************************************************************)
(* The overload search of the compiler: TypeInferencePass (Sema/Infer/     *)
(* TypeInference.cpp) over the call sites of one expression                *)
(* (Infer/CallSite.cpp) and their candidate methods (CallCandidate.cpp).   *)
(*                                                                         *)
(* A call site is a number, in the order GatherConstraintsPass collects    *)
(* them (arguments before the call they are passed to); a candidate is a   *)
(* pair <<site, index>>.  What a site, the pass and the type environment   *)
(* cache between two calls of update() (remaining_, lowestRank_,           *)
(* underconstrained_, overconstrained_, conversionRank_) is a function of  *)
(* the candidates that were live at the last update(); that set is the     *)
(* variable `seen', so a stage that culls without updating leaves it stale *)
(* exactly as the code leaves those fields stale.                          *)
(*                                                                         *)
(* Types are abstracted to the conversion ranks they give: prob.own[c] is  *)
(* the worst rank of c's plain arguments and of its result against the     *)
(* expected return type, prob.conv[d, c] the rank of passing the result of *)
(* d to c, prob.outer[c] the rank of what encloses the outermost call, and *)
(* prob.specific the relation isMoreSpecific.                              *)
(***************************************************************************)
EXTENDS Integers, Sequences, FiniteSets, SequencesExt

CONSTANTS
    NumSites,        \* the number of call sites of the expression
    NumCandidates,   \* site -> number of candidates found by name lookup
    ArgSites,        \* site -> the sites whose results are its arguments
    Problems,        \* the rank tables considered
    Contradictable,  \* candidates whose constraints may be unsatisfiable
    Ununifiable,     \* candidates whose unification may fail
    ErrorSites,      \* sites with an error type in a candidate
    Strict,          \* strict_
    NoCandidate      \* the null candidate pointer

Site == 1..NumSites
Cand == UNION {{s} \X (1..NumCandidates[s]) : s \in Site}
CandidatesOf(s) == {c \in Cand : c[1] = s}

ASSUME SearchAssumption ==
    /\ NumSites \in Nat \ {0}
    /\ NumCandidates \in [Site -> Nat \ {0}]
    /\ ArgSites \in [Site -> SUBSET Site]
    /\ \A s \in Site : \A a \in ArgSites[s] : a < s
    /\ Contradictable \subseteq Cand
    /\ Ununifiable \subseteq Cand
    /\ ErrorSites \subseteq Site
    /\ NoCandidate \notin Cand

-----------------------------------------------------------------------------
(* Conversion ranks, from impossible to identical *)

Incompatible    == 0
Truncation      == 2
SignedUnsigned  == 3
NonPreferred    == 6
ExactConversion == 7
IdenticalTypes  == 8
Rank == Incompatible..IdenticalTypes

(* A table holds ranks, values of the enum ConversionRank *)
ASSUME RankAssumption ==
    \A p \in Problems :
        /\ \A c \in Cand : p.own[c] \in Rank
        /\ \A c \in Cand : \A a \in ArgSites[c[1]] : \A d \in CandidatesOf(a) :
              p.conv[<<d, c>>] \in Rank
        /\ \A c \in CandidatesOf(NumSites) : p.outer[c] \in Rank

VARIABLES
    prob,                \* the rank table of this expression
    pc,                  \* the stage of runImpl() that runs next
    pruningDepth,        \* candidate -> depth at which it was culled, or 0
    searchDepth,
    seen,                \* the candidates live at the last update()
    best,                \* site -> best_
    bestSolutionRank,
    bestSolutionCount,
    unsatisfiable,       \* what cullByContradiction() found
    cursor,              \* the site a loop over the sites has reached
    siteChanged,
    stack,               \* frames of the recursive cullByElimination()
    candidates,          \* site -> the candidate list of the call expression
    function,            \* site -> the candidate finish() picked
    reported,            \* the sites finish() reported an error for
    trail                \* history: pruningDepth at the entry of each depth

vars == <<prob, pc, pruningDepth, searchDepth, seen, best, bestSolutionRank,
          bestSolutionCount, unsatisfiable, cursor, siteChanged, stack,
          candidates, function, reported, trail>>

bestVars   == <<best, bestSolutionRank, bestSolutionCount>>
finishVars == <<candidates, function, reported>>
loopVars   == <<cursor, siteChanged, stack>>

Live == {c \in Cand : pruningDepth[c] = 0}

(* The rank of an ambiguous argument is the best over its live candidates  *)
(* (TypeConversion, case AmbiguousResult); a candidate is as good as its   *)
(* worst argument (combineConversionRanks).                                *)
ArgumentRank(a, c, live) ==
    Max({Incompatible} \cup {prob.conv[<<d, c>>] : d \in live \cap CandidatesOf(a)})

CandidateRank(c, live) ==
    Min({prob.own[c]} \cup {ArgumentRank(a, c, live) : a \in ArgSites[c[1]]})

SiteRank(s, live) ==
    Min({IdenticalTypes} \cup {CandidateRank(c, live) : c \in live \cap CandidatesOf(s)})

Remaining(s, live) == Cardinality(live \cap CandidatesOf(s))

(* The rank of the root expression against the expected type *)
RootRank(live) ==
    LET r == Max({Incompatible} \cup {prob.outer[c] : c \in live \cap CandidatesOf(NumSites)})
    IN  IF ~Strict /\ r < NonPreferred THEN NonPreferred ELSE r

LowestRank(live)       == Min({RootRank(live)} \cup {SiteRank(s, live) : s \in Site})
Overconstrained(live)  == \E s \in Site : Remaining(s, live) = 0
Underconstrained(live) == \E s \in Site : Remaining(s, live) > 1

HasChoice(s) == NumCandidates[s] > 1     \* count() > 1

-----------------------------------------------------------------------------
(* The operations the stages are made of *)

Goto(stage) == pc' = stage

Descend == /\ searchDepth' = searchDepth + 1
           /\ trail' = Append(trail, pruningDepth)

(* Mutant: a later cull overwrites the depth of an earlier one *)
CullOverwritesDepth(S) ==
    pruningDepth' = [c \in Cand |-> IF c \in S THEN searchDepth' ELSE pruningDepth[c]]

(* CallCandidate::cull: a candidate that is culled already keeps its depth *)
Cull(S) ==
    pruningDepth' = [c \in Cand |-> IF c \in S /\ pruningDepth[c] = 0
                                    THEN searchDepth' ELSE pruningDepth[c]]

(* update(): recompute every cached rank and count *)
Update == seen' = {c \in Cand : pruningDepth'[c] = 0}

(* Mutant: the culls of the depth that is left are not undone *)
BacktrackStrictly ==
    /\ pruningDepth' = [c \in Cand |-> IF pruningDepth[c] > searchDepth
                                       THEN 0 ELSE pruningDepth[c]]
    /\ searchDepth' = searchDepth - 1
    /\ trail' = SubSeq(trail, 1, Len(trail) - 1)
    /\ Update

Backtrack ==
    /\ pruningDepth' = [c \in Cand |-> IF pruningDepth[c] >= searchDepth
                                       THEN 0 ELSE pruningDepth[c]]
    /\ searchDepth' = searchDepth - 1
    /\ trail' = SubSeq(trail, 1, Len(trail) - 1)
    /\ Update

(* CallExpr::singularCandidate *)
SingularCandidate(s, live) ==
    IF Remaining(s, live) = 1 THEN CHOOSE c \in live \cap CandidatesOf(s) : TRUE
    ELSE NoCandidate

(* Mutant: a solution as good as the best replaces it *)
TieReplacesBest(cached, live) ==
    LET r == LowestRank(cached)
        complete == ~Overconstrained(cached) /\ ~Underconstrained(cached)
    IN  IF complete /\ r >= bestSolutionRank
        THEN /\ bestSolutionCount' = 1
             /\ bestSolutionRank' = r
             /\ best' = [s \in Site |-> SingularCandidate(s, live)]
        ELSE UNCHANGED bestVars

(* checkSolution(), given the cached state and the candidates live now *)
CheckSolution(cached, live) ==
    LET r == LowestRank(cached)
        complete == ~Overconstrained(cached) /\ ~Underconstrained(cached)
    IN  \/ /\ complete /\ r = bestSolutionRank
           /\ bestSolutionCount' = bestSolutionCount + 1
           /\ UNCHANGED <<best, bestSolutionRank>>
        \/ /\ complete /\ r > bestSolutionRank
           /\ bestSolutionCount' = 1
           /\ bestSolutionRank' = r
           /\ best' = [s \in Site |-> SingularCandidate(s, live)]
        \/ /\ ~complete \/ r < bestSolutionRank
           /\ UNCHANGED bestVars

(* Candidates of s a cull by rank removes (CallSite::cullByConversionRank) *)
BelowRank(s, limit) ==
    IF HasChoice(s) THEN {c \in Live \cap CandidatesOf(s) : CandidateRank(c, seen) < limit}
    ELSE {}

IsBetter(x, y) == /\ <<x, y>> \in prob.specific
                  /\ CandidateRank(x, seen) >= CandidateRank(y, seen)
Wins(x, y) == IsBetter(x, y) /\ ~IsBetter(y, x)

(* One candidate is compared with the survivors so far *)
Consider(kept, c) ==
    IF c \notin Live THEN kept
    ELSE {k \in kept : ~Wins(c, k)}
         \cup (IF \E k \in kept : Wins(k, c) THEN {} ELSE {c})

(* The survivors of CallSite::cullBySpecificity: candidates are taken in   *)
(* order.                                                                  *)
MostSpecific(s) ==
    LET kept[i \in Nat] == IF i = 0 THEN {} ELSE Consider(kept[i - 1], <<s, i>>)
    IN  kept[NumCandidates[s]]

-----------------------------------------------------------------------------
Init ==
    /\ prob \in Problems
    /\ pc = "unify"
    /\ pruningDepth = [c \in Cand |-> 0]
    /\ searchDepth = 0
    /\ seen = {}
    /\ best = [s \in Site |-> NoCandidate]
    /\ bestSolutionRank = Incompatible
    /\ bestSolutionCount = 0
    /\ unsatisfiable = {}
    /\ cursor = 1
    /\ siteChanged = FALSE
    /\ stack = <<>>
    /\ candidates = [s \in Site |-> CandidatesOf(s)]
    /\ function = [s \in Site |-> NoCandidate]
    /\ reported = {}
    /\ trail = <<>>

(* unify(): cull the candidates that do not unify.  A site where none does *)
(* is reported, which revives its candidates, and inference gives up; so   *)
(* it does at the first site with an error type.                           *)
Unify ==
    /\ pc = "unify"
    /\ \E failed \in SUBSET Ununifiable :
         LET hopeless == {s \in Site : CandidatesOf(s) \subseteq failed}
             reached  == {s \in Site : \A e \in ErrorSites : s < e}
         IN  /\ Descend
             /\ Cull({c \in failed : c[1] \in reached \ hopeless})
             /\ IF ErrorSites = {} /\ hopeless = {}
                THEN Update /\ Goto("contradiction")
                ELSE UNCHANGED seen /\ Goto("rejected")
    /\ UNCHANGED <<prob, unsatisfiable, bestVars, loopVars, finishVars>>

(* cullByContradiction(): every candidate whose provision is unsatisfiable *)
(* goes, at every site with a choice.  There is no update() afterwards.    *)
CullByContradiction ==
    /\ pc = "contradiction"
    /\ \E unsat \in SUBSET Contradictable :
         /\ unsatisfiable' = unsat
         /\ \/ unsat = {} /\ UNCHANGED <<pruningDepth, searchDepth, trail>>
            \/ /\ unsat # {}
               /\ Descend
               /\ Cull({c \in unsat : HasChoice(c[1])})
    /\ Goto("truncation")
    /\ UNCHANGED <<prob, seen, bestVars, loopVars, finishVars>>

(* Mutant: a global cull at the depth of the previous stage *)
CullAllSitesInPlace(limit, skipIfOver) ==
    IF Underconstrained(seen) /\ LowestRank(seen) < limit
         /\ ~(skipIfOver /\ Overconstrained(seen))
    THEN /\ UNCHANGED <<searchDepth, trail>>
         /\ Cull(UNION {BelowRank(s, limit) : s \in Site})
         /\ Update
    ELSE UNCHANGED <<pruningDepth, searchDepth, trail, seen>>

(* One of the three global culls of cullByConversionRank(); they read the  *)
(* cached ranks, and all but the first are skipped once overconstrained.   *)
CullAllSites(limit, skipIfOver) ==
    IF Underconstrained(seen) /\ LowestRank(seen) < limit
         /\ ~(skipIfOver /\ Overconstrained(seen))
    THEN /\ Descend
         /\ Cull(UNION {BelowRank(s, limit) : s \in Site})
         /\ Update
    ELSE UNCHANGED <<pruningDepth, searchDepth, trail, seen>>

CullTruncation ==
    /\ pc = "truncation" /\ Goto("exact")
    /\ CullAllSites(Truncation, FALSE)
    /\ UNCHANGED <<prob, unsatisfiable, bestVars, loopVars, finishVars>>

CullExact ==
    /\ pc = "exact" /\ Goto("identical")
    /\ CullAllSites(ExactConversion, TRUE)
    /\ UNCHANGED <<prob, unsatisfiable, bestVars, loopVars, finishVars>>

CullIdentical ==
    /\ pc = "identical" /\ Goto("rankBacktrack")
    /\ CullAllSites(IdenticalTypes, TRUE)
    /\ UNCHANGED <<prob, unsatisfiable, bestVars, loopVars, finishVars>>

(* Mutant: the last global cull is never undone *)
RankNoBacktrack ==
    /\ pc = "rankBacktrack" /\ Goto("eachSite")
    /\ UNCHANGED <<prob, pruningDepth, searchDepth, trail, seen, unsatisfiable,
                   bestVars, loopVars, finishVars>>

(* Undo the last global cull if it left a site without candidates *)
RankBacktrack ==
    /\ pc = "rankBacktrack" /\ Goto("eachSite")
    /\ IF Overconstrained(seen) THEN Backtrack
       ELSE UNCHANGED <<pruningDepth, searchDepth, trail, seen>>
    /\ UNCHANGED <<prob, unsatisfiable, bestVars, loopVars, finishVars>>

(* while (underconstrained_ && cullEachSiteByConversionRank()) *)
EachSite ==
    /\ pc = "eachSite"
    /\ IF Underconstrained(seen) THEN Goto("site") ELSE Goto("checkRank")
    /\ cursor' = 1
    /\ siteChanged' = FALSE
    /\ UNCHANGED <<prob, pruningDepth, searchDepth, seen, trail, unsatisfiable,
                   stack, bestVars, finishVars>>

(* Cull the lowest-ranked candidates of one site, on trial *)
SiteCull ==
    /\ pc = "site"
    /\ cursor \in Site /\ HasChoice(cursor)
    /\ SiteRank(cursor, seen) < IdenticalTypes
    /\ Descend
    /\ Cull(BelowRank(cursor, SiteRank(cursor, seen) + 1))
    /\ Update
    /\ IF Overconstrained(seen')
       THEN Goto("siteBacktrack") /\ UNCHANGED siteChanged
       ELSE Goto("site") /\ siteChanged' = TRUE
    /\ UNCHANGED <<prob, unsatisfiable, bestVars, cursor, stack, finishVars>>

(* Go on to the next site, or leave the loop *)
SiteNext ==
    /\ pc = "site"
    /\ cursor \in Site =>
         (~HasChoice(cursor) \/ SiteRank(cursor, seen) >= IdenticalTypes)
    /\ cursor' = cursor + 1
    /\ IF cursor \in Site /\ (HasChoice(cursor) => Underconstrained(seen)) THEN Goto("site")
       ELSE IF siteChanged THEN Goto("eachSite") ELSE Goto("checkRank")
    /\ UNCHANGED <<prob, pruningDepth, searchDepth, seen, trail, unsatisfiable,
                   bestVars, siteChanged, stack, finishVars>>

(* Mutant: the site's inner loop goes on after its trial failed *)
SiteRetry ==
    /\ pc = "siteBacktrack"
    /\ Backtrack
    /\ Goto("site")
    /\ UNCHANGED <<prob, unsatisfiable, bestVars, loopVars, finishVars>>

(* The trial emptied a site: undo it and leave this site's inner loop *)
SiteBacktrack ==
    /\ pc = "siteBacktrack"
    /\ Backtrack
    /\ cursor' = cursor + 1
    /\ IF Underconstrained(seen') THEN Goto("site")
       ELSE IF siteChanged THEN Goto("eachSite") ELSE Goto("checkRank")
    /\ UNCHANGED <<prob, unsatisfiable, bestVars, siteChanged, stack, finishVars>>

CheckAfterRank ==
    /\ pc = "checkRank" /\ Goto("specificity")
    /\ CheckSolution(seen, Live)
    /\ UNCHANGED <<prob, pruningDepth, searchDepth, seen, trail, unsatisfiable,
                   loopVars, finishVars>>

(* cullBySpecificity(): drop the less specific candidates of every site,   *)
(* and take it back if that is left with a lossy conversion.               *)
CullBySpecificity ==
    /\ pc = "specificity"
    /\ IF Underconstrained(seen)
       THEN /\ Descend
            /\ Cull(UNION {(Live \cap CandidatesOf(s)) \ MostSpecific(s) :
                              s \in {t \in Site : Remaining(t, seen) > 1}})
            /\ Update
            /\ CheckSolution(seen', seen')
            /\ IF LowestRank(seen') <= SignedUnsigned
               THEN Goto("specBacktrack") ELSE Goto("elimination")
       ELSE /\ Goto("elimination")
            /\ UNCHANGED <<pruningDepth, searchDepth, seen, trail, bestVars>>
    /\ UNCHANGED <<prob, unsatisfiable, loopVars, finishVars>>

SpecificityBacktrack ==
    /\ pc = "specBacktrack" /\ Goto("elimination")
    /\ Backtrack
    /\ UNCHANGED <<prob, unsatisfiable, bestVars, loopVars, finishVars>>

-----------------------------------------------------------------------------
(* cullByElimination(first, last): a depth-first walk over the choices of  *)
(* the sites that still have one.  A frame of the stack is a site and the  *)
(* choice it is at; `cursor' is `first'.                                   *)

EnterElimination ==
    /\ pc = "elimination"
    /\ IF Underconstrained(seen) THEN Goto("descend") ELSE Goto("finish")
    /\ cursor' = 1
    /\ UNCHANGED <<prob, pruningDepth, searchDepth, seen, trail, unsatisfiable,
                   bestVars, siteChanged, stack, finishVars>>

(* Skip a decided site; DASSERT(cs->remaining() > 0) *)
SkipSite ==
    /\ pc = "descend" /\ cursor \in Site /\ Underconstrained(seen)
    /\ Remaining(cursor, seen) <= 1
    /\ IF Remaining(cursor, seen) = 0
       THEN Goto("assertFailed") /\ UNCHANGED cursor
       ELSE Goto("descend") /\ cursor' = cursor + 1
    /\ UNCHANGED <<prob, pruningDepth, searchDepth, seen, trail, unsatisfiable,
                   bestVars, siteChanged, stack, finishVars>>

OpenSite ==
    /\ pc = "descend" /\ cursor \in Site /\ Underconstrained(seen)
    /\ Remaining(cursor, seen) > 1
    /\ stack' = Append(stack, [site |-> cursor, choice |-> 1])
    /\ Goto("choose")
    /\ UNCHANGED <<prob, pruningDepth, searchDepth, seen, trail, unsatisfiable,
                   bestVars, cursor, siteChanged, finishVars>>

(* Every site is decided: DASSERT(!overconstrained_), then compare *)
Leaf ==
    /\ pc = "descend" /\ (cursor \notin Site \/ ~Underconstrained(seen))
    /\ seen' = Live
    /\ IF Overconstrained(seen')
       THEN Goto("assertFailed") /\ UNCHANGED bestVars
       ELSE /\ CheckSolution(seen', seen')
            /\ IF stack = <<>> THEN Goto("cullBest") ELSE Goto("undoChoice")
    /\ UNCHANGED <<prob, pruningDepth, searchDepth, trail, unsatisfiable,
                   loopVars, finishVars>>

(* The choices of the top frame that are still to be tried *)
Untried == LET f == Last(stack)
           IN  {c \in Live \cap CandidatesOf(f.site) : c[2] >= f.choice}

(* cullAllExcept(ch), without an update(), then recurse on the next sites *)
TryChoice ==
    /\ pc = "choose" /\ Untried # {}
    /\ \E ch \in Untried :
         /\ \A other \in Untried : ch[2] <= other[2]
         /\ Descend
         /\ Cull(CandidatesOf(ch[1]) \ {ch})
         /\ stack' = Append(Front(stack), [site |-> ch[1], choice |-> ch[2] + 1])
         /\ cursor' = ch[1] + 1
    /\ Goto("descend")
    /\ UNCHANGED <<prob, seen, unsatisfiable, bestVars, siteChanged, finishVars>>

(* All choices tried: return to the caller *)
CloseSite ==
    /\ pc = "choose" /\ Untried = {}
    /\ stack' = Front(stack)
    /\ IF stack' = <<>> THEN Goto("cullBest") ELSE Goto("undoChoice")
    /\ UNCHANGED <<prob, pruningDepth, searchDepth, seen, trail, unsatisfiable,
                   bestVars, cursor, siteChanged, finishVars>>

UndoChoice ==
    /\ pc = "undoChoice" /\ Goto("choose")
    /\ Backtrack
    /\ UNCHANGED <<prob, unsatisfiable, bestVars, loopVars, finishVars>>

(* Keep the single best solution, if there is one *)
CullAllExceptBest ==
    /\ pc = "cullBest" /\ Goto("finish")
    /\ IF bestSolutionCount = 1
       THEN pruningDepth' = [c \in Cand |-> IF pruningDepth[c] = 0 /\ c # best[c[1]]
                                            THEN searchDepth ELSE pruningDepth[c]]
       ELSE UNCHANGED pruningDepth
    /\ Update
    /\ cursor' = 1
    /\ UNCHANGED <<prob, searchDepth, trail, unsatisfiable, bestVars,
                   siteChanged, stack, finishVars>>

-----------------------------------------------------------------------------
(* A site is reported unless one candidate is left, with no lossy conversion *)
BestLiveRank(s) ==
    Max({Incompatible} \cup {CandidateRank(c, seen) : c \in Live \cap CandidatesOf(s)})

(* Mutant: the rank of the survivor is not looked at *)
MustReportCount(s) == Remaining(s, seen) # 1

MustReport(s) == Remaining(s, seen) # 1 \/ BestLiveRank(s) < NonPreferred

(* CallSite::finish().  reportErrors() un-culls every candidate of the     *)
(* site (its backtrack(0)), so nothing is erased from the list of a site   *)
(* that was reported; then the first candidate of the list is picked.      *)
FinishSite ==
    /\ pc = "finish" /\ cursor \in Site
    /\ LET s == cursor
           report == MustReport(s)
           kept   == IF report THEN CandidatesOf(s) ELSE Live \cap CandidatesOf(s)
       IN  /\ pruningDepth' = [c \in Cand |-> IF report /\ c[1] = s THEN 0
                                              ELSE pruningDepth[c]]
           /\ reported' = IF report THEN reported \cup {s} ELSE reported
           /\ candidates' = [candidates EXCEPT ![s] = kept]
           /\ \E first \in kept :
                /\ \A other \in kept : first[2] <= other[2]
                /\ function' = [function EXCEPT ![s] = first]
    /\ cursor' = cursor + 1
    /\ UNCHANGED <<prob, pc, searchDepth, seen, trail, unsatisfiable, bestVars,
                   siteChanged, stack>>

FinishDone ==
    /\ pc = "finish" /\ cursor \notin Site
    /\ Goto("done")
    /\ UNCHANGED <<prob, pruningDepth, searchDepth, seen, trail, unsatisfiable,
                   bestVars, loopVars, finishVars>>

Next ==
    \/ Unify \/ CullByContradiction
    \/ CullTruncation \/ CullExact \/ CullIdentical \/ RankBacktrack
    \/ EachSite \/ SiteCull \/ SiteNext \/ SiteBacktrack
    \/ CheckAfterRank \/ CullBySpecificity \/ SpecificityBacktrack
    \/ EnterElimination \/ SkipSite \/ OpenSite \/ Leaf
    \/ TryChoice \/ CloseSite \/ UndoChoice \/ CullAllExceptBest
    \/ FinishSite \/ FinishDone

Spec     == Init /\ [][Next]_vars
FairSpec == Spec /\ WF_vars(Next)

-----------------------------------------------------------------------------
(* Properties *)

Stage == {"unify", "contradiction", "truncation", "exact", "identical",
          "rankBacktrack", "eachSite", "site", "siteBacktrack", "checkRank",
          "specificity", "specBacktrack", "elimination", "descend", "choose",
          "undoChoice", "cullBest", "finish", "done", "rejected", "assertFailed"}

(* Every variable stays in its type.  bestSolutionRank has no conjunct: it *)
(* is a rank of the tables, or Incompatible.                               *)
DepthTypeOK ==
    /\ pruningDepth \in [Cand -> Nat]
    /\ searchDepth \in Nat
    /\ trail \in Seq([Cand -> Nat])

TypeOK ==
    /\ DepthTypeOK
    /\ pc \in Stage
    /\ seen \subseteq Cand
    /\ best \in [Site -> Cand \cup {NoCandidate}]
    /\ bestSolutionCount \in Nat
    /\ unsatisfiable \subseteq Cand
    /\ cursor \in Nat \ {0}
    /\ siteChanged \in BOOLEAN
    /\ stack \in Seq([site : Site, choice : Nat \ {0}])
    /\ candidates \in [Site -> SUBSET Cand]
    /\ function \in [Site -> Cand \cup {NoCandidate}]
    /\ reported \subseteq Site

(* What backtracking to before depth d would make of the pruning depths *)
UndoneTo(d) == [c \in Cand |-> IF pruningDepth[c] >= d THEN 0 ELSE pruningDepth[c]]

(* The depth of every cull is at most the current one, and undoing all     *)
(* culls of depth d or more gives back exactly the candidates that were    *)
(* live, at the depths they had, when depth d was entered: what            *)
(* backtrack() relies on, since it keeps no copy of the state.  It holds   *)
(* until reportErrors() revives candidates in finish().                    *)
Undoable ==
    /\ Len(trail) = searchDepth
    /\ \A c \in Cand : pruningDepth[c] <= searchDepth
    /\ \A d \in 1..searchDepth : trail[d] = UndoneTo(d)

CullsAreUndoable == pc \notin {"finish", "done"} => Undoable

(* Every backtrack undoes a depth some stage has entered: what unify()     *)
(* culled at depth 1 is never undone, and inside cullByElimination() there *)
(* is one depth more for every frame that is trying a choice.              *)
Balanced ==
    /\ IF pc = "unify" THEN searchDepth = 0 ELSE searchDepth >= 1
    /\ pc \in {"contradiction", "truncation"} => ~Overconstrained(seen)
    /\ pc \in {"exact", "identical", "rankBacktrack"} /\ Overconstrained(seen)
          => searchDepth >= 2
    /\ pc \in {"siteBacktrack", "specBacktrack"} => searchDepth >= 2
    /\ pc = "descend" => searchDepth >= Len(stack) + 1
    /\ pc = "choose" => Len(stack) >= 1 /\ searchDepth >= Len(stack)
    /\ pc = "undoChoice" => Len(stack) >= 1 /\ searchDepth >= Len(stack) + 1
    /\ pc \notin {"descend", "choose", "undoChoice", "assertFailed"} => stack = <<>>

(* No stage gives up the last candidate of a site: outside the moments     *)
(* before a backtrack, a site without a live candidate lost them all to    *)
(* unification (depth 1) or to contradicting constraints.                  *)
OnlyContradictionEmptiesSite ==
    pc \notin {"exact", "identical", "rankBacktrack", "siteBacktrack"} =>
        \A s \in Site : Live \cap CandidatesOf(s) = {} =>
            \A c \in CandidatesOf(s) : c \in unsatisfiable \/ pruningDepth[c] = 1

(* The complete choices among the live candidates, and the best of them *)
Selections == {S \in SUBSET Live :
                  \A s \in Site : Cardinality(S \cap CandidatesOf(s)) = 1}
BestRank   == Max({LowestRank(S) : S \in Selections})
BestChoices == {S \in Selections : LowestRank(S) = BestRank}

(* When cullByElimination() returns it has seen every complete choice: the *)
(* best rank it holds is the best there is, a single best solution is the  *)
(* unique one of that rank, and a count above one means as many solutions, *)
(* unless the specificity stage had counted one already (its backtrack at  *)
(* a rank up to SignedUnsigned does not take the solution back).           *)
EliminationIsExhaustive ==
    pc = "cullBest" =>
        /\ bestSolutionRank = BestRank
        /\ bestSolutionCount = 1 => BestChoices = {{best[s] : s \in Site}}
        /\ bestSolutionRank > SignedUnsigned =>
              bestSolutionCount = Cardinality(BestChoices)

(* An expression accepted without a report has one candidate per call, and *)
(* the picked candidates, evaluated together, need no lossy conversion:    *)
(* the ranks finish() reads were cached before the last culls.             *)
AcceptedIsCoherent ==
    pc = "done" /\ reported = {} =>
        LET picked == {function[s] : s \in Site}
        IN  \A s \in Site : /\ candidates[s] = {function[s]}
                            /\ CandidateRank(function[s], picked) >= NonPreferred

(* The search ends: no cull loop repeats and the elimination walk is finite *)
Terminates == <>(pc \in {"done", "rejected", "assertFailed"})

(* "Choose the one with the best rank" (TypeInference.h, cullByElimination): *)
(* if one complete choice outranks all others, it is the one that is kept.   *)
UniqueBestIsChosen ==
    pc = "cullBest" /\ Cardinality(BestChoices) = 1 => bestSolutionCount = 1
=============================================================================

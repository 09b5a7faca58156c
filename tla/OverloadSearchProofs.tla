------------------------ MODULE OverloadSearchProofs ------------------------
(* Proofs about the overload search, for any number of sites, candidates   *)
(* and rank tables: the types, that culls and backtracks match up, that    *)
(* what finish() accepts is coherent, that no stage gives up the last      *)
(* candidate of a site, and that the elimination walk sees every choice.   *)
EXTENDS OverloadSearch, NaturalRecursion, FiniteSetTheorems, SequenceTheorems, TLAPS

USE SearchAssumption

(* A candidate is a site and an index of that site *)
LEMMA CandIsPair ==
    ASSUME NEW c \in Cand
    PROVE  /\ c[1] \in Site
           /\ c[2] \in 1..NumCandidates[c[1]]
           /\ c[2] \in Nat \ {0}
           /\ c \in CandidatesOf(c[1])
BY DEF Cand, CandidatesOf

(* A site has finitely many candidates, so counting live ones makes sense *)
LEMMA CandidatesFinite ==
    ASSUME NEW s \in Site
    PROVE  IsFiniteSet(CandidatesOf(s))
<1>1. NumCandidates[s] \in Nat
  OBVIOUS
<1>2. IsFiniteSet({s})
  BY FS_Singleton
<1>3. IsFiniteSet(1..NumCandidates[s])
  BY <1>1, FS_Interval
<1>4. IsFiniteSet({s} \X (1..NumCandidates[s]))
  BY <1>2, <1>3, FS_Product
<1>5. CandidatesOf(s) \subseteq {s} \X (1..NumCandidates[s])
  BY DEF CandidatesOf, Cand
<1> QED
  BY <1>4, <1>5, FS_Subset

(* remaining() is 0 only when no candidate of the site is live *)
LEMMA RemainingZero ==
    ASSUME NEW s \in Site, NEW live, NEW c \in live \cap CandidatesOf(s)
    PROVE  Remaining(s, live) # 0
<1>1. IsFiniteSet(live \cap CandidatesOf(s))
  BY CandidatesFinite, FS_Subset
<1> QED
  BY <1>1, FS_EmptySet DEF Remaining

-----------------------------------------------------------------------------
(* The three things a stage may do to the pruning depths *)

(* Entering a depth and culling at it *)
LEMMA DescendCull ==
    ASSUME DepthTypeOK, NEW S, Descend, Cull(S)
    PROVE  /\ DepthTypeOK'
           /\ Undoable => Undoable'
<1> USE DEF DepthTypeOK, Descend, Cull
<1>1. DepthTypeOK'
  OBVIOUS
<1>2. ASSUME Undoable PROVE Undoable'
  <2>1. Len(trail') = searchDepth'
    BY <1>2 DEF Undoable
  <2>2. \A c \in Cand : pruningDepth'[c] <= searchDepth'
    BY <1>2 DEF Undoable
  <2>3. ASSUME NEW d \in 1..searchDepth' PROVE trail'[d] = UndoneTo(d)'
    <3>1. CASE d = searchDepth + 1
      <4>1. trail'[d] = pruningDepth
        BY <3>1, <1>2 DEF Undoable
      <4>2. \A c \in Cand : pruningDepth[c] =
                IF pruningDepth'[c] >= d THEN 0 ELSE pruningDepth'[c]
        BY <3>1, <1>2 DEF Undoable
      <4> QED
        BY <4>1, <4>2 DEF UndoneTo
    <3>2. CASE d \in 1..searchDepth
      <4>1. trail'[d] = UndoneTo(d)
        BY <3>2, <1>2 DEF Undoable
      <4>2. \A c \in Cand : (IF pruningDepth[c] >= d THEN 0 ELSE pruningDepth[c]) =
                IF pruningDepth'[c] >= d THEN 0 ELSE pruningDepth'[c]
        BY <3>2, <1>2 DEF Undoable
      <4> QED
        BY <4>1, <4>2 DEF UndoneTo
    <3>3. d = searchDepth + 1 \/ d \in 1..searchDepth
      BY <2>3
    <3> QED
      BY <3>1, <3>2, <3>3
  <2> QED
    BY <2>1, <2>2, <2>3 DEF Undoable
<1> QED
  BY <1>1, <1>2

(* Backtracking from a depth that was entered *)
LEMMA BacktrackUndoes ==
    ASSUME DepthTypeOK, Undoable, searchDepth >= 1, Backtrack
    PROVE  DepthTypeOK' /\ Undoable'
<1> USE DEF DepthTypeOK, Backtrack
<1>1. Len(trail) = searchDepth
  BY DEF Undoable
<1>2. /\ trail' \in Seq([Cand -> Nat])
      /\ Len(trail') = searchDepth - 1
      /\ \A i \in 1..(searchDepth - 1) : trail'[i] = trail[i]
  BY <1>1
<1>3. DepthTypeOK'
  BY <1>2
<1>4. \A c \in Cand : pruningDepth'[c] <= searchDepth'
  OBVIOUS
<1>5. ASSUME NEW d \in 1..searchDepth' PROVE trail'[d] = UndoneTo(d)'
  <2>1. trail'[d] = UndoneTo(d)
    BY <1>2 DEF Undoable
  <2>2. \A c \in Cand : (IF pruningDepth[c] >= d THEN 0 ELSE pruningDepth[c]) =
            IF pruningDepth'[c] >= d THEN 0 ELSE pruningDepth'[c]
    OBVIOUS
  <2> QED
    BY <2>1, <2>2 DEF UndoneTo
<1> QED
  BY <1>2, <1>3, <1>4, <1>5 DEF Undoable

(* Leaving the depths alone *)
LEMMA DepthsUnchanged ==
    ASSUME DepthTypeOK, UNCHANGED <<pruningDepth, searchDepth, trail>>
    PROVE  DepthTypeOK' /\ (Undoable => Undoable')
BY DEF DepthTypeOK, Undoable, UndoneTo

-----------------------------------------------------------------------------
(* The inductive invariant.  Undoable alone is not inductive: a backtrack  *)
(* keeps it only from a depth of at least one, which is what Balanced      *)
(* accounts for stage by stage.                                            *)
IInv == TypeOK /\ CullsAreUndoable /\ Balanced

(* The invariant holds before unify(): depth 0, nothing culled *)
LEMMA InitIInv == Init => IInv
<1> SUFFICES ASSUME Init PROVE IInv
  OBVIOUS
<1>1. DepthTypeOK
  BY DEF Init, DepthTypeOK
<1>2. candidates \in [Site -> SUBSET Cand]
  BY DEF Init, CandidatesOf
<1>3. stack \in Seq([site : Site, choice : Nat \ {0}])
  BY DEF Init
<1>4. pc \in Stage
  BY DEF Init, Stage
<1>10. siteChanged \in BOOLEAN
  BY DEF Init
<1>11. cursor \in Nat \ {0} /\ bestSolutionCount \in Nat
  BY DEF Init
<1>9. /\ seen \subseteq Cand /\ unsatisfiable \subseteq Cand /\ reported \subseteq Site
  BY DEF Init
<1>5. /\ best \in [Site -> Cand \cup {NoCandidate}]
      /\ function \in [Site -> Cand \cup {NoCandidate}]
  BY DEF Init
<1>6. TypeOK
  BY <1>1, <1>2, <1>3, <1>4, <1>5, <1>9, <1>10, <1>11 DEF TypeOK
<1>7. CullsAreUndoable
  BY DEF Init, CullsAreUndoable, Undoable
<1>8. Balanced
  BY DEF Init, Balanced
<1> QED
  BY <1>6, <1>7, <1>8 DEF IInv

(* Comparing with the best solution keeps best_ a candidate or null *)
LEMMA CheckSolutionType ==
    ASSUME TypeOK, NEW cached, NEW live \in SUBSET Cand, CheckSolution(cached, live)
    PROVE  /\ best' \in [Site -> Cand \cup {NoCandidate}]
           /\ bestSolutionCount' \in Nat
<1>1. ASSUME NEW s \in Site
      PROVE  SingularCandidate(s, live) \in Cand \cup {NoCandidate}
  <2>1. CASE Remaining(s, live) = 1
    <3>1. live \cap CandidatesOf(s) # {}
      <4>1. Cardinality({}) = 0
        BY FS_EmptySet
      <4>2. ASSUME live \cap CandidatesOf(s) = {} PROVE FALSE
        <5>1. Remaining(s, live) = Cardinality({})
          BY <4>2 DEF Remaining
        <5> QED
          BY <2>1, <4>1, <5>1
      <4> QED
        BY <4>2
    <3>2. PICK c \in live \cap CandidatesOf(s) : TRUE
      BY <3>1
    <3>3. (CHOOSE x \in live \cap CandidatesOf(s) : TRUE) \in live \cap CandidatesOf(s)
      BY <3>2
    <3>4. SingularCandidate(s, live) \in live \cap CandidatesOf(s)
      BY <2>1, <3>3 DEF SingularCandidate
    <3> QED
      BY <3>4
  <2>2. CASE Remaining(s, live) # 1
    BY <2>2 DEF SingularCandidate
  <2> QED
    BY <2>1, <2>2
<1> QED
  BY <1>1 DEF CheckSolution, TypeOK, bestVars

-----------------------------------------------------------------------------
(* Depths and undoability, one step per action *)

(* Every stage keeps the culls undoable and the depths natural numbers *)
LEMMA DepthStep ==
    ASSUME IInv, Next
    PROVE  DepthTypeOK' /\ CullsAreUndoable'
<1> USE DEF IInv
<1>0. DepthTypeOK
  BY DEF TypeOK
<1>1. CASE Unify
  BY <1>0, <1>1, DescendCull DEF Unify, CullsAreUndoable
<1>2. CASE CullByContradiction
  BY <1>0, <1>2, DescendCull, DepthsUnchanged DEF CullByContradiction, CullsAreUndoable
<1>3. CASE CullTruncation
  BY <1>0, <1>3, DescendCull, DepthsUnchanged DEF CullTruncation, CullAllSites, CullsAreUndoable
<1>4. CASE CullExact
  BY <1>0, <1>4, DescendCull, DepthsUnchanged DEF CullExact, CullAllSites, CullsAreUndoable
<1>5. CASE CullIdentical
  BY <1>0, <1>5, DescendCull, DepthsUnchanged DEF CullIdentical, CullAllSites, CullsAreUndoable
<1>6. CASE RankBacktrack
  <2>1. CASE Overconstrained(seen)
    <3>1. searchDepth >= 1
      BY <1>6 DEF RankBacktrack, Balanced
    <3> QED
      BY <1>0, <1>6, <2>1, <3>1, BacktrackUndoes DEF RankBacktrack, CullsAreUndoable
  <2>2. CASE ~Overconstrained(seen)
    BY <1>0, <1>6, <2>2, DepthsUnchanged DEF RankBacktrack, CullsAreUndoable
  <2> QED
    BY <2>1, <2>2
<1>7. CASE EachSite
  BY <1>0, <1>7, DepthsUnchanged DEF EachSite, CullsAreUndoable
<1>8. CASE SiteCull
  BY <1>0, <1>8, DescendCull DEF SiteCull, CullsAreUndoable
<1>9. CASE SiteNext
  BY <1>0, <1>9, DepthsUnchanged DEF SiteNext, CullsAreUndoable
<1>10. CASE SiteBacktrack
  <2>1. searchDepth >= 1
    BY <1>10 DEF SiteBacktrack, Balanced
  <2> QED
    BY <1>0, <1>10, <2>1, BacktrackUndoes DEF SiteBacktrack, CullsAreUndoable
<1>11. CASE CheckAfterRank
  BY <1>0, <1>11, DepthsUnchanged DEF CheckAfterRank, CullsAreUndoable
<1>12. CASE CullBySpecificity
  BY <1>0, <1>12, DescendCull, DepthsUnchanged DEF CullBySpecificity, CullsAreUndoable
<1>13. CASE SpecificityBacktrack
  <2>1. searchDepth >= 1
    BY <1>13 DEF SpecificityBacktrack, Balanced
  <2> QED
    BY <1>0, <1>13, <2>1, BacktrackUndoes DEF SpecificityBacktrack, CullsAreUndoable
<1>14. CASE EnterElimination
  BY <1>0, <1>14, DepthsUnchanged DEF EnterElimination, CullsAreUndoable
<1>15. CASE SkipSite
  BY <1>0, <1>15, DepthsUnchanged DEF SkipSite, CullsAreUndoable
<1>16. CASE OpenSite
  BY <1>0, <1>16, DepthsUnchanged DEF OpenSite, CullsAreUndoable
<1>17. CASE Leaf
  BY <1>0, <1>17, DepthsUnchanged DEF Leaf, CullsAreUndoable
<1>18. CASE TryChoice
  BY <1>0, <1>18, DescendCull DEF TryChoice, CullsAreUndoable
<1>19. CASE CloseSite
  BY <1>0, <1>19, DepthsUnchanged DEF CloseSite, CullsAreUndoable
<1>20. CASE UndoChoice
  <2>1. searchDepth >= 1
    BY <1>20 DEF UndoChoice, Balanced
  <2> QED
    BY <1>0, <1>20, <2>1, BacktrackUndoes DEF UndoChoice, CullsAreUndoable
<1>21. CASE CullAllExceptBest
  <2>1. pc' = "finish"
    BY <1>21 DEF CullAllExceptBest, Goto
  <2>2. DepthTypeOK'
    BY <1>0, <1>21 DEF CullAllExceptBest, DepthTypeOK
  <2> QED
    BY <2>1, <2>2 DEF CullsAreUndoable
<1>22. CASE FinishSite
  <2>1. pc' = "finish"
    BY <1>22 DEF FinishSite
  <2>2. DepthTypeOK'
    BY <1>0, <1>22 DEF FinishSite, DepthTypeOK
  <2> QED
    BY <2>1, <2>2 DEF CullsAreUndoable
<1>23. CASE FinishDone
  <2>1. pc' = "done"
    BY <1>23 DEF FinishDone, Goto
  <2>2. DepthTypeOK'
    BY <1>0, <1>23, DepthsUnchanged DEF FinishDone
  <2> QED
    BY <2>1, <2>2 DEF CullsAreUndoable
<1> QED
  BY <1>1, <1>2, <1>3, <1>4, <1>5, <1>6, <1>7, <1>8, <1>9, <1>10, <1>11, <1>12, <1>13,
     <1>14, <1>15, <1>16, <1>17, <1>18, <1>19, <1>20, <1>21, <1>22, <1>23 DEF Next

-----------------------------------------------------------------------------
(* Balance of depths and frames, one step per action *)

(* Popping a frame *)
LEMMA FrontOfStack ==
    ASSUME NEW S, NEW q \in Seq(S), Len(q) >= 1
    PROVE  Front(q) \in Seq(S) /\ Len(Front(q)) = Len(q) - 1
<1>1. Len(q) \in Nat /\ \A i \in 1..Len(q) : q[i] \in S
  BY LenProperties, ElementOfSeq
<1>2. 1 \in Int /\ Len(q) - 1 \in Int /\ \A i \in 1..(Len(q) - 1) : q[i] \in S
  BY <1>1
<1>3. /\ SubSeq(q, 1, Len(q) - 1) \in Seq(S)
      /\ Len(SubSeq(q, 1, Len(q) - 1)) =
            IF 1 <= Len(q) - 1 THEN Len(q) - 1 - 1 + 1 ELSE 0
  BY <1>2, SubSeqProperties
<1> DEFINE front == SubSeq(q, 1, Len(q) - 1)
           n == Len(q)
<1>4. Len(front) = IF 1 <= n - 1 THEN n - 1 - 1 + 1 ELSE 0
  BY <1>3
<1>5. n \in Nat /\ n >= 1
  BY <1>1
<1>6. Len(front) = n - 1
  <2> HIDE DEF front, n
  <2> QED
    BY <1>4, <1>5
<1> QED
  BY <1>3, <1>6 DEF Front

(* Every stage enters and leaves depths in pairs *)
LEMMA BalancedStep ==
    ASSUME IInv, Next
    PROVE  Balanced'
<1> USE DEF IInv, Balanced, Goto, Descend, Backtrack, loopVars
<1>0. searchDepth \in Nat
  BY DEF TypeOK, DepthTypeOK
<1>s. stack \in Seq([site : Site, choice : Nat \ {0}])
  BY DEF TypeOK
<1>1. CASE Unify
  <2> PICK failed \in SUBSET Ununifiable :
         LET hopeless == {s \in Site : CandidatesOf(s) \subseteq failed}
             reached  == {s \in Site : \A e \in ErrorSites : s < e}
         IN  /\ Descend
             /\ Cull({c \in failed : c[1] \in reached \ hopeless})
             /\ IF ErrorSites = {} /\ hopeless = {}
                THEN Update /\ Goto("contradiction")
                ELSE UNCHANGED seen /\ Goto("rejected")
    BY <1>1 DEF Unify
  <2>1. searchDepth' = 1 /\ stack' = stack /\ pc = "unify"
    BY <1>1 DEF Unify
  <2>2. CASE pc' = "contradiction"
    <3>1. /\ {s \in Site : CandidatesOf(s) \subseteq failed} = {}
          /\ Update
      BY <2>2
    <3>2. ASSUME NEW s \in Site PROVE Remaining(s, seen') # 0
      <4>1. PICK c \in CandidatesOf(s) : c \notin failed
        BY <3>1
      <4>2. c \in Cand
        BY DEF CandidatesOf
      <4>3. pruningDepth'[c] = 0
        <5>1. pruningDepth[c] \in Nat /\ pruningDepth[c] <= 0
          BY <2>1, <4>2 DEF TypeOK, DepthTypeOK, CullsAreUndoable, Undoable
        <5> QED
          BY <4>1, <4>2, <5>1 DEF Cull
      <4>4. c \in seen' \cap CandidatesOf(s)
        BY <3>1, <4>2, <4>3 DEF Update
      <4> QED
        BY <4>4, RemainingZero
    <3>3. ~Overconstrained(seen')
      BY <3>2 DEF Overconstrained
    <3> QED
      BY <2>1, <2>2, <3>3
  <2>3. CASE pc' = "rejected"
    BY <2>1, <2>3
  <2> QED
    BY <2>2, <2>3
<1>2. CASE CullByContradiction
  BY <1>0, <1>2 DEF CullByContradiction
<1>3. CASE CullTruncation
  BY <1>0, <1>3 DEF CullTruncation, CullAllSites
<1>4. CASE CullExact
  BY <1>0, <1>4 DEF CullExact, CullAllSites
<1>5. CASE CullIdentical
  BY <1>0, <1>5 DEF CullIdentical, CullAllSites
<1>6. CASE RankBacktrack
  BY <1>0, <1>6 DEF RankBacktrack
<1>7. CASE EachSite
  BY <1>0, <1>7 DEF EachSite
<1>8. CASE SiteCull
  BY <1>0, <1>8 DEF SiteCull
<1>9. CASE SiteNext
  BY <1>0, <1>9 DEF SiteNext
<1>10. CASE SiteBacktrack
  BY <1>0, <1>10 DEF SiteBacktrack
<1>11. CASE CheckAfterRank
  BY <1>0, <1>11 DEF CheckAfterRank
<1>12. CASE CullBySpecificity
  BY <1>0, <1>12 DEF CullBySpecificity
<1>13. CASE SpecificityBacktrack
  BY <1>0, <1>13 DEF SpecificityBacktrack
<1>14. CASE EnterElimination
  BY <1>0, <1>14 DEF EnterElimination
<1>15. CASE SkipSite
  BY <1>0, <1>15 DEF SkipSite
<1>16. CASE OpenSite
  <2>1. Len(stack') = Len(stack) + 1
    BY <1>s, <1>16 DEF OpenSite
  <2> QED
    BY <1>0, <1>s, <1>16, <2>1 DEF OpenSite
<1>17. CASE Leaf
  <2>1. stack = <<>> \/ Len(stack) >= 1
    BY <1>s
  <2> QED
    BY <1>0, <1>s, <1>17, <2>1 DEF Leaf
<1>18. CASE TryChoice
  <2>1. Len(stack) >= 1
    BY <1>18 DEF TryChoice
  <2>2. Front(stack) \in Seq([site : Site, choice : Nat \ {0}]) /\ Len(Front(stack)) = Len(stack) - 1
    BY <1>s, <2>1, FrontOfStack
  <2>3. Len(stack') = Len(stack)
    BY <1>s, <2>2, <1>18 DEF TryChoice
  <2> QED
    BY <1>0, <1>s, <1>18, <2>1, <2>3 DEF TryChoice
<1>19. CASE CloseSite
  <2>1. Len(stack) >= 1 /\ searchDepth >= Len(stack)
    BY <1>19 DEF CloseSite
  <2>2. stack' \in Seq([site : Site, choice : Nat \ {0}]) /\ Len(stack') = Len(stack) - 1
    BY <1>s, <1>19, <2>1, FrontOfStack DEF CloseSite
  <2>3. stack' = <<>> \/ Len(stack') >= 1
    BY <2>2
  <2>4. searchDepth' >= 1 /\ searchDepth' >= Len(stack') + 1
    BY <1>0, <1>s, <1>19, <2>1, <2>2 DEF CloseSite
  <2>5. IF stack' = <<>> THEN pc' = "cullBest" ELSE pc' = "undoChoice"
    BY <1>19 DEF CloseSite
  <2> QED
    BY <2>3, <2>4, <2>5
<1>20. CASE UndoChoice
  BY <1>0, <1>20 DEF UndoChoice
<1>21. CASE CullAllExceptBest
  BY <1>0, <1>21 DEF CullAllExceptBest
<1>22. CASE FinishSite
  BY <1>0, <1>22 DEF FinishSite
<1>23. CASE FinishDone
  BY <1>0, <1>23 DEF FinishDone
<1> QED
  BY <1>1, <1>2, <1>3, <1>4, <1>5, <1>6, <1>7, <1>8, <1>9, <1>10, <1>11, <1>12, <1>13,
     <1>14, <1>15, <1>16, <1>17, <1>18, <1>19, <1>20, <1>21, <1>22, <1>23 DEF Next

-----------------------------------------------------------------------------
(* The types of the other variables *)

(* Every stage keeps the other variables in their types *)
LEMMA TypeStep ==
    ASSUME IInv, Next, DepthTypeOK'
    PROVE  TypeOK'
<1> USE DEF IInv, Goto, bestVars, loopVars, finishVars, Update, Backtrack
<1>t. TypeOK
  OBVIOUS
<1>s. stack \in Seq([site : Site, choice : Nat \ {0}])
  BY DEF TypeOK
<1>1. CASE Unify
  BY <1>1, <1>t DEF Unify, TypeOK, Stage
<1>2. CASE CullByContradiction
  <2>1. unsatisfiable' \subseteq Cand
    BY <1>2 DEF CullByContradiction
  <2>2. pc' \in Stage
    BY <1>2 DEF CullByContradiction, Stage
  <2> QED
    BY <1>2, <1>t, <2>1, <2>2 DEF CullByContradiction, TypeOK
<1>3. CASE CullTruncation
  BY <1>3, <1>t DEF CullTruncation, CullAllSites, TypeOK, Stage
<1>4. CASE CullExact
  BY <1>4, <1>t DEF CullExact, CullAllSites, TypeOK, Stage
<1>5. CASE CullIdentical
  BY <1>5, <1>t DEF CullIdentical, CullAllSites, TypeOK, Stage
<1>6. CASE RankBacktrack
  BY <1>6, <1>t DEF RankBacktrack, TypeOK, Stage
<1>7. CASE EachSite
  <2>1. pc' \in Stage /\ cursor' = 1 /\ siteChanged' = FALSE
    BY <1>7 DEF EachSite, Stage
  <2>2. cursor' \in Nat \ {0}
    BY <2>1
  <2>3. siteChanged' \in BOOLEAN
    BY <2>1
  <2> QED
    BY <1>7, <1>t, <2>1, <2>2, <2>3 DEF EachSite, TypeOK
<1>8. CASE SiteCull
  BY <1>8, <1>t DEF SiteCull, TypeOK, Stage
<1>9. CASE SiteNext
  <2>1. pc' \in Stage
    BY <1>9 DEF SiteNext, Stage
  <2> QED
    BY <1>9, <1>t, <2>1 DEF SiteNext, TypeOK
<1>10. CASE SiteBacktrack
  BY <1>10, <1>t DEF SiteBacktrack, TypeOK, Stage
<1>11. CASE CheckAfterRank
  <2>1. /\ best' \in [Site -> Cand \cup {NoCandidate}]
        /\ bestSolutionCount' \in Nat
    <3>1. Live \in SUBSET Cand
      BY DEF Live
    <3> QED
      BY <1>11, <1>t, <3>1, CheckSolutionType DEF CheckAfterRank
  <2> QED
    BY <1>11, <1>t, <2>1 DEF CheckAfterRank, TypeOK, Stage
<1>12. CASE CullBySpecificity
  <2>1. seen' \in SUBSET Cand
    BY <1>12, <1>t DEF CullBySpecificity, TypeOK
  <2>2. /\ best' \in [Site -> Cand \cup {NoCandidate}]
        /\ bestSolutionCount' \in Nat
    <3>1. CASE Underconstrained(seen)
      BY <1>12, <1>t, <2>1, <3>1, CheckSolutionType DEF CullBySpecificity
    <3>2. CASE ~Underconstrained(seen)
      BY <1>12, <1>t, <3>2 DEF CullBySpecificity, TypeOK
    <3> QED
      BY <3>1, <3>2
  <2> QED
    BY <1>12, <1>t, <2>1, <2>2 DEF CullBySpecificity, TypeOK, Stage
<1>13. CASE SpecificityBacktrack
  BY <1>13, <1>t DEF SpecificityBacktrack, TypeOK, Stage
<1>14. CASE EnterElimination
  <2>1. pc' \in Stage
    BY <1>14 DEF EnterElimination, Stage
  <2> QED
    BY <1>14, <1>t, <2>1 DEF EnterElimination, TypeOK
<1>15. CASE SkipSite
  BY <1>15, <1>t DEF SkipSite, TypeOK, Stage
<1>16. CASE OpenSite
  <2>1. stack' \in Seq([site : Site, choice : Nat \ {0}])
    BY <1>s, <1>16 DEF OpenSite
  <2> QED
    BY <1>16, <1>t, <2>1 DEF OpenSite, TypeOK, Stage
<1>17. CASE Leaf
  <2>1. seen' \in SUBSET Cand
    BY <1>17 DEF Leaf, Live
  <2>2. /\ best' \in [Site -> Cand \cup {NoCandidate}]
        /\ bestSolutionCount' \in Nat
    <3>1. CASE Overconstrained(seen')
      BY <1>17, <1>t, <3>1 DEF Leaf, TypeOK
    <3>2. CASE ~Overconstrained(seen')
      BY <1>17, <1>t, <2>1, <3>2, CheckSolutionType DEF Leaf
    <3> QED
      BY <3>1, <3>2
  <2> QED
    BY <1>17, <1>t, <2>1, <2>2 DEF Leaf, TypeOK, Stage
<1>18. CASE TryChoice
  <2>1. Len(stack) >= 1
    BY <1>18 DEF TryChoice, Balanced
  <2>2. Front(stack) \in Seq([site : Site, choice : Nat \ {0}])
    BY <1>s, <2>1, FrontOfStack
  <2>3. PICK ch \in Untried :
          /\ stack' = Append(Front(stack), [site |-> ch[1], choice |-> ch[2] + 1])
          /\ cursor' = ch[1] + 1
    BY <1>18 DEF TryChoice
  <2>4. ch[1] \in Site /\ ch[2] \in Nat \ {0}
    BY CandIsPair DEF Untried, Live
  <2>5. [site |-> ch[1], choice |-> ch[2] + 1] \in [site : Site, choice : Nat \ {0}]
    BY <2>4
  <2>6. stack' \in Seq([site : Site, choice : Nat \ {0}])
    BY <2>2, <2>3, <2>5
  <2>7. cursor' \in Nat \ {0}
    BY <2>3, <2>4 DEF Site
  <2> QED
    BY <1>18, <1>t, <2>6, <2>7 DEF TryChoice, TypeOK, Stage
<1>19. CASE CloseSite
  <2>1. Len(stack) >= 1
    BY <1>19 DEF CloseSite, Balanced
  <2>2. stack' \in Seq([site : Site, choice : Nat \ {0}])
    BY <1>s, <1>19, <2>1, FrontOfStack DEF CloseSite
  <2> QED
    BY <1>19, <1>t, <2>2 DEF CloseSite, TypeOK, Stage
<1>20. CASE UndoChoice
  BY <1>20, <1>t DEF UndoChoice, TypeOK, Stage
<1>21. CASE CullAllExceptBest
  BY <1>21, <1>t DEF CullAllExceptBest, TypeOK, Stage
<1>22. CASE FinishSite
  <2>1. CandidatesOf(cursor) \subseteq Cand
    BY DEF CandidatesOf
  <2>2. MustReport(cursor) \in BOOLEAN
    BY DEF MustReport
  <2> QED
    BY <1>22, <1>t, <2>1, <2>2 DEF FinishSite, TypeOK, Stage
<1>23. CASE FinishDone
  BY <1>23, <1>t DEF FinishDone, TypeOK, Stage
<1> QED
  BY <1>1, <1>2, <1>3, <1>4, <1>5, <1>6, <1>7, <1>8, <1>9, <1>10, <1>11, <1>12, <1>13,
     <1>14, <1>15, <1>16, <1>17, <1>18, <1>19, <1>20, <1>21, <1>22, <1>23 DEF Next

(* The invariant is inductive *)
LEMMA StepIInv == IInv /\ [Next]_vars => IInv'
<1> SUFFICES ASSUME IInv, [Next]_vars PROVE IInv'
  OBVIOUS
<1>1. CASE Next
  BY <1>1, DepthStep, BalancedStep, TypeStep DEF IInv
<1>2. CASE UNCHANGED vars
  BY <1>2 DEF vars, bestVars, loopVars, finishVars, IInv, TypeOK, DepthTypeOK,
              CullsAreUndoable, Undoable, UndoneTo, Balanced
<1> QED
  BY <1>1, <1>2

(* The invariant holds in every run of the search *)
LEMMA AlwaysIInv == Spec => []IInv
BY InitIInv, StepIInv, PTL DEF Spec

(* The search variables keep their types in every run: the elimination     *)
(* stack holds sites and choices, the picked functions are candidates.     *)
THEOREM TypesAreCorrect == Spec => []TypeOK
<1>1. IInv => TypeOK
  BY DEF IInv
<1> QED
  BY <1>1, AlwaysIInv, PTL

(* backtrack() restores exactly the candidates that were live when the     *)
(* depth it leaves was entered, whatever culls and backtracks came between *)
THEOREM BacktrackingIsExact == Spec => []CullsAreUndoable
<1>1. IInv => CullsAreUndoable
  BY DEF IInv
<1> QED
  BY <1>1, AlwaysIInv, PTL

(* Every backtrack() of the search undoes a depth that a stage entered, so *)
(* searchDepth_ never falls back to what unify() culled.                   *)
THEOREM DepthsAreBalanced == Spec => []Balanced
<1>1. IInv => Balanced
  BY DEF IInv
<1> QED
  BY <1>1, AlwaysIInv, PTL

-----------------------------------------------------------------------------
(* What finish() accepts.  The ranks it reads were cached by the last      *)
(* update(); the stages may have culled since, but never revived, so what  *)
(* is live was live then.                                                  *)

(* What finish() accepted so far: the site's only candidate, of a rank that *)
(* is still what it was when the ranks were cached                          *)
Accepted(s) ==
    /\ candidates[s] = {function[s]}
    /\ seen \cap CandidatesOf(s) = {function[s]}
    /\ CandidateRank(function[s], seen) >= NonPreferred

AcceptInv ==
    /\ prob \in Problems
    /\ pc \notin {"unify", "rejected"} /\ reported = {} => Live \subseteq seen
    /\ pc = "done" => cursor \notin Site
    /\ pc \in {"finish", "done"} /\ reported = {} =>
          \A s \in Site : s < cursor => Accepted(s)

(* update() caches every live candidate *)
LEMMA UpdateSeesLive ==
    ASSUME Update
    PROVE  Live' \subseteq seen'
  BY DEF Update, Live

(* A cull only removes candidates *)
LEMMA CullShrinksLive ==
    ASSUME DepthTypeOK, NEW S, Cull(S), searchDepth' \in Nat \ {0}
    PROVE  Live' \subseteq Live
  BY DEF Cull, Live, DepthTypeOK

(* What every step before finish() keeps: no candidate is live that was not *)
(* when the ranks were cached                                               *)
KeepsCached ==
    /\ prob' = prob
    /\ pc' \notin {"unify", "rejected"} /\ reported' = {} => Live' \subseteq seen'
    /\ pc' # "done"
    /\ pc' = "finish" => cursor' = 1

(* Every stage before finish() keeps it: it updates, or it only culls *)
LEMMA CachedSteps ==
    ASSUME IInv, AcceptInv, Next, ~FinishSite, ~FinishDone
    PROVE  KeepsCached
<1> USE DEF IInv, Goto, bestVars, loopVars, finishVars
<1>0. DepthTypeOK /\ searchDepth \in Nat /\ prob \in Problems
  BY DEF TypeOK, DepthTypeOK, AcceptInv
<1>d. Descend => searchDepth' \in Nat \ {0}
  BY <1>0 DEF Descend
<1>l. pc \notin {"unify", "rejected"} /\ reported = {} => Live \subseteq seen
  BY DEF AcceptInv
<1>1. CASE Unify
  <2>1. pc' = "contradiction" => Update
    BY <1>1 DEF Unify
  <2>2. pc' \in {"contradiction", "rejected"} /\ prob' = prob
    BY <1>1 DEF Unify
  <2> QED BY <2>1, <2>2, UpdateSeesLive DEF Unify, KeepsCached
<1>2. CASE CullByContradiction
  <2>1. Live' \subseteq Live
    <3>1. CASE UNCHANGED pruningDepth
      BY <3>1 DEF Live
    <3>2. CASE ~UNCHANGED pruningDepth
      BY <1>0, <1>d, <1>2, <3>2, CullShrinksLive DEF CullByContradiction
    <3> QED BY <3>1, <3>2
  <2>2. /\ prob' = prob /\ pc' = "truncation" /\ seen' = seen /\ reported' = reported
        /\ pc = "contradiction"
    BY <1>2 DEF CullByContradiction
  <2> QED BY <1>l, <2>1, <2>2 DEF KeepsCached
<1>3. CASE CullTruncation \/ CullExact \/ CullIdentical
  <2>1. /\ prob' = prob /\ reported' = reported
        /\ pc' \in {"exact", "identical", "rankBacktrack"}
        /\ pc \in {"truncation", "exact", "identical"}
    BY <1>3 DEF CullTruncation, CullExact, CullIdentical
  <2>2. Update \/ UNCHANGED <<pruningDepth, seen>>
    BY <1>3 DEF CullTruncation, CullExact, CullIdentical, CullAllSites
  <2>3. UNCHANGED pruningDepth => Live' = Live
    BY DEF Live
  <2> QED BY <1>l, <2>1, <2>2, <2>3, UpdateSeesLive DEF KeepsCached
<1>4. CASE RankBacktrack
  <2>1. /\ prob' = prob /\ reported' = reported /\ pc' = "eachSite" /\ pc = "rankBacktrack"
    BY <1>4 DEF RankBacktrack
  <2>2. Update \/ UNCHANGED <<pruningDepth, seen>>
    BY <1>4 DEF RankBacktrack, Backtrack
  <2>3. UNCHANGED pruningDepth => Live' = Live
    BY DEF Live
  <2> QED BY <1>l, <2>1, <2>2, <2>3, UpdateSeesLive DEF KeepsCached
<1>5. CASE EachSite \/ SiteNext \/ CheckAfterRank \/ SkipSite \/ OpenSite \/ CloseSite
  <2>1. /\ prob' = prob /\ reported' = reported /\ Live' = Live /\ seen' = seen
        /\ pc \notin {"unify", "rejected", "finish", "done"} /\ pc' \notin {"finish", "done"}
    BY <1>5 DEF EachSite, SiteNext, CheckAfterRank, SkipSite, OpenSite, CloseSite, Live
  <2> QED BY <1>l, <2>1 DEF KeepsCached
<1>6. CASE EnterElimination
  <2>1. /\ prob' = prob /\ reported' = reported /\ Live' = Live /\ seen' = seen
        /\ pc = "elimination" /\ pc' # "done" /\ cursor' = 1
    BY <1>6 DEF EnterElimination, Live
  <2> QED BY <1>l, <2>1 DEF KeepsCached
<1>7. CASE SiteCull \/ SiteBacktrack \/ SpecificityBacktrack \/ UndoChoice
  <2>1. /\ prob' = prob /\ reported' = reported /\ pc' \notin {"finish", "done"} /\ Update
    BY <1>7 DEF SiteCull, SiteBacktrack, SpecificityBacktrack, UndoChoice, Backtrack
  <2> QED BY <2>1, UpdateSeesLive DEF KeepsCached
<1>8. CASE CullBySpecificity
  <2>1. /\ prob' = prob /\ reported' = reported /\ pc' \notin {"finish", "done"}
        /\ pc = "specificity" /\ (Update \/ UNCHANGED <<pruningDepth, seen>>)
    BY <1>8 DEF CullBySpecificity
  <2>2. UNCHANGED pruningDepth => Live' = Live
    BY DEF Live
  <2> QED BY <1>l, <2>1, <2>2, UpdateSeesLive DEF KeepsCached
<1>9. CASE Leaf
  <2>1. /\ prob' = prob /\ reported' = reported /\ pc' \notin {"finish", "done"}
        /\ seen' = Live /\ Live' = Live
    BY <1>9 DEF Leaf, Live
  <2> QED BY <2>1 DEF KeepsCached
<1>10. CASE TryChoice
  <2>1. /\ prob' = prob /\ reported' = reported /\ pc = "choose" /\ pc' = "descend"
        /\ seen' = seen
    BY <1>10 DEF TryChoice
  <2>2. Live' \subseteq Live
    BY <1>0, <1>d, <1>10, CullShrinksLive DEF TryChoice
  <2> QED BY <1>l, <2>1, <2>2 DEF KeepsCached
<1>11. CASE CullAllExceptBest
  <2>1. prob' = prob /\ pc' = "finish" /\ cursor' = 1 /\ Update
    BY <1>11 DEF CullAllExceptBest
  <2> QED BY <2>1, UpdateSeesLive DEF KeepsCached
<1> QED
  BY <1>1, <1>2, <1>3, <1>4, <1>5, <1>6, <1>7, <1>8, <1>9, <1>10, <1>11 DEF Next

(* Every set of ranks has a worst and a best one *)
LEMMA WorstRank ==
    ASSUME NEW S, S \subseteq Rank, S # {}
    PROVE  Min(S) \in S /\ \A y \in S : Min(S) <= y
<1>1. S \in SUBSET Nat
  BY DEF Rank, Incompatible, IdenticalTypes
<1>2. \E x \in S : \A y \in S : x <= y
  BY <1>1, LeastElement
<1> QED BY <1>2 DEF Min

(* ... and a best one *)
LEMMA BestOfRanks ==
    ASSUME NEW S, S \subseteq Rank, S # {}
    PROVE  Max(S) \in S /\ \A y \in S : Max(S) >= y
<1> DEFINE Bounds == {n \in Rank : \A y \in S : y <= n}
<1>1. \A x \in Rank : x \in Nat /\ x <= 8
  BY DEF Rank, Incompatible, IdenticalTypes
<1>2. 8 \in Bounds /\ Bounds \in SUBSET Nat
  BY <1>1 DEF Rank, Incompatible, IdenticalTypes
<1>3. PICK n \in Bounds : \A m \in Bounds : n <= m
  <2> HIDE DEF Bounds
  <2> QED BY <1>2, LeastElement
<1>4. n \in S
  <2> SUFFICES ASSUME n \notin S PROVE FALSE
    OBVIOUS
  <2>1. \A y \in S : y \in Nat /\ y <= n - 1
    BY <1>1, <1>3
  <2>2. n - 1 \in Bounds
    <3>1. n # 0
      BY <2>1
    <3> QED BY <1>1, <1>3, <2>1, <3>1 DEF Rank, Incompatible, IdenticalTypes
  <2> QED BY <1>1, <1>3, <2>2
<1>5. \E x \in S : \A y \in S : x >= y
  BY <1>1, <1>3, <1>4
<1> QED BY <1>5 DEF Max

(* The rank of a candidate is a rank *)
LEMMA CandidateRankIsRank ==
    ASSUME prob \in Problems, NEW c \in Cand, NEW live
    PROVE  CandidateRank(c, live) \in Rank
<1>0. Incompatible \in Rank
  BY DEF Rank, Incompatible, IdenticalTypes
<1>1. ASSUME NEW a \in ArgSites[c[1]] PROVE ArgumentRank(a, c, live) \in Rank
  <2> DEFINE S == {Incompatible} \cup {prob.conv[<<d, c>>] : d \in live \cap CandidatesOf(a)}
  <2>0. \A d \in CandidatesOf(a) : prob.conv[<<d, c>>] \in Rank
    BY <1>1, RankAssumption
  <2>1. S \subseteq Rank /\ S # {}
    BY <1>0, <2>0
  <2>2. Max(S) \in S
    <3> HIDE DEF S
    <3> QED BY <2>1, BestOfRanks
  <2> QED BY <2>1, <2>2 DEF ArgumentRank
<1> DEFINE S == {prob.own[c]} \cup {ArgumentRank(a, c, live) : a \in ArgSites[c[1]]}
<1>2. S \subseteq Rank /\ S # {}
  BY <1>1, RankAssumption
<1>3. Min(S) \in S
  <2> HIDE DEF S
  <2> QED BY <1>2, WorstRank
<1> QED BY <1>2, <1>3 DEF CandidateRank

(* A site that is not reported has one candidate, live and cached, and it  *)
(* converts without loss                                                   *)
LEMMA NotReported ==
    ASSUME NEW s \in Site, ~MustReport(s), Live \subseteq seen, prob \in Problems
    PROVE  \E f \in Live \cap CandidatesOf(s) :
              /\ Live \cap CandidatesOf(s) = {f} /\ seen \cap CandidatesOf(s) = {f}
              /\ CandidateRank(f, seen) >= NonPreferred
<1>1. Remaining(s, seen) = 1 /\ ~(BestLiveRank(s) < NonPreferred)
  BY DEF MustReport
<1>2. PICK f : seen \cap CandidatesOf(s) = {f}
  <2>1. IsFiniteSet(seen \cap CandidatesOf(s))
    BY CandidatesFinite, FS_Subset
  <2> QED BY <1>1, <2>1, FS_Singleton DEF Remaining
<1>3. Live \cap CandidatesOf(s) # {}
  <2> SUFFICES ASSUME Live \cap CandidatesOf(s) = {} PROVE FALSE
    OBVIOUS
  <2>1. {CandidateRank(c, seen) : c \in Live \cap CandidatesOf(s)} = {}
    OBVIOUS
  <2>2. BestLiveRank(s) = Max({Incompatible})
    BY <2>1 DEF BestLiveRank
  <2>3. Max({Incompatible}) = Incompatible
    BY DEF Max, Incompatible
  <2> QED BY <1>1, <2>2, <2>3 DEF Incompatible, NonPreferred
<1>4. Live \cap CandidatesOf(s) = {f}
  BY <1>2, <1>3
<1>5. CandidateRank(f, seen) >= NonPreferred
  <2>1. {CandidateRank(c, seen) : c \in Live \cap CandidatesOf(s)} = {CandidateRank(f, seen)}
    BY <1>4
  <2>2. BestLiveRank(s) = Max({Incompatible, CandidateRank(f, seen)})
    BY <2>1 DEF BestLiveRank
  <2>3. CandidateRank(f, seen) \in Rank
    <3>1. f \in Cand
      BY <1>4 DEF CandidatesOf
    <3> QED BY <3>1, CandidateRankIsRank
  <2> DEFINE r == CandidateRank(f, seen)
  <2>4. r \in Int
    BY <2>3 DEF Rank, Incompatible, IdenticalTypes
  <2> HIDE DEF r
  <2>5. Max({Incompatible, r}) \in {Incompatible, r}
        /\ \A y \in {Incompatible, r} : Max({Incompatible, r}) >= y
    <3>1. \E x \in {Incompatible, r} : \A y \in {Incompatible, r} : x >= y
      BY <2>4 DEF Incompatible
    <3> QED BY <3>1 DEF Max
  <2>6. ~(Max({Incompatible, r}) < NonPreferred)
    BY <1>1, <2>2 DEF r
  <2> QED BY <2>4, <2>5, <2>6 DEF r, Incompatible, NonPreferred
<1> QED BY <1>2, <1>4, <1>5

(* finish() accepts a site: its list is what is left of it, one candidate *)
LEMMA FinishSiteAccepts ==
    ASSUME IInv, AcceptInv, FinishSite
    PROVE  AcceptInv'
<1>1. /\ prob' = prob /\ prob \in Problems /\ pc = "finish" /\ pc' = pc /\ seen' = seen
      /\ cursor \in Site /\ cursor' = cursor + 1 /\ cursor \in Nat
      /\ candidates \in [Site -> SUBSET Cand]
      /\ function \in [Site -> Cand \cup {NoCandidate}]
      /\ reported' = {} => reported = {} /\ ~MustReport(cursor)
  BY DEF FinishSite, AcceptInv, IInv, TypeOK, Site
<1>2. ASSUME reported' = {} PROVE Live' \subseteq seen' /\ \A s \in Site : s < cursor' => Accepted(s)'
  <2>1. reported = {} /\ ~MustReport(cursor) /\ Live \subseteq seen
    BY <1>1, <1>2 DEF AcceptInv
  <2>2. pruningDepth' = [c \in Cand |-> pruningDepth[c]]
    BY <2>1 DEF FinishSite
  <2>3. Live' = Live
    BY <2>2 DEF Live
  <2>4. PICK f \in Live \cap CandidatesOf(cursor) :
              /\ Live \cap CandidatesOf(cursor) = {f} /\ seen \cap CandidatesOf(cursor) = {f}
              /\ CandidateRank(f, seen) >= NonPreferred
    BY <1>1, <2>1, NotReported
  <2>5. /\ candidates' = [candidates EXCEPT ![cursor] = {f}]
        /\ function' = [function EXCEPT ![cursor] = f]
    BY <2>1, <2>4 DEF FinishSite
  <2>6. \A c \in Cand : CandidateRank(c, seen)' = CandidateRank(c, seen)
    BY <1>1 DEF CandidateRank, ArgumentRank
  <2>7. ASSUME NEW s \in Site, s < cursor' PROVE Accepted(s)'
    <3>1. CASE s = cursor
      <4>1. candidates'[s] = {f} /\ function'[s] = f
        BY <1>1, <2>5, <3>1
      <4>2. CandidateRank(f, seen') = CandidateRank(f, seen)
        BY <1>1 DEF CandidateRank, ArgumentRank
      <4>3. CandidateRank(f, seen)' = CandidateRank(f, seen)
        BY <1>1 DEF CandidateRank, ArgumentRank
      <4>4. CandidateRank(function[s], seen)' = CandidateRank(f, seen)
        BY <1>1, <4>1 DEF CandidateRank, ArgumentRank
      <4>5. seen' \cap CandidatesOf(s) = {f}
        BY <1>1, <2>4, <3>1
      <4> QED BY <2>4, <4>1, <4>4, <4>5 DEF Accepted
    <3>2. CASE s # cursor
      <4>1. s < cursor
        BY <1>1, <2>7, <3>2 DEF Site
      <4>2. Accepted(s)
        BY <1>1, <2>1, <4>1 DEF AcceptInv
      <4>3. candidates'[s] = candidates[s] /\ function'[s] = function[s]
        BY <1>1, <2>5, <3>2
      <4>4. CandidateRank(function[s], seen)' = CandidateRank(function[s], seen)
        BY <1>1, <4>3 DEF CandidateRank, ArgumentRank
      <4> QED BY <1>1, <4>2, <4>3, <4>4 DEF Accepted
    <3> QED BY <3>1, <3>2
  <2> QED BY <1>1, <2>1, <2>3, <2>7
<1> QED BY <1>1, <1>2 DEF AcceptInv

(* AcceptInv is inductive, given the invariant of the culls *)
LEMMA AcceptInvInductive ==
    ASSUME IInv, AcceptInv, [Next]_vars
    PROVE  AcceptInv'
<1>1. CASE FinishSite
  BY <1>1, FinishSiteAccepts
<1>2. CASE FinishDone
  <2>1. /\ prob' = prob /\ pc = "finish" /\ pc' = "done" /\ cursor \notin Site
        /\ UNCHANGED <<pruningDepth, seen, cursor, candidates, function, reported>>
    BY <1>2 DEF FinishDone, loopVars, finishVars, Goto
  <2>2. Live' = Live
    BY <2>1 DEF Live
  <2>3. \A s \in Site : Accepted(s)' = Accepted(s)
    BY <2>1 DEF Accepted, CandidateRank, ArgumentRank
  <2> QED BY <2>1, <2>2, <2>3 DEF AcceptInv
<1>3. CASE Next /\ ~FinishSite /\ ~FinishDone
  <2>1. KeepsCached
    BY <1>3, CachedSteps
  <2>2. \A s \in Site : ~(s < 1)
    BY DEF Site
  <2> QED BY <2>1, <2>2 DEF KeepsCached, AcceptInv
<1>4. CASE UNCHANGED vars
  <2>1. /\ prob' = prob /\ pc' = pc
        /\ UNCHANGED <<pruningDepth, seen, cursor, candidates, function, reported>>
    BY <1>4 DEF vars, bestVars, loopVars, finishVars
  <2>2. Live' = Live
    BY <2>1 DEF Live
  <2>3. \A s \in Site : Accepted(s)' = Accepted(s)
    BY <2>1 DEF Accepted, CandidateRank, ArgumentRank
  <2> QED BY <2>1, <2>2, <2>3 DEF AcceptInv
<1> QED BY <1>1, <1>2, <1>3, <1>4

(* At the end the picked candidates are what was cached as live, site by   *)
(* site: evaluated together they have the ranks that were cached           *)
LEMMA AcceptedMeansCoherent ==
    ASSUME IInv, AcceptInv
    PROVE  AcceptedIsCoherent
<1> SUFFICES ASSUME pc = "done", reported = {} PROVE
        LET picked == {function[s] : s \in Site}
        IN  \A s \in Site : /\ candidates[s] = {function[s]}
                            /\ CandidateRank(function[s], picked) >= NonPreferred
  BY DEF AcceptedIsCoherent
<1> DEFINE picked == {function[s] : s \in Site}
<1>1. cursor \in Nat \ {0} /\ cursor \notin Site
  BY DEF AcceptInv, IInv, TypeOK
<1>2. \A s \in Site : s < cursor
  BY <1>1, SearchAssumption DEF Site
<1>3. \A s \in Site : Accepted(s)
  BY <1>2 DEF AcceptInv
<1>4. \A s \in Site : function[s] \in CandidatesOf(s) /\ function[s] \in Cand /\ function[s][1] = s
  BY <1>3 DEF Accepted, CandidatesOf
<1>5. \A a \in Site : picked \cap CandidatesOf(a) = {function[a]}
  BY <1>4 DEF CandidatesOf
<1>6. \A a \in Site : seen \cap CandidatesOf(a) = picked \cap CandidatesOf(a)
  BY <1>3, <1>5 DEF Accepted
<1>7. ASSUME NEW s \in Site
      PROVE  CandidateRank(function[s], picked) = CandidateRank(function[s], seen)
  <2> HIDE DEF picked
  <2> DEFINE c == function[s]
  <2>1. ArgSites[c[1]] \subseteq Site
    BY <1>4, SearchAssumption
  <2> HIDE DEF c
  <2>2. \A a \in ArgSites[c[1]] : ArgumentRank(a, c, picked) = ArgumentRank(a, c, seen)
    BY <1>6, <2>1 DEF ArgumentRank
  <2>3. {ArgumentRank(a, c, picked) : a \in ArgSites[c[1]]}
           = {ArgumentRank(a, c, seen) : a \in ArgSites[c[1]]}
    BY <2>2
  <2>4. CandidateRank(c, picked) = CandidateRank(c, seen)
    BY <2>3 DEF CandidateRank
  <2> QED BY <2>4 DEF c
<1>8. ASSUME NEW s \in Site
      PROVE  /\ candidates[s] = {function[s]}
             /\ CandidateRank(function[s], picked) >= NonPreferred
  <2> HIDE DEF picked
  <2> QED BY <1>3, <1>7 DEF Accepted
<1> QED BY <1>8

(* An expression finish() accepts without a report has one candidate per   *)
(* call, and the picked ones need no lossy conversion when evaluated       *)
(* together, although the ranks were cached before the last culls.         *)
THEOREM AcceptedCallsAreCoherent == Spec => []AcceptedIsCoherent
<1>1. Init => AcceptInv
  BY DEF Init, AcceptInv
<1>2. IInv /\ AcceptInv /\ [Next]_vars => AcceptInv'
  BY AcceptInvInductive
<1>3. IInv /\ AcceptInv => AcceptedIsCoherent
  BY AcceptedMeansCoherent
<1>4. Spec => []IInv
  BY AlwaysIInv
<1> QED BY <1>1, <1>2, <1>3, <1>4, PTL DEF Spec

-----------------------------------------------------------------------------
(* Counting candidates and choices                                         *)

(* No two of the candidates X of a site *)
AtMostOne(s, X) == \A c, d \in X \cap CandidatesOf(s) : c = d

(* remaining() tells apart no candidate, one and several *)
LEMMA RemainingCounts ==
    ASSUME NEW s \in Site, NEW X
    PROVE  /\ Remaining(s, X) \in Nat
           /\ Remaining(s, X) = 0 <=> X \cap CandidatesOf(s) = {}
           /\ Remaining(s, X) = 1 <=> \E f : X \cap CandidatesOf(s) = {f}
           /\ Remaining(s, X) > 1 <=> ~AtMostOne(s, X)
<1> DEFINE L == X \cap CandidatesOf(s)
<1>1. IsFiniteSet(L)
  BY CandidatesFinite, FS_Subset
<1> HIDE DEF L
<1>2. Cardinality(L) \in Nat
  BY <1>1, FS_CardinalityType
<1>3. Cardinality(L) = 0 <=> L = {}
  BY <1>1, FS_EmptySet
<1>4. Cardinality(L) = 1 <=> \E f : L = {f}
  BY <1>1, FS_Singleton
<1>5. (\A c, d \in L : c = d) <=> L = {} \/ \E f : L = {f}
  OBVIOUS
<1>6. Cardinality(L) > 1 <=> ~(\A c, d \in L : c = d)
  <2> DEFINE none == L = {}
             one == \E f : L = {f}
             n == Cardinality(L)
  <2>1. n \in Nat /\ (n = 0 <=> none) /\ (n = 1 <=> one)
    BY <1>2, <1>3, <1>4
  <2>2. (\A c, d \in L : c = d) <=> none \/ one
    BY <1>5
  <2> HIDE DEF none, one, n
  <2>3. n > 1 <=> ~(none \/ one)
    BY <2>1
  <2> QED BY <2>2, <2>3 DEF n
<1>7. Remaining(s, X) = Cardinality(L) /\ (AtMostOne(s, X) <=> \A c, d \in L : c = d)
  BY DEF Remaining, AtMostOne, L
<1> QED BY <1>2, <1>3, <1>4, <1>6, <1>7 DEF L

(* ... and so do overconstrained_ and underconstrained_ *)
LEMMA ConstrainedCounts ==
    ASSUME NEW X
    PROVE  /\ Overconstrained(X) <=> \E s \in Site : X \cap CandidatesOf(s) = {}
           /\ Underconstrained(X) <=> \E s \in Site : ~AtMostOne(s, X)
  BY RemainingCounts DEF Overconstrained, Underconstrained

(* An expression has finitely many candidates *)
LEMMA CandIsFinite == IsFiniteSet(Cand)
<1> DEFINE F == {{s} \X (1..NumCandidates[s]) : s \in Site}
<1>1. IsFiniteSet(Site)
  BY FS_Interval DEF Site
<1>2. IsFiniteSet(F)
  <2> DEFINE g == [s \in Site |-> {s} \X (1..NumCandidates[s])]
  <2>1. g \in Surjection(Site, F)
    BY DEF Surjection
  <2> HIDE DEF g, F
  <2> QED BY <1>1, <2>1, FS_Surjection
<1>3. \A T \in F : IsFiniteSet(T)
  <2> SUFFICES ASSUME NEW s \in Site PROVE IsFiniteSet({s} \X (1..NumCandidates[s]))
    OBVIOUS
  <2>1. NumCandidates[s] \in Nat
    OBVIOUS
  <2>2. IsFiniteSet({s})
    BY FS_Singleton
  <2>3. IsFiniteSet(1..NumCandidates[s])
    BY <2>1, FS_Interval
  <2> QED BY <2>2, <2>3, FS_Product
<1>4. IsFiniteSet(UNION F)
  <2> HIDE DEF F
  <2> QED BY <1>2, <1>3, FS_UNION
<1> QED BY <1>4 DEF Cand

(* The complete choices among candidates B: one of every site *)
CompleteChoices(B) ==
    {S \in SUBSET B : \A s \in Site : Cardinality(S \cap CandidatesOf(s)) = 1}

(* A complete choice has one candidate of every site *)
LEMMA ChoiceHasOne ==
    ASSUME NEW B, NEW S
    PROVE  S \in CompleteChoices(B)
              <=> S \subseteq B /\ \A s \in Site : \E f : S \cap CandidatesOf(s) = {f}
  BY RemainingCounts DEF CompleteChoices, Remaining

(* What a complete choice takes *)
LEMMA ChoiceTakesOne ==
    ASSUME NEW B, NEW S \in CompleteChoices(B)
    PROVE  S \subseteq B /\ \A s \in Site : \E f : S \cap CandidatesOf(s) = {f}
<1>1. S \in CompleteChoices(B)
  OBVIOUS
<1>2. S \in CompleteChoices(B)
          <=> S \subseteq B /\ \A s \in Site : \E f : S \cap CandidatesOf(s) = {f}
  BY ChoiceHasOne, ZenonT(30)
<1> QED BY <1>1, <1>2

(* And that what takes so much is one *)
LEMMA OneIsChoice ==
    ASSUME NEW B, NEW S \in SUBSET B, \A s \in Site : \E f : S \cap CandidatesOf(s) = {f}
    PROVE  S \in CompleteChoices(B)
<1>1. S \subseteq B /\ \A s \in Site : \E f : S \cap CandidatesOf(s) = {f}
  OBVIOUS
<1>2. S \in CompleteChoices(B)
          <=> S \subseteq B /\ \A s \in Site : \E f : S \cap CandidatesOf(s) = {f}
  BY ChoiceHasOne
<1> QED BY <1>1, <1>2

(* There are finitely many of them *)
LEMMA ChoicesAreFinite ==
    ASSUME NEW B \in SUBSET Cand, NEW V \in SUBSET CompleteChoices(B)
    PROVE  IsFiniteSet(V)
<1>1. IsFiniteSet(SUBSET Cand)
  BY CandIsFinite, FS_SUBSET
<1>2. V \in SUBSET SUBSET Cand
  BY DEF CompleteChoices
<1> QED BY <1>1, <1>2, FS_Subset

(* Candidates that leave no site empty and none with two are a complete choice, *)
(* and the only one among them                                                  *)
LEMMA LiveIsChoice ==
    ASSUME NEW X \in SUBSET Cand, ~Overconstrained(X), \A s \in Site : AtMostOne(s, X)
    PROVE  CompleteChoices(X) = {X}
<1>1. \A s \in Site : \E f : X \cap CandidatesOf(s) = {f}
  <2> SUFFICES ASSUME NEW s \in Site PROVE \E f : X \cap CandidatesOf(s) = {f}
    OBVIOUS
  <2>1. X \cap CandidatesOf(s) # {}
    BY ConstrainedCounts
  <2>2. PICK f \in X \cap CandidatesOf(s) : TRUE
    BY <2>1
  <2>3. X \cap CandidatesOf(s) = {f}
    BY <2>2 DEF AtMostOne
  <2> QED BY <2>3
<1>2. X \in CompleteChoices(X)
  <2>1. X \in SUBSET X
    OBVIOUS
  <2> QED BY <1>1, <2>1, OneIsChoice
<1>3. ASSUME NEW S \in CompleteChoices(X) PROVE S = X
  <2>1. S \subseteq X /\ \A s \in Site : \E f : S \cap CandidatesOf(s) = {f}
    BY <1>3, ChoiceTakesOne
  <2>2. ASSUME NEW c \in X PROVE c \in S
    <3>1. c \in Cand /\ c[1] \in Site /\ c \in CandidatesOf(c[1])
      BY CandIsPair
    <3>2. PICK f : S \cap CandidatesOf(c[1]) = {f}
      BY <2>1, <3>1
    <3>3. PICK g : X \cap CandidatesOf(c[1]) = {g}
      BY <1>1, <3>1
    <3> QED BY <2>1, <3>1, <3>2, <3>3
  <2> QED BY <2>1, <2>2
<1> QED BY <1>2, <1>3

(* Complete solutions, as checkSolution() recognises them *)
LEMMA CompleteMeansOne ==
    ASSUME NEW X \in SUBSET Cand, ~Overconstrained(X), ~Underconstrained(X)
    PROVE  CompleteChoices(X) = {X}
  BY ConstrainedCounts, LiveIsChoice

-----------------------------------------------------------------------------
(* Ranks                                                                   *)

(* The rank of a solution is a rank *)
LEMMA LowestRankIsRank ==
    ASSUME prob \in Problems, NEW live
    PROVE  LowestRank(live) \in Rank
<1>0. Incompatible \in Rank /\ IdenticalTypes \in Rank /\ NonPreferred \in Rank
  BY DEF Rank, Incompatible, IdenticalTypes, NonPreferred
<1>1. RootRank(live) \in Rank
  <2> DEFINE S == {Incompatible} \cup {prob.outer[c] : c \in live \cap CandidatesOf(NumSites)}
  <2>1. S \subseteq Rank /\ S # {}
    BY <1>0, RankAssumption
  <2>2. Max(S) \in S
    <3> HIDE DEF S
    <3> QED BY <2>1, BestOfRanks
  <2>3. Max(S) \in Rank
    BY <2>1, <2>2
  <2> HIDE DEF S
  <2>4. RootRank(live) = IF ~Strict /\ Max(S) < NonPreferred THEN NonPreferred ELSE Max(S)
    BY DEF RootRank, S
  <2> QED BY <1>0, <2>3, <2>4
<1>2. ASSUME NEW s \in Site PROVE SiteRank(s, live) \in Rank
  <2> DEFINE S == {IdenticalTypes} \cup {CandidateRank(c, live) : c \in live \cap CandidatesOf(s)}
  <2>1. \A c \in CandidatesOf(s) : CandidateRank(c, live) \in Rank
    BY CandidateRankIsRank DEF CandidatesOf
  <2>2. S \subseteq Rank /\ S # {}
    BY <1>0, <2>1
  <2>3. Min(S) \in S
    <3> HIDE DEF S
    <3> QED BY <2>2, WorstRank
  <2> QED BY <2>2, <2>3 DEF SiteRank
<1> DEFINE S == {RootRank(live)} \cup {SiteRank(s, live) : s \in Site}
<1>3. S \subseteq Rank /\ S # {}
  BY <1>1, <1>2
<1>4. Min(S) \in S
  <2> HIDE DEF S
  <2> QED BY <1>3, WorstRank
<1> QED BY <1>3, <1>4 DEF LowestRank

(* The rank of a solution depends on nothing that a stage changes *)
LEMMA RankIsFixed ==
    ASSUME prob' = prob
    PROVE  \A S : LowestRank(S)' = LowestRank(S)
  BY DEF LowestRank, RootRank, SiteRank, CandidateRank, ArgumentRank

-----------------------------------------------------------------------------
(* Specificity                                                             *)

(* What a site's survivors are, one candidate after another *)
LEMMA SurvivorsUnfold ==
    ASSUME NEW s \in Site
    PROVE  \E kept \in [Nat -> SUBSET Cand] :
              /\ MostSpecific(s) = kept[NumCandidates[s]] /\ kept[0] = {}
              /\ \A i \in 1..NumCandidates[s] : kept[i] = Consider(kept[i - 1], <<s, i>>)
<1> DEFINE n == NumCandidates[s]
           G(h) == [i \in Nat |-> IF i = 0 THEN {} ELSE Consider(h[i - 1], <<s, i>>)]
           all == CHOOSE h : h = G(h)
           X == SUBSET (Cand \cup ({s} \X Nat))
           step == [q \in Nat \X X |-> Consider(q[2], <<s, q[1] + 1>>)]
<1>0. n \in Nat /\ \A i \in 1..n : <<s, i>> \in Cand
  BY DEF Cand
<1>1. step \in [Nat \X X -> X]
  <2> SUFFICES ASSUME NEW i \in Nat, NEW K \in X PROVE Consider(K, <<s, i + 1>>) \in X
    OBVIOUS
  <2> QED BY DEF Consider
<1>2. PICK f \in [Nat -> X] : f[0] = {} /\ \A i \in Nat : f[i + 1] = step[<<i, f[i]>>]
  <2>1. {} \in X
    OBVIOUS
  <2> HIDE DEF X, step
  <2>2. Iterates(X, {}, step)
    BY <1>1, <2>1, Recursion
  <2> QED BY <2>2 DEF Iterates
<1>3. \A i \in Nat : f[i + 1] = Consider(f[i], <<s, i + 1>>)
  BY <1>2
<1>4. f = G(f)
  <2>1. \A i \in Nat : f[i] = G(f)[i]
    <3> SUFFICES ASSUME NEW i \in Nat PROVE f[i] = G(f)[i]
      OBVIOUS
    <3>1. CASE i = 0
      BY <1>2, <3>1
    <3>2. CASE i # 0
      <4>1. i - 1 \in Nat /\ (i - 1) + 1 = i
        BY <3>2
      <4>2. f[i] = Consider(f[i - 1], <<s, i>>)
        BY <1>3, <4>1
      <4> QED BY <3>2, <4>2
    <3> QED BY <3>1, <3>2
  <2> HIDE DEF X
  <2> QED BY <1>2, <2>1
<1>5. all = G(all)
  <2> HIDE DEF G
  <2> QED BY <1>4
<1>6. /\ all[0] = {} /\ DOMAIN all = Nat
      /\ \A i \in Nat \ {0} : all[i] = Consider(all[i - 1], <<s, i>>)
  <2> HIDE DEF all
  <2> QED BY <1>5
<1>7. MostSpecific(s) = all[n]
  BY DEF MostSpecific
<1> HIDE DEF all, n
<1> DEFINE kept == [i \in Nat |-> IF i <= n THEN all[i] ELSE {}]
<1>8. \A i \in 1..n : i \in Nat \ {0} /\ i - 1 \in Nat /\ i - 1 <= n /\ i <= n
  BY <1>0 DEF n
<1>9. \A i \in 1..n : kept[i] = Consider(kept[i - 1], <<s, i>>)
  BY <1>6, <1>8
<1>10. kept[0] = {} /\ kept[n] = all[n]
  BY <1>0, <1>6 DEF n
<1>11. kept \in [Nat -> SUBSET Cand]
  <2> DEFINE T == {i \in Nat : i <= n => kept[i] \subseteq Cand}
  <2>1. 0 \in T
    BY <1>10
  <2>2. ASSUME NEW i \in Nat, i \in T PROVE i + 1 \in T
    <3>1. CASE i + 1 <= n
      <4>1. i + 1 \in 1..n /\ (i + 1) - 1 = i /\ i <= n
        BY <1>0, <3>1 DEF n
      <4>2. kept[i] \subseteq Cand /\ <<s, i + 1>> \in Cand
        BY <1>0, <2>2, <4>1 DEF n
      <4>3. kept[i + 1] = Consider(kept[i], <<s, i + 1>>)
        BY <1>9, <4>1
      <4> HIDE DEF kept
      <4>4. kept[i + 1] \subseteq Cand
        BY <4>2, <4>3 DEF Consider
      <4> QED BY <4>4
    <3>2. CASE ~(i + 1 <= n)
      BY <3>2
    <3> QED BY <3>1, <3>2
  <2>3. Nat \subseteq T
    <3> HIDE DEF T
    <3> QED BY <2>1, <2>2, Induction
  <2> QED BY <1>0, <2>3 DEF n
<1> QED
  <2> HIDE DEF kept
  <2> QED BY <1>7, <1>9, <1>10, <1>11 DEF n

(* A site with a live candidate keeps one: whatever removes a survivor     *)
(* survives itself, and what does not survive lost to a survivor           *)
LEMMA SomeSurvive ==
    ASSUME NEW s \in Site, Live \cap CandidatesOf(s) # {}
    PROVE  MostSpecific(s) \cap Live \cap CandidatesOf(s) # {}
<1>1. PICK kept \in [Nat -> SUBSET Cand] :
              /\ MostSpecific(s) = kept[NumCandidates[s]] /\ kept[0] = {}
              /\ \A i \in 1..NumCandidates[s] : kept[i] = Consider(kept[i - 1], <<s, i>>)
  BY SurvivorsUnfold
<1> DEFINE n == NumCandidates[s]
           L == Live \cap CandidatesOf(s)
           T == {i \in Nat : i <= n =>
                    /\ kept[i] \subseteq L
                    /\ (\E c \in L : c[2] <= i) => kept[i] # {}}
<1>0. n \in Nat /\ \A i \in 1..n : <<s, i>> \in Cand /\ <<s, i>> \in CandidatesOf(s)
  BY DEF Cand, CandidatesOf
<1>a. \A c \in L : c[2] \in 1..n /\ c = <<s, c[2]>>
  BY DEF CandidatesOf, Cand
<1> HIDE DEF n
<1>2. 0 \in T
  BY <1>1, <1>a
<1>3. ASSUME NEW i \in Nat, i \in T PROVE i + 1 \in T
  <2>1. CASE ~(i + 1 <= n)
    BY <2>1
  <2>2. CASE i + 1 <= n
    <3> DEFINE c == <<s, i + 1>>
    <3>1. i + 1 \in 1..n /\ (i + 1) - 1 = i /\ i <= n
      BY <1>0, <2>2
    <3>2. kept[i + 1] = Consider(kept[i], c)
      <4>1. \A j \in 1..n : kept[j] = Consider(kept[j - 1], <<s, j>>)
        BY <1>1 DEF n
      <4> QED BY <3>1, <4>1
    <3>3. kept[i] \subseteq L /\ ((\E d \in L : d[2] <= i) => kept[i] # {})
      BY <1>3, <3>1
    <3>4. c \in Live => c \in L
      BY <1>0, <3>1
    <3>5. \A d \in L : d[2] <= i + 1 => d[2] <= i \/ d = c
      <4> SUFFICES ASSUME NEW d \in L, d[2] <= i + 1, ~(d[2] <= i) PROVE d = c
        OBVIOUS
      <4>1. d[2] \in Nat /\ d = <<s, d[2]>>
        BY <1>a, <1>0
      <4>2. d[2] = i + 1
        BY <4>1
      <4> QED BY <4>1, <4>2
    <3> DEFINE K == kept[i]
               K1 == kept[i + 1]
    <3> HIDE DEF c, L, K, K1
    <3>6. K \subseteq L /\ ((\E d \in L : d[2] <= i) => K # {}) /\ K1 = Consider(K, c)
      BY <3>2, <3>3 DEF K, K1
    <3>7. K1 \subseteq L
      BY <3>4, <3>6 DEF Consider
    <3>8. c \in Live => K1 # {}
      <4> SUFFICES ASSUME c \in Live PROVE K1 # {}
        OBVIOUS
      <4>1. CASE \E k \in K : Wins(k, c)
        <5>1. PICK k \in K : Wins(k, c)
          BY <4>1
        <5>2. ~Wins(c, k)
          BY <5>1 DEF Wins
        <5>3. k \in Consider(K, c)
          BY <5>1, <5>2 DEF Consider
        <5> QED BY <3>6, <5>3
      <4>2. CASE ~\E k \in K : Wins(k, c)
        <5>1. c \in Consider(K, c)
          BY <4>2 DEF Consider
        <5> QED BY <3>6, <5>1
      <4> QED BY <4>1, <4>2
    <3>9. c \notin Live => K1 = K
      BY <3>6 DEF Consider
    <3>10. c \in L => c \in Live
      BY DEF L
    <3>11. (\E d \in L : d[2] <= i + 1) => K1 # {}
      BY <3>5, <3>6, <3>8, <3>9, <3>10
    <3> QED BY <3>7, <3>11 DEF K1
  <2> QED BY <2>1, <2>2
<1>4. Nat \subseteq T
  <2> HIDE DEF T
  <2> QED BY <1>2, <1>3, Induction
<1>5. kept[n] \subseteq L /\ ((\E c \in L : c[2] <= n) => kept[n] # {})
  BY <1>0, <1>4
<1>6. \E c \in L : c[2] <= n
  BY <1>0, <1>a
<1> QED BY <1>1, <1>5, <1>6 DEF n

-----------------------------------------------------------------------------
(* No stage gives up the last candidate of a site.  While the culls of the *)
(* current depth are on trial this is said of what undoing them gives back *)

(* At the depths pd the empty sites lost their candidates to unification   *)
(* or to contradicting constraints                                         *)
LostTo(pd, unsat) ==
    \A s \in Site : (\A c \in CandidatesOf(s) : pd[c] # 0) =>
        \A c \in CandidatesOf(s) : c \in unsat \/ pd[c] = 1

(* The last culls left a site empty and are about to be undone *)
OnTrial == \/ pc \in {"exact", "identical", "rankBacktrack"} /\ Overconstrained(seen)
           \/ pc = "siteBacktrack"

LostInv ==
    /\ OnTrial => LostTo(UndoneTo(searchDepth), unsatisfiable)
    /\ ~OnTrial => LostTo(pruningDepth, unsatisfiable)
    /\ pc = "contradiction" => searchDepth = 1

(* When a single best solution is to be kept its candidates are live *)
BestIsLive ==
    pc = "cullBest" /\ bestSolutionCount = 1 =>
        \A s \in Site : best[s] \in Live \cap CandidatesOf(s)

(* Reviving candidates empties no site *)
LEMMA RevivedLost ==
    ASSUME NEW pd, NEW qd, NEW u, LostTo(pd, u), \A c \in Cand : qd[c] \in {0, pd[c]}
    PROVE  LostTo(qd, u)
  BY DEF LostTo, CandidatesOf

(* Nothing is claimed while every site has a live candidate *)
LEMMA NoneLost ==
    ASSUME NEW pd, NEW u, ~Overconstrained({c \in Cand : pd[c] = 0})
    PROVE  LostTo(pd, u)
<1>1. \A s \in Site : {c \in Cand : pd[c] = 0} \cap CandidatesOf(s) # {}
  BY ConstrainedCounts
<1> QED BY <1>1 DEF LostTo

(* Undoing the culls of the depth just entered gives the depths back *)
LEMMA UndoneCull ==
    ASSUME DepthTypeOK, Undoable, NEW S, Descend, Cull(S)
    PROVE  UndoneTo(searchDepth)' = pruningDepth
<1>1. \A c \in Cand : pruningDepth[c] \in Nat /\ pruningDepth[c] <= searchDepth
  BY DEF DepthTypeOK, Undoable
<1>2. searchDepth \in Nat /\ searchDepth' = searchDepth + 1
  BY DEF DepthTypeOK, Descend
<1>3. \A c \in Cand : (IF pruningDepth'[c] >= searchDepth' THEN 0 ELSE pruningDepth'[c]) = pruningDepth[c]
  BY <1>1, <1>2 DEF Cull
<1>4. UndoneTo(searchDepth)' = [c \in Cand |-> pruningDepth[c]]
  BY <1>3 DEF UndoneTo
<1> QED BY <1>4 DEF DepthTypeOK

(* A cull at a depth of its own, with an update(): on trial if it emptied  *)
(* a site, and of no consequence otherwise                                 *)
LEMMA TrialCull ==
    ASSUME DepthTypeOK, Undoable, LostTo(pruningDepth, unsatisfiable),
           NEW S, Descend, Cull(S), Update
    PROVE  /\ LostTo(UndoneTo(searchDepth)', unsatisfiable)
           /\ ~Overconstrained(seen') => LostTo(pruningDepth', unsatisfiable)
<1>1. LostTo(UndoneTo(searchDepth)', unsatisfiable)
  BY UndoneCull
<1>2. ~Overconstrained(seen') => LostTo(pruningDepth', unsatisfiable)
  BY NoneLost DEF Update
<1> QED BY <1>1, <1>2

(* Choosing among live candidates keeps the chosen one *)
LEMMA KeepsOne ==
    ASSUME DepthTypeOK, LostTo(pruningDepth, unsatisfiable), NEW S, Cull(S),
           searchDepth' \in Nat \ {0},
           \A s \in Site : Live \cap CandidatesOf(s) # {} => (Live \cap CandidatesOf(s)) \ S # {}
    PROVE  LostTo(pruningDepth', unsatisfiable)
<1> SUFFICES ASSUME NEW s \in Site, \A c \in CandidatesOf(s) : pruningDepth'[c] # 0
             PROVE  \A c \in CandidatesOf(s) : c \in unsatisfiable \/ pruningDepth'[c] = 1
  BY DEF LostTo
<1>1. Live \cap CandidatesOf(s) = {}
  <2> SUFFICES ASSUME Live \cap CandidatesOf(s) # {} PROVE FALSE
    OBVIOUS
  <2>1. PICK c \in (Live \cap CandidatesOf(s)) \ S : TRUE
    OBVIOUS
  <2>2. pruningDepth'[c] = 0
    BY <2>1 DEF Cull, Live
  <2> QED BY <2>1, <2>2
<1>2. \A c \in CandidatesOf(s) : c \in Cand /\ pruningDepth[c] # 0 /\ pruningDepth'[c] = pruningDepth[c]
  BY <1>1 DEF Cull, Live, CandidatesOf
<1> QED BY <1>2 DEF LostTo

(* One of the three global culls *)
LEMMA GlobalCullLost ==
    ASSUME IInv, LostInv, NEW limit, NEW skip \in BOOLEAN, CullAllSites(limit, skip),
           pc \in {"truncation", "exact", "identical"}, ~skip => pc = "truncation",
           pc' \in {"exact", "identical", "rankBacktrack"}, unsatisfiable' = unsatisfiable
    PROVE  LostInv'
<1>1. DepthTypeOK /\ Undoable
  BY DEF IInv, TypeOK, CullsAreUndoable
<1>2. CASE UNCHANGED <<pruningDepth, searchDepth, trail, seen>>
  <2>1. Overconstrained(seen') = Overconstrained(seen)
    BY <1>2
  <2>2. UndoneTo(searchDepth)' = UndoneTo(searchDepth)
    BY <1>2 DEF UndoneTo
  <2>3. pc = "truncation" => ~Overconstrained(seen)
    BY DEF IInv, Balanced
  <2>4. OnTrial' <=> OnTrial
    BY <2>1, <2>3 DEF OnTrial
  <2> QED BY <1>2, <2>2, <2>4 DEF LostInv
<1>3. CASE ~UNCHANGED <<pruningDepth, searchDepth, trail, seen>>
  <2>1. /\ ~(skip /\ Overconstrained(seen)) /\ Descend /\ Update
        /\ Cull(UNION {BelowRank(s, limit) : s \in Site})
    BY <1>3 DEF CullAllSites
  <2>2. ~Overconstrained(seen)
    BY <2>1 DEF IInv, Balanced
  <2>3. LostTo(pruningDepth, unsatisfiable)
    BY <2>2 DEF LostInv, OnTrial
  <2>4. OnTrial' <=> Overconstrained(seen')
    BY DEF OnTrial
  <2>5. /\ LostTo(UndoneTo(searchDepth)', unsatisfiable)
        /\ ~Overconstrained(seen') => LostTo(pruningDepth', unsatisfiable)
    BY <1>1, <2>1, <2>3, TrialCull
  <2> QED BY <2>4, <2>5 DEF LostInv
<1> QED BY <1>2, <1>3

(* Backtracking where nothing is on trial *)
LEMMA BacktrackLost ==
    ASSUME LostTo(pruningDepth, unsatisfiable), Backtrack
    PROVE  LostTo(pruningDepth', unsatisfiable)
<1>1. \A c \in Cand : pruningDepth'[c] \in {0, pruningDepth[c]}
  BY DEF Backtrack
<1> QED BY <1>1, RevivedLost

(* Backtracking where something is *)
LEMMA TrialUndone ==
    ASSUME LostTo(UndoneTo(searchDepth), unsatisfiable), Backtrack
    PROVE  LostTo(pruningDepth', unsatisfiable)
BY DEF Backtrack, UndoneTo

(* LostInv is inductive, given that the best solution is live when kept *)
LEMMA LostStep ==
    ASSUME IInv, LostInv, BestIsLive, Next
    PROVE  LostInv'
<1> USE DEF Goto, bestVars, loopVars, finishVars
<1>0. DepthTypeOK /\ (pc \notin {"finish", "done"} => Undoable) /\ searchDepth \in Nat
  BY DEF IInv, TypeOK, CullsAreUndoable, DepthTypeOK
<1>n. \A c \in Cand : pruningDepth[c] \in Nat
  BY <1>0 DEF DepthTypeOK
<1>1. CASE Unify
  <2>1. /\ unsatisfiable' = unsatisfiable /\ pc = "unify" /\ searchDepth' = searchDepth + 1
        /\ pc' \in {"contradiction", "rejected"}
    BY <1>1 DEF Unify, Descend
  <2>2. searchDepth = 0 /\ \A c \in Cand : pruningDepth[c] = 0
    <3>1. searchDepth = 0
      BY <2>1 DEF IInv, Balanced
    <3> QED BY <1>0, <1>n, <2>1, <3>1 DEF Undoable
  <2>3. \A c \in Cand : pruningDepth'[c] \in {0, 1}
    <3>1. PICK S : Cull(S)
      BY <1>1 DEF Unify
    <3> QED BY <2>1, <2>2, <3>1 DEF Cull
  <2>4. LostTo(pruningDepth', unsatisfiable')
    BY <2>3 DEF LostTo, CandidatesOf
  <2> QED BY <2>1, <2>2, <2>4 DEF LostInv, OnTrial
<1>2. CASE CullByContradiction
  <2>1. pc = "contradiction" /\ pc' = "truncation" /\ searchDepth = 1 /\ ~OnTrial'
    BY <1>2 DEF CullByContradiction, LostInv, OnTrial
  <2>2. LostTo(pruningDepth, unsatisfiable)
    BY <2>1 DEF LostInv, OnTrial
  <2>3. \A c \in Cand : pruningDepth[c] \in {0, 1}
    BY <1>0, <1>n, <2>1 DEF Undoable
  <2>4. \A c \in Cand : pruningDepth'[c] = pruningDepth[c] \/ c \in unsatisfiable'
    <3>1. CASE UNCHANGED pruningDepth
      BY <3>1
    <3>2. CASE ~UNCHANGED pruningDepth
      <4>1. Cull({c \in unsatisfiable' : HasChoice(c[1])})
        BY <1>2, <3>2 DEF CullByContradiction
      <4> QED BY <4>1 DEF Cull
    <3> QED BY <3>1, <3>2
  <2>5. LostTo(pruningDepth', unsatisfiable')
    <3>1. \A s \in Site : \A c \in CandidatesOf(s) : c \in Cand
      BY DEF CandidatesOf
    <3> QED BY <2>3, <2>4, <3>1 DEF LostTo
  <2> QED BY <2>1, <2>5 DEF LostInv
<1>3. CASE CullTruncation
  <2>1. CullAllSites(Truncation, FALSE) /\ pc = "truncation" /\ pc' = "exact"
        /\ unsatisfiable' = unsatisfiable
    BY <1>3 DEF CullTruncation
  <2> QED BY <2>1, GlobalCullLost
<1>4. CASE CullExact
  <2>1. CullAllSites(ExactConversion, TRUE) /\ pc = "exact" /\ pc' = "identical"
        /\ unsatisfiable' = unsatisfiable
    BY <1>4 DEF CullExact
  <2> QED BY <2>1, GlobalCullLost
<1>5. CASE CullIdentical
  <2>1. CullAllSites(IdenticalTypes, TRUE) /\ pc = "identical" /\ pc' = "rankBacktrack"
        /\ unsatisfiable' = unsatisfiable
    BY <1>5 DEF CullIdentical
  <2> QED BY <2>1, GlobalCullLost
<1>6. CASE RankBacktrack
  <2>1. pc = "rankBacktrack" /\ pc' = "eachSite" /\ unsatisfiable' = unsatisfiable
    BY <1>6 DEF RankBacktrack
  <2>2. LostTo(pruningDepth', unsatisfiable)
    <3>1. CASE Overconstrained(seen)
      BY <1>6, <2>1, <3>1, TrialUndone DEF RankBacktrack, LostInv, OnTrial
    <3>2. CASE ~Overconstrained(seen)
      BY <1>6, <2>1, <3>2 DEF RankBacktrack, LostInv, OnTrial
    <3> QED BY <3>1, <3>2
  <2> QED BY <2>1, <2>2 DEF LostInv, OnTrial
<1>7. CASE EachSite \/ SiteNext \/ CheckAfterRank \/ EnterElimination \/ SkipSite \/ OpenSite
           \/ Leaf \/ CloseSite \/ FinishDone
  <2>1. UNCHANGED <<pruningDepth, unsatisfiable>> /\ ~OnTrial /\ ~OnTrial'
        /\ pc' # "contradiction"
    BY <1>7 DEF EachSite, SiteNext, CheckAfterRank, EnterElimination, SkipSite, OpenSite,
                Leaf, CloseSite, FinishDone, OnTrial
  <2> QED BY <2>1 DEF LostInv
<1>8. CASE SiteCull
  <2>1. /\ pc = "site" /\ unsatisfiable' = unsatisfiable /\ Descend /\ Update
        /\ Cull(BelowRank(cursor, SiteRank(cursor, seen) + 1))
        /\ IF Overconstrained(seen') THEN pc' = "siteBacktrack" ELSE pc' = "site"
    BY <1>8 DEF SiteCull
  <2>2. LostTo(pruningDepth, unsatisfiable)
    BY <2>1 DEF LostInv, OnTrial
  <2>3. /\ LostTo(UndoneTo(searchDepth)', unsatisfiable)
        /\ ~Overconstrained(seen') => LostTo(pruningDepth', unsatisfiable)
    BY <1>0, <2>1, <2>2, TrialCull
  <2> QED BY <2>1, <2>3 DEF LostInv, OnTrial
<1>9. CASE SiteBacktrack
  <2>1. /\ pc = "siteBacktrack" /\ unsatisfiable' = unsatisfiable /\ Backtrack
        /\ pc' \in {"site", "eachSite", "checkRank"}
    BY <1>9 DEF SiteBacktrack
  <2>2. LostTo(pruningDepth', unsatisfiable)
    BY <2>1, TrialUndone DEF LostInv, OnTrial
  <2> QED BY <2>1, <2>2 DEF LostInv, OnTrial
<1>10. CASE CullBySpecificity
  <2>1. /\ pc = "specificity" /\ unsatisfiable' = unsatisfiable
        /\ pc' \in {"specBacktrack", "elimination"}
    BY <1>10 DEF CullBySpecificity
  <2>2. LostTo(pruningDepth, unsatisfiable)
    BY <2>1 DEF LostInv, OnTrial
  <2>3. LostTo(pruningDepth', unsatisfiable)
    <3>1. CASE ~Underconstrained(seen)
      BY <1>10, <2>2, <3>1 DEF CullBySpecificity
    <3>2. CASE Underconstrained(seen)
      <4> DEFINE S == UNION {(Live \cap CandidatesOf(s)) \ MostSpecific(s) :
                                s \in {t \in Site : Remaining(t, seen) > 1}}
      <4>1. Cull(S) /\ searchDepth' \in Nat \ {0}
        BY <1>0, <1>10, <3>2 DEF CullBySpecificity, Descend
      <4>2. ASSUME NEW s \in Site, Live \cap CandidatesOf(s) # {}
            PROVE  (Live \cap CandidatesOf(s)) \ S # {}
        <5>1. PICK c \in MostSpecific(s) \cap Live \cap CandidatesOf(s) : TRUE
          BY <4>2, SomeSurvive
        <5>2. \A t \in Site : c \in CandidatesOf(t) => t = s
          BY <5>1 DEF CandidatesOf
        <5>3. c \notin S
          BY <5>1, <5>2
        <5> QED BY <5>1, <5>3
      <4> HIDE DEF S
      <4> QED BY <1>0, <2>2, <4>1, <4>2, KeepsOne
    <3> QED BY <3>1, <3>2
  <2> QED BY <2>1, <2>3 DEF LostInv, OnTrial
<1>11. CASE SpecificityBacktrack \/ UndoChoice
  <2>1. /\ ~OnTrial /\ ~OnTrial' /\ unsatisfiable' = unsatisfiable /\ Backtrack
        /\ pc' # "contradiction"
    BY <1>11 DEF SpecificityBacktrack, UndoChoice, OnTrial
  <2> QED BY <2>1, BacktrackLost DEF LostInv
<1>12. CASE TryChoice
  <2>1. PICK ch \in Untried : Cull(CandidatesOf(ch[1]) \ {ch})
    BY <1>12 DEF TryChoice
  <2>2. /\ ~OnTrial /\ ~OnTrial' /\ unsatisfiable' = unsatisfiable /\ pc' # "contradiction"
        /\ searchDepth' \in Nat \ {0}
    BY <1>0, <1>12 DEF TryChoice, OnTrial, Descend
  <2>3. ch \in Live /\ ch \in CandidatesOf(ch[1])
    BY <2>1, CandIsPair DEF Untried, Live
  <2>4. \A s \in Site : Live \cap CandidatesOf(s) # {} =>
            (Live \cap CandidatesOf(s)) \ (CandidatesOf(ch[1]) \ {ch}) # {}
    BY <2>3 DEF CandidatesOf
  <2>5. LostTo(pruningDepth', unsatisfiable)
    BY <1>0, <2>1, <2>2, <2>4, KeepsOne DEF LostInv
  <2> QED BY <2>2, <2>5 DEF LostInv
<1>13. CASE CullAllExceptBest
  <2>1. /\ ~OnTrial /\ ~OnTrial' /\ unsatisfiable' = unsatisfiable /\ pc' # "contradiction"
        /\ pc = "cullBest"
    BY <1>13 DEF CullAllExceptBest, OnTrial
  <2>2. LostTo(pruningDepth', unsatisfiable)
    <3>1. CASE bestSolutionCount # 1
      BY <1>13, <2>1, <3>1 DEF CullAllExceptBest, LostInv
    <3>2. CASE bestSolutionCount = 1
      <4>1. \A s \in Site : best[s] \in Live /\ best[s] \in CandidatesOf(s)
        BY <2>1, <3>2 DEF BestIsLive
      <4>2. \A s \in Site : pruningDepth'[best[s]] = 0
        BY <1>13, <3>2, <4>1 DEF CullAllExceptBest, Live, CandidatesOf
      <4> QED BY <4>1, <4>2 DEF LostTo
    <3> QED BY <3>1, <3>2
  <2> QED BY <2>1, <2>2 DEF LostInv
<1>14. CASE FinishSite
  <2>1. /\ ~OnTrial /\ ~OnTrial' /\ unsatisfiable' = unsatisfiable /\ pc' # "contradiction"
        /\ \A c \in Cand : pruningDepth'[c] \in {0, pruningDepth[c]}
    BY <1>14 DEF FinishSite, OnTrial
  <2> QED BY <2>1, RevivedLost DEF LostInv
<1> QED
  BY <1>1, <1>2, <1>3, <1>4, <1>5, <1>6, <1>7, <1>8, <1>9, <1>10, <1>11, <1>12, <1>13, <1>14
     DEF Next

(* What the invariant says where nothing is on trial *)
LEMMA LostIsOnlyContradiction == LostInv => OnlyContradictionEmptiesSite
<1> SUFFICES ASSUME LostInv, pc \notin {"exact", "identical", "rankBacktrack", "siteBacktrack"},
                    NEW s \in Site, Live \cap CandidatesOf(s) = {},
                    NEW c \in CandidatesOf(s)
             PROVE  c \in unsatisfiable \/ pruningDepth[c] = 1
  BY DEF OnlyContradictionEmptiesSite
<1>1. LostTo(pruningDepth, unsatisfiable)
  BY DEF LostInv, OnTrial
<1>2. \A d \in CandidatesOf(s) : pruningDepth[d] # 0
  BY DEF Live, CandidatesOf
<1> QED BY <1>1, <1>2 DEF LostTo

-----------------------------------------------------------------------------
(* What checkSolution() has counted when cullByElimination() begins        *)

(* No solution was compared yet *)
Fresh == bestSolutionRank = Incompatible /\ bestSolutionCount = 0

(* One was, by the specificity stage that was then taken back: it is still *)
(* among the choices, and will be met again                                *)
Counted == /\ bestSolutionCount = 1 /\ bestSolutionRank \in Rank
           /\ bestSolutionRank <= SignedUnsigned
           /\ \E S \in CompleteChoices(Live) : LowestRank(S) = bestSolutionRank

BeforeChecks == {"unify", "contradiction", "truncation", "exact", "identical",
                 "rankBacktrack", "eachSite", "site", "siteBacktrack", "checkRank"}

EntryInv ==
    /\ pc \in BeforeChecks => Fresh
    /\ pc = "specificity" /\ Underconstrained(seen) => Fresh
    /\ pc = "specBacktrack" => Fresh \/ Counted
    /\ pc = "elimination" /\ Underconstrained(seen) => seen = Live /\ (Fresh \/ Counted)

(* The first solution to be compared is counted, whatever its rank *)
LEMMA FirstCheck ==
    ASSUME prob \in Problems, Fresh, NEW X \in SUBSET Cand, NEW live, CheckSolution(X, live)
    PROVE  /\ Overconstrained(X) \/ Underconstrained(X) => Fresh'
           /\ Fresh' \/ /\ CompleteChoices(X) = {X} /\ bestSolutionCount' = 1
                        /\ bestSolutionRank' = LowestRank(X)
<1>1. LowestRank(X) \in Rank
  BY LowestRankIsRank
<1>2. LowestRank(X) >= bestSolutionRank
  BY <1>1 DEF Fresh, Rank, Incompatible, IdenticalTypes
<1>3. ~Overconstrained(X) /\ ~Underconstrained(X) => CompleteChoices(X) = {X}
  BY CompleteMeansOne
<1>4. CASE Overconstrained(X) \/ Underconstrained(X)
  BY <1>4 DEF CheckSolution, bestVars, Fresh
<1>5. CASE ~Overconstrained(X) /\ ~Underconstrained(X) /\ LowestRank(X) = bestSolutionRank
  <2>1. ~(LowestRank(X) < bestSolutionRank) /\ ~(LowestRank(X) > bestSolutionRank)
    BY <1>1, <1>5 DEF Fresh, Rank, Incompatible, IdenticalTypes
  <2>2. bestSolutionCount' = bestSolutionCount + 1 /\ bestSolutionRank' = bestSolutionRank
    BY <1>5, <2>1 DEF CheckSolution
  <2> QED BY <1>3, <1>5, <2>2 DEF Fresh
<1>6. CASE ~Overconstrained(X) /\ ~Underconstrained(X) /\ LowestRank(X) # bestSolutionRank
  <2>1. ~(LowestRank(X) < bestSolutionRank)
    BY <1>1, <1>2 DEF Fresh, Rank, Incompatible, IdenticalTypes
  <2> QED BY <1>3, <1>6, <2>1 DEF CheckSolution
<1> QED BY <1>4, <1>5, <1>6

(* EntryInv is inductive *)
LEMMA EntryStep ==
    ASSUME IInv, EntryInv, prob \in Problems, prob' = prob, Next
    PROVE  EntryInv'
<1> USE DEF Goto, bestVars, loopVars, finishVars
<1>0. seen \in SUBSET Cand
  BY DEF IInv, TypeOK
<1>1. CASE pc \in BeforeChecks \ {"checkRank"}
  <2>1. Fresh /\ UNCHANGED <<bestSolutionRank, bestSolutionCount>>
        /\ pc' \in BeforeChecks \cup {"rejected"}
    BY <1>1 DEF EntryInv, BeforeChecks, Next, Unify, CullByContradiction, CullTruncation,
        CullExact, CullIdentical, RankBacktrack, EachSite, SiteCull, SiteNext, SiteBacktrack,
        CheckAfterRank, CullBySpecificity, SpecificityBacktrack, EnterElimination, SkipSite,
        OpenSite, Leaf, TryChoice, CloseSite, UndoChoice, CullAllExceptBest, FinishSite, FinishDone
  <2> QED BY <2>1 DEF EntryInv, Fresh, BeforeChecks
<1>2. CASE pc = "checkRank"
  <2>1. CheckAfterRank
    BY <1>2 DEF BeforeChecks, Next, Unify, CullByContradiction, CullTruncation,
        CullExact, CullIdentical, RankBacktrack, EachSite, SiteCull, SiteNext, SiteBacktrack,
        CullBySpecificity, SpecificityBacktrack, EnterElimination, SkipSite,
        OpenSite, Leaf, TryChoice, CloseSite, UndoChoice, CullAllExceptBest, FinishSite, FinishDone
  <2>2. Fresh /\ pc' = "specificity" /\ seen' = seen /\ CheckSolution(seen, Live)
    BY <1>2, <2>1 DEF CheckAfterRank, EntryInv, BeforeChecks
  <2>3. Underconstrained(seen) => Fresh'
    BY <1>0, <2>2, FirstCheck
  <2>4. Underconstrained(seen)' => Fresh'
    BY <2>2, <2>3
  <2> QED BY <2>2, <2>4 DEF EntryInv, BeforeChecks
<1>3. CASE CullBySpecificity
  <2>1. pc = "specificity" /\ pc' \in {"specBacktrack", "elimination"}
    BY <1>3 DEF CullBySpecificity
  <2>2. CASE ~Underconstrained(seen)
    <3>1. pc' = "elimination" /\ seen' = seen
      BY <1>3, <2>2 DEF CullBySpecificity
    <3>2. ~Underconstrained(seen)'
      BY <2>2, <3>1
    <3> QED BY <3>1, <3>2 DEF EntryInv, BeforeChecks
  <2>3. CASE Underconstrained(seen)
    <3>1. /\ Fresh /\ Update /\ CheckSolution(seen', seen')
          /\ IF LowestRank(seen') <= SignedUnsigned
             THEN pc' = "specBacktrack" ELSE pc' = "elimination"
      BY <1>3, <2>1, <2>3 DEF CullBySpecificity, EntryInv
    <3>2. PICK X \in SUBSET Cand : X = seen' /\ X = Live'
      BY <3>1 DEF Update, Live
    <3>3. /\ Overconstrained(X) \/ Underconstrained(X) => Fresh'
          /\ Fresh' \/ /\ CompleteChoices(X) = {X} /\ bestSolutionCount' = 1
                       /\ bestSolutionRank' = LowestRank(X)
      BY <3>1, <3>2, FirstCheck
    <3>4. Underconstrained(seen)' = Underconstrained(X)
      BY <3>2 DEF Underconstrained, Remaining
    <3>5. LowestRank(X)' = LowestRank(X) /\ LowestRank(X) \in Rank
      BY RankIsFixed, LowestRankIsRank
    <3>6. CASE LowestRank(X) <= SignedUnsigned
      <4>1. pc' = "specBacktrack"
        BY <3>1, <3>2, <3>6
      <4>2. Fresh' \/ Counted'
        BY <3>2, <3>3, <3>5, <3>6 DEF Counted
      <4> QED BY <4>1, <4>2 DEF EntryInv, BeforeChecks
    <3>7. CASE ~(LowestRank(X) <= SignedUnsigned)
      <4>1. pc' = "elimination"
        BY <3>1, <3>2, <3>7
      <4>2. Underconstrained(seen)' => seen' = Live' /\ Fresh'
        BY <3>2, <3>3, <3>4
      <4> QED BY <4>1, <4>2 DEF EntryInv, BeforeChecks
    <3> QED BY <3>6, <3>7
  <2> QED BY <2>2, <2>3
<1>4. CASE SpecificityBacktrack
  <2>1. /\ pc = "specBacktrack" /\ pc' = "elimination" /\ Backtrack
        /\ UNCHANGED <<bestSolutionRank, bestSolutionCount>>
    BY <1>4 DEF SpecificityBacktrack
  <2>2. seen' = Live' /\ Live \subseteq Live'
    BY <2>1 DEF Backtrack, Update, Live
  <2>3. Fresh => Fresh'
    BY <2>1 DEF Fresh
  <2>4. Counted => Counted'
    <3> SUFFICES ASSUME Counted PROVE Counted'
      OBVIOUS
    <3>1. PICK S \in CompleteChoices(Live) : LowestRank(S) = bestSolutionRank
      BY DEF Counted
    <3>2. S \in CompleteChoices(Live')
      BY <2>2, <3>1 DEF CompleteChoices
    <3>3. LowestRank(S)' = bestSolutionRank'
      BY <2>1, <3>1, RankIsFixed
    <3> QED BY <2>1, <3>2, <3>3 DEF Counted
  <2>5. Fresh \/ Counted
    BY <2>1 DEF EntryInv
  <2> QED BY <2>1, <2>2, <2>3, <2>4, <2>5 DEF EntryInv, BeforeChecks
<1>5. CASE pc \notin BeforeChecks /\ ~CullBySpecificity /\ ~SpecificityBacktrack
  <2>1. pc' \notin BeforeChecks \cup {"specificity", "specBacktrack", "elimination"}
    BY <1>5 DEF BeforeChecks, Next, Unify, CullByContradiction, CullTruncation,
        CullExact, CullIdentical, RankBacktrack, EachSite, SiteCull, SiteNext, SiteBacktrack,
        CheckAfterRank, EnterElimination, SkipSite,
        OpenSite, Leaf, TryChoice, CloseSite, UndoChoice, CullAllExceptBest, FinishSite, FinishDone
  <2> QED BY <2>1 DEF EntryInv
<1> QED BY <1>1, <1>2, <1>3, <1>4, <1>5

-----------------------------------------------------------------------------
(* The walk of cullByElimination().  The frames in progress are those that *)
(* are trying a choice; the contenders are the candidates that were live   *)
(* when the walk began, those it culled itself included.                   *)

Walking == pc \in {"descend", "choose", "undoChoice"}
InProgress == IF pc = "choose" THEN Len(stack) - 1 ELSE Len(stack)
EntryDepth == searchDepth - InProgress
Current(k) == <<stack[k].site, stack[k].choice - 1>>
Contenders == {c \in Cand : pruningDepth[c] = 0 \/ pruningDepth[c] > EntryDepth}

(* Sites are opened in order; a frame in progress culled, at its own depth, *)
(* every contender of its site but the one it is trying                     *)
FrameInv ==
    /\ \A i, j \in 1..Len(stack) : i < j => stack[i].site < stack[j].site
    /\ \A c \in Cand : pruningDepth[c] > EntryDepth =>
          \E k \in 1..InProgress : /\ c[1] = stack[k].site /\ c # Current(k)
                                   /\ pruningDepth[c] = EntryDepth + k
    /\ \A k \in 1..InProgress : Live \cap CandidatesOf(stack[k].site) = {Current(k)}

(* What is cached may be stale only for the sites of frames in progress *)
SeenInv ==
    /\ Live \subseteq seen /\ seen \subseteq Contenders
    /\ \A c \in Contenders : (\A k \in 1..InProgress : c[1] # stack[k].site) => c \in seen
    /\ \E c, d \in Contenders : c # d /\ c[1] = d[1]

(* The sites before the one that is looked at are decided *)
CursorInv ==
    /\ pc = "descend" =>
          /\ \A i \in 1..Len(stack) : stack[i].site < cursor
          /\ \A s \in Site : s < cursor => AtMostOne(s, Live)
    /\ pc \in {"choose", "undoChoice"} =>
          /\ Len(stack) >= 1
          /\ \A s \in Site : s < stack[Len(stack)].site => AtMostOne(s, Live)
    /\ pc = "choose" /\ stack[Len(stack)].choice = 1 =>
          \E c \in Contenders : c[1] = stack[Len(stack)].site

(* The complete choices the walk is done with: at some frame they take a   *)
(* choice it has passed, and agree with what the frames below are trying   *)
Agrees(S, i) == \A j \in 1..(i - 1) : Current(j) \in S
Passed(i) == IF pc # "descend" /\ i = Len(stack) THEN stack[i].choice ELSE stack[i].choice - 1
Tried(S) == \E i \in 1..Len(stack) :
               Agrees(S, i) /\ \E c \in S : c[1] = stack[i].site /\ c[2] < Passed(i)
TriedChoices == {S \in CompleteChoices(Contenders) : Tried(S)}

(* What is counted of the choices V that were tried, among those of B: the *)
(* best of them, or one more if the specificity stage had counted it       *)
BestOf(V) == {S \in V : LowestRank(S) = bestSolutionRank}
CountedOnce(V) ==
    /\ bestSolutionCount = Cardinality(BestOf(V))
    /\ BestOf(V) = {} => bestSolutionRank = Incompatible
    /\ bestSolutionCount = 1 /\ bestSolutionRank # Incompatible =>
          /\ BestOf(V) = {{best[s] : s \in Site}}
          /\ \A s \in Site : best[s] \in CandidatesOf(s)
CountedTwice(V, B) ==
    /\ bestSolutionRank <= SignedUnsigned
    /\ bestSolutionCount = Cardinality(BestOf(V)) + 1
    /\ \E S \in CompleteChoices(B) : LowestRank(S) = bestSolutionRank
CountInv(V, B) ==
    /\ bestSolutionRank \in Rank
    /\ \A S \in V : LowestRank(S) <= bestSolutionRank
    /\ CountedOnce(V) \/ CountedTwice(V, B)

TriedInv ==
    /\ CountInv(TriedChoices, Contenders)
    /\ pc = "undoChoice" => TriedChoices # {}
    /\ pc = "choose" /\ stack[Len(stack)].choice # 1 => TriedChoices # {}

WalkInv == Walking => FrameInv /\ SeenInv /\ CursorInv /\ TriedInv
EndInv == pc = "cullBest" => EliminationIsExhaustive /\ BestIsLive

-----------------------------------------------------------------------------
(* Counting                                                                *)

(* Nothing is counted of what was not compared *)
LEMMA CountKept ==
    ASSUME NEW V, NEW B, CountInv(V, B), prob' = prob, UNCHANGED bestVars
    PROVE  CountInv(V, B)'
<1>1. \A S : LowestRank(S)' = LowestRank(S)
  BY RankIsFixed
<1>2. BestOf(V)' = BestOf(V)
  BY <1>1 DEF BestOf, bestVars
<1> QED BY <1>1, <1>2 DEF CountInv, CountedOnce, CountedTwice, bestVars

(* The walk begins with nothing, or with what specificity counted *)
LEMMA CountStarts ==
    ASSUME Fresh \/ Counted, prob \in Problems, prob' = prob, UNCHANGED bestVars,
           NEW B, B = Live
    PROVE  CountInv({}, B)'
<1>1. BestOf({}) = {} /\ Cardinality({}) = 0
  BY FS_EmptySet DEF BestOf
<1>2. CountInv({}, B)
  <2>1. Fresh => CountInv({}, B)
    BY <1>1 DEF Fresh, CountInv, CountedOnce, Rank, Incompatible, IdenticalTypes
  <2>2. Counted => CountInv({}, B)
    <3> SUFFICES ASSUME Counted PROVE CountInv({}, B)
      OBVIOUS
    <3>1. Cardinality(BestOf({})) = 0 /\ bestSolutionCount = 0 + 1
      BY <1>1 DEF Counted
    <3>2. CountedTwice({}, B)
      BY <3>1 DEF Counted, CountedTwice
    <3> QED BY <3>2 DEF Counted, CountInv
  <2> QED BY <2>1, <2>2
<1> QED BY <1>2, CountKept

(* The best solution is kept as a candidate of every site *)
LEMMA SingularIsChoice ==
    ASSUME NEW B \in SUBSET Cand, NEW S \in CompleteChoices(B)
    PROVE  /\ \A s \in Site : SingularCandidate(s, S) \in CandidatesOf(s)
           /\ {SingularCandidate(s, S) : s \in Site} = S
<1>1. S \subseteq Cand /\ \A s \in Site : \E f : S \cap CandidatesOf(s) = {f}
  BY ChoiceTakesOne
<1>2. \A s \in Site : S \cap CandidatesOf(s) = {SingularCandidate(s, S)}
  <2> SUFFICES ASSUME NEW s \in Site PROVE S \cap CandidatesOf(s) = {SingularCandidate(s, S)}
    OBVIOUS
  <2>1. PICK f : S \cap CandidatesOf(s) = {f}
    BY <1>1
  <2>2. Remaining(s, S) = 1
    BY <2>1, RemainingCounts
  <2>3. SingularCandidate(s, S) = CHOOSE c \in {f} : TRUE
    BY <2>1, <2>2 DEF SingularCandidate
  <2> QED BY <2>1, <2>3
<1> HIDE DEF SingularCandidate
<1>3. \A c \in S : c[1] \in Site /\ c \in S \cap CandidatesOf(c[1])
  BY <1>1, CandIsPair
<1>4. \A c \in S : c = SingularCandidate(c[1], S)
  BY <1>2, <1>3
<1> QED BY <1>2, <1>3, <1>4

(* A complete choice is compared at a leaf *)
LEMMA LeafCounts ==
    ASSUME prob \in Problems, prob' = prob, NEW B \in SUBSET Cand,
           NEW V \in SUBSET CompleteChoices(B), CountInv(V, B),
           NEW S \in CompleteChoices(B), S \notin V,
           ~Overconstrained(S), ~Underconstrained(S), CheckSolution(S, S)
    PROVE  CountInv(V \cup {S}, B)'
<1> DEFINE r == LowestRank(S)
           R == bestSolutionRank
<1>0. \A T : LowestRank(T)' = LowestRank(T)
  BY RankIsFixed
<1>1. r \in Rank /\ R \in Rank /\ \A T \in V : LowestRank(T) \in Rank /\ LowestRank(T) <= R
  BY LowestRankIsRank DEF CountInv
<1>2. \A x \in Rank : x \in Nat
  BY DEF Rank, Incompatible, IdenticalTypes
<1>3. IsFiniteSet(BestOf(V)) /\ S \notin BestOf(V) /\ BestOf(V) \subseteq V
  <2>1. BestOf(V) \in SUBSET CompleteChoices(B)
    BY DEF BestOf
  <2> QED BY <2>1, ChoicesAreFinite DEF BestOf
<1>4. Cardinality(BestOf(V)) \in Nat /\ (Cardinality(BestOf(V)) = 0 => BestOf(V) = {})
  BY <1>3, FS_CardinalityType, FS_EmptySet
<1> HIDE DEF r, R
<1>5. CASE r = R
  <2>1. bestSolutionCount' = bestSolutionCount + 1 /\ best' = best /\ bestSolutionRank' = R
    <3>1. ~(r > R) /\ ~(r < R)
      BY <1>1, <1>2, <1>5
    <3> QED BY <3>1 DEF CheckSolution, r, R
  <2>2. BestOf(V \cup {S})' = BestOf(V) \cup {S}
    BY <1>0, <1>5, <2>1 DEF BestOf, r, R
  <2>3. Cardinality(BestOf(V) \cup {S}) = Cardinality(BestOf(V)) + 1
    BY <1>3, FS_AddElement
  <2>4. \A T \in V \cup {S} : LowestRank(T)' <= bestSolutionRank'
    BY <1>0, <1>1, <1>2, <1>5, <2>1 DEF r, R
  <2>5. CountedOnce(V) => CountedOnce(V \cup {S})'
    <3> SUFFICES ASSUME CountedOnce(V) PROVE CountedOnce(V \cup {S})'
      OBVIOUS
    <3>1. bestSolutionCount' = Cardinality(BestOf(V \cup {S})')
      BY <2>1, <2>2, <2>3 DEF CountedOnce
    <3>2. bestSolutionCount' = 1 => R = Incompatible
      BY <1>4, <2>1 DEF CountedOnce, R
    <3> QED BY <2>1, <2>2, <3>1, <3>2 DEF CountedOnce
  <2>6. CountedTwice(V, B) => CountedTwice(V \cup {S}, B)'
    BY <1>0, <2>1, <2>2, <2>3 DEF CountedTwice, R
  <2> QED BY <1>1, <2>1, <2>4, <2>5, <2>6 DEF CountInv
<1>6. CASE r > R
  <2>1. /\ bestSolutionCount' = 1 /\ bestSolutionRank' = r
        /\ best' = [s \in Site |-> SingularCandidate(s, S)]
    <3>1. ~(r = R) /\ ~(r < R)
      BY <1>1, <1>2, <1>6
    <3> QED BY <3>1 DEF CheckSolution, r, R
  <2>2. \A T \in V : LowestRank(T) # r /\ LowestRank(T) <= r
    BY <1>1, <1>2, <1>6
  <2>3. BestOf(V \cup {S})' = {S}
    BY <1>0, <2>1, <2>2 DEF BestOf, r
  <2>4. Cardinality({S}) = 1
    BY FS_Singleton
  <2>5. /\ \A s \in Site : best'[s] \in CandidatesOf(s)
        /\ {best'[s] : s \in Site} = S
    <3>1. \A s \in Site : best'[s] = SingularCandidate(s, S)
      BY <2>1
    <3> QED BY <3>1, SingularIsChoice
  <2>6. CountedOnce(V \cup {S})'
    BY <2>1, <2>3, <2>4, <2>5 DEF CountedOnce
  <2>7. \A T \in V \cup {S} : LowestRank(T)' <= bestSolutionRank'
    BY <1>0, <1>1, <1>2, <2>1, <2>2 DEF r
  <2> QED BY <1>1, <2>1, <2>6, <2>7 DEF CountInv
<1>7. CASE r < R
  <2>1. UNCHANGED bestVars
    <3>1. ~(r = R) /\ ~(r > R)
      BY <1>1, <1>2, <1>7
    <3> QED BY <3>1 DEF CheckSolution, r, R
  <2>2. CountInv(V, B)'
    BY <2>1, CountKept
  <2>3. bestSolutionRank' = R
    BY <2>1 DEF bestVars, R
  <2>4. BestOf(V \cup {S})' = BestOf(V)'
    BY <1>0, <1>1, <1>2, <1>7, <2>3 DEF BestOf, r
  <2>5. LowestRank(S)' <= bestSolutionRank'
    BY <1>0, <1>1, <1>2, <1>7, <2>3 DEF r
  <2> QED BY <2>2, <2>4, <2>5 DEF CountInv, CountedOnce, CountedTwice
<1> QED BY <1>1, <1>2, <1>5, <1>6, <1>7

(* The worst rank there is *)
LEMMA LeastRank ==
    ASSUME NEW x \in Rank, x <= 0
    PROVE  x = 0
  BY DEF Rank, Incompatible, IdenticalTypes

(* Once every choice was tried what is counted is what there is.  Two      *)
(* contenders of one site make two choices, so a single one is never       *)
(* counted at the rank the count begins with                               *)
LEMMA CountEnds ==
    ASSUME prob \in Problems, CountInv(CompleteChoices(Live), Live),
           CompleteChoices(Live) # {}, \E c, d \in Live : c # d /\ c[1] = d[1]
    PROVE  /\ bestSolutionRank = BestRank
           /\ bestSolutionCount = 1 =>
                 /\ BestChoices = {{best[s] : s \in Site}}
                 /\ \A s \in Site : best[s] \in Live \cap CandidatesOf(s)
           /\ bestSolutionRank > SignedUnsigned =>
                 bestSolutionCount = Cardinality(BestChoices)
<1> DEFINE V == CompleteChoices(Live)
           R == bestSolutionRank
<1>0. Selections = V /\ Live \in SUBSET Cand
  BY DEF Selections, CompleteChoices, Live
<1>1. R \in Rank /\ \A x \in Rank : x \in Nat
  BY DEF CountInv, Rank, Incompatible, IdenticalTypes
<1>2. \A S \in V : LowestRank(S) \in Rank /\ LowestRank(S) <= R
  BY LowestRankIsRank DEF CountInv
<1>3. BestOf(V) # {}
  <2>1. CASE CountedTwice(V, Live)
    BY <2>1 DEF CountedTwice, BestOf
  <2>2. CASE CountedOnce(V) /\ BestOf(V) = {}
    <3>1. R = 0
      BY <2>2 DEF CountedOnce, Incompatible
    <3>2. PICK S \in V : TRUE
      OBVIOUS
    <3> HIDE DEF V, R
    <3>3. LowestRank(S) = R
      <4>1. LowestRank(S) \in Rank /\ LowestRank(S) <= 0
        BY <1>2, <3>1
      <4> QED BY <3>1, <4>1, LeastRank
    <3> QED BY <2>2, <3>2, <3>3 DEF BestOf, R
  <2> QED BY <2>1, <2>2 DEF CountInv
<1>4. R = BestRank
  <2> DEFINE Q == {LowestRank(S) : S \in V}
  <2>1. R \in Q
    BY <1>3 DEF BestOf
  <2>2. Q \subseteq Rank /\ \A y \in Q : y <= R
    BY <1>2
  <2> HIDE DEF V, Q, R
  <2>3. Max(Q) \in Q /\ Max(Q) >= R
    BY <2>1, <2>2, BestOfRanks
  <2>4. Max(Q) = R
    BY <1>1, <2>2, <2>3
  <2> QED BY <1>0, <2>4 DEF BestRank, Q
<1>5. BestChoices = BestOf(V)
  BY <1>0, <1>4 DEF BestChoices, BestOf
<1>6. IsFiniteSet(BestOf(V)) /\ Cardinality(BestOf(V)) \in Nat \ {0}
  <2>1. BestOf(V) \in SUBSET CompleteChoices(Live)
    BY DEF BestOf
  <2>2. IsFiniteSet(BestOf(V))
    BY <1>0, <2>1, ChoicesAreFinite
  <2> HIDE DEF V
  <2> QED BY <1>3, <2>2, FS_CardinalityType, FS_EmptySet
<1>7. R > SignedUnsigned => bestSolutionCount = Cardinality(BestChoices)
  <2> SUFFICES ASSUME R > SignedUnsigned PROVE bestSolutionCount = Cardinality(BestOf(V))
    BY <1>5
  <2>1. ~CountedTwice(V, Live)
    <3>1. ~(R <= SignedUnsigned)
      BY <1>1 DEF SignedUnsigned
    <3> QED BY <3>1 DEF CountedTwice
  <2> QED BY <2>1 DEF CountInv, CountedOnce
<1>8. ASSUME bestSolutionCount = 1
      PROVE  /\ BestChoices = {{best[s] : s \in Site}}
             /\ \A s \in Site : best[s] \in Live \cap CandidatesOf(s)
  <2>1. CountedOnce(V)
    <3>1. ~CountedTwice(V, Live)
      <4> HIDE DEF V
      <4> QED BY <1>6, <1>8 DEF CountedTwice
    <3> QED BY <3>1 DEF CountInv
  <2>2. PICK S : BestOf(V) = {S}
    <3>1. Cardinality(BestOf(V)) = 1
      BY <1>8, <2>1 DEF CountedOnce
    <3> HIDE DEF V
    <3> QED BY <1>6, <3>1, FS_Singleton
  <2>3. S \in V
    BY <2>2 DEF BestOf
  <2>4. R # Incompatible
    <3> SUFFICES ASSUME R = 0 PROVE FALSE
      BY DEF Incompatible
    <3>1. \A T \in V : LowestRank(T) = R
      <4> SUFFICES ASSUME NEW T \in V PROVE LowestRank(T) = R
        OBVIOUS
      <4>1. LowestRank(T) \in Rank /\ LowestRank(T) <= 0
        BY <1>2
      <4> QED BY <4>1, LeastRank
    <3>2. \A T \in V : T = S
      BY <2>2, <3>1 DEF BestOf
    <3>3. PICK c, d \in Live : c # d /\ c[1] = d[1]
      OBVIOUS
    <3>4. c[1] \in Site /\ c \in CandidatesOf(c[1]) /\ d \in CandidatesOf(c[1])
      BY <1>0, <3>3, CandIsPair
    <3>5. /\ S \subseteq Live
          /\ \A s \in Site : \E f : S \cap CandidatesOf(s) = {f}
      <4>1. S \in CompleteChoices(Live)
        BY <2>3
      <4> QED BY <4>1, ChoiceTakesOne, ZenonT(30)
    <3>6. PICK e \in {c, d} : e \notin S
      BY <3>3, <3>4, <3>5
    <3> DEFINE T == (S \ CandidatesOf(c[1])) \cup {e}
    <3>7. \A s \in Site : s # c[1] => T \cap CandidatesOf(s) = S \cap CandidatesOf(s)
      BY <3>4, <3>6 DEF CandidatesOf
    <3>8. T \cap CandidatesOf(c[1]) = {e}
      BY <3>4, <3>6
    <3>9. T \subseteq Live
      BY <3>3, <3>5, <3>6
    <3>10. T \in V
      <4>1. \A s \in Site : \E f : T \cap CandidatesOf(s) = {f}
        BY <3>5, <3>7, <3>8
      <4> HIDE DEF T
      <4> QED BY <3>9, <4>1, OneIsChoice
    <3> QED BY <3>2, <3>6, <3>10
  <2>5. /\ BestOf(V) = {{best[s] : s \in Site}}
        /\ \A s \in Site : best[s] \in CandidatesOf(s)
    BY <1>8, <2>1, <2>4 DEF CountedOnce
  <2>6. {best[s] : s \in Site} \subseteq Live
    BY <2>2, <2>3, <2>5 DEF CompleteChoices
  <2> QED BY <1>5, <2>5, <2>6
<1> QED BY <1>4, <1>7, <1>8

-----------------------------------------------------------------------------
(* The walk, step by step                                                  *)

(* Types of the walk's state *)
WalkTyped ==
    /\ Len(stack) \in Nat /\ InProgress \in Nat /\ searchDepth \in Nat /\ EntryDepth \in Nat
    /\ searchDepth = EntryDepth + InProgress
    /\ \A i \in 1..Len(stack) : stack[i].site \in Site /\ stack[i].site \in Nat
                                /\ stack[i].choice \in Nat \ {0}
    /\ pruningDepth \in [Cand -> Nat]
    /\ pc \in {"choose", "undoChoice"} => Len(stack) >= 1
    /\ cursor \in Nat \ {0}

LEMMA WalkIsTyped ==
    ASSUME IInv, Walking
    PROVE  WalkTyped
<1>1. /\ stack \in Seq([site : Site, choice : Nat \ {0}]) /\ searchDepth \in Nat
      /\ pruningDepth \in [Cand -> Nat] /\ cursor \in Nat \ {0}
  BY DEF IInv, TypeOK, DepthTypeOK
<1>2. Len(stack) \in Nat
  BY <1>1
<1>3. /\ pc = "descend" => searchDepth >= Len(stack) + 1
      /\ pc = "choose" => Len(stack) >= 1 /\ searchDepth >= Len(stack)
      /\ pc = "undoChoice" => Len(stack) >= 1 /\ searchDepth >= Len(stack) + 1
  BY DEF IInv, Balanced
<1>4. \A i \in 1..Len(stack) : stack[i] \in [site : Site, choice : Nat \ {0}]
  <2> DEFINE F == [site : Site, choice : Nat \ {0}]
  <2>1. stack \in Seq(F)
    BY <1>1
  <2> HIDE DEF F
  <2>2. \A i \in 1..Len(stack) : stack[i] \in F
    BY <2>1, ElementOfSeq
  <2> QED BY <2>2 DEF F
<1>5. \A i \in 1..Len(stack) : stack[i].site \in Site /\ stack[i].site \in Nat
                               /\ stack[i].choice \in Nat \ {0}
  BY <1>4 DEF Site
<1>6. PICK n, d : n = Len(stack) /\ d = searchDepth
  OBVIOUS
<1>7. InProgress = IF pc = "choose" THEN n - 1 ELSE n
  BY <1>6 DEF InProgress
<1>8. InProgress \in Nat /\ InProgress <= d /\ n \in Nat /\ d \in Nat
  BY <1>1, <1>2, <1>3, <1>6, <1>7 DEF Walking
<1>9. EntryDepth \in Nat /\ searchDepth = EntryDepth + InProgress
  BY <1>6, <1>8 DEF EntryDepth
<1> QED BY <1>1, <1>2, <1>3, <1>5, <1>8, <1>9 DEF WalkTyped

(* A contender that is culled belongs to a frame in progress *)
LEMMA CulledContender ==
    ASSUME FrameInv, NEW c \in Contenders, c \notin Live
    PROVE  \E k \in 1..InProgress : c[1] = stack[k].site /\ c # Current(k)
<1>1. c \in Cand /\ pruningDepth[c] > EntryDepth
  BY DEF Contenders, Live
<1> QED BY <1>1 DEF FrameInv

(* Live candidates are contenders, and contenders candidates *)
LEMMA LiveContends == Live \subseteq Contenders /\ Contenders \in SUBSET Cand
  BY DEF Live, Contenders

(* A frame keeps its place *)
LEMMA CurrentKept ==
    ASSUME NEW k, stack'[k] = stack[k]
    PROVE  Current(k)' = Current(k)
  BY DEF Current

(* Depths and frames in progress stay as they are *)
LEMMA FramesKept ==
    ASSUME FrameInv, UNCHANGED <<pruningDepth, searchDepth>>, InProgress' = InProgress,
           \A k \in 1..InProgress : stack'[k] = stack[k],
           \A i, j \in 1..Len(stack') : i < j => stack'[i].site < stack'[j].site
    PROVE  FrameInv' /\ Contenders' = Contenders /\ Live' = Live /\ EntryDepth' = EntryDepth
<1>1. EntryDepth' = EntryDepth
  BY DEF EntryDepth
<1>2. Contenders' = Contenders /\ Live' = Live
  BY <1>1 DEF Contenders, Live
<1>3. \A k \in 1..InProgress : Current(k)' = Current(k)
  BY CurrentKept
<1>4. \A c \in Cand : pruningDepth'[c] > EntryDepth' =>
          \E k \in 1..InProgress' : /\ c[1] = stack'[k].site /\ c # Current(k)'
                                    /\ pruningDepth'[c] = EntryDepth' + k
  BY <1>1, <1>3 DEF FrameInv
<1>5. \A k \in 1..InProgress' : Live' \cap CandidatesOf(stack'[k].site) = {Current(k)'}
  BY <1>2, <1>3 DEF FrameInv
<1> QED BY <1>1, <1>2, <1>4, <1>5 DEF FrameInv

(* The choices that were tried stay the same *)
LEMMA TriedKept ==
    ASSUME Contenders' = Contenders,
           \A S \in CompleteChoices(Contenders) : Tried(S)' <=> Tried(S)
    PROVE  TriedChoices' = TriedChoices
<1>1. PICK B : B = Contenders /\ B = Contenders'
  OBVIOUS
<1> QED BY <1>1 DEF TriedChoices

(* ... and what is counted of them *)
LEMMA CountOfTriedKept ==
    ASSUME CountInv(TriedChoices, Contenders), prob' = prob, UNCHANGED bestVars,
           TriedChoices' = TriedChoices, Contenders' = Contenders
    PROVE  CountInv(TriedChoices, Contenders)'
<1>1. PICK V, B : V = TriedChoices /\ B = Contenders
  OBVIOUS
<1>2. CountInv(V, B)'
  BY <1>1, CountKept
<1>3. V = TriedChoices' /\ B = Contenders'
  BY <1>1
<1> QED BY <1>2, <1>3

(* EnterElimination: the candidates that are live are the contenders *)
LEMMA WalkEnters ==
    ASSUME IInv, EntryInv, prob \in Problems, prob' = prob, EnterElimination
    PROVE  WalkInv'
<1> SUFFICES ASSUME Walking' PROVE (FrameInv /\ SeenInv /\ CursorInv /\ TriedInv)'
  BY DEF WalkInv
<1> USE DEF Goto, bestVars
<1>1. /\ pc = "elimination" /\ pc' = "descend" /\ Underconstrained(seen) /\ cursor' = 1
      /\ UNCHANGED <<pruningDepth, searchDepth, seen, stack, bestVars>>
  BY DEF EnterElimination, Walking
<1>2. seen = Live /\ (Fresh \/ Counted)
  BY <1>1 DEF EntryInv
<1>3. stack = <<>> /\ Len(stack) = 0
  BY <1>1 DEF IInv, Balanced
<1>4. InProgress' = 0
  BY <1>1, <1>3 DEF InProgress
<1>5. \A c \in Cand : pruningDepth[c] \in Nat /\ ~(pruningDepth[c] > searchDepth)
  BY <1>1 DEF IInv, TypeOK, DepthTypeOK, CullsAreUndoable, Undoable
<1>6. searchDepth \in Nat /\ EntryDepth' = searchDepth
  BY <1>1, <1>4 DEF IInv, TypeOK, DepthTypeOK, EntryDepth
<1>7. Live' = Live /\ Contenders' = Live
  BY <1>1, <1>5, <1>6 DEF Live, Contenders
<1>8. FrameInv'
  BY <1>1, <1>3, <1>4, <1>5, <1>6 DEF FrameInv
<1>9. PICK c, d \in Live : c # d /\ c[1] = d[1]
  <2>1. PICK s \in Site : ~AtMostOne(s, seen)
    BY <1>1, ConstrainedCounts
  <2> QED BY <1>2, <2>1 DEF AtMostOne, CandidatesOf
<1>10. SeenInv'
  BY <1>1, <1>2, <1>7, <1>9 DEF SeenInv
<1>11. CursorInv'
  BY <1>1, <1>3 DEF CursorInv, Site
<1>12. TriedChoices' = {}
  BY <1>1, <1>3 DEF TriedChoices, Tried
<1>13. CountInv(TriedChoices, Contenders)'
  <2>1. PICK B : B = Live
    OBVIOUS
  <2>2. CountInv({}, B)'
    BY <1>1, <1>2, <2>1, CountStarts
  <2>3. TriedChoices' = {} /\ Contenders' = B
    BY <1>7, <1>12, <2>1
  <2> QED BY <2>2, <2>3
<1>14. TriedInv'
  BY <1>1, <1>13 DEF TriedInv
<1> QED BY <1>8, <1>10, <1>11, <1>14

(* SkipSite: a site with one candidate left, or none *)
LEMMA WalkSkips ==
    ASSUME IInv, WalkInv, prob' = prob, SkipSite
    PROVE  WalkInv'
<1> SUFFICES ASSUME Walking' PROVE (FrameInv /\ SeenInv /\ CursorInv /\ TriedInv)'
  BY DEF WalkInv
<1> USE DEF Goto
<1>1. /\ pc = "descend" /\ pc' = pc /\ cursor \in Site /\ cursor' = cursor + 1
      /\ Remaining(cursor, seen) <= 1
      /\ UNCHANGED <<pruningDepth, searchDepth, seen, stack, bestVars>>
  BY DEF SkipSite, Walking
<1>2. WalkTyped /\ FrameInv /\ SeenInv /\ CursorInv /\ TriedInv
  BY <1>1, WalkIsTyped DEF WalkInv, Walking
<1>3. InProgress' = InProgress
  BY <1>1 DEF InProgress
<1>4. FrameInv' /\ Contenders' = Contenders /\ Live' = Live /\ EntryDepth' = EntryDepth
  BY <1>1, <1>2, <1>3, FramesKept DEF FrameInv
<1>5. SeenInv'
  BY <1>1, <1>2, <1>3, <1>4 DEF SeenInv
<1>6. AtMostOne(cursor, Live)
  <2>1. AtMostOne(cursor, seen)
    BY <1>1, RemainingCounts
  <2> QED BY <1>2, <2>1 DEF AtMostOne, SeenInv
<1>7. CursorInv'
  <2>1. \A s \in Site : s < cursor' => AtMostOne(s, Live)
    <3> SUFFICES ASSUME NEW s \in Site, s < cursor + 1 PROVE AtMostOne(s, Live)
      BY <1>1
    <3>1. s < cursor \/ s = cursor
      BY <1>1 DEF Site
    <3> QED BY <1>1, <1>2, <1>6, <3>1 DEF CursorInv
  <2>2. \A i \in 1..Len(stack') : stack'[i].site < cursor'
    <3> SUFFICES ASSUME NEW i \in 1..Len(stack) PROVE stack[i].site < cursor + 1
      BY <1>1
    <3>1. stack[i].site < cursor /\ stack[i].site \in Nat /\ cursor \in Nat
      BY <1>1, <1>2 DEF CursorInv, WalkTyped
    <3> QED BY <3>1
  <2> QED BY <1>1, <1>4, <2>1, <2>2 DEF CursorInv, AtMostOne
<1>8. TriedInv'
  <2>1. \A S : Tried(S)' <=> Tried(S)
    BY <1>1 DEF Tried, Agrees, Passed, Current
  <2>2. TriedChoices' = TriedChoices
    BY <1>4, <2>1, TriedKept
  <2>3. CountInv(TriedChoices, Contenders)'
    BY <1>1, <1>2, <1>4, <2>2, CountOfTriedKept DEF TriedInv
  <2> QED BY <1>1, <2>3 DEF TriedInv
<1> QED BY <1>4, <1>5, <1>7, <1>8

(* OpenSite: a site with a choice *)
LEMMA WalkOpens ==
    ASSUME IInv, WalkInv, prob' = prob, OpenSite
    PROVE  WalkInv'
<1> USE DEF Goto
<1>1. /\ pc = "descend" /\ pc' = "choose" /\ cursor \in Site /\ cursor' = cursor
      /\ Remaining(cursor, seen) > 1
      /\ stack' = Append(stack, [site |-> cursor, choice |-> 1])
      /\ UNCHANGED <<pruningDepth, searchDepth, seen, bestVars>>
  BY DEF OpenSite
<1>2. WalkTyped /\ FrameInv /\ SeenInv /\ CursorInv /\ TriedInv
  BY <1>1, WalkIsTyped DEF WalkInv, Walking
<1>3. PICK n \in Nat : n = Len(stack)
  BY <1>2 DEF WalkTyped
<1>4. /\ Len(stack') = n + 1 /\ \A i \in 1..n : stack'[i] = stack[i]
      /\ stack'[n + 1] = [site |-> cursor, choice |-> 1]
  <2>1. stack \in Seq([site : Site, choice : Nat \ {0}])
    BY DEF IInv, TypeOK
  <2> QED BY <1>1, <1>3, <2>1
<1>5. stack'[n + 1].site = cursor /\ stack'[n + 1].choice = 1
  BY <1>4
<1>6. InProgress = n /\ InProgress' = n
  BY <1>1, <1>3, <1>4 DEF InProgress
<1>7. \A i, j \in 1..Len(stack') : i < j => stack'[i].site < stack'[j].site
  <2> SUFFICES ASSUME NEW i \in 1..(n + 1), NEW j \in 1..(n + 1), i < j
               PROVE  stack'[i].site < stack'[j].site
    BY <1>4
  <2>1. i \in 1..n /\ (j \in 1..n \/ j = n + 1)
    OBVIOUS
  <2> QED BY <1>1, <1>2, <1>3, <1>4, <1>5, <2>1 DEF FrameInv, CursorInv
<1>8. FrameInv' /\ Contenders' = Contenders /\ Live' = Live /\ EntryDepth' = EntryDepth
  BY <1>1, <1>2, <1>4, <1>6, <1>7, FramesKept
<1>9. SeenInv'
  <2>1. \A k \in 1..n : stack'[k].site = stack[k].site
    BY <1>4
  <2> QED BY <1>1, <1>2, <1>6, <1>8, <2>1 DEF SeenInv
<1>10. CursorInv'
  <2>1. PICK c : c \in seen \cap CandidatesOf(cursor)
    <3>1. ~AtMostOne(cursor, seen)
      BY <1>1, RemainingCounts
    <3> QED BY <3>1 DEF AtMostOne
  <2>2. c \in Contenders /\ c[1] = cursor
    BY <1>2, <2>1 DEF SeenInv, CandidatesOf
  <2>3. n + 1 >= 1
    BY <1>3
  <2> QED BY <1>1, <1>2, <1>4, <1>5, <1>8, <2>2, <2>3 DEF CursorInv, AtMostOne
<1>11. ASSUME NEW S \in CompleteChoices(Contenders) PROVE Tried(S)' <=> Tried(S)
  <2>1. \A j \in 1..n : Current(j)' = Current(j)
    BY <1>4, CurrentKept
  <2>2. \A i \in 1..(n + 1) : Agrees(S, i)' <=> Agrees(S, i)
    <3> SUFFICES ASSUME NEW i \in 1..(n + 1) PROVE Agrees(S, i)' <=> Agrees(S, i)
      OBVIOUS
    <3>1. 1..(i - 1) \subseteq 1..n
      BY <1>3
    <3> QED BY <2>1, <3>1 DEF Agrees
  <2>3. \A i \in 1..n : Passed(i)' = Passed(i)
    <3> SUFFICES ASSUME NEW i \in 1..n PROVE Passed(i)' = Passed(i)
      OBVIOUS
    <3>1. i # n + 1
      BY <1>3
    <3> QED BY <1>1, <1>4, <3>1 DEF Passed
  <2>4. Passed(n + 1)' = 1
    BY <1>1, <1>4, <1>5 DEF Passed
  <2>5. \A c \in S : ~(c[2] < 1)
    <3>1. S \subseteq Cand
      BY LiveContends DEF CompleteChoices
    <3> QED BY <3>1, CandIsPair
  <2>6. 1..(n + 1) = 1..n \cup {n + 1}
    BY <1>3
  <2> QED BY <1>3, <1>4, <2>2, <2>3, <2>4, <2>5, <2>6 DEF Tried
<1>12. TriedInv'
  <2>1. TriedChoices' = TriedChoices
    BY <1>8, <1>11, TriedKept
  <2>2. CountInv(TriedChoices, Contenders)'
    BY <1>1, <1>2, <1>8, <2>1, CountOfTriedKept DEF TriedInv
  <2> QED BY <1>1, <1>4, <1>5, <2>2 DEF TriedInv
<1> QED BY <1>8, <1>9, <1>10, <1>12 DEF WalkInv

(* Leaf: every site is decided, and the choices in progress are a solution *)
LEMMA WalkCompares ==
    ASSUME IInv, WalkInv, prob \in Problems, prob' = prob, Leaf
    PROVE  WalkInv' /\ pc' # "cullBest"
<1> USE DEF Goto
<1>1. /\ pc = "descend" /\ (cursor \notin Site \/ ~Underconstrained(seen)) /\ seen' = Live
      /\ UNCHANGED <<pruningDepth, searchDepth, stack, cursor>>
  BY DEF Leaf, loopVars
<1>2. WalkTyped /\ FrameInv /\ SeenInv /\ CursorInv /\ TriedInv
  BY <1>1, WalkIsTyped DEF WalkInv, Walking
<1>3. PICK n \in Nat : n = Len(stack)
  BY <1>2 DEF WalkTyped
<1>4. InProgress = n
  BY <1>1, <1>3 DEF InProgress
<1>5. PICK L \in SUBSET Cand : L = Live /\ L = seen' /\ L = Live'
  BY <1>1 DEF Live
<1>6. \A s \in Site : AtMostOne(s, L)
  <2>1. CASE cursor \notin Site
    <3>1. \A s \in Site : s < cursor
      BY <1>2, <2>1, SearchAssumption DEF Site, WalkTyped
    <3> QED BY <1>1, <1>2, <1>5, <3>1 DEF CursorInv
  <2>2. CASE ~Underconstrained(seen)
    <3>1. \A s \in Site : AtMostOne(s, seen)
      BY <2>2, ConstrainedCounts
    <3> QED BY <1>2, <1>5, <3>1 DEF AtMostOne, SeenInv
  <2> QED BY <1>1, <2>1, <2>2
<1>7. n # 0
  <2> SUFFICES ASSUME n = 0 PROVE FALSE
    OBVIOUS
  <2>1. \A c \in Contenders : c \in Live
    BY <1>2, <1>4, CulledContender
  <2>2. PICK c, d \in Contenders : c # d /\ c[1] = d[1]
    BY <1>2 DEF SeenInv
  <2>3. c[1] \in Site /\ c \in CandidatesOf(c[1]) /\ d \in CandidatesOf(c[1])
    BY <2>2, LiveContends, CandIsPair
  <2> QED BY <1>5, <1>6, <2>1, <2>2, <2>3 DEF AtMostOne
<1>8. CASE Overconstrained(L)
  <2>1. pc' = "assertFailed"
    BY <1>5, <1>8 DEF Leaf
  <2> QED BY <2>1 DEF WalkInv, Walking
<1>9. CASE ~Overconstrained(L)
  <2>1. stack # <<>>
    BY <1>3, <1>7
  <2>2. pc' = "undoChoice" /\ CheckSolution(L, L)
    BY <1>5, <1>9, <2>1 DEF Leaf
  <2>3. CompleteChoices(L) = {L}
    BY <1>6, <1>9, LiveIsChoice
  <2>4. ~Underconstrained(L)
    BY <1>6, ConstrainedCounts
  <2>5. InProgress' = InProgress
    BY <1>1, <2>2 DEF InProgress
  <2>6. FrameInv' /\ Contenders' = Contenders /\ Live' = Live /\ EntryDepth' = EntryDepth
    BY <1>1, <1>2, <2>5, FramesKept DEF FrameInv
  <2>7. SeenInv'
    <3>1. \A c \in Contenders : (\A k \in 1..InProgress : c[1] # stack[k].site) => c \in Live
      BY <1>2, CulledContender
    <3>2. \E c, d \in Contenders : c # d /\ c[1] = d[1]
      BY <1>2 DEF SeenInv
    <3> QED BY <1>1, <1>5, <2>5, <2>6, <3>1, <3>2, LiveContends DEF SeenInv
  <2>8. CursorInv'
    <3>1. n \in 1..Len(stack) /\ Len(stack') >= 1
      BY <1>1, <1>3, <1>7
    <3> QED BY <1>1, <1>5, <1>6, <2>2, <3>1 DEF CursorInv
  <2> DEFINE B == Contenders
             V == TriedChoices
  <2>9. L \in CompleteChoices(B)
    BY <1>5, <2>3, LiveContends DEF CompleteChoices
  <2>10. \A S \in CompleteChoices(B) : Agrees(S, n + 1) => S = L
    <3> SUFFICES ASSUME NEW S \in CompleteChoices(B), Agrees(S, n + 1) PROVE S = L
      OBVIOUS
    <3>1. \A k \in 1..n : Current(k) \in S
      BY <1>3 DEF Agrees
    <3>2. S \subseteq B /\ \A s \in Site : \E f : S \cap CandidatesOf(s) = {f}
      BY ChoiceTakesOne, ZenonT(30)
    <3>3. S \subseteq L
      <4> SUFFICES ASSUME NEW c \in S, c \notin L PROVE FALSE
        OBVIOUS
      <4>1. PICK k \in 1..n : c[1] = stack[k].site /\ c # Current(k)
        BY <1>2, <1>4, <1>5, <3>2, CulledContender
      <4>2. stack[k].site \in Site /\ Current(k) \in CandidatesOf(stack[k].site)
        <5>1. stack[k].site \in Site
          <6>1. k \in 1..Len(stack)
            BY <1>3
          <6> QED BY <1>2, <6>1 DEF WalkTyped
        <5>2. Live \cap CandidatesOf(stack[k].site) = {Current(k)}
          BY <1>2, <1>3, <1>4 DEF FrameInv
        <5> QED BY <5>1, <5>2
      <4>3. c \in CandidatesOf(stack[k].site)
        BY <3>2, <4>1, LiveContends, CandIsPair
      <4> QED BY <3>1, <3>2, <4>1, <4>2, <4>3
    <3>4. S \in CompleteChoices(L)
      BY <3>2, <3>3, OneIsChoice
    <3> QED BY <2>3, <3>4
  <2>11. L \notin V
    <3> SUFFICES ASSUME Tried(L) PROVE FALSE
      BY DEF TriedChoices
    <3>1. PICK i \in 1..n, c \in L : c[1] = stack[i].site /\ c[2] < stack[i].choice - 1
      BY <1>1, <1>3 DEF Tried, Passed
    <3>2. c \in CandidatesOf(stack[i].site)
      BY <3>1, CandIsPair
    <3>3. c = Current(i)
      BY <1>2, <1>4, <1>5, <3>1, <3>2 DEF FrameInv
    <3>4. c[2] = stack[i].choice - 1 /\ c[2] \in Nat
      BY <3>3, CandIsPair DEF Current
    <3> QED BY <3>1, <3>4
  <2>12. ASSUME NEW S \in CompleteChoices(B) PROVE Tried(S)' <=> Tried(S) \/ S = L
    <3>1. \A j \in 1..n : Current(j)' = Current(j)
      BY <1>1, CurrentKept
    <3>2. \A i \in 1..n : Agrees(S, i)' <=> Agrees(S, i)
      <4> SUFFICES ASSUME NEW i \in 1..n PROVE Agrees(S, i)' <=> Agrees(S, i)
        OBVIOUS
      <4>1. 1..(i - 1) \subseteq 1..n
        BY <1>3
      <4> QED BY <3>1, <4>1 DEF Agrees
    <3>3. \A i \in 1..n : /\ Passed(i) = stack[i].choice - 1
                          /\ i # n => Passed(i)' = Passed(i)
                          /\ i = n => Passed(i)' = stack[i].choice
      BY <1>1, <1>3, <2>2 DEF Passed
    <3>4. \A c \in S : c[2] \in Nat /\ c = <<c[1], c[2]>>
      <4>1. S \subseteq Cand
        BY LiveContends DEF CompleteChoices
      <4> QED BY <4>1, CandIsPair DEF Cand
    <3>5. n \in 1..n /\ stack[n].choice \in Nat
      BY <1>2, <1>3, <1>7 DEF WalkTyped
    <3>6. \A i \in 1..n : stack[i].choice \in Nat
      BY <1>2, <1>3 DEF WalkTyped
    <3>7. Tried(S) => Tried(S)'
      <4> SUFFICES ASSUME Tried(S) PROVE Tried(S)'
        OBVIOUS
      <4>1. PICK i \in 1..n, c \in S : Agrees(S, i) /\ c[1] = stack[i].site /\ c[2] < Passed(i)
        BY <1>3 DEF Tried
      <4>2. c[2] < Passed(i)'
        <5>1. CASE i = n
          BY <3>3, <3>4, <3>6, <4>1, <5>1
        <5>2. CASE i # n
          BY <3>3, <4>1, <5>2
        <5> QED BY <5>1, <5>2
      <4> QED BY <1>1, <1>3, <3>2, <4>1, <4>2 DEF Tried
    <3>8. S = L => Tried(S)'
      <4> SUFFICES ASSUME S = L PROVE Tried(S)'
        OBVIOUS
      <4>1. \A k \in 1..n : Current(k) \in S
        BY <1>2, <1>4, <1>5 DEF FrameInv
      <4>2. Agrees(S, n)
        <5>1. 1..(n - 1) \subseteq 1..n
          BY <1>3
        <5> QED BY <4>1, <5>1 DEF Agrees
      <4>3. Current(n) \in S /\ Current(n)[1] = stack[n].site /\ Current(n)[2] < stack[n].choice
        BY <3>5, <4>1 DEF Current
      <4>4. Passed(n)' = stack[n].choice /\ Agrees(S, n)'
        BY <3>2, <3>3, <3>5, <4>2
      <4> QED BY <1>1, <1>3, <3>5, <4>3, <4>4 DEF Tried
    <3>9. Tried(S)' => Tried(S) \/ S = L
      <4> SUFFICES ASSUME Tried(S)', ~Tried(S) PROVE S = L
        OBVIOUS
      <4>1. PICK i \in 1..n, c \in S : Agrees(S, i)' /\ c[1] = stack[i].site /\ c[2] < Passed(i)'
        BY <1>1, <1>3 DEF Tried
      <4>2. Agrees(S, i) /\ ~(c[2] < Passed(i))
        BY <1>3, <3>2, <4>1 DEF Tried
      <4>3. i = n /\ c[2] < stack[n].choice /\ ~(c[2] < stack[n].choice - 1)
        BY <3>3, <4>1, <4>2
      <4>4. c[2] = stack[n].choice - 1
        <5> PICK x, y \in Nat : x = c[2] /\ y = stack[n].choice
          BY <3>4, <3>5
        <5> QED BY <4>3
      <4>5. c = Current(n)
        BY <3>4, <4>1, <4>3, <4>4 DEF Current
      <4>6. Agrees(S, n + 1)
        <5>1. 1..((n + 1) - 1) = 1..(n - 1) \cup {n}
          BY <1>3, <1>7
        <5> QED BY <4>2, <4>3, <4>5, <5>1 DEF Agrees
      <4> QED BY <2>10, <4>6
    <3> QED BY <3>7, <3>8, <3>9
  <2>13. TriedChoices' = V \cup {L}
    <3>1. TriedChoices' = {S \in CompleteChoices(Contenders') : Tried(S)'}
      BY DEF TriedChoices
    <3>2. TriedChoices' = {S \in CompleteChoices(B) : Tried(S) \/ S = L}
      BY <2>6, <2>12, <3>1
    <3> QED BY <2>9, <3>2 DEF TriedChoices
  <2>14. CountInv(TriedChoices, Contenders)'
    <3>1. PICK W, C : W = V /\ C = B
      OBVIOUS
    <3>2. C \in SUBSET Cand /\ W \in SUBSET CompleteChoices(C) /\ CountInv(W, C)
      BY <1>2, <3>1, LiveContends DEF TriedChoices, TriedInv
    <3>3. L \in CompleteChoices(C) /\ L \notin W
      BY <2>9, <2>11, <3>1
    <3>4. CountInv(W \cup {L}, C)'
      BY <1>9, <2>2, <2>4, <3>2, <3>3, LeafCounts
    <3>5. TriedChoices' = W \cup {L} /\ Contenders' = C
      BY <2>6, <2>13, <3>1
    <3> QED BY <3>4, <3>5
  <2>15. TriedInv'
    BY <2>2, <2>13, <2>14 DEF TriedInv
  <2> QED BY <2>2, <2>6, <2>7, <2>8, <2>15 DEF WalkInv
<1> QED BY <1>8, <1>9

(* The frames of the stack after its top was replaced or dropped *)
LEMMA FrontKeeps ==
    ASSUME NEW F, NEW q \in Seq(F), NEW n \in Nat, n = Len(q), n >= 1
    PROVE  /\ Front(q) \in Seq(F) /\ Len(Front(q)) = n - 1
           /\ \A i \in 1..(n - 1) : Front(q)[i] = q[i]
<1>1. Front(q) \in Seq(F) /\ Len(Front(q)) = n - 1
  BY FrontOfStack
<1>2. \A i \in 1..n : q[i] \in F
  BY ElementOfSeq
<1>3. 1 \in Int /\ n - 1 \in Int /\ \A i \in 1..(n - 1) : q[i] \in F
  BY <1>2
<1>4. \A i \in 1..(n - 1 - 1 + 1) : SubSeq(q, 1, n - 1)[i] = q[1 + i - 1]
  BY <1>3, SubSeqProperties
<1>5. \A i \in 1..(n - 1) : i \in 1..(n - 1 - 1 + 1) /\ 1 + i - 1 = i
  OBVIOUS
<1>6. \A i \in 1..(n - 1) : SubSeq(q, 1, n - 1)[i] = q[i]
  BY <1>4, <1>5
<1> QED BY <1>1, <1>6 DEF Front

(* TryChoice: the next live candidate of the site, the others culled *)
LEMMA WalkTries ==
    ASSUME IInv, WalkInv, prob' = prob, TryChoice
    PROVE  WalkInv'
<1> USE DEF Goto
<1>1. pc = "choose" /\ pc' = "descend" /\ Descend /\ UNCHANGED <<seen, bestVars>>
  BY DEF TryChoice
<1>2. WalkTyped /\ FrameInv /\ SeenInv /\ CursorInv /\ TriedInv
  BY <1>1, WalkIsTyped DEF WalkInv, Walking
<1>3. PICK n \in Nat : n = Len(stack) /\ n >= 1 /\ n \in 1..n
  BY <1>1, <1>2 DEF WalkTyped
<1>4. PICK ch \in Untried :
         /\ \A other \in Untried : ch[2] <= other[2]
         /\ Cull(CandidatesOf(ch[1]) \ {ch})
         /\ stack' = Append(Front(stack), [site |-> ch[1], choice |-> ch[2] + 1])
         /\ cursor' = ch[1] + 1
  BY DEF TryChoice
<1>u. Untried = {c \in Live \cap CandidatesOf(stack[n].site) : c[2] >= stack[n].choice}
  BY <1>3 DEF Untried, Last
<1>5. /\ ch \in Live /\ ch \in Cand /\ ch[1] = stack[n].site /\ ch[2] >= stack[n].choice
      /\ ch \in CandidatesOf(ch[1]) /\ ch[1] \in Site /\ ch[2] \in Nat \ {0} /\ ch = <<ch[1], ch[2]>>
  <2>1. ch \in Live /\ ch \in Cand /\ ch \in CandidatesOf(stack[n].site) /\ ch[2] >= stack[n].choice
    BY <1>4, <1>u DEF Live
  <2> QED BY <2>1, CandIsPair DEF CandidatesOf, Cand
<1>6. /\ Len(stack') = n /\ \A i \in 1..(n - 1) : stack'[i] = stack[i]
      /\ stack'[n] = [site |-> ch[1], choice |-> ch[2] + 1]
  <2> DEFINE F == [site : Site, choice : Nat \ {0}]
             e == [site |-> ch[1], choice |-> ch[2] + 1]
             q == Front(stack)
  <2>1. stack \in Seq(F) /\ e \in F
    BY <1>5 DEF IInv, TypeOK
  <2> HIDE DEF F, e
  <2>2. q \in Seq(F) /\ Len(q) = n - 1 /\ \A i \in 1..(n - 1) : q[i] = stack[i]
    BY <1>3, <2>1, FrontKeeps
  <2>3. stack' = Append(q, e)
    BY <1>4 DEF e
  <2> HIDE DEF q
  <2>4. /\ Len(Append(q, e)) = Len(q) + 1 /\ Append(q, e)[Len(q) + 1] = e
        /\ \A i \in 1..Len(q) : Append(q, e)[i] = q[i]
    BY <2>1, <2>2, AppendProperties
  <2>5. Len(q) + 1 = n
    BY <1>3, <2>2
  <2> QED BY <2>2, <2>3, <2>4, <2>5 DEF e
<1>7. stack'[n].site = ch[1] /\ stack'[n].choice = ch[2] + 1 /\ stack'[n].site = stack[n].site
  BY <1>5, <1>6
<1>8. InProgress = n - 1 /\ InProgress' = n
  BY <1>1, <1>3, <1>6 DEF InProgress
<1>9. PICK d \in Nat : d = EntryDepth
  BY <1>2 DEF WalkTyped
<1>10. searchDepth' = d + n /\ EntryDepth' = d
  <2>1. searchDepth = d + (n - 1) /\ searchDepth' = searchDepth + 1
    BY <1>1, <1>2, <1>8, <1>9 DEF WalkTyped, Descend
  <2> QED BY <1>8, <2>1 DEF EntryDepth
<1>11. \A c \in Cand :
         pruningDepth[c] \in Nat /\
         pruningDepth'[c] = IF c \in CandidatesOf(ch[1]) /\ c # ch /\ pruningDepth[c] = 0
                            THEN d + n ELSE pruningDepth[c]
  BY <1>2, <1>4, <1>10 DEF Cull, WalkTyped
<1>12. d + n > d /\ d + n # 0
  BY <1>3
<1>13. Contenders' = Contenders
  BY <1>9, <1>10, <1>11, <1>12 DEF Contenders
<1>14. /\ Live' \subseteq Live /\ ch \in Live'
       /\ \A s \in Site : s # ch[1] => Live' \cap CandidatesOf(s) = Live \cap CandidatesOf(s)
       /\ Live' \cap CandidatesOf(ch[1]) = {ch}
  <2>1. Live' = {c \in Cand : pruningDepth[c] = 0 /\ ~(c \in CandidatesOf(ch[1]) /\ c # ch)}
    BY <1>11, <1>12 DEF Live
  <2> QED BY <1>5, <2>1 DEF Live, CandidatesOf
<1>15. \A k \in 1..(n - 1) : Current(k)' = Current(k)
  BY <1>6, CurrentKept
<1>16. Current(n)' = ch
  <2>1. Current(n)' = <<ch[1], (ch[2] + 1) - 1>>
    BY <1>7 DEF Current
  <2>2. (ch[2] + 1) - 1 = ch[2]
    BY <1>5
  <2> QED BY <1>5, <2>1, <2>2
<1>17. \A k \in 1..n : k \in 1..(n - 1) \/ k = n
  OBVIOUS
<1>18. \A k \in 1..n : stack'[k].site = stack[k].site /\ stack[k].site \in Site /\ stack[k].site \in Nat
  <2>1. \A k \in 1..n : stack'[k].site = stack[k].site
    BY <1>6, <1>7, <1>17
  <2> QED BY <1>2, <1>3, <2>1 DEF WalkTyped
<1>19. \A k \in 1..(n - 1) : k \in 1..n /\ stack[k].site < stack[n].site /\ stack[k].site # stack[n].site
  <2> SUFFICES ASSUME NEW k \in 1..(n - 1)
               PROVE  k \in 1..n /\ stack[k].site < stack[n].site /\ stack[k].site # stack[n].site
    OBVIOUS
  <2>1. k \in 1..n /\ k < n
    BY <1>3
  <2>2. stack[k].site < stack[n].site /\ stack[k].site \in Nat /\ stack[n].site \in Nat
    BY <1>2, <1>3, <1>18, <2>1 DEF FrameInv
  <2> QED BY <2>1, <2>2
<1>20. FrameInv'
  <2>1. \A i, j \in 1..Len(stack') : i < j => stack'[i].site < stack'[j].site
    BY <1>2, <1>3, <1>6, <1>18 DEF FrameInv
  <2>2. ASSUME NEW c \in Cand, pruningDepth'[c] > d
        PROVE  \E k \in 1..n : c[1] = stack'[k].site /\ c # Current(k)' /\ pruningDepth'[c] = d + k
    <3>1. CASE pruningDepth'[c] = pruningDepth[c]
      <4>1. PICK k \in 1..(n - 1) : c[1] = stack[k].site /\ c # Current(k) /\ pruningDepth[c] = d + k
        BY <1>2, <1>8, <1>9, <2>2, <3>1 DEF FrameInv
      <4> QED BY <1>15, <1>18, <1>19, <3>1, <4>1
    <3>2. CASE pruningDepth'[c] # pruningDepth[c]
      <4>1. c \in CandidatesOf(ch[1]) /\ c # ch /\ pruningDepth'[c] = d + n
        BY <1>11, <3>2
      <4>2. c[1] = stack'[n].site
        BY <1>7, <4>1 DEF CandidatesOf
      <4> QED BY <1>3, <1>16, <4>1, <4>2
    <3> QED BY <3>1, <3>2
  <2>3. ASSUME NEW k \in 1..n
        PROVE  Live' \cap CandidatesOf(stack'[k].site) = {Current(k)'}
    <3>1. CASE k = n
      <4>1. stack'[k].site = ch[1] /\ Current(k)' = ch
        BY <1>7, <1>16, <3>1
      <4> QED BY <1>14, <4>1
    <3>2. CASE k \in 1..(n - 1)
      <4>1. Live' \cap CandidatesOf(stack[k].site) = Live \cap CandidatesOf(stack[k].site)
        BY <1>5, <1>14, <1>18, <1>19, <3>2
      <4> QED BY <1>2, <1>8, <1>15, <1>18, <3>2, <4>1 DEF FrameInv
    <3> QED BY <1>17, <3>1, <3>2
  <2> QED BY <1>8, <1>10, <2>1, <2>2, <2>3 DEF FrameInv
<1>21. SeenInv'
  <2>1. Live' \subseteq seen' /\ seen' \subseteq Contenders'
    BY <1>1, <1>2, <1>13, <1>14 DEF SeenInv
  <2>2. \A c \in Contenders' : (\A k \in 1..n : c[1] # stack'[k].site) => c \in seen'
    <3> SUFFICES ASSUME NEW c \in Contenders, \A k \in 1..n : c[1] # stack'[k].site
                 PROVE  c \in seen
      BY <1>1, <1>13
    <3>1. \A k \in 1..(n - 1) : c[1] # stack[k].site
      BY <1>18, <1>19
    <3> QED BY <1>2, <1>8, <3>1 DEF SeenInv
  <2>3. \E c, d1 \in Contenders' : c # d1 /\ c[1] = d1[1]
    BY <1>2, <1>13 DEF SeenInv
  <2> QED BY <1>8, <2>1, <2>2, <2>3 DEF SeenInv
<1>22. CursorInv'
  <2>1. ASSUME NEW i \in 1..n PROVE stack'[i].site < cursor'
    <3>1. stack[i].site <= ch[1]
      BY <1>5, <1>17, <1>18, <1>19
    <3>2. cursor' = ch[1] + 1 /\ ch[1] \in Nat /\ stack[i].site \in Nat
      BY <1>4, <1>5, <1>18
    <3> QED BY <1>18, <3>1, <3>2
  <2>2. ASSUME NEW s \in Site, s < cursor' PROVE AtMostOne(s, Live)'
    <3>1. s < ch[1] \/ s = ch[1]
      <4>1. s \in Nat /\ ch[1] \in Nat /\ s < ch[1] + 1
        BY <1>4, <1>5, <2>2 DEF Site
      <4> QED BY <4>1
    <3>2. CASE s < ch[1]
      <4>1. AtMostOne(s, Live)
        BY <1>1, <1>2, <1>3, <1>5, <3>2 DEF CursorInv
      <4> QED BY <1>14, <4>1 DEF AtMostOne
    <3>3. CASE s = ch[1]
      <4>1. \A c, e \in Live' \cap CandidatesOf(s) : c = e
        BY <1>14, <3>3
      <4> QED BY <4>1 DEF AtMostOne
    <3> QED BY <3>1, <3>2, <3>3
  <2> QED BY <1>1, <1>6, <2>1, <2>2 DEF CursorInv
<1>23. ASSUME NEW S \in CompleteChoices(Contenders) PROVE Tried(S)' <=> Tried(S)
  <2>1. \A i \in 1..n : Agrees(S, i)' <=> Agrees(S, i)
    <3> SUFFICES ASSUME NEW i \in 1..n PROVE Agrees(S, i)' <=> Agrees(S, i)
      OBVIOUS
    <3>1. 1..(i - 1) \subseteq 1..(n - 1)
      BY <1>3
    <3> QED BY <1>15, <3>1 DEF Agrees
  <2>2. \A i \in 1..(n - 1) : Passed(i) = stack[i].choice - 1 /\ Passed(i)' = Passed(i)
    <3> SUFFICES ASSUME NEW i \in 1..(n - 1)
                 PROVE  Passed(i) = stack[i].choice - 1 /\ Passed(i)' = Passed(i)
      OBVIOUS
    <3>1. i # n
      BY <1>3
    <3> QED BY <1>1, <1>3, <1>6, <3>1 DEF Passed
  <2>3. Passed(n) = stack[n].choice /\ Passed(n)' = ch[2]
    <3>1. (ch[2] + 1) - 1 = ch[2]
      BY <1>5
    <3> QED BY <1>1, <1>3, <1>6, <1>7, <3>1 DEF Passed
  <2>4. \A c \in S : c[1] = stack[n].site =>
            c[2] \in Nat /\ (c[2] < ch[2] <=> c[2] < stack[n].choice)
    <3> SUFFICES ASSUME NEW c \in S, c[1] = stack[n].site
                 PROVE  c[2] \in Nat /\ (c[2] < ch[2] <=> c[2] < stack[n].choice)
      OBVIOUS
    <3>1. c \in Contenders /\ c \in Cand /\ c[2] \in Nat /\ c \in CandidatesOf(stack[n].site)
      <4>1. c \in Contenders /\ c \in Cand
        BY LiveContends DEF CompleteChoices
      <4> QED BY <4>1, CandIsPair
    <3>2. c \in Live
      BY <1>2, <1>8, <1>19, <3>1, CulledContender
    <3>3. c[2] >= stack[n].choice => ch[2] <= c[2]
      BY <1>4, <1>u, <3>1, <3>2
    <3>4. stack[n].choice \in Nat
      BY <1>2, <1>3 DEF WalkTyped
    <3> QED BY <1>5, <3>1, <3>3, <3>4
  <2>5. \A i \in 1..n : \A c \in S : c[1] = stack[i].site => (c[2] < Passed(i)' <=> c[2] < Passed(i))
    BY <1>17, <2>2, <2>3, <2>4
  <2> QED BY <1>3, <1>6, <1>18, <2>1, <2>5 DEF Tried
<1>24. TriedInv'
  <2>1. TriedChoices' = TriedChoices
    BY <1>13, <1>23, TriedKept
  <2>2. CountInv(TriedChoices, Contenders)'
    BY <1>1, <1>2, <1>13, <2>1, CountOfTriedKept DEF TriedInv
  <2> QED BY <1>1, <2>2 DEF TriedInv
<1> QED BY <1>20, <1>21, <1>22, <1>24 DEF WalkInv


(* When a frame is done every complete choice takes one it has passed, and *)
(* at least one was tried                                                  *)
LEMMA FrameIsDone ==
    ASSUME IInv, WalkInv, pc = "choose", Untried = {}, NEW n, n = Len(stack)
    PROVE  /\ \A S \in CompleteChoices(Contenders) :
                 \E e \in S : e[1] = stack[n].site /\ e[2] < stack[n].choice
           /\ TriedChoices # {}
<1>1. WalkTyped /\ FrameInv /\ SeenInv /\ CursorInv /\ TriedInv
  BY WalkIsTyped DEF WalkInv, Walking
<1>2. /\ n \in Nat /\ n >= 1 /\ n \in 1..n /\ InProgress = n - 1
      /\ stack[n].site \in Site /\ stack[n].choice \in Nat \ {0}
  <2>1. n \in Nat /\ n >= 1 /\ InProgress = n - 1
    BY <1>1 DEF WalkTyped, InProgress
  <2> QED BY <1>1, <2>1 DEF WalkTyped
<1>3. \A k \in 1..(n - 1) : stack[k].site # stack[n].site
  <2> SUFFICES ASSUME NEW k \in 1..(n - 1) PROVE stack[k].site # stack[n].site
    OBVIOUS
  <2>1. k \in 1..n /\ k < n
    BY <1>2
  <2>2. stack[k].site < stack[n].site /\ stack[k].site \in Nat
    BY <1>1, <1>2, <2>1 DEF FrameInv, WalkTyped
  <2> QED BY <2>2
<1>4. ASSUME NEW c \in Contenders, c[1] = stack[n].site
      PROVE  c[2] \in Nat \ {0} /\ c[2] < stack[n].choice
  <2>1. c \in Live
    BY <1>1, <1>2, <1>3, <1>4, CulledContender
  <2>2. c \in CandidatesOf(stack[n].site) /\ c[2] \in Nat \ {0}
    BY <1>4, LiveContends, CandIsPair
  <2>3. ~(c[2] >= stack[n].choice)
    BY <2>1, <2>2 DEF Untried, Last
  <2> QED BY <1>2, <2>2, <2>3
<1>5. ASSUME NEW S \in CompleteChoices(Contenders)
      PROVE  \E e \in S : e[1] = stack[n].site /\ e[2] < stack[n].choice
  <2>0. \A s \in Site : \E f : S \cap CandidatesOf(s) = {f}
    BY ChoiceTakesOne
  <2>1. PICK e : S \cap CandidatesOf(stack[n].site) = {e}
    BY <1>2, <2>0
  <2>2. e \in S /\ e \in Contenders /\ e[1] = stack[n].site
    BY <2>1 DEF CompleteChoices, CandidatesOf
  <2> QED BY <1>4, <2>2
<1>6. stack[n].choice # 1
  <2> SUFFICES ASSUME stack[n].choice = 1 PROVE FALSE
    OBVIOUS
  <2>1. PICK c \in Contenders : c[1] = stack[n].site
    BY <1>1 DEF CursorInv
  <2> QED BY <1>4, <2>1
<1>7. TriedChoices # {}
  BY <1>1, <1>6 DEF TriedInv
<1> QED BY <1>5, <1>7

(* CloseSite, when it returns to a frame that is trying a choice *)
LEMMA WalkReturns ==
    ASSUME IInv, WalkInv, prob' = prob, CloseSite, pc' # "cullBest"
    PROVE  WalkInv'
<1> USE DEF Goto
<1>1. /\ pc = "choose" /\ Untried = {} /\ stack' = Front(stack)
      /\ pc' = "undoChoice" /\ stack' # <<>>
      /\ UNCHANGED <<pruningDepth, searchDepth, seen, bestVars>>
  BY DEF CloseSite
<1>2. WalkTyped /\ FrameInv /\ SeenInv /\ CursorInv /\ TriedInv
  BY <1>1, WalkIsTyped DEF WalkInv, Walking
<1>3. PICK n \in Nat : n = Len(stack) /\ n >= 1 /\ n \in 1..n
  BY <1>1, <1>2 DEF WalkTyped
<1>4. Len(stack') = n - 1 /\ \A i \in 1..(n - 1) : stack'[i] = stack[i]
  <2> DEFINE F == [site : Site, choice : Nat \ {0}]
  <2>1. stack \in Seq(F)
    BY DEF IInv, TypeOK
  <2> HIDE DEF F
  <2> QED BY <1>1, <1>3, <2>1, FrontKeeps
<1>5. n - 1 \in Nat /\ n - 1 >= 1
  <2>1. Len(stack') # 0
    <3>1. stack' \in Seq([site : Site, choice : Nat \ {0}])
      BY <1>1, <1>3, FrontOfStack DEF IInv, TypeOK
    <3> QED BY <1>1, <3>1
  <2> QED BY <1>3, <1>4, <2>1
<1>6. PICK m \in Nat : m = n - 1 /\ m >= 1 /\ n = m + 1
  BY <1>3, <1>5
<1>7. InProgress = m /\ InProgress' = m /\ Len(stack') = m
  BY <1>1, <1>3, <1>4, <1>6 DEF InProgress
<1>8. \A k \in 1..m : k \in 1..n /\ k < n /\ stack'[k] = stack[k] /\ stack[k].site < stack[n].site
  <2>1. \A k \in 1..m : k \in 1..n /\ k < n
    BY <1>6
  <2> QED BY <1>2, <1>3, <1>4, <1>6, <2>1 DEF FrameInv
<1>9. FrameInv' /\ Contenders' = Contenders /\ Live' = Live /\ EntryDepth' = EntryDepth
  <2>1. \A i, j \in 1..Len(stack') : i < j => stack'[i].site < stack'[j].site
    BY <1>2, <1>3, <1>7, <1>8 DEF FrameInv
  <2> QED BY <1>1, <1>2, <1>7, <1>8, <2>1, FramesKept
<1>10. SeenInv'
  <2>1. \A k \in 1..m : stack'[k].site = stack[k].site
    BY <1>8
  <2> QED BY <1>1, <1>2, <1>7, <1>9, <2>1 DEF SeenInv
<1>11. CursorInv'
  <2>1. m \in 1..m
    BY <1>6
  <2>2. ASSUME NEW s \in Site, s < stack'[m].site PROVE AtMostOne(s, Live)
    <3>1. stack'[m].site = stack[m].site /\ stack[m].site < stack[n].site
      BY <1>8, <2>1
    <3>2. stack[m].site \in Nat /\ stack[n].site \in Nat /\ s \in Nat
      BY <1>2, <1>3, <1>8, <2>1 DEF WalkTyped, Site
    <3>3. s < stack[n].site
      BY <2>2, <3>1, <3>2
    <3> QED BY <1>1, <1>2, <1>3, <3>3 DEF CursorInv
  <2> QED BY <1>1, <1>6, <1>7, <1>9, <2>2 DEF CursorInv, AtMostOne
<1>12. ASSUME NEW S \in CompleteChoices(Contenders) PROVE Tried(S)' <=> Tried(S)
  <2>1. \A j \in 1..m : Current(j)' = Current(j)
    BY <1>8, CurrentKept
  <2>2. \A i \in 1..n : 1..(i - 1) \subseteq 1..m
    BY <1>6
  <2>3. \A i \in 1..n : Agrees(S, i)' <=> Agrees(S, i)
    BY <2>1, <2>2 DEF Agrees
  <2>4. /\ \A i \in 1..m : Passed(i) = stack[i].choice - 1
        /\ \A i \in 1..m : i # m => Passed(i)' = stack[i].choice - 1
        /\ Passed(m)' = stack[m].choice /\ Passed(n) = stack[n].choice
    <3>1. m \in 1..m /\ \A i \in 1..m : i # n
      BY <1>6
    <3> QED BY <1>1, <1>3, <1>7, <1>8, <3>1 DEF Passed
  <2>5. \A i \in 1..m : stack[i].choice \in Nat
    BY <1>2, <1>3, <1>8 DEF WalkTyped
  <2>6. \A c \in S : c[2] \in Nat /\ c = <<c[1], c[2]>>
    <3>1. S \subseteq Cand
      BY LiveContends DEF CompleteChoices
    <3> QED BY <3>1, CandIsPair DEF Cand
  <2>7. m \in 1..m /\ \A i \in 1..n : i \in 1..m \/ i = n
    BY <1>6
  <2>8. Current(m)[1] = stack[m].site /\ Current(m)[2] = stack[m].choice - 1
        /\ Current(m)[2] < stack[m].choice
    BY <2>5, <2>7 DEF Current
  <2>9. Agrees(S, n) <=> Agrees(S, m) /\ Current(m) \in S
    <3>1. 1..(n - 1) = 1..(m - 1) \cup {m}
      BY <1>6
    <3> QED BY <3>1 DEF Agrees
  <2>10. Tried(S) => Tried(S)'
    <3> SUFFICES ASSUME Tried(S) PROVE Tried(S)'
      OBVIOUS
    <3>1. PICK i \in 1..n, c \in S : Agrees(S, i) /\ c[1] = stack[i].site /\ c[2] < Passed(i)
      BY <1>3 DEF Tried
    <3>2. CASE i \in 1..m
      <4>1. c[2] < Passed(i)'
        <5>1. CASE i = m
          <6>1. c[2] \in Nat /\ stack[m].choice \in Nat /\ c[2] < stack[m].choice - 1
            BY <2>4, <2>5, <2>6, <2>7, <3>1, <5>1
          <6>2. Passed(i)' = stack[m].choice
            BY <2>4, <5>1
          <6> QED BY <6>1, <6>2
        <5>2. CASE i # m
          BY <2>4, <3>1, <3>2, <5>2
        <5> QED BY <5>1, <5>2
      <4>2. Agrees(S, i)' /\ c[1] = stack'[i].site
        BY <1>8, <2>3, <3>1, <3>2
      <4> QED BY <1>7, <3>2, <4>1, <4>2 DEF Tried
    <3>3. CASE i = n
      <4>1. Agrees(S, m)' /\ Current(m) \in S /\ stack'[m].site = stack[m].site
        BY <1>8, <2>3, <2>7, <2>9, <3>1, <3>3
      <4>2. Current(m)[2] < Passed(m)'
        BY <2>4, <2>8
      <4> QED BY <1>7, <2>7, <2>8, <4>1, <4>2 DEF Tried
    <3> QED BY <2>7, <3>2, <3>3
  <2>11. Tried(S)' => Tried(S)
    <3> SUFFICES ASSUME Tried(S)' PROVE Tried(S)
      OBVIOUS
    <3>1. PICK i \in 1..m, c \in S : Agrees(S, i)' /\ c[1] = stack'[i].site /\ c[2] < Passed(i)'
      BY <1>7 DEF Tried
    <3>2. Agrees(S, i) /\ c[1] = stack[i].site /\ i \in 1..n
      BY <1>8, <2>3, <3>1
    <3>3. CASE i # m \/ c[2] < Passed(i)
      <4>1. c[2] < Passed(i)
        BY <2>4, <3>1, <3>3
      <4> QED BY <1>3, <3>2, <4>1 DEF Tried
    <3>4. CASE i = m /\ ~(c[2] < Passed(i))
      <4>1. c[2] = stack[m].choice - 1
        <5>1. c[2] < stack[m].choice /\ ~(c[2] < stack[m].choice - 1)
          BY <2>4, <2>7, <3>1, <3>4
        <5>2. PICK x, y \in Nat : x = c[2] /\ y = stack[m].choice
          BY <2>5, <2>6, <2>7
        <5> QED BY <5>1, <5>2
      <4>2. c = Current(m)
        BY <2>6, <3>2, <3>4, <4>1 DEF Current
      <4>3. Agrees(S, n)
        BY <2>9, <3>2, <3>4, <4>2
      <4>4. PICK e \in S : e[1] = stack[n].site /\ e[2] < stack[n].choice
        BY <1>1, <1>3, FrameIsDone
      <4> QED BY <1>3, <2>4, <4>3, <4>4 DEF Tried
    <3> QED BY <3>3, <3>4
  <2> QED BY <2>10, <2>11
<1>13. TriedInv'
  <2>1. TriedChoices' = TriedChoices
    BY <1>9, <1>12, TriedKept
  <2>2. CountInv(TriedChoices, Contenders)'
    BY <1>1, <1>2, <1>9, <2>1, CountOfTriedKept DEF TriedInv
  <2>3. TriedChoices # {}
    BY <1>1, <1>3, FrameIsDone
  <2> QED BY <1>1, <2>1, <2>2, <2>3 DEF TriedInv
<1> QED BY <1>9, <1>10, <1>11, <1>13 DEF WalkInv


(* CloseSite, when the walk is over: every choice was tried *)
LEMMA WalkEnds ==
    ASSUME IInv, WalkInv, prob \in Problems, prob' = prob, CloseSite, pc' = "cullBest"
    PROVE  EndInv'
<1> USE DEF Goto
<1>1. /\ pc = "choose" /\ Untried = {} /\ stack' = Front(stack) /\ stack' = <<>>
      /\ UNCHANGED <<pruningDepth, bestVars>>
  BY DEF CloseSite
<1>2. WalkTyped /\ FrameInv /\ SeenInv /\ TriedInv
  BY <1>1, WalkIsTyped DEF WalkInv, Walking
<1>3. Len(stack) = 1
  <2>1. Len(stack) \in Nat /\ Len(stack) >= 1
    BY <1>1, <1>2 DEF WalkTyped
  <2>2. Len(stack') = Len(stack) - 1
    BY <1>1, <2>1, FrontOfStack DEF IInv, TypeOK
  <2> QED BY <1>1, <2>1, <2>2
<1>4. InProgress = 0
  BY <1>1, <1>3 DEF InProgress
<1>5. Contenders = Live
  <2>1. \A c \in Contenders : c \in Live
    <3> SUFFICES ASSUME NEW c \in Contenders, c \notin Live PROVE FALSE
      OBVIOUS
    <3>1. PICK k \in 1..InProgress : c[1] = stack[k].site
      BY <1>2, CulledContender
    <3> QED BY <1>4, <3>1
  <2> QED BY <2>1, LiveContends
<1>6. /\ \A S \in CompleteChoices(Contenders) :
            \E e \in S : e[1] = stack[1].site /\ e[2] < stack[1].choice
      /\ TriedChoices # {}
  BY <1>1, <1>3, FrameIsDone
<1>7. TriedChoices = CompleteChoices(Live)
  <2> SUFFICES ASSUME NEW S \in CompleteChoices(Contenders) PROVE Tried(S)
    BY <1>5 DEF TriedChoices
  <2>1. Agrees(S, 1)
    BY DEF Agrees
  <2>2. Passed(1) = stack[1].choice
    BY <1>1, <1>3 DEF Passed
  <2> QED BY <1>3, <1>6, <2>1, <2>2 DEF Tried
<1>8. CountInv(CompleteChoices(Live), Live)
  BY <1>2, <1>5, <1>7 DEF TriedInv
<1>9. \E c, d \in Live : c # d /\ c[1] = d[1]
  BY <1>2, <1>5 DEF SeenInv
<1>10. /\ bestSolutionRank = BestRank
       /\ bestSolutionCount = 1 =>
             /\ BestChoices = {{best[s] : s \in Site}}
             /\ \A s \in Site : best[s] \in Live \cap CandidatesOf(s)
       /\ bestSolutionRank > SignedUnsigned =>
             bestSolutionCount = Cardinality(BestChoices)
  BY <1>6, <1>7, <1>8, <1>9, CountEnds
<1>11. Live' = Live /\ Selections' = Selections
  BY <1>1 DEF Live, Selections
<1>12. BestRank' = BestRank /\ BestChoices' = BestChoices
  <2>1. \A S : LowestRank(S)' = LowestRank(S)
    BY RankIsFixed
  <2>2. BestRank' = BestRank
    BY <1>11, <2>1 DEF BestRank
  <2> QED BY <1>11, <2>1, <2>2 DEF BestChoices
<1>13. EliminationIsExhaustive' /\ BestIsLive'
  BY <1>1, <1>10, <1>11, <1>12 DEF EliminationIsExhaustive, BestIsLive, bestVars
<1> QED BY <1>13 DEF EndInv

(* UndoChoice: the candidates the top frame culled are live again *)
LEMMA WalkUndoes ==
    ASSUME IInv, WalkInv, prob' = prob, UndoChoice
    PROVE  WalkInv'
<1> USE DEF Goto
<1>1. /\ pc = "undoChoice" /\ pc' = "choose" /\ Backtrack
      /\ UNCHANGED <<stack, cursor, bestVars>>
  BY DEF UndoChoice, loopVars
<1>2. WalkTyped /\ FrameInv /\ SeenInv /\ CursorInv /\ TriedInv
  BY <1>1, WalkIsTyped DEF WalkInv, Walking
<1>3. PICK n \in Nat : n = Len(stack) /\ n >= 1 /\ n \in 1..n
  BY <1>1, <1>2 DEF WalkTyped
<1>4. PICK m \in Nat : n = m + 1 /\ m = n - 1
  BY <1>3
<1>5. InProgress = n /\ InProgress' = m
  BY <1>1, <1>3, <1>4 DEF InProgress
<1>6. PICK d \in Nat : d = EntryDepth
  BY <1>2 DEF WalkTyped
<1>7. searchDepth = d + n /\ EntryDepth' = d
  <2>1. searchDepth = d + n
    BY <1>2, <1>5, <1>6 DEF WalkTyped
  <2>2. searchDepth' = d + m
    BY <1>1, <1>4, <2>1 DEF Backtrack
  <2> QED BY <1>5, <2>1, <2>2 DEF EntryDepth
<1>8. \A c \in Cand : pruningDepth[c] \in Nat
         /\ pruningDepth'[c] = IF pruningDepth[c] >= d + n THEN 0 ELSE pruningDepth[c]
  BY <1>1, <1>2, <1>7 DEF Backtrack, WalkTyped
<1>9. \A x \in Nat : x >= d + n => x > d /\ x # 0
  BY <1>3
<1>10. Contenders' = Contenders
  <2>1. \A c \in Cand : (pruningDepth'[c] = 0 \/ pruningDepth'[c] > d)
                           <=> (pruningDepth[c] = 0 \/ pruningDepth[c] > d)
    BY <1>8, <1>9
  <2> QED BY <1>6, <1>7, <2>1 DEF Contenders
<1>11. \A k \in 1..m : k \in 1..n /\ k < n /\ stack[k].site # stack[n].site
  <2>1. \A k \in 1..m : k \in 1..n /\ k < n
    BY <1>4
  <2> SUFFICES ASSUME NEW k \in 1..m PROVE stack[k].site # stack[n].site
    BY <2>1
  <2>2. stack[k].site < stack[n].site /\ stack[k].site \in Nat
    BY <1>2, <1>3, <2>1 DEF FrameInv, WalkTyped
  <2> QED BY <2>2
<1>12. \A c \in Cand : pruningDepth[c] > d =>
          \/ pruningDepth[c] = d + n /\ c[1] = stack[n].site
          \/ /\ ~(pruningDepth[c] >= d + n)
             /\ \E k \in 1..m : /\ c[1] = stack[k].site /\ c # Current(k)
                                /\ pruningDepth[c] = d + k
  <2> SUFFICES ASSUME NEW c \in Cand, pruningDepth[c] > d
               PROVE  \/ pruningDepth[c] = d + n /\ c[1] = stack[n].site
                      \/ /\ ~(pruningDepth[c] >= d + n)
                         /\ \E k \in 1..m : /\ c[1] = stack[k].site /\ c # Current(k)
                                            /\ pruningDepth[c] = d + k
    OBVIOUS
  <2>1. PICK k \in 1..n : c[1] = stack[k].site /\ c # Current(k) /\ pruningDepth[c] = d + k
    BY <1>2, <1>5, <1>6 DEF FrameInv
  <2>2. k = n \/ (k \in 1..m /\ ~(d + k >= d + n))
    BY <1>4
  <2> QED BY <2>1, <2>2
<1>13. /\ Live \subseteq Live'
       /\ \A c \in Contenders : c \in Live' \/ \E k \in 1..m : c[1] = stack[k].site
       /\ \A s : s # stack[n].site => Live' \cap CandidatesOf(s) = Live \cap CandidatesOf(s)
  <2>1. Live \subseteq Live'
    BY <1>8 DEF Live
  <2>2. \A c \in Contenders : c \in Live' \/ \E k \in 1..m : c[1] = stack[k].site
    <3> SUFFICES ASSUME NEW c \in Contenders, c \notin Live'
                 PROVE  \E k \in 1..m : c[1] = stack[k].site
      OBVIOUS
    <3>1. c \in Cand /\ pruningDepth'[c] # 0
      BY LiveContends DEF Live
    <3>2. ~(pruningDepth[c] >= d + n) /\ pruningDepth[c] # 0
      BY <1>8, <3>1
    <3>3. pruningDepth[c] > d
      BY <1>6, <3>2 DEF Contenders
    <3>4. pruningDepth[c] # d + n
      BY <1>8, <3>1, <3>2
    <3> QED BY <1>12, <3>1, <3>3, <3>4
  <2>3. ASSUME NEW c \in Live', c \notin Live PROVE c[1] = stack[n].site
    <3>1. c \in Cand /\ pruningDepth'[c] = 0 /\ pruningDepth[c] # 0
      BY <2>3 DEF Live
    <3>2. pruningDepth[c] >= d + n /\ pruningDepth[c] > d
      BY <1>8, <1>9, <3>1
    <3> QED BY <1>12, <3>1, <3>2
  <2> QED BY <2>1, <2>2, <2>3 DEF CandidatesOf
<1>14. \A k : Current(k)' = Current(k)
  BY <1>1 DEF Current
<1>15. FrameInv'
  <2>1. ASSUME NEW c \in Cand, pruningDepth'[c] > d
        PROVE  \E k \in 1..m : c[1] = stack[k].site /\ c # Current(k) /\ pruningDepth'[c] = d + k
    <3>1. ~(pruningDepth[c] >= d + n) /\ pruningDepth'[c] = pruningDepth[c]
      <4>1. ~(0 > d)
        BY <1>6
      <4> QED BY <1>8, <2>1, <4>1
    <3>2. pruningDepth[c] # d + n
      BY <1>8, <3>1
    <3> QED BY <1>12, <2>1, <3>1, <3>2
  <2>2. \A k \in 1..m : Live' \cap CandidatesOf(stack[k].site) = {Current(k)}
    BY <1>2, <1>5, <1>11, <1>13 DEF FrameInv
  <2>3. \A i, j \in 1..Len(stack) : i < j => stack[i].site < stack[j].site
    BY <1>2 DEF FrameInv
  <2> QED BY <1>1, <1>5, <1>7, <1>14, <2>1, <2>2, <2>3 DEF FrameInv
<1>16. SeenInv'
  <2>1. seen' = Live'
    BY <1>1 DEF Backtrack, Update, Live
  <2>2. Live' \subseteq Contenders'
    BY LiveContends DEF Live, Contenders
  <2>3. \E c, e \in Contenders : c # e /\ c[1] = e[1]
    BY <1>2 DEF SeenInv
  <2> QED BY <1>1, <1>5, <1>10, <1>13, <2>1, <2>2, <2>3 DEF SeenInv
<1>17. CursorInv'
  <2>1. ASSUME NEW s \in Site, s < stack[n].site PROVE AtMostOne(s, Live)'
    <3>1. s # stack[n].site
      BY <1>2, <1>3, <2>1 DEF WalkTyped, Site
    <3>2. AtMostOne(s, Live)
      BY <1>1, <1>2, <1>3, <2>1 DEF CursorInv
    <3> QED BY <1>13, <3>1, <3>2 DEF AtMostOne
  <2>2. \E c \in Contenders : c[1] = stack[n].site
    <3>1. Current(n) \in Live
      BY <1>2, <1>3, <1>5 DEF FrameInv
    <3> QED BY <3>1, LiveContends DEF Current
  <2> QED BY <1>1, <1>3, <1>10, <2>1, <2>2 DEF CursorInv
<1>18. TriedInv'
  <2>1. \A S : Tried(S)' <=> Tried(S)
    BY <1>1 DEF Tried, Agrees, Passed, Current
  <2>2. TriedChoices' = TriedChoices
    BY <1>10, <2>1, TriedKept
  <2>3. CountInv(TriedChoices, Contenders)'
    BY <1>1, <1>2, <1>10, <2>2, CountOfTriedKept DEF TriedInv
  <2>4. TriedChoices # {}
    BY <1>1, <1>2 DEF TriedInv
  <2> QED BY <1>1, <2>2, <2>3, <2>4 DEF TriedInv
<1> QED BY <1>15, <1>16, <1>17, <1>18 DEF WalkInv

-----------------------------------------------------------------------------
(* The search                                                              *)

(* The inductive invariant of the search: what the stages may have lost,   *)
(* what is counted when the walk begins, while it is on and when it ends   *)
SearchInv == LostInv /\ EntryInv /\ WalkInv /\ EndInv

(* Outside the walk, and before its end, nothing is claimed of it *)
LEMMA NotWalking ==
    ASSUME pc' \notin {"descend", "choose", "undoChoice", "cullBest"}
    PROVE  WalkInv' /\ EndInv'
  BY DEF WalkInv, Walking, EndInv

(* WalkInv and EndInv are inductive *)
LEMMA WalkStep ==
    ASSUME IInv, EntryInv, WalkInv, prob \in Problems, prob' = prob, Next
    PROVE  WalkInv' /\ EndInv'
<1> USE DEF Goto
<1>1. CASE EnterElimination
  <2>1. pc' # "cullBest"
    BY <1>1 DEF EnterElimination
  <2> QED BY <1>1, <2>1, WalkEnters DEF EndInv
<1>2. CASE SkipSite
  <2>1. pc' # "cullBest"
    BY <1>2 DEF SkipSite
  <2> QED BY <1>2, <2>1, WalkSkips DEF EndInv
<1>3. CASE OpenSite
  <2>1. pc' # "cullBest"
    BY <1>3 DEF OpenSite
  <2> QED BY <1>3, <2>1, WalkOpens DEF EndInv
<1>4. CASE Leaf
  BY <1>4, WalkCompares DEF EndInv
<1>5. CASE TryChoice
  <2>1. pc' # "cullBest"
    BY <1>5 DEF TryChoice
  <2> QED BY <1>5, <2>1, WalkTries DEF EndInv
<1>6. CASE CloseSite /\ pc' = "cullBest"
  <2>1. ~Walking'
    BY <1>6 DEF Walking
  <2> QED BY <1>6, <2>1, WalkEnds DEF WalkInv
<1>7. CASE CloseSite /\ pc' # "cullBest"
  BY <1>7, WalkReturns DEF EndInv
<1>8. CASE UndoChoice
  <2>1. pc' # "cullBest"
    BY <1>8 DEF UndoChoice
  <2> QED BY <1>8, <2>1, WalkUndoes DEF EndInv
<1>9. CASE ~(EnterElimination \/ SkipSite \/ OpenSite \/ Leaf \/ TryChoice \/ CloseSite \/ UndoChoice)
  <2>1. pc' \notin {"descend", "choose", "undoChoice", "cullBest"}
    BY <1>9 DEF Next, Unify, CullByContradiction, CullTruncation,
        CullExact, CullIdentical, RankBacktrack, EachSite, SiteCull, SiteNext, SiteBacktrack,
        CheckAfterRank, CullBySpecificity, SpecificityBacktrack, CullAllExceptBest,
        FinishSite, FinishDone
  <2> QED BY <2>1, NotWalking
<1> QED BY <1>1, <1>2, <1>3, <1>4, <1>5, <1>6, <1>7, <1>8, <1>9

(* The rank table is that of the expression throughout *)
LEMMA ProblemIsFixed ==
    ASSUME Next
    PROVE  prob' = prob
  BY DEF Next, Unify, CullByContradiction, CullTruncation,
        CullExact, CullIdentical, RankBacktrack, EachSite, SiteCull, SiteNext, SiteBacktrack,
        CheckAfterRank, CullBySpecificity, SpecificityBacktrack, EnterElimination, SkipSite,
        OpenSite, Leaf, TryChoice, CloseSite, UndoChoice, CullAllExceptBest, FinishSite, FinishDone

(* SearchInv is inductive *)
LEMMA SearchStep ==
    ASSUME IInv, prob \in Problems, SearchInv, [Next]_vars
    PROVE  SearchInv' /\ (prob \in Problems)'
<1>1. CASE Next
  <2>1. prob' = prob
    BY <1>1, ProblemIsFixed
  <2>2. LostInv'
    BY <1>1, LostStep DEF SearchInv, EndInv, BestIsLive
  <2>3. EntryInv'
    BY <1>1, <2>1, EntryStep DEF SearchInv
  <2>4. WalkInv' /\ EndInv'
    BY <1>1, <2>1, WalkStep DEF SearchInv
  <2> QED BY <2>1, <2>2, <2>3, <2>4 DEF SearchInv
<1>2. CASE UNCHANGED vars
  <2> USE DEF vars
  <2>1. \A S : LowestRank(S)' = LowestRank(S)
    BY <1>2, RankIsFixed
  <2>2. Live' = Live /\ Contenders' = Contenders
    BY <1>2 DEF Live, Contenders, EntryDepth, InProgress
  <2>3. LostInv'
    BY <1>2 DEF SearchInv, LostInv, OnTrial, LostTo, UndoneTo, Overconstrained, Remaining
  <2>4. EntryInv'
    <3>1. Counted => Counted'
      BY <1>2, <2>1, <2>2 DEF Counted
    <3>2. Underconstrained(seen)' = Underconstrained(seen)
      BY <1>2 DEF Underconstrained, Remaining
    <3> QED BY <1>2, <2>2, <3>1, <3>2 DEF SearchInv, EntryInv, Fresh
  <2>5. WalkInv'
    <3> SUFFICES ASSUME Walking' PROVE (FrameInv /\ SeenInv /\ CursorInv /\ TriedInv)'
      BY DEF WalkInv
    <3>1. FrameInv /\ SeenInv /\ CursorInv /\ TriedInv
      BY <1>2 DEF SearchInv, WalkInv, Walking
    <3>2. FrameInv' /\ InProgress' = InProgress
      BY <1>2, <3>1 DEF FrameInv, EntryDepth, InProgress, Current, Live
    <3>3. SeenInv'
      BY <1>2, <2>2, <3>1, <3>2 DEF SeenInv
    <3>4. CursorInv'
      BY <1>2, <2>2, <3>1 DEF CursorInv, AtMostOne
    <3>5. \A S : Tried(S)' <=> Tried(S)
      BY <1>2 DEF Tried, Agrees, Passed, Current
    <3>6. TriedChoices' = TriedChoices
      BY <2>2, <3>5, TriedKept
    <3>7. CountInv(TriedChoices, Contenders)'
      BY <1>2, <2>2, <3>1, <3>6, CountOfTriedKept DEF TriedInv, bestVars
    <3> QED BY <1>2, <3>1, <3>2, <3>3, <3>4, <3>6, <3>7 DEF TriedInv
  <2>6. EndInv'
    <3>1. Selections' = Selections
      BY <2>2 DEF Selections
    <3>2. BestRank' = BestRank /\ BestChoices' = BestChoices
      <4>1. BestRank' = BestRank
        BY <2>1, <3>1 DEF BestRank
      <4> QED BY <2>1, <3>1, <4>1 DEF BestChoices
    <3> QED BY <1>2, <2>2, <3>2 DEF SearchInv, EndInv, EliminationIsExhaustive, BestIsLive
  <2> QED BY <1>2, <2>3, <2>4, <2>5, <2>6 DEF SearchInv
<1> QED BY <1>1, <1>2

(* It holds at the start: nothing is culled and nothing was compared *)
LEMMA InitSearch == Init => SearchInv /\ prob \in Problems
<1> SUFFICES ASSUME Init PROVE SearchInv /\ prob \in Problems
  OBVIOUS
<1>1. LostInv
  <2>1. \A s \in Site : \A c \in CandidatesOf(s) : pruningDepth[c] = 0
    BY DEF Init, CandidatesOf
  <2>2. \A s \in Site : \E c : c \in CandidatesOf(s)
    <3> SUFFICES ASSUME NEW s \in Site PROVE <<s, 1>> \in CandidatesOf(s)
      OBVIOUS
    <3> QED BY DEF CandidatesOf, Cand
  <2>3. LostTo(pruningDepth, unsatisfiable)
    BY <2>1, <2>2 DEF LostTo
  <2> QED BY <2>3 DEF Init, LostInv, OnTrial
<1>2. EntryInv
  BY DEF Init, EntryInv, Fresh, BeforeChecks
<1>3. WalkInv /\ EndInv
  BY DEF Init, WalkInv, Walking, EndInv
<1> QED BY <1>1, <1>2, <1>3 DEF SearchInv, Init

(* SearchInv holds throughout *)
LEMMA AlwaysSearchInv == Spec => [](SearchInv /\ prob \in Problems)
<1> DEFINE I == IInv /\ SearchInv /\ prob \in Problems
<1>1. Init => I
  BY InitIInv, InitSearch
<1>2. I /\ [Next]_vars => I'
  BY StepIInv, SearchStep
<1>3. I => SearchInv /\ prob \in Problems
  OBVIOUS
<1> HIDE DEF I
<1> QED BY <1>1, <1>2, <1>3, PTL DEF Spec

(* No stage gives up the last candidate of a site: backtracking takes back *)
(* a trial that empties one, specificity keeps a survivor, the walk puts   *)
(* back what it culled and the best solution is live when it is kept       *)
THEOREM OnlyContradictionLosesSites == Spec => []OnlyContradictionEmptiesSite
<1>1. SearchInv => OnlyContradictionEmptiesSite
  BY LostIsOnlyContradiction DEF SearchInv
<1> QED BY <1>1, AlwaysSearchInv, PTL

(* cullByElimination() compares every complete choice exactly once: the    *)
(* rank, the count and the solution it keeps are those of the best choices *)
THEOREM EliminationSeesEveryChoice == Spec => []EliminationIsExhaustive
<1>1. SearchInv => EliminationIsExhaustive
  BY DEF SearchInv, EndInv, EliminationIsExhaustive
<1> QED BY <1>1, AlwaysSearchInv, PTL
=============================================================================

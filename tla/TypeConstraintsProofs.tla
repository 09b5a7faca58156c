------------------------ MODULE TypeConstraintsProofs ------------------------
(***************************************************************************)
(* For every set of types, of parameters, candidates and bindings: an      *)
(* attempt that fails leaves the constraints as they were, merging never   *)
(* changes what the constraints of a parameter allow, and the type that a  *)
(* parameter is solved for satisfies what unification bound it to.         *)
(***************************************************************************)
EXTENDS TypeConstraints, NaturalRecursion, SequenceTheorems, TLAPS

(* A constraint, and a merge, as a value *)
ConstraintSet ==
  [type : Type, kind : Kinds, provisions : SUBSET Candidate, state : Nat]
WorkSet ==
  [on : BOOLEAN, param : Nat, todo : Seq(ConstraintSet), saved : Seq(ConstraintSet),
   item : ConstraintSet \cup {NoConstraint}, at : Nat, before : SUBSET ConstraintSet]

-----------------------------------------------------------------------------
(* Intersection.                                                           *)

(* What NoConstraint has no kind for *)
LEMMA NoConstraintIsNone == NoConstraint \notin ConstraintSet
<1>1. ASSUME NoConstraint \in ConstraintSet PROVE FALSE
  <2>1. NoConstraint.type \in Type
    BY <1>1 DEF ConstraintSet
  <2>2. NoConstraint.type = NoType
    BY DEF NoConstraint
  <2> QED BY <2>1, <2>2, ConstraintsAssumption
<1> QED BY <1>1

Holds(c, t, dead) == c.provisions \cap dead = {} => Accepts(c, t)

(* The constraint that stands for two is one of the set, of a type of one of them *)
LEMMA IntersectType ==
  ASSUME NEW l \in ConstraintSet, NEW r \in ConstraintSet, Intersect(l, r) # NoConstraint
  PROVE  /\ Intersect(l, r) \in ConstraintSet
         /\ Intersect(l, r).type \in {l.type, r.type}
  BY DEF Intersect, ConstraintSet, Constraint, Kinds

(* The facts about subtypes that an intersection uses *)
LEMMA OrderedFacts ==
  ASSUME NEW T, Ordered(T), NEW s \in T, NEW q \in T, NEW t \in Solution
  PROVE  /\ Sub(t, t)
         /\ Sub(s, t) /\ Sub(t, s) => s = t
         /\ Sub(s, q) /\ Sub(q, t) => Sub(s, t)
         /\ Sub(t, s) /\ Sub(s, q) => Sub(t, q)
  BY DEF Ordered

(* A constraint that replaces two allows what both do *)
LEMMA IntersectMeaning ==
  ASSUME NEW l \in ConstraintSet, NEW r \in ConstraintSet, Intersect(l, r) # NoConstraint,
         NEW T, Ordered(T), l.type \in T, r.type \in T,
         NEW t \in Solution, NEW dead \in SUBSET Candidate
  PROVE  Holds(Intersect(l, r), t, dead) <=> Holds(l, t, dead) /\ Holds(r, t, dead)
<1> DEFINE lenientL == l.provisions \subseteq r.provisions
           lenientR == r.provisions \subseteq l.provisions
           below == Sub(l.type, r.type) /\ ~Sub(r.type, l.type)
           above == Sub(r.type, l.type) /\ ~Sub(l.type, r.type)
           same == l.type = r.type
           takesL == /\ lenientL
                     /\ \/ same /\ (l.kind = r.kind \/ l.kind = "exact")
                        \/ below /\ l.kind \in {"upper", "exact"} /\ r.kind = "upper"
                        \/ above /\ r.kind = "lower" /\ l.kind \in {"lower", "exact"}
           takesR == /\ lenientR
                     /\ \/ same /\ (l.kind = r.kind \/ r.kind = "exact")
                        \/ below /\ l.kind = "lower" /\ r.kind \in {"lower", "exact"}
                        \/ above /\ r.kind \in {"upper", "exact"} /\ l.kind = "upper"
           both == /\ same /\ lenientL /\ lenientR /\ {l.kind, r.kind} = {"lower", "upper"}
<1>k. l.kind \in Kinds /\ r.kind \in Kinds
  BY DEF ConstraintSet
<1>o. /\ Sub(t, t)
      /\ Sub(l.type, t) /\ Sub(t, l.type) => l.type = t
      /\ Sub(l.type, r.type) /\ Sub(r.type, t) => Sub(l.type, t)
      /\ Sub(r.type, l.type) /\ Sub(l.type, t) => Sub(r.type, t)
      /\ Sub(t, l.type) /\ Sub(l.type, r.type) => Sub(t, r.type)
      /\ Sub(t, r.type) /\ Sub(r.type, l.type) => Sub(t, l.type)
  BY OrderedFacts
<1>1. CASE takesL
  <2>1. Intersect(l, r) = l
    BY <1>1 DEF Intersect
  <2>2. Accepts(l, t) => Accepts(r, t)
    BY <1>1, <1>k, <1>o DEF Accepts, Kinds
  <2>3. lenientL
    BY <1>1
  <2> QED BY <2>1, <2>2, <2>3 DEF Holds
<1>2. CASE ~takesL /\ takesR
  <2>1. Intersect(l, r) = r
    BY <1>2 DEF Intersect
  <2>2. Accepts(r, t) => Accepts(l, t)
    BY <1>2, <1>k, <1>o DEF Accepts, Kinds
  <2>3. lenientR
    BY <1>2
  <2> QED BY <2>1, <2>2, <2>3 DEF Holds
<1>3. CASE ~takesL /\ ~takesR /\ both
  <2>1. Intersect(l, r) = Constraint(l.type, "exact", l.provisions, 0)
    BY <1>3 DEF Intersect
  <2>2. (t = l.type) <=> Accepts(l, t) /\ Accepts(r, t)
    BY <1>3, <1>k, <1>o DEF Accepts, Kinds
  <2>3. l.provisions = r.provisions
    BY <1>3
  <2>4. Accepts(Intersect(l, r), t) <=> t = l.type
    BY <2>1 DEF Accepts, Constraint
  <2>5. Intersect(l, r).provisions = l.provisions
    BY <2>1 DEF Constraint
  <2> QED BY <2>2, <2>3, <2>4, <2>5 DEF Holds
<1>4. CASE ~takesL /\ ~takesR /\ ~both
  BY <1>4 DEF Intersect
<1> QED BY <1>1, <1>2, <1>3, <1>4

-----------------------------------------------------------------------------
(* Lists of constraints and their members.                                 *)

(* How many come after the i-th of n *)
LEMMA Rest ==
  ASSUME NEW n \in Nat, NEW i \in Nat, i <= n
  PROVE  (IF i + 1 <= n THEN n - (i + 1) + 1 ELSE 0) = n - i
  OBVIOUS

(* The members of a list without its head *)
LEMMA HeadTailMembers ==
  ASSUME NEW S, NEW s \in Seq(S), s # <<>>
  PROVE  /\ Head(s) \in S /\ Tail(s) \in Seq(S)
         /\ Members(s) = {Head(s)} \cup Members(Tail(s))
<1>1. Head(s) = s[1] /\ Head(s) \in S /\ Tail(s) \in Seq(S)
  OBVIOUS
<1>2. /\ Len(s) \in Nat \ {0} /\ DOMAIN s = 1 .. Len(s)
      /\ DOMAIN Tail(s) = 1 .. (Len(s) - 1)
      /\ \A i \in 1 .. (Len(s) - 1) : Tail(s)[i] = s[i + 1]
  OBVIOUS
<1>3. ASSUME NEW x \in Members(s) PROVE x \in {Head(s)} \cup Members(Tail(s))
  <2>1. PICK i \in 1 .. Len(s) : x = s[i]
    BY <1>2 DEF Members
  <2>2. CASE i = 1
    BY <2>1, <2>2, <1>1
  <2>3. CASE i # 1
    <3>1. i - 1 \in 1 .. (Len(s) - 1) /\ (i - 1) + 1 = i
      BY <2>3, <1>2
    <3>2. Tail(s)[i - 1] = x
      BY <3>1, <2>1, <1>2
    <3> QED BY <3>1, <3>2, <1>2 DEF Members
  <2> QED BY <2>2, <2>3
<1>4. ASSUME NEW x \in Members(Tail(s)) PROVE x \in Members(s)
  <2>1. PICK i \in 1 .. (Len(s) - 1) : x = Tail(s)[i]
    BY <1>2 DEF Members
  <2>2. i + 1 \in 1 .. Len(s)
    BY <1>2
  <2> QED BY <2>1, <2>2, <1>2 DEF Members
<1>5. Head(s) \in Members(s)
  <2>1. 1 \in 1 .. Len(s)
    BY <1>2
  <2> QED BY <2>1, <1>1, <1>2 DEF Members
<1> QED BY <1>1, <1>3, <1>4, <1>5

(* ... of a list that was appended to *)
LEMMA AppendMembers ==
  ASSUME NEW S, NEW s \in Seq(S), NEW e \in S
  PROVE  /\ Append(s, e) \in Seq(S)
         /\ Members(Append(s, e)) = Members(s) \cup {e}
<1>1. /\ Append(s, e) \in Seq(S) /\ Len(s) \in Nat
      /\ DOMAIN Append(s, e) = 1 .. (Len(s) + 1) /\ DOMAIN s = 1 .. Len(s)
      /\ Append(s, e)[Len(s) + 1] = e
      /\ \A i \in 1 .. Len(s) : Append(s, e)[i] = s[i]
  OBVIOUS
<1>2. 1 .. (Len(s) + 1) = (1 .. Len(s)) \cup {Len(s) + 1}
  BY <1>1
<1> HIDE DEF Members
<1>3. Members(Append(s, e)) = {Append(s, e)[i] : i \in (1 .. Len(s)) \cup {Len(s) + 1}}
  BY <1>1, <1>2 DEF Members
<1>4. Members(s) = {s[i] : i \in 1 .. Len(s)}
  BY <1>1 DEF Members
<1> QED BY <1>1, <1>3, <1>4

(* ... and of a list from which one was erased *)
LEMMA WithoutMembers ==
  ASSUME NEW S, NEW s \in Seq(S), NEW i \in 1 .. Len(s)
  PROVE  /\ Without(s, i) \in Seq(S)
         /\ Len(Without(s, i)) = Len(s) - 1
         /\ Members(s) = Members(Without(s, i)) \cup {s[i]}
<1>1. Len(s) \in Nat /\ DOMAIN s = 1 .. Len(s) /\ i \in Nat /\ 1 <= i /\ i <= Len(s)
  OBVIOUS
<1>2. /\ SubSeq(s, 1, i - 1) \in Seq(S) /\ Len(SubSeq(s, 1, i - 1)) = i - 1
      /\ \A j \in 1 .. (i - 1) : SubSeq(s, 1, i - 1)[j] = s[j]
  <2>1. \A j \in 1 .. (i - 1) : s[j] \in S
    BY <1>1
  <2> QED BY <2>1, <1>1, SubSeqProperties
<1>3. /\ SubSeq(s, i + 1, Len(s)) \in Seq(S) /\ Len(SubSeq(s, i + 1, Len(s))) = Len(s) - i
      /\ \A j \in 1 .. (Len(s) - i) : SubSeq(s, i + 1, Len(s))[j] = s[j + i]
  <2>1. \A j \in (i + 1) .. Len(s) : s[j] \in S
    BY <1>1
  <2>2. /\ SubSeq(s, i + 1, Len(s)) \in Seq(S)
        /\ Len(SubSeq(s, i + 1, Len(s))) = IF i + 1 <= Len(s) THEN Len(s) - (i + 1) + 1 ELSE 0
        /\ \A j \in 1 .. (Len(s) - (i + 1) + 1) : SubSeq(s, i + 1, Len(s))[j] = s[(i + 1) + j - 1]
    BY <2>1, <1>1, SubSeqProperties
  <2> DEFINE r == SubSeq(s, i + 1, Len(s))
  <2> HIDE DEF r
  <2>3. Len(r) = Len(s) - i
    <3>1. Len(r) = IF i + 1 <= Len(s) THEN Len(s) - (i + 1) + 1 ELSE 0
      BY <2>2 DEF r
    <3> QED BY <3>1, <1>1, Rest
  <2>4. ASSUME NEW j \in 1 .. (Len(s) - i) PROVE r[j] = s[j + i]
    <3>1. (i + 1) + j - 1 = j + i /\ j \in 1 .. (Len(s) - (i + 1) + 1)
      BY <1>1
    <3>2. r[j] = s[(i + 1) + j - 1]
      BY <3>1, <2>2 DEF r
    <3> QED BY <3>1, <3>2
  <2> QED BY <2>2, <2>3, <2>4 DEF r
<1> DEFINE w == Without(s, i)
<1>4. /\ w \in Seq(S) /\ Len(w) = Len(s) - 1 /\ DOMAIN w = 1 .. (Len(s) - 1)
      /\ \A j \in 1 .. (i - 1) : w[j] = s[j]
      /\ \A j \in i .. (Len(s) - 1) : w[j] = s[j + 1]
  <2> DEFINE l == SubSeq(s, 1, i - 1)
             r == SubSeq(s, i + 1, Len(s))
  <2> HIDE DEF l, r
  <2>1. /\ l \in Seq(S) /\ Len(l) = i - 1 /\ r \in Seq(S) /\ Len(r) = Len(s) - i
        /\ \A j \in 1 .. (i - 1) : l[j] = s[j]
        /\ \A j \in 1 .. (Len(s) - i) : r[j] = s[j + i]
    BY <1>2, <1>3 DEF l, r
  <2>2. w = l \o r
    BY DEF l, r, Without
  <2>3. /\ l \o r \in Seq(S) /\ Len(l \o r) = Len(s) - 1
        /\ DOMAIN (l \o r) = 1 .. (Len(s) - 1)
    BY <2>1, <1>1
  <2>4. \A j \in 1 .. (i - 1) : (l \o r)[j] = s[j]
    BY <2>1, <1>1
  <2>5. ASSUME NEW j \in i .. (Len(s) - 1) PROVE (l \o r)[j] = s[j + 1]
    <3>1. /\ j \in 1 .. (Len(l) + Len(r)) /\ j > Len(l)
          /\ j - Len(l) \in 1 .. (Len(s) - i) /\ (j - Len(l)) + i = j + 1
      BY <2>1, <1>1
    <3>2. (l \o r)[j] = r[j - Len(l)]
      <4>1. (l \o r)[j] = IF j <= Len(l) THEN l[j] ELSE r[j - Len(l)]
        BY <3>1, <2>1, ConcatProperties
      <4>2. ~(j <= Len(l))
        BY <3>1, <2>1, <1>1
      <4> QED BY <4>1, <4>2
    <3> QED BY <3>1, <3>2, <2>1
  <2> QED BY <2>2, <2>3, <2>4, <2>5
<1> HIDE DEF w
<1>5. ASSUME NEW x \in Members(s) PROVE x \in Members(w) \cup {s[i]}
  <2>1. PICK j \in 1 .. Len(s) : x = s[j]
    BY <1>1 DEF Members
  <2>2. CASE j < i
    <3>1. j \in 1 .. (i - 1) /\ j \in 1 .. (Len(s) - 1)
      BY <2>2, <1>1
    <3>2. w[j] = s[j] /\ j \in DOMAIN w
      BY <3>1, <1>4
    <3>3. w[j] \in Members(w)
      BY <3>2 DEF Members
    <3> QED BY <3>2, <3>3, <2>1
  <2>3. CASE j > i
    <3>1. j - 1 \in i .. (Len(s) - 1) /\ j - 1 \in 1 .. (Len(s) - 1) /\ (j - 1) + 1 = j
      BY <2>3, <1>1
    <3>2. w[j - 1] = s[(j - 1) + 1] /\ j - 1 \in DOMAIN w
      BY <3>1, <1>4
    <3>3. w[j - 1] \in Members(w)
      BY <3>2 DEF Members
    <3> QED BY <3>1, <3>2, <3>3, <2>1
  <2>4. CASE j = i
    BY <2>1, <2>4
  <2> QED BY <2>2, <2>3, <2>4, <1>1
<1>6. ASSUME NEW x \in Members(w) PROVE x \in Members(s)
  <2>1. PICK j \in 1 .. (Len(s) - 1) : x = w[j]
    BY <1>4 DEF Members
  <2>2. j \in 1 .. Len(s) /\ j + 1 \in 1 .. Len(s)
    BY <1>1
  <2>3. x = s[j] \/ x = s[j + 1]
    <3>1. j \in 1 .. (i - 1) \/ j \in i .. (Len(s) - 1)
      BY <1>1
    <3> QED BY <3>1, <2>1, <1>4
  <2> QED BY <2>2, <2>3, <1>1 DEF Members
<1>7. s[i] \in Members(s)
  BY <1>1 DEF Members
<1> QED BY <1>4, <1>5, <1>6, <1>7 DEF w

-----------------------------------------------------------------------------
(* Merging.                                                                *)

(* A merge keeps its lists in their types, and needs no other types than   *)
(* those it began with: subtyping orders those or nothing is claimed.      *)
WorkTyped ==
  /\ cons \in [Param -> Seq(ConstraintSet)] /\ count \in Nat
  /\ work \in WorkSet
  /\ work.on => work.param \in Param /\ work.at <= Len(work.saved) + 1
  /\ work.on /\ work.at > 0 => work.item \in ConstraintSet
TypesKept == work.on => TypesOf(InWork) \subseteq TypesOf(work.before)
MergeInv == WorkTyped /\ TypesKept /\ MergingKeepsMeaning

(* A list is a set of constraints *)
LEMMA MembersTyped ==
  ASSUME NEW S, NEW s \in Seq(S)
  PROVE  Members(s) \in SUBSET S
<1>1. \A i \in DOMAIN s : s[i] \in S
  OBVIOUS
<1> QED BY <1>1 DEF Members

(* A merge that begins has all of its list before it *)
LEMMA MergeBegins ==
  ASSUME NEW s \in Seq(ConstraintSet), NEW p \in Param, cons' \in [Param -> Seq(ConstraintSet)],
         count' \in Nat,
         work' = [on |-> TRUE, param |-> p, todo |-> s, saved |-> <<>>,
                  item |-> NoConstraint, at |-> 0, before |-> Members(s)]
  PROVE  MergeInv'
<1>1. Members(s) \in SUBSET ConstraintSet
  BY MembersTyped
<1>2. <<>> \in Seq(ConstraintSet) /\ Len(<<>>) = 0 /\ p \in Nat
  BY ConstraintsAssumption DEF Param
<1>3. WorkTyped'
  BY <1>1, <1>2 DEF WorkTyped, WorkSet
<1>4. Members(<<>>) = {}
  BY DEF Members
<1>5. InWork' = work'.before
  BY <1>4 DEF InWork
<1> QED BY <1>3, <1>5 DEF MergeInv, TypesKept, MergingKeepsMeaning, SameMeaning

(* Nothing is claimed while there is no merge *)
LEMMA NoMerge ==
  ASSUME cons' \in [Param -> Seq(ConstraintSet)], count' \in Nat, work' = NoWork
  PROVE  MergeInv'
<1>1. <<>> \in Seq(ConstraintSet)
  OBVIOUS
<1> QED BY <1>1 DEF MergeInv, WorkTyped, WorkSet, TypesKept, MergingKeepsMeaning, NoWork

(* What is at work in a merge that begins *)
LEMMA WorkBegins ==
  ASSUME NEW s, NEW p,
         work' = [on |-> TRUE, param |-> p, todo |-> s, saved |-> <<>>,
                  item |-> NoConstraint, at |-> 0, before |-> Members(s)]
  PROVE  /\ work'.on /\ work'.param = p /\ work'.before = Members(s)
         /\ InWork' = Members(s)
<1>1. Members(<<>>) = {}
  BY DEF Members
<1> QED BY <1>1 DEF InWork

(* ... when the next constraint is taken off the list *)
LEMMA WorkNext ==
  ASSUME MergeInv, MergeNext
  PROVE  /\ work.on /\ work'.on /\ work'.before = work.before /\ work'.param = work.param
         /\ WorkTyped' /\ InWork' = InWork
<1>1. /\ work \in WorkSet /\ work.on /\ work.at = 0 /\ work.todo # <<>>
      /\ work.todo \in Seq(ConstraintSet)
  BY DEF MergeInv, WorkTyped, WorkSet, MergeNext
<1>2. /\ Head(work.todo) \in ConstraintSet /\ Tail(work.todo) \in Seq(ConstraintSet)
      /\ Members(work.todo) = {Head(work.todo)} \cup Members(Tail(work.todo))
  BY <1>1, HeadTailMembers
<1>3. work' = [work EXCEPT !.item = Head(work.todo), !.todo = Tail(work.todo), !.at = 1]
  BY DEF MergeNext
<1>4. /\ work' \in WorkSet /\ work'.on /\ work'.at = 1 /\ work'.item = Head(work.todo)
      /\ work'.todo = Tail(work.todo) /\ work'.saved = work.saved
      /\ work'.before = work.before /\ work'.param = work.param
  BY <1>1, <1>2, <1>3 DEF WorkSet
<1>5. InWork' = InWork
  BY <1>1, <1>2, <1>4 DEF InWork
<1>6. Len(work.saved) \in Nat
  BY <1>1 DEF WorkSet
<1>7. WorkTyped'
  BY <1>2, <1>4, <1>6 DEF MergeInv, WorkTyped, MergeNext, unifyVars
<1> QED BY <1>1, <1>4, <1>5, <1>7

(* ... when it meets one of the new list *)
LEMMA WorkMeets ==
  ASSUME MergeInv, MergeMeet
  PROVE  /\ work.on /\ work'.on /\ work'.before = work.before /\ work'.param = work.param
         /\ WorkTyped'
         /\ \/ InWork' = InWork
            \/ \E R \in SUBSET ConstraintSet : \E l, r \in ConstraintSet :
                 /\ Intersect(l, r) # NoConstraint
                 /\ InWork = R \cup {l} \cup {r} /\ InWork' = R \cup {Intersect(l, r)}
<1>1. /\ work \in WorkSet /\ work.on /\ work.at \in 1 .. Len(work.saved)
      /\ work.saved \in Seq(ConstraintSet) /\ work.item \in ConstraintSet
  BY DEF MergeInv, WorkTyped, WorkSet, MergeMeet
<1>2. Len(work.saved) \in Nat /\ work.saved[work.at] \in ConstraintSet /\ work.at # 0
  BY <1>1
<1>3. CASE Met = NoConstraint
  <2>1. work' = [work EXCEPT !.at = @ + 1]
    BY <1>3 DEF MergeMeet
  <2>2. /\ work' \in WorkSet /\ work'.on /\ work'.at = work.at + 1
        /\ work'.todo = work.todo /\ work'.saved = work.saved /\ work'.item = work.item
        /\ work'.before = work.before /\ work'.param = work.param
    <3>1. work.at + 1 \in Nat
      BY <1>1, <1>2
    <3> QED BY <1>1, <2>1, <3>1 DEF WorkSet
  <2>3. work'.at # 0 /\ work'.at <= Len(work'.saved) + 1
    BY <1>1, <1>2, <2>2
  <2>4. InWork' = InWork
    BY <1>2, <2>2, <2>3 DEF InWork
  <2>5. WorkTyped'
    BY <1>1, <2>2, <2>3 DEF MergeInv, WorkTyped, MergeMeet, unifyVars
  <2> QED BY <1>1, <2>2, <2>4, <2>5
<1>4. CASE Met # NoConstraint
  <2> DEFINE w == Without(work.saved, work.at)
             c == work.saved[work.at]
             R == Members(w) \cup Members(work.todo)
  <2>1. w \in Seq(ConstraintSet) /\ Len(w) = Len(work.saved) - 1
        /\ Members(work.saved) = Members(w) \cup {c}
    BY <1>1, WithoutMembers
  <2>2. work' = [work EXCEPT !.saved = w, !.item = Met]
    BY <1>4 DEF MergeMeet
  <2>3. PICK l, r \in ConstraintSet : /\ Met = Intersect(l, r)
                                      /\ {l, r} = {c, work.item}
    BY <1>1, <1>2 DEF Met
  <2>4. Met \in ConstraintSet
    BY <1>4, <2>3, IntersectType
  <2>5. /\ work' \in WorkSet /\ work'.on /\ work'.at = work.at
        /\ work'.todo = work.todo /\ work'.saved = w /\ work'.item = Met
        /\ work'.before = work.before /\ work'.param = work.param
    BY <1>1, <2>1, <2>2, <2>4 DEF WorkSet
  <2>6. work'.at <= Len(work'.saved) + 1
    BY <1>1, <1>2, <2>1, <2>5
  <2>7. WorkTyped'
    BY <2>4, <2>5, <2>6 DEF MergeInv, WorkTyped, MergeMeet, unifyVars
  <2>8. InWork = R \cup {l} \cup {r}
    BY <1>2, <2>1, <2>3 DEF InWork
  <2>9. InWork' = R \cup {Intersect(l, r)}
    BY <1>2, <2>3, <2>5 DEF InWork
  <2>10. R \in SUBSET ConstraintSet
    <3>1. work.todo \in Seq(ConstraintSet)
      BY <1>1 DEF WorkSet
    <3> QED BY <2>1, <3>1, MembersTyped
  <2> HIDE DEF R
  <2> QED BY <1>1, <1>4, <2>3, <2>5, <2>7, <2>8, <2>9, <2>10
<1> QED BY <1>3, <1>4

(* ... and when it is put at the end of the new list *)
LEMMA WorkPut ==
  ASSUME MergeInv, MergePut
  PROVE  /\ work.on /\ work'.on /\ work'.before = work.before /\ work'.param = work.param
         /\ WorkTyped' /\ InWork' = InWork
<1>1. /\ work \in WorkSet /\ work.on /\ work.saved \in Seq(ConstraintSet)
      /\ Len(work.saved) \in Nat /\ work.at > Len(work.saved) /\ work.at \in Nat
  BY DEF MergeInv, WorkTyped, WorkSet, MergePut
<1>2. work.at # 0 /\ work.item \in ConstraintSet
  BY <1>1 DEF MergeInv, WorkTyped
<1>3. /\ Append(work.saved, work.item) \in Seq(ConstraintSet)
      /\ Members(Append(work.saved, work.item)) = Members(work.saved) \cup {work.item}
  BY <1>1, <1>2, AppendMembers
<1>4. work' = [work EXCEPT !.saved = Append(@, work.item), !.item = NoConstraint, !.at = 0]
  BY DEF MergePut
<1>5. /\ work' \in WorkSet /\ work'.on /\ work'.at = 0 /\ work'.todo = work.todo
      /\ work'.saved = Append(work.saved, work.item)
      /\ work'.before = work.before /\ work'.param = work.param
  BY <1>1, <1>3, <1>4 DEF WorkSet
<1>6. InWork' = InWork
  BY <1>2, <1>3, <1>5 DEF InWork
<1>7. Len(work'.saved) \in Nat
  BY <1>3, <1>5
<1>8. WorkTyped'
  BY <1>5, <1>7 DEF MergeInv, WorkTyped, MergePut, unifyVars
<1> QED BY <1>1, <1>5, <1>6, <1>8

(* The constraints at work stay the same *)
LEMMA SameWork ==
  ASSUME MergeInv, WorkTyped', work'.on => work.on, work'.before = work.before,
         work'.on => InWork' = InWork
  PROVE  MergeInv'
BY DEF MergeInv, TypesKept, MergingKeepsMeaning

(* What allowing a set of constraints means for its parts *)
LEMMA AllowsParts ==
  ASSUME NEW C, NEW D, NEW t, NEW dead
  PROVE  Allows(C \cup D, t, dead) <=> Allows(C, t, dead) /\ Allows(D, t, dead)
BY DEF Allows

LEMMA AllowsOne ==
  ASSUME NEW c, NEW t, NEW dead
  PROVE  Allows({c}, t, dead) <=> Holds(c, t, dead)
BY DEF Allows, Holds

(* Two constraints at work give way to the one that stands for them *)
LEMMA MeetStep ==
  ASSUME MergeInv, WorkTyped', work.on, work'.before = work.before,
         NEW R, NEW l \in ConstraintSet, NEW r \in ConstraintSet,
         Intersect(l, r) # NoConstraint,
         InWork = R \cup {l} \cup {r}, InWork' = R \cup {Intersect(l, r)}
  PROVE  MergeInv'
<1> DEFINE x == Intersect(l, r)
<1>1. x \in ConstraintSet /\ x.type \in {l.type, r.type}
  BY IntersectType
<1>2. TypesOf(InWork) \subseteq TypesOf(work.before)
  BY DEF MergeInv, TypesKept
<1>3. l.type \in TypesOf(work.before) /\ r.type \in TypesOf(work.before)
  BY <1>2 DEF TypesOf
<1>4. TypesOf(InWork') \subseteq TypesOf(work.before)
  BY <1>1, <1>2, <1>3 DEF TypesOf
<1>5. ASSUME Ordered(TypesOf(work.before))
      PROVE  SameMeaning(InWork', work.before)
  <2>1. SameMeaning(InWork, work.before)
    BY <1>5 DEF MergeInv, MergingKeepsMeaning
  <2>2. ASSUME NEW t \in Solution, NEW dead \in SUBSET Candidate
        PROVE  Allows(InWork', t, dead) <=> Allows(work.before, t, dead)
    <3>1. Holds(x, t, dead) <=> Holds(l, t, dead) /\ Holds(r, t, dead)
      BY <1>3, <1>5, IntersectMeaning
    <3>2. Allows(InWork', t, dead) <=> Allows(R, t, dead) /\ Holds(x, t, dead)
      BY AllowsParts, AllowsOne
    <3>3. Allows(InWork, t, dead)
            <=> Allows(R, t, dead) /\ Holds(l, t, dead) /\ Holds(r, t, dead)
      BY AllowsParts, AllowsOne
    <3>4. Allows(InWork, t, dead) <=> Allows(work.before, t, dead)
      BY <2>1 DEF SameMeaning
    <3> QED BY <3>1, <3>2, <3>3, <3>4
  <2> QED BY <2>2 DEF SameMeaning
<1>6. TypesKept'
  BY <1>4 DEF TypesKept
<1>7. MergingKeepsMeaning'
  BY <1>5 DEF MergingKeepsMeaning
<1> QED BY <1>6, <1>7 DEF MergeInv

(* The next constraint is taken off the list *)
LEMMA MergeNextStep == ASSUME MergeInv, MergeNext PROVE MergeInv'
BY WorkNext, SameWork

(* It is put at the end of the new list *)
LEMMA MergePutStep == ASSUME MergeInv, MergePut PROVE MergeInv'
BY WorkPut, SameWork

(* It meets one of the new list *)
LEMMA MergeMeetStep == ASSUME MergeInv, MergeMeet PROVE MergeInv'
<1>1. /\ work.on /\ work'.on /\ work'.before = work.before /\ WorkTyped'
  BY WorkMeets
<1>2. CASE InWork' = InWork
  BY <1>1, <1>2, SameWork
<1>3. CASE InWork' # InWork
  <2>1. PICK R \in SUBSET ConstraintSet : \E l, r \in ConstraintSet :
          /\ Intersect(l, r) # NoConstraint
          /\ InWork = R \cup {l} \cup {r} /\ InWork' = R \cup {Intersect(l, r)}
    BY <1>3, WorkMeets
  <2> QED BY <1>1, <2>1, MeetStep
<1> QED BY <1>2, <1>3

-----------------------------------------------------------------------------
(* Attempts.                                                               *)

(* A list goes on from what it was when n bindings had been counted: what  *)
(* it had then is no later than n, what it got since is.                   *)
Continues(s, a, n) ==
  /\ Len(a) <= Len(s)
  /\ \A i \in 1 .. Len(a) : s[i] = a[i] /\ a[i].state <= n
  /\ \A i \in Len(a) + 1 .. Len(s) : s[i].state > n

(* A list of constraints, place by place *)
LEMMA ListFacts ==
  ASSUME NEW s \in Seq(ConstraintSet)
  PROVE  /\ Len(s) \in Nat /\ DOMAIN s = 1 .. Len(s)
         /\ \A i \in 1 .. Len(s) : s[i] \in ConstraintSet
         /\ \A i \in 1 .. Len(s) : s[i].state \in Nat
<1>1. Len(s) \in Nat /\ DOMAIN s = 1 .. Len(s) /\ \A i \in 1 .. Len(s) : s[i] \in ConstraintSet
  OBVIOUS
<1>2. \A c \in ConstraintSet : c.state \in Nat
  BY DEF ConstraintSet
<1> QED BY <1>1, <1>2

(* It does from the moment an attempt begins *)
LEMMA ContinuesSelf ==
  ASSUME NEW s \in Seq(ConstraintSet), NEW n \in Nat, \A c \in Members(s) : c.state <= n
  PROVE  Continues(s, s, n)
<1>1. Len(s) \in Nat /\ DOMAIN s = 1 .. Len(s)
  OBVIOUS
<1>2. \A i \in 1 .. Len(s) : s[i].state <= n
  BY <1>1 DEF Members
<1>3. \A i \in Len(s) + 1 .. Len(s) : FALSE
  BY <1>1
<1> QED BY <1>1, <1>2, <1>3 DEF Continues

(* ... when something is bound in it *)
LEMMA ContinuesAppend ==
  ASSUME NEW s \in Seq(ConstraintSet), NEW a \in Seq(ConstraintSet), NEW n \in Nat,
         Continues(s, a, n), NEW c \in ConstraintSet, c.state > n
  PROVE  Continues(Append(s, c), a, n)
<1>1. /\ Len(s) \in Nat /\ Len(a) \in Nat /\ Len(Append(s, c)) = Len(s) + 1
      /\ Append(s, c)[Len(s) + 1] = c
      /\ \A i \in 1 .. Len(s) : Append(s, c)[i] = s[i]
  OBVIOUS
<1>2. Len(a) <= Len(s)
  BY DEF Continues
<1>3. \A i \in 1 .. Len(a) : Append(s, c)[i] = a[i] /\ a[i].state <= n
  BY <1>1, <1>2 DEF Continues
<1>4. ASSUME NEW i \in Len(a) + 1 .. Len(s) + 1 PROVE Append(s, c)[i].state > n
  <2>1. CASE i = Len(s) + 1
    BY <2>1, <1>1
  <2>2. CASE i # Len(s) + 1
    <3>1. i \in Len(a) + 1 .. Len(s) /\ i \in 1 .. Len(s)
      BY <2>2, <1>1
    <3>2. Append(s, c)[i] = s[i]
      BY <3>1, <1>1
    <3>3. s[i].state > n
      BY <3>1 DEF Continues
    <3> QED BY <3>2, <3>3
  <2> QED BY <2>1, <2>2
<1>5. Len(a) <= Len(Append(s, c))
  BY <1>1, <1>2
<1> QED BY <1>1, <1>3, <1>4, <1>5 DEF Continues

(* What backtrack() keeps of it is what it was *)
LEMMA ContinuesKept ==
  ASSUME NEW s \in Seq(ConstraintSet), NEW a \in Seq(ConstraintSet), NEW n \in Nat,
         Continues(s, a, n)
  PROVE  SubSeq(s, 1, Kept(s, n)) = a
<1> DEFINE Stays == {i \in DOMAIN s : s[i].state <= n}
<1>1. /\ Len(s) \in Nat /\ DOMAIN s = 1 .. Len(s) /\ Len(a) \in Nat
      /\ DOMAIN a = 1 .. Len(a) /\ Len(a) <= Len(s)
      /\ \A i \in 1 .. Len(s) : s[i] \in ConstraintSet /\ s[i].state \in Nat
  BY ListFacts DEF Continues
<1>2. Stays = 1 .. Len(a)
  <2>1. ASSUME NEW i \in 1 .. Len(s) PROVE s[i].state <= n <=> i <= Len(a)
    <3>1. CASE i <= Len(a)
      BY <3>1, <1>1 DEF Continues
    <3>2. CASE ~(i <= Len(a))
      <4>1. i \in Len(a) + 1 .. Len(s)
        BY <3>2, <1>1
      <4>2. s[i].state > n
        BY <4>1 DEF Continues
      <4> QED BY <4>2, <3>2, <1>1
    <3> QED BY <3>1, <3>2
  <2>2. Stays = {i \in 1 .. Len(s) : i <= Len(a)}
    BY <2>1, <1>1
  <2> QED BY <2>2, <1>1
<1>3. Kept(s, n) = Len(a)
  <2>1. CASE Len(a) = 0
    <3>1. Stays = {}
      BY <2>1, <1>2
    <3> QED BY <2>1, <3>1 DEF Kept
  <2>2. CASE Len(a) # 0
    <3>1. Stays # {} /\ Len(a) \in Stays
      BY <2>2, <1>1, <1>2
    <3>2. Kept(s, n) = CHOOSE i \in Stays : \A j \in Stays : j <= i
      BY <3>1 DEF Kept
    <3>3. \A j \in Stays : j <= Len(a)
      BY <1>2, <1>1
    <3>4. ASSUME NEW i \in Stays, \A j \in Stays : j <= i PROVE i = Len(a)
      <4>1. Len(a) <= i
        BY <3>1, <3>4
      <4>2. i \in 1 .. Len(a) /\ Len(a) \in Nat
        BY <1>1, <1>2
      <4> HIDE DEF Stays
      <4> QED BY <4>1, <4>2
    <3> HIDE DEF Stays
    <3> QED BY <3>1, <3>2, <3>3, <3>4
  <2> QED BY <2>1, <2>2
<1>4. \A i \in 1 .. Len(a) : s[i] \in ConstraintSet
  BY <1>1
<1>5. /\ SubSeq(s, 1, Len(a)) \in Seq(ConstraintSet)
      /\ Len(SubSeq(s, 1, Len(a))) = IF 1 <= Len(a) THEN Len(a) - 1 + 1 ELSE 0
      /\ \A i \in 1 .. (Len(a) - 1 + 1) : SubSeq(s, 1, Len(a))[i] = s[1 + i - 1]
  BY <1>1, <1>4, SubSeqProperties
<1> DEFINE b == SubSeq(s, 1, Len(a))
<1>6. Len(b) = Len(a)
  BY <1>5, <1>1
<1>7. \A i \in 1 .. Len(a) : b[i] = a[i]
  <2> TAKE i \in 1 .. Len(a)
  <2>1. 1 + i - 1 = i /\ i \in 1 .. (Len(a) - 1 + 1)
    BY <1>1
  <2>2. b[i] = s[i]
    BY <2>1, <1>5
  <2> QED BY <2>2 DEF Continues
<1>8. b \in Seq(ConstraintSet)
  BY <1>5
<1> HIDE DEF b
<1>9. b = a
  BY <1>6, <1>7, <1>8
<1> QED BY <1>3, <1>9 DEF b

(* Of two attempts the one inside goes on from the one outside *)
LEMMA ContinuesBoth ==
  ASSUME NEW s \in Seq(ConstraintSet), NEW a \in Seq(ConstraintSet),
         NEW b \in Seq(ConstraintSet), NEW m \in Nat, NEW n \in Nat, m <= n,
         Continues(s, a, m), Continues(s, b, n)
  PROVE  Continues(b, a, m)
<1>1. /\ Len(s) \in Nat /\ Len(a) \in Nat /\ Len(b) \in Nat
      /\ Len(a) <= Len(s) /\ Len(b) <= Len(s)
      /\ \A i \in 1 .. Len(a) : a[i].state \in Nat
      /\ \A i \in 1 .. Len(s) : s[i].state \in Nat
  BY ListFacts DEF Continues
<1>2. Len(a) <= Len(b)
  <2>1. SUFFICES ASSUME ~(Len(a) <= Len(b)) PROVE FALSE
    OBVIOUS
  <2> DEFINE i == Len(b) + 1
  <2>2. i \in 1 .. Len(a) /\ i \in Len(b) + 1 .. Len(s) /\ i \in 1 .. Len(s)
    BY <2>1, <1>1
  <2> HIDE DEF i
  <2>3. s[i].state <= m
    BY <2>2 DEF Continues
  <2>4. s[i].state > n
    BY <2>2 DEF Continues
  <2>5. s[i].state \in Nat
    BY <2>2, <1>1
  <2> QED BY <2>3, <2>4, <2>5
<1>3. ASSUME NEW i \in 1 .. Len(a) PROVE b[i] = a[i] /\ a[i].state <= m
  <2>1. i \in 1 .. Len(b)
    BY <1>1, <1>2
  <2> QED BY <2>1 DEF Continues
<1>4. ASSUME NEW i \in Len(a) + 1 .. Len(b) PROVE b[i].state > m
  <2>1. i \in Len(a) + 1 .. Len(s) /\ i \in 1 .. Len(b)
    BY <1>1, <1>2
  <2> QED BY <2>1 DEF Continues
<1> QED BY <1>2, <1>3, <1>4 DEF Continues

(* While unification runs nothing is merged, the open attempts were opened *)
(* one inside another, and every list goes on from what it was at each.    *)
Attempt == [count : Nat, cons : [Param -> Seq(ConstraintSet)]]
Counted == \A p \in Param : \A i \in 1 .. Len(cons[p]) : cons[p][i].state <= count
Nested ==
  \A j, k \in 1 .. Len(attempts) : j <= k => attempts[j].count <= attempts[k].count
GoesOn ==
  \A k \in 1 .. Len(attempts) :
    /\ attempts[k].count <= count
    /\ \A p \in Param : Continues(cons[p], attempts[k].cons[p], attempts[k].count)
AttemptsInv ==
  /\ attempts \in Seq(Attempt)
  /\ phase # "unify" => attempts = <<>>
  /\ phase = "unify" => ~work.on /\ Counted /\ Nested /\ GoesOn

IInv == MergeInv /\ AttemptsInv

(* The attempts, one by one *)
LEMMA AttemptFacts ==
  ASSUME AttemptsInv
  PROVE  /\ Len(attempts) \in Nat
         /\ \A k \in 1 .. Len(attempts) :
              /\ attempts[k].count \in Nat
              /\ attempts[k].cons \in [Param -> Seq(ConstraintSet)]
<1>1. attempts \in Seq(Attempt)
  BY DEF AttemptsInv
<1>2. Len(attempts) \in Nat /\ \A k \in 1 .. Len(attempts) : attempts[k] \in Attempt
  BY <1>1
<1> QED BY <1>2 DEF Attempt

(* The bounds a parameter is declared with *)
LEMMA InitInv == ASSUME Init PROVE IInv
<1>1. cons \in [Param -> Seq(ConstraintSet)]
      /\ \A p \in Param : \A i \in 1 .. Len(cons[p]) : cons[p][i].state <= 0
  <2> DEFINE B == {b \in Offers : b.kind = "upper"}
             D(o) == Constraint(o.type, o.kind, o.provisions \cup {Owner[o.param]}, 0)
  <2>1. \A o \in B : D(o) \in ConstraintSet /\ D(o).state = 0
    BY ConstraintsAssumption DEF ConstraintSet, Constraint
  <2>2. cons \in [Param -> {<<>>} \cup {<<D(o)>> : o \in B}]
    BY DEF Init
  <2>3. ASSUME NEW s \in {<<>>} \cup {<<D(o)>> : o \in B}
        PROVE  s \in Seq(ConstraintSet) /\ \A i \in 1 .. Len(s) : s[i].state <= 0
    <3>1. CASE s = <<>>
      BY <3>1
    <3>2. CASE \E o \in B : s = <<D(o)>>
      <4>1. PICK o \in B : s = <<D(o)>>
        BY <3>2
      <4> HIDE DEF D, B
      <4>2. D(o) \in ConstraintSet /\ D(o).state = 0
        BY <2>1
      <4>3. s \in Seq(ConstraintSet) /\ Len(s) = 1 /\ s[1] = D(o)
        BY <4>1, <4>2
      <4> QED BY <4>2, <4>3
    <3> QED BY <3>1, <3>2
  <2> HIDE DEF D, B
  <2> QED BY <2>2, <2>3
<1>2. WorkTyped /\ ~work.on
  <2>1. <<>> \in Seq(ConstraintSet)
    OBVIOUS
  <2> QED BY <1>1, <2>1 DEF Init, WorkTyped, WorkSet, NoWork
<1>3. MergeInv
  BY <1>2 DEF MergeInv, TypesKept, MergingKeepsMeaning
<1>4. attempts \in Seq(Attempt) /\ Len(attempts) = 0 /\ count = 0 /\ phase = "unify"
  BY DEF Init
<1>5. Counted
  BY <1>1, <1>4 DEF Counted
<1>6. Nested /\ GoesOn
  BY <1>4 DEF Nested, GoesOn
<1> QED BY <1>2, <1>3, <1>4, <1>5, <1>6 DEF IInv, AttemptsInv

(* A binding is later than every attempt *)
LEMMA BindStep == ASSUME IInv, NEW o \in Offers, Bind(o) PROVE IInv'
<1> DEFINE c == Constraint(o.type, o.kind, Combined(o), count + 1)
<1>1. /\ phase = "unify" /\ phase' = phase /\ work' = work /\ attempts' = attempts
      /\ count \in Nat /\ count' = count + 1 /\ o.param \in Param
      /\ cons \in [Param -> Seq(ConstraintSet)]
      /\ cons' = [cons EXCEPT ![o.param] = Append(@, c)]
  BY ConstraintsAssumption DEF Bind, IInv, MergeInv, WorkTyped
<1>2. c \in ConstraintSet /\ c.state = count + 1
  <2>1. o.type \in Type /\ o.kind \in Kinds /\ Combined(o) \in SUBSET Candidate
    BY <1>1, ConstraintsAssumption DEF Combined
  <2>2. count + 1 \in Nat
    BY <1>1
  <2> QED BY <2>1, <2>2 DEF Constraint, ConstraintSet
<1> HIDE DEF c
<1>3. \A p \in Param : cons'[p] = IF p = o.param THEN Append(cons[p], c) ELSE cons[p]
  BY <1>1
<1>4. /\ cons' \in [Param -> Seq(ConstraintSet)] /\ count' \in Nat
  BY <1>1, <1>2
<1>5. ~work.on /\ Counted /\ Nested /\ GoesOn
  BY <1>1 DEF IInv, AttemptsInv
<1>6. MergeInv'
  <2>1. WorkTyped'
    BY <1>1, <1>4, <1>5 DEF IInv, MergeInv, WorkTyped
  <2> QED BY <1>1, <1>5, <2>1 DEF MergeInv, TypesKept, MergingKeepsMeaning
<1>7. Counted'
  <2> SUFFICES ASSUME NEW p \in Param, NEW i \in 1 .. Len(cons'[p])
               PROVE  cons'[p][i].state <= count'
    BY DEF Counted
  <2>1. /\ Len(cons[p]) \in Nat
        /\ \A j \in 1 .. Len(cons[p]) : cons[p][j].state \in Nat /\ cons[p][j].state <= count
    BY <1>1, <1>5, ListFacts DEF Counted
  <2>2. CASE i \in 1 .. Len(cons[p])
    <3>1. cons'[p][i] = cons[p][i]
      BY <1>1, <1>2, <1>3, <2>2
    <3> QED BY <2>1, <2>2, <3>1, <1>1
  <2>3. CASE i \notin 1 .. Len(cons[p])
    <3>1. cons'[p] = Append(cons[p], c) /\ i = Len(cons[p]) + 1
      BY <1>1, <1>2, <1>3, <2>1, <2>3
    <3>2. cons'[p][i] = c
      BY <3>1, <1>1, <1>2
    <3> QED BY <3>2, <1>1, <1>2
  <2> QED BY <2>2, <2>3
<1>8. GoesOn'
  <2> SUFFICES ASSUME NEW k \in 1 .. Len(attempts)
               PROVE  /\ attempts[k].count <= count'
                      /\ \A p \in Param :
                           Continues(cons'[p], attempts[k].cons[p], attempts[k].count)
    BY <1>1 DEF GoesOn
  <2>1. /\ attempts[k].count \in Nat /\ attempts[k].count <= count
        /\ attempts[k].cons \in [Param -> Seq(ConstraintSet)]
    BY <1>5, AttemptFacts DEF IInv, GoesOn
  <2>2. attempts[k].count <= count' /\ c.state > attempts[k].count
    BY <2>1, <1>1, <1>2
  <2>3. ASSUME NEW p \in Param
        PROVE  Continues(cons'[p], attempts[k].cons[p], attempts[k].count)
    <3>1. Continues(cons[p], attempts[k].cons[p], attempts[k].count)
      BY <1>5 DEF GoesOn
    <3>2. CASE p # o.param
      BY <3>1, <3>2, <1>3
    <3>3. CASE p = o.param
      <4>1. cons[p] \in Seq(ConstraintSet) /\ attempts[k].cons[p] \in Seq(ConstraintSet)
        BY <1>1, <2>1
      <4>2. Continues(Append(cons[p], c), attempts[k].cons[p], attempts[k].count)
        BY <3>1, <4>1, <2>1, <2>2, <1>2, ContinuesAppend
      <4> QED BY <4>2, <3>3, <1>3
    <3> QED BY <3>2, <3>3
  <2> QED BY <2>2, <2>3
<1>9. AttemptsInv'
  BY <1>1, <1>5, <1>7, <1>8 DEF IInv, AttemptsInv, Nested
<1> QED BY <1>6, <1>9 DEF IInv

(* The sequence of attempts with one more, and with one less *)
LEMMA AttemptPushed ==
  ASSUME AttemptsInv, NEW a \in Attempt
  PROVE  /\ Append(attempts, a) \in Seq(Attempt)
         /\ Len(Append(attempts, a)) = Len(attempts) + 1
         /\ Append(attempts, a)[Len(attempts) + 1] = a
         /\ \A k \in 1 .. Len(attempts) : Append(attempts, a)[k] = attempts[k]
<1>1. attempts \in Seq(Attempt)
  BY DEF AttemptsInv
<1> QED BY <1>1

LEMMA AttemptPopped ==
  ASSUME AttemptsInv, attempts # <<>>, attempts' = SubSeq(attempts, 1, Len(attempts) - 1)
  PROVE  /\ Len(attempts) \in Nat \ {0}
         /\ attempts' \in Seq(Attempt) /\ Len(attempts') = Len(attempts) - 1
         /\ \A k \in 1 .. Len(attempts') : attempts'[k] = attempts[k] /\ k \in 1 .. Len(attempts)
<1>1. attempts \in Seq(Attempt)
  BY DEF AttemptsInv
<1> DEFINE n == Len(attempts) - 1
<1>2. /\ Len(attempts) \in Nat \ {0} /\ n \in Nat /\ n + 1 = Len(attempts)
      /\ \A k \in 1 .. n : attempts[k] \in Attempt
  BY <1>1
<1> HIDE DEF n
<1>3. attempts' = SubSeq(attempts, 1, n)
  BY DEF n
<1>4. /\ SubSeq(attempts, 1, n) \in Seq(Attempt)
      /\ Len(SubSeq(attempts, 1, n)) = IF 1 <= n THEN n - 1 + 1 ELSE 0
      /\ \A k \in 1 .. (n - 1 + 1) : SubSeq(attempts, 1, n)[k] = attempts[1 + k - 1]
  BY <1>2, SubSeqProperties
<1>5. Len(attempts') = n
  BY <1>2, <1>3, <1>4
<1>6. ASSUME NEW k \in 1 .. n PROVE attempts'[k] = attempts[k] /\ k \in 1 .. Len(attempts)
  <2>1. k \in 1 .. (n - 1 + 1) /\ 1 + k - 1 = k /\ k \in 1 .. Len(attempts)
    BY <1>2
  <2> QED BY <2>1, <1>3, <1>4
<1> QED BY <1>2, <1>3, <1>4, <1>5, <1>6 DEF n

(* A merge is not under way while attempts are *)
LEMMA UnifyQuiet ==
  ASSUME IInv, phase = "unify", work' = work, cons' \in [Param -> Seq(ConstraintSet)],
         count' \in Nat
  PROVE  MergeInv'
<1>1. ~work.on
  BY DEF IInv, AttemptsInv
<1>2. WorkTyped'
  BY <1>1 DEF IInv, MergeInv, WorkTyped
<1> QED BY <1>1, <1>2 DEF MergeInv, TypesKept, MergingKeepsMeaning

(* An attempt begins *)
LEMMA OpenStep == ASSUME IInv, OpenAttempt PROVE IInv'
<1> DEFINE a == [count |-> count, cons |-> cons]
<1>1. /\ phase = "unify" /\ phase' = phase /\ work' = work /\ attempts' = Append(attempts, a)
      /\ count \in Nat /\ count' = count /\ cons' = cons
      /\ cons \in [Param -> Seq(ConstraintSet)]
  BY DEF OpenAttempt, IInv, MergeInv, WorkTyped
<1>2. a \in Attempt /\ a.count = count /\ a.cons = cons
  BY <1>1 DEF Attempt
<1> HIDE DEF a
<1>3. ~work.on /\ Counted /\ Nested /\ GoesOn /\ Len(attempts) \in Nat
  BY <1>1, AttemptFacts DEF IInv, AttemptsInv
<1>4. /\ attempts' \in Seq(Attempt) /\ Len(attempts') = Len(attempts) + 1
      /\ attempts'[Len(attempts) + 1] = a
      /\ \A k \in 1 .. Len(attempts) : attempts'[k] = attempts[k]
  BY <1>1, <1>2, AttemptPushed DEF IInv
<1>5. \A k \in 1 .. Len(attempts') : k \in 1 .. Len(attempts) \/ k = Len(attempts) + 1
  BY <1>3, <1>4
<1>6. \A k \in 1 .. Len(attempts) : attempts[k].count \in Nat /\ attempts[k].count <= count
  BY <1>3, AttemptFacts DEF IInv, GoesOn
<1>7. Nested'
  <2> SUFFICES ASSUME NEW j \in 1 .. Len(attempts'), NEW k \in 1 .. Len(attempts'), j <= k
               PROVE  attempts'[j].count <= attempts'[k].count
    BY DEF Nested
  <2>1. CASE k \in 1 .. Len(attempts)
    <3>1. j \in 1 .. Len(attempts)
      BY <2>1, <1>3
    <3>2. attempts[j].count <= attempts[k].count
      BY <2>1, <3>1, <1>3 DEF Nested
    <3> QED BY <2>1, <3>1, <3>2, <1>4
  <2>2. CASE k = Len(attempts) + 1
    <3>1. attempts'[k].count = count
      BY <2>2, <1>2, <1>4
    <3>2. CASE j \in 1 .. Len(attempts)
      BY <3>1, <3>2, <1>4, <1>6
    <3>3. CASE j = Len(attempts) + 1
      BY <3>1, <3>3, <2>2, <1>1
    <3> QED BY <3>2, <3>3, <1>5
  <2> QED BY <2>1, <2>2, <1>5
<1>8. GoesOn'
  <2> SUFFICES ASSUME NEW k \in 1 .. Len(attempts')
               PROVE  /\ attempts'[k].count <= count
                      /\ \A p \in Param :
                           Continues(cons[p], attempts'[k].cons[p], attempts'[k].count)
    BY <1>1 DEF GoesOn
  <2>1. CASE k \in 1 .. Len(attempts)
    BY <2>1, <1>3, <1>4 DEF GoesOn
  <2>2. CASE k = Len(attempts) + 1
    <3>1. attempts'[k].count = count /\ attempts'[k].cons = cons
      BY <2>2, <1>2, <1>4
    <3>2. ASSUME NEW p \in Param PROVE Continues(cons[p], cons[p], count)
      <4>1. cons[p] \in Seq(ConstraintSet)
        BY <1>1
      <4>2. \A c \in Members(cons[p]) : c.state <= count
        BY <4>1, <1>3, ListFacts DEF Members, Counted
      <4> QED BY <4>1, <4>2, <1>1, ContinuesSelf
    <3> QED BY <3>1, <3>2, <1>1
  <2> QED BY <2>1, <2>2, <1>5
<1>9. Counted'
  BY <1>1, <1>3 DEF Counted
<1>10. MergeInv'
  BY <1>1, UnifyQuiet
<1>11. AttemptsInv'
  BY <1>1, <1>3, <1>4, <1>7, <1>8, <1>9 DEF AttemptsInv
<1> QED BY <1>10, <1>11 DEF IInv

(* An attempt is kept: the ones around it are untouched *)
LEMMA KeepStep == ASSUME IInv, KeepAttempt PROVE IInv'
<1>1. /\ phase = "unify" /\ phase' = phase /\ work' = work /\ attempts # <<>>
      /\ attempts' = SubSeq(attempts, 1, Len(attempts) - 1)
      /\ count \in Nat /\ count' = count /\ cons' = cons
      /\ cons \in [Param -> Seq(ConstraintSet)]
  BY DEF KeepAttempt, IInv, MergeInv, WorkTyped
<1>2. ~work.on /\ Counted /\ Nested /\ GoesOn
  BY <1>1 DEF IInv, AttemptsInv
<1>3. /\ attempts' \in Seq(Attempt)
      /\ \A k \in 1 .. Len(attempts') : attempts'[k] = attempts[k] /\ k \in 1 .. Len(attempts)
  BY <1>1, AttemptPopped DEF IInv
<1>4. Nested'
  BY <1>2, <1>3 DEF Nested
<1>5. GoesOn'
  BY <1>1, <1>2, <1>3 DEF GoesOn
<1>6. Counted'
  BY <1>1, <1>2 DEF Counted
<1>7. MergeInv'
  BY <1>1, UnifyQuiet
<1>8. AttemptsInv'
  BY <1>1, <1>2, <1>3, <1>4, <1>5, <1>6 DEF AttemptsInv
<1> QED BY <1>7, <1>8 DEF IInv

(* An attempt that fails gives back the constraints it began with *)
LEMMA FailRestores ==
  ASSUME IInv, FailAttempt
  PROVE  /\ cons' = attempts[Len(attempts)].cons
         /\ count' = attempts[Len(attempts)].count
<1> DEFINE n == Len(attempts)
           a == attempts[n]
<1>1. /\ phase = "unify" /\ attempts # <<>> /\ count' = a.count
      /\ cons' = [p \in Param |-> SubSeq(cons[p], 1, Kept(cons[p], a.count))]
  BY DEF FailAttempt
<1>2. n \in 1 .. n
  <2>1. attempts \in Seq(Attempt)
    BY DEF IInv, AttemptsInv
  <2> QED BY <1>1, <2>1
<1>3. a.count \in Nat /\ a.cons \in [Param -> Seq(ConstraintSet)]
  BY <1>2, AttemptFacts DEF IInv
<1>4. GoesOn /\ cons \in [Param -> Seq(ConstraintSet)]
  BY <1>1 DEF IInv, AttemptsInv, MergeInv, WorkTyped
<1>5. \A p \in Param : Continues(cons[p], a.cons[p], a.count)
  BY <1>2, <1>4 DEF GoesOn
<1> HIDE DEF a
<1>6. ASSUME NEW p \in Param
      PROVE  SubSeq(cons[p], 1, Kept(cons[p], a.count)) = a.cons[p]
  <2>1. cons[p] \in Seq(ConstraintSet) /\ a.cons[p] \in Seq(ConstraintSet)
    BY <1>3, <1>4
  <2> QED BY <2>1, <1>3, <1>5, ContinuesKept
<1>7. cons' = a.cons
  BY <1>1, <1>3, <1>6
<1> QED BY <1>1, <1>7 DEF a

LEMMA FailStep == ASSUME IInv, FailAttempt PROVE IInv'
<1> DEFINE n == Len(attempts)
           a == attempts[n]
<1>1. /\ phase = "unify" /\ phase' = phase /\ work' = work /\ attempts # <<>>
      /\ attempts' = SubSeq(attempts, 1, Len(attempts) - 1)
      /\ cons \in [Param -> Seq(ConstraintSet)]
  BY DEF FailAttempt, IInv, MergeInv, WorkTyped
<1>2. ~work.on /\ Counted /\ Nested /\ GoesOn
  BY <1>1 DEF IInv, AttemptsInv
<1>3. /\ n \in Nat \ {0} /\ attempts' \in Seq(Attempt) /\ Len(attempts') = n - 1
      /\ \A k \in 1 .. Len(attempts') : attempts'[k] = attempts[k] /\ k \in 1 .. n
  BY <1>1, AttemptPopped DEF IInv
<1>4. n \in 1 .. n /\ \A k \in 1 .. Len(attempts') : k <= n
  BY <1>3
<1>5. cons' = a.cons /\ count' = a.count
  BY FailRestores
<1>6. /\ a.count \in Nat /\ a.cons \in [Param -> Seq(ConstraintSet)]
      /\ \A p \in Param : Continues(cons[p], a.cons[p], a.count)
  BY <1>2, <1>4, AttemptFacts DEF IInv, GoesOn
<1>7. \A k \in 1 .. Len(attempts') : /\ attempts[k].count <= a.count
                                     /\ attempts[k].count \in Nat
                                     /\ attempts[k].cons \in [Param -> Seq(ConstraintSet)]
  BY <1>2, <1>3, <1>4, AttemptFacts DEF IInv, Nested
<1> HIDE DEF a
<1>8. Nested'
  <2>1. ASSUME NEW j \in 1 .. Len(attempts'), NEW k \in 1 .. Len(attempts'), j <= k
        PROVE  attempts'[j].count <= attempts'[k].count
    BY <2>1, <1>2, <1>3 DEF Nested
  <2> QED BY <2>1 DEF Nested
<1>9. GoesOn'
  <2> SUFFICES ASSUME NEW k \in 1 .. Len(attempts')
               PROVE  /\ attempts[k].count <= a.count
                      /\ \A p \in Param :
                           Continues(a.cons[p], attempts[k].cons[p], attempts[k].count)
    BY <1>3, <1>5 DEF GoesOn
  <2>1. attempts[k].count <= a.count
    BY <1>7
  <2>2. ASSUME NEW p \in Param
        PROVE  Continues(a.cons[p], attempts[k].cons[p], attempts[k].count)
    <3>1. /\ cons[p] \in Seq(ConstraintSet) /\ a.cons[p] \in Seq(ConstraintSet)
          /\ attempts[k].cons[p] \in Seq(ConstraintSet)
      BY <1>1, <1>6, <1>7
    <3>2. /\ Continues(cons[p], a.cons[p], a.count)
          /\ Continues(cons[p], attempts[k].cons[p], attempts[k].count)
      BY <1>2, <1>3, <1>6 DEF GoesOn
    <3> QED BY <3>1, <3>2, <1>6, <1>7, ContinuesBoth
  <2> QED BY <2>1, <2>2
<1>10. Counted'
  <2> SUFFICES ASSUME NEW p \in Param, NEW i \in 1 .. Len(a.cons[p])
               PROVE  a.cons[p][i].state <= a.count
    BY <1>5 DEF Counted
  <2> QED BY <1>6 DEF Continues
<1>11. MergeInv'
  BY <1>1, <1>5, <1>6, UnifyQuiet
<1>12. AttemptsInv'
  BY <1>1, <1>2, <1>3, <1>8, <1>9, <1>10 DEF AttemptsInv
<1> QED BY <1>11, <1>12 DEF IInv

-----------------------------------------------------------------------------
(* Every step.                                                             *)

(* Once unification is done no attempt is open *)
LEMMA LaterStep ==
  ASSUME IInv, MergeInv', phase # "unify", phase' # "unify", attempts' = attempts
  PROVE  IInv'
BY DEF IInv, AttemptsInv

LEMMA EndUnifyStep == ASSUME IInv, EndUnify PROVE IInv'
<1>1. /\ 1 \in Param /\ cons \in [Param -> Seq(ConstraintSet)] /\ cons[1] \in Seq(ConstraintSet)
      /\ count \in Nat
  BY ConstraintsAssumption DEF Param, IInv, MergeInv, WorkTyped
<1>2. /\ cons' = cons /\ count' = count /\ work' = MergeOf(1) /\ phase' = "minimize"
      /\ attempts' = <<>>
  BY DEF EndUnify, unifyVars
<1>3. MergeInv'
  BY <1>1, <1>2, MergeBegins DEF MergeOf
<1>4. attempts' \in Seq(Attempt)
  BY <1>2
<1> QED BY <1>2, <1>3, <1>4 DEF IInv, AttemptsInv

LEMMA MergeStep == ASSUME IInv, Merge PROVE IInv'
<1>1. /\ work.on /\ phase' = phase /\ attempts' = attempts /\ count' = count
      /\ count \in Nat
  BY DEF Merge, MergeNext, MergeMeet, MergePut, EndMerge, Merged, unifyVars,
         IInv, MergeInv, WorkTyped
<1>2. phase # "unify"
  BY <1>1 DEF IInv, AttemptsInv
<1>3. CASE MergeNext
  BY <1>1, <1>2, <1>3, MergeNextStep, LaterStep DEF IInv
<1>4. CASE MergeMeet
  BY <1>1, <1>2, <1>4, MergeMeetStep, LaterStep DEF IInv
<1>5. CASE MergePut
  BY <1>1, <1>2, <1>5, MergePutStep, LaterStep DEF IInv
<1>6. CASE EndMerge
  <2>1. /\ work \in WorkSet /\ work.param \in Param /\ work.saved \in Seq(ConstraintSet)
        /\ cons \in [Param -> Seq(ConstraintSet)]
    BY <1>1 DEF IInv, MergeInv, WorkTyped, WorkSet
  <2>2. /\ cons' = [cons EXCEPT ![work.param] = work.saved]
        /\ cons' \in [Param -> Seq(ConstraintSet)]
    BY <1>6, <2>1 DEF EndMerge
  <2>3. CASE work.param < Params /\ phase # "select"
    <3>1. work.param + 1 \in Param
      BY <2>1, <2>3, ConstraintsAssumption DEF Param
    <3> DEFINE q == work.param + 1
    <3> HIDE DEF q
    <3>2. q \in Param /\ cons[q] \in Seq(ConstraintSet)
      BY <2>1, <3>1 DEF q
    <3>3. work' = MergeOf(q)
      BY <1>6, <2>3 DEF EndMerge, q
    <3>4. MergeInv'
      BY <3>2, <3>3, <2>2, <1>1, MergeBegins DEF MergeOf
    <3> QED BY <3>4, <1>1, <1>2, LaterStep
  <2>4. CASE ~(work.param < Params /\ phase # "select")
    <3>1. work' = NoWork
      BY <1>6, <2>4 DEF EndMerge
    <3>2. MergeInv'
      BY <3>1, <2>2, <1>1, NoMerge
    <3> QED BY <3>2, <1>1, <1>2, LaterStep
  <2> QED BY <2>3, <2>4
<1> QED BY <1>3, <1>4, <1>5, <1>6 DEF Merge

LEMMA ExpandStep == ASSUME IInv, Expand PROVE IInv'
<1>1. /\ 1 \in Param /\ cons \in [Param -> Seq(ConstraintSet)] /\ cons[1] \in Seq(ConstraintSet)
      /\ count \in Nat
  BY ConstraintsAssumption DEF Param, IInv, MergeInv, WorkTyped
<1>2. /\ cons' = cons /\ count' = count /\ work' = MergeOf(1) /\ attempts' = attempts
      /\ phase # "unify" /\ phase' = "expand"
  BY DEF Expand, unifyVars
<1>3. MergeInv'
  BY <1>1, <1>2, MergeBegins DEF MergeOf
<1> QED BY <1>2, <1>3, LaterStep

(* Constraints change their provisions or their type, each in its place *)
LEMMA EraseStep == ASSUME IInv, EraseOwners PROVE IInv'
<1>1. /\ cons \in [Param -> Seq(ConstraintSet)] /\ count \in Nat
      /\ count' = count /\ work' = NoWork /\ attempts' = attempts
      /\ phase = "expand" /\ phase' = "select"
      /\ cons' = [p \in Param |-> [i \in DOMAIN cons[p] |->
                    [cons[p][i] EXCEPT !.provisions = @ \ {Owner[p]}]]]
  BY DEF EraseOwners, unifyVars, IInv, MergeInv, WorkTyped
<1>2. \A q : \A c \in ConstraintSet : [c EXCEPT !.provisions = @ \ {q}] \in ConstraintSet
  BY DEF ConstraintSet
<1>3. ASSUME NEW p \in Param
      PROVE  [i \in DOMAIN cons[p] |-> [cons[p][i] EXCEPT !.provisions = @ \ {Owner[p]}]]
               \in Seq(ConstraintSet)
  <2> DEFINE F(i) == [cons[p][i] EXCEPT !.provisions = @ \ {Owner[p]}]
  <2>1. cons[p] \in Seq(ConstraintSet)
    BY <1>1
  <2>2. /\ Len(cons[p]) \in Nat /\ DOMAIN cons[p] = 1 .. Len(cons[p])
        /\ \A i \in 1 .. Len(cons[p]) : F(i) \in ConstraintSet
    BY <2>1, <1>2, ListFacts
  <2> HIDE DEF F
  <2>3. [i \in 1 .. Len(cons[p]) |-> F(i)] \in Seq(ConstraintSet)
    BY <2>2
  <2> QED BY <2>2, <2>3 DEF F
<1>4. cons' \in [Param -> Seq(ConstraintSet)]
  BY <1>1, <1>3
<1>5. MergeInv'
  BY <1>1, <1>4, NoMerge
<1> QED BY <1>1, <1>5, LaterStep

LEMMA SelectStep == ASSUME IInv, NEW p \in Param, SelectSize(p) PROVE IInv'
<1> DEFINE s == WithSizes(p)
<1>1. /\ cons \in [Param -> Seq(ConstraintSet)] /\ cons[p] \in Seq(ConstraintSet)
      /\ count \in Nat /\ count' = count /\ attempts' = attempts
      /\ phase = "select" /\ phase' = phase /\ cons' = [cons EXCEPT ![p] = s]
      /\ work' = [MergeOf(p) EXCEPT !.todo = s, !.before = Members(s)]
      /\ OnlyLiterals(p)
  BY DEF SelectSize, unifyVars, IInv, MergeInv, WorkTyped
<1>2. s \in Seq(ConstraintSet)
  <2> DEFINE F(i) == [cons[p][i] EXCEPT !.type = SizeOf(cons[p][i].type)]
  <2>1. /\ Len(cons[p]) \in Nat /\ DOMAIN cons[p] = 1 .. Len(cons[p])
        /\ \A i \in 1 .. Len(cons[p]) : cons[p][i] \in ConstraintSet
    BY <1>1, ListFacts
  <2>2. \A i \in 1 .. Len(cons[p]) : cons[p][i].type \in Literal
    BY <2>1, <1>1 DEF OnlyLiterals, Members
  <2>3. ASSUME NEW i \in 1 .. Len(cons[p]) PROVE F(i) \in ConstraintSet
    <3>1. SizeOf(cons[p][i].type) \in Type
      BY <2>2, ConstraintsAssumption DEF Solution
    <3> QED BY <3>1, <2>1 DEF ConstraintSet
  <2>4. s = [i \in 1 .. Len(cons[p]) |-> F(i)]
    BY <2>1 DEF WithSizes
  <2> HIDE DEF F, s
  <2>5. [i \in 1 .. Len(cons[p]) |-> F(i)] \in Seq(ConstraintSet)
    BY <2>1, <2>3
  <2> QED BY <2>4, <2>5
<1> HIDE DEF s
<1>3. cons' \in [Param -> Seq(ConstraintSet)]
  BY <1>1, <1>2
<1>4. work' = [on |-> TRUE, param |-> p, todo |-> s, saved |-> <<>>,
               item |-> NoConstraint, at |-> 0, before |-> Members(s)]
  BY <1>1 DEF MergeOf
<1>5. MergeInv'
  BY <1>1, <1>2, <1>3, <1>4, MergeBegins
<1> QED BY <1>1, <1>5, LaterStep

LEMMA ReconcileStep == ASSUME IInv, NEW dead \in SUBSET Candidate, Reconcile(dead) PROVE IInv'
<1>1. /\ ~work.on /\ phase # "unify" /\ phase' = "solve" /\ attempts' = attempts
      /\ cons' = cons /\ count' = count /\ work' = work
  BY DEF Reconcile, unifyVars
<1>2. MergeInv'
  BY <1>1 DEF IInv, MergeInv, WorkTyped, TypesKept, MergingKeepsMeaning
<1> QED BY <1>1, <1>2, LaterStep

LEMMA Step == ASSUME IInv, [Next]_vars PROVE IInv'
<1>1. CASE UNCHANGED vars
  BY <1>1 DEF vars, unifyVars, solveVars, IInv, MergeInv, WorkTyped, TypesKept,
              MergingKeepsMeaning, InWork, AttemptsInv, Counted, Nested, GoesOn
<1>2. CASE Next
  <2>1. CASE \E o \in Offers : Bind(o)
    BY <2>1, BindStep
  <2>2. CASE OpenAttempt \/ KeepAttempt \/ FailAttempt \/ EndUnify
    BY <2>2, OpenStep, KeepStep, FailStep, EndUnifyStep
  <2>3. CASE Simplify
    BY <2>3, MergeStep, ExpandStep, EraseStep, SelectStep DEF Simplify
  <2>4. CASE \E dead \in SUBSET Candidate : Reconcile(dead)
    BY <2>4, ReconcileStep
  <2> QED BY <1>2, <2>1, <2>2, <2>3, <2>4 DEF Next
<1> QED BY <1>1, <1>2

(* The strengthened invariant holds in every state *)
LEMMA Invariant == Spec => []IInv
<1>1. Init => IInv
  BY InitInv
<1>2. IInv /\ [Next]_vars => IInv'
  BY Step
<1> QED BY <1>1, <1>2, PTL DEF Spec

(* Merging constraints with one another never changes what they allow,     *)
(* whichever candidates are culled later, for every list of them, as long  *)
(* as subtyping orders their types (ConstraintSet::minimize() and          *)
(* insertAndOptimize(), Constraint::intersect()).                          *)
THEOREM MergingIsSound == Spec => []MergingKeepsMeaning
<1>1. IInv => MergingKeepsMeaning
  BY DEF IInv, MergeInv
<1> QED BY <1>1, Invariant, PTL

(* Taking back an attempt, inside any number of others, leaves exactly the *)
(* constraints that were there when it was opened (BindingEnv::backtrack() *)
(* drops those of a later state from the end of each list).                *)
THEOREM BacktrackingRestores == Spec => FailedAttemptLeavesNothing
<1>1. IInv /\ [Next]_vars => [FailAttempt => cons' = attempts[Len(attempts)].cons]_vars
  BY FailRestores
<1> QED BY <1>1, Invariant, PTL DEF Spec, FailedAttemptLeavesNothing

-----------------------------------------------------------------------------
(* Solving.                                                                *)

(* The types joined, or met, with that of the n-th constraint *)
Added(s, I, F, n, v) ==
  IF n \notin I THEN v
  ELSE IF \A i \in I : n <= i THEN s[n].type
  ELSE IF v = NoType THEN NoType ELSE F[<<v, s[n].type>>]

(* What a fold is, one constraint after another *)
LEMMA FoldUnfolds ==
  ASSUME NEW s \in Seq(ConstraintSet), NEW I \in SUBSET (1 .. Len(s)),
         NEW F \in [Type \X Type -> Type \cup {NoType}]
  PROVE  \E f \in [Nat -> Type \cup {NoType}] :
            /\ Fold(s, I, F) = f[Len(s)] /\ f[0] = NoType
            /\ \A i \in Nat : f[i + 1] = Added(s, I, F, i + 1, f[i])
<1> DEFINE G(h) == [n \in Nat |->
                      IF n = 0 THEN NoType
                      ELSE IF n \notin I THEN h[n - 1]
                      ELSE IF \A i \in I : n <= i THEN s[n].type
                      ELSE IF h[n - 1] = NoType THEN NoType ELSE F[<<h[n - 1], s[n].type>>]]
           fold == CHOOSE h : h = G(h)
           X == Type \cup {NoType}
           step == [q \in Nat \X X |-> Added(s, I, F, q[1] + 1, q[2])]
<1>1. /\ Len(s) \in Nat
      /\ \A n \in I : n \in 1 .. Len(s) /\ s[n].type \in Type
  <2>1. /\ Len(s) \in Nat /\ \A i \in 1 .. Len(s) : s[i] \in ConstraintSet
    BY ListFacts
  <2> QED BY <2>1 DEF ConstraintSet
<1>2. ASSUME NEW n \in Nat, NEW v \in X PROVE Added(s, I, F, n, v) \in X
  BY <1>1 DEF Added
<1>3. PICK f \in [Nat -> X] : f[0] = NoType /\ \A i \in Nat : f[i + 1] = step[<<i, f[i]>>]
  <2>1. NoType \in X
    OBVIOUS
  <2>2. step \in [Nat \X X -> X]
    <3> SUFFICES ASSUME NEW i \in Nat, NEW v \in X PROVE Added(s, I, F, i + 1, v) \in X
      OBVIOUS
    <3>1. i + 1 \in Nat
      OBVIOUS
    <3> HIDE DEF X
    <3> QED BY <3>1, <1>2
  <2> HIDE DEF X, step
  <2>3. Iterates(X, NoType, step)
    BY <2>1, <2>2, Recursion
  <2> QED BY <2>3 DEF Iterates
<1>4. \A i \in Nat : f[i + 1] = Added(s, I, F, i + 1, f[i])
  <2> HIDE DEF X
  <2> QED BY <1>3
<1>5. f = G(f)
  <2>1. ASSUME NEW i \in Nat PROVE f[i] = G(f)[i]
    <3>1. CASE i = 0
      BY <1>3, <3>1
    <3>2. CASE i # 0
      <4>1. i - 1 \in Nat /\ (i - 1) + 1 = i
        BY <3>2
      <4>2. f[i] = Added(s, I, F, i, f[i - 1])
        BY <1>4, <4>1
      <4> QED BY <3>2, <4>2 DEF Added
    <3> QED BY <3>1, <3>2
  <2> HIDE DEF X
  <2> QED BY <1>3, <2>1
<1>6. fold = G(fold)
  <2> HIDE DEF G
  <2> QED BY <1>5
<1>7. /\ fold[0] = NoType /\ DOMAIN fold = Nat
      /\ \A i \in Nat : fold[i + 1] = Added(s, I, F, i + 1, fold[i])
  <2> HIDE DEF fold
  <2>1. fold[0] = NoType /\ DOMAIN fold = Nat
    BY <1>6
  <2>2. ASSUME NEW i \in Nat PROVE fold[i + 1] = Added(s, I, F, i + 1, fold[i])
    <3>1. i + 1 \in Nat /\ i + 1 # 0 /\ (i + 1) - 1 = i
      OBVIOUS
    <3>2. fold[i + 1] = G(fold)[i + 1]
      BY <1>6
    <3> QED BY <3>1, <3>2 DEF Added
  <2> QED BY <2>1, <2>2
<1>8. Fold(s, I, F) = fold[Len(s)]
  BY DEF Fold
<1> HIDE DEF fold
<1>9. \A i \in Nat : fold[i] \in X
  <2> DEFINE T == {i \in Nat : fold[i] \in X}
  <2>1. 0 \in T
    BY <1>7
  <2>2. ASSUME NEW i \in Nat, i \in T PROVE i + 1 \in T
    <3>1. fold[i] \in X /\ i + 1 \in Nat
      BY <2>2
    <3> HIDE DEF X
    <3>2. fold[i + 1] \in X
      BY <1>2, <1>7, <3>1
    <3> QED BY <3>1, <3>2
  <2>3. Nat \subseteq T
    <3> HIDE DEF T
    <3> QED BY <2>1, <2>2, Induction
  <2> QED BY <2>3
<1>10. fold \in [Nat -> X]
  <2> DEFINE g == [i \in Nat |-> fold[i]]
  <2>1. fold = g
    <3>1. fold = [i \in DOMAIN fold |-> fold[i]]
      BY <1>6
    <3> QED BY <3>1, <1>7
  <2>2. g \in [Nat -> X]
    <3> HIDE DEF X
    <3> QED BY <1>9
  <2> HIDE DEF g
  <2> QED BY <2>1, <2>2
<1> QED BY <1>7, <1>8, <1>10

(* Being a subtype goes on through the types of constraints and sized ones *)
LEMMA SubtypeChain ==
  ASSUME NEW T \in SUBSET Type, Ordered(T), NEW s \in T \cup Solution, NEW t \in T \cup Solution,
         NEW u \in Type, Sub(s, t), Sub(t, u)
  PROVE  Sub(s, u)
<1>1. CASE u \in Literal
  <2>1. t \in Literal
    BY <1>1, SubtypeAssumption DEF Solution
  <2>2. s \in Literal
    BY <2>1, SubtypeAssumption DEF Solution
  <2> QED BY <1>1, <2>1, <2>2, SubtypeAssumption
<1>2. CASE u \in Solution
  <2>1. CASE t \in Literal
    <3>1. s \in Literal /\ s \in T /\ t \in T
      BY <2>1, SubtypeAssumption DEF Solution
    <3> QED BY <3>1, <1>2 DEF Ordered
  <2>2. CASE t \in Solution
    <3>1. CASE s \in Solution
      <4>1. Ordered(Solution)
        BY SubtypeAssumption
      <4> QED BY <4>1, <3>1, <2>2, <1>2 DEF Ordered
    <3>2. CASE s \in Literal
      BY <3>2, <2>2, <1>2, SubtypeAssumption
    <3> QED BY <3>1, <3>2 DEF Solution
  <2> QED BY <2>1, <2>2 DEF Solution
<1> QED BY <1>1, <1>2 DEF Solution

LEMMA SubtypeSelf == ASSUME NEW t \in Type PROVE Sub(t, t)
<1>1. Ordered(Solution) /\ \A l \in Literal : Sub(l, l)
  BY SubtypeAssumption
<1> QED BY <1>1 DEF Ordered, Solution

(* The lower bounds' join is above each of them *)
LEMMA JoinAbove ==
  ASSUME NEW s \in Seq(ConstraintSet), NEW I \in SUBSET (1 .. Len(s)),
         NEW T \in SUBSET Type, Ordered(T), \A i \in I : s[i].type \in T \cup Solution,
         Fold(s, I, Join) # NoType
  PROVE  /\ Fold(s, I, Join) \in Type
         /\ \A i \in I : Sub(s[i].type, Fold(s, I, Join))
<1>1. Join \in [Type \X Type -> Type \cup {NoType}]
  <2>1. \A t, u \in Type : Base(t, u) \in Type \cup {NoType}
    BY SubtypeAssumption DEF Solution
  <2> QED BY <2>1 DEF Join
<1>2. PICK f \in [Nat -> Type \cup {NoType}] :
            /\ Fold(s, I, Join) = f[Len(s)] /\ f[0] = NoType
            /\ \A i \in Nat : f[i + 1] = Added(s, I, Join, i + 1, f[i])
  BY <1>1, FoldUnfolds
<1> DEFINE Above(n, v) == v # NoType => /\ v \in T \cup Solution
                                        /\ \A i \in I : i <= n => Sub(s[i].type, v)
           Sofar == {n \in Nat : Above(n, f[n])}
<1>3. Len(s) \in Nat /\ \A i \in I : i \in Nat /\ s[i].type \in Type
  <2>1. Len(s) \in Nat
    OBVIOUS
  <2> QED BY <2>1 DEF Solution
<1>4. 0 \in Sofar
  BY <1>2
<1>5. ASSUME NEW n \in Nat, n \in Sofar PROVE n + 1 \in Sofar
  <2> DEFINE v == f[n]
             w == f[n + 1]
             t == s[n + 1].type
  <2>1. w = Added(s, I, Join, n + 1, v) /\ Above(n, v) /\ v \in Type \cup {NoType}
    BY <1>2, <1>5
  <2> HIDE DEF v, w
  <2>2. SUFFICES Above(n + 1, w)
    BY DEF w
  <2>3. \A i \in I : i <= n + 1 => i <= n \/ i = n + 1
    BY <1>3
  <2>4. CASE n + 1 \notin I
    <3>1. w = v
      BY <2>1, <2>4 DEF Added
    <3> QED BY <2>1, <2>3, <2>4, <3>1
  <2>5. CASE n + 1 \in I /\ \A i \in I : n + 1 <= i
    <3>1. w = t
      BY <2>1, <2>5 DEF Added
    <3>2. \A i \in I : i <= n + 1 => i = n + 1
      BY <2>5, <1>3
    <3>3. Sub(t, t) /\ t \in T \cup Solution
      BY <2>5, <1>3, SubtypeSelf
    <3> QED BY <3>1, <3>2, <3>3
  <2>6. CASE n + 1 \in I /\ ~(\A i \in I : n + 1 <= i)
    <3>1. w = IF v = NoType THEN NoType ELSE Join[<<v, t>>]
      BY <2>1, <2>6 DEF Added
    <3>2. CASE v = NoType
      BY <3>1, <3>2
    <3>3. CASE v # NoType /\ w # NoType
      <4>1. t \in T \cup Solution /\ v \in T \cup Solution /\ t \in Type /\ v \in Type
        BY <2>1, <2>6, <3>3, <1>3
      <4> HIDE DEF t
      <4>2. w = IF Sub(t, v) THEN v ELSE IF Sub(v, t) THEN t ELSE Base(v, t)
        BY <3>1, <3>3, <4>1 DEF Join
      <4>3. w \in T \cup Solution /\ w \in Type /\ Sub(v, w) /\ Sub(t, w)
        <5>1. CASE Sub(t, v)
          BY <5>1, <4>1, <4>2, SubtypeSelf
        <5>2. CASE ~Sub(t, v) /\ Sub(v, t)
          BY <5>2, <4>1, <4>2, SubtypeSelf
        <5>3. CASE ~Sub(t, v) /\ ~Sub(v, t)
          <6>1. w = Base(v, t) /\ Base(v, t) # NoType
            BY <5>3, <4>2, <3>3
          <6> QED BY <6>1, <4>1, SubtypeAssumption DEF Solution
        <5> QED BY <5>1, <5>2, <5>3
      <4>4. ASSUME NEW i \in I, i <= n + 1 PROVE Sub(s[i].type, w)
        <5>1. CASE i = n + 1
          BY <5>1, <4>3 DEF t
        <5>2. CASE i <= n
          <6>1. Sub(s[i].type, v) /\ s[i].type \in T \cup Solution
            BY <5>2, <2>1, <3>3
          <6> QED BY <6>1, <4>1, <4>3, SubtypeChain
        <5> QED BY <5>1, <5>2, <2>3, <4>4
      <4> QED BY <4>3, <4>4
    <3> QED BY <3>2, <3>3
  <2> QED BY <2>4, <2>5, <2>6
<1>6. Nat \subseteq Sofar
  <2> HIDE DEF Sofar
  <2> QED BY <1>4, <1>5, Induction
<1>7. Above(Len(s), f[Len(s)])
  BY <1>3, <1>6
<1>8. \A i \in I : i <= Len(s)
  OBVIOUS
<1> QED BY <1>2, <1>7, <1>8 DEF Solution

(* The upper bounds' meet is below each of them *)
LEMMA MeetBelow ==
  ASSUME NEW s \in Seq(ConstraintSet), NEW I \in SUBSET (1 .. Len(s)),
         \A i \in I : s[i].type \in Solution,
         Fold(s, I, Meet) # NoType
  PROVE  /\ Fold(s, I, Meet) \in Type
         /\ \A i \in I : Sub(Fold(s, I, Meet), s[i].type)
<1>1. Meet \in [Type \X Type -> Type \cup {NoType}]
  BY DEF Meet
<1>2. PICK f \in [Nat -> Type \cup {NoType}] :
            /\ Fold(s, I, Meet) = f[Len(s)] /\ f[0] = NoType
            /\ \A i \in Nat : f[i + 1] = Added(s, I, Meet, i + 1, f[i])
  BY <1>1, FoldUnfolds
<1> DEFINE Below(n, v) == v # NoType => /\ v \in Solution
                                        /\ \A i \in I : i <= n => Sub(v, s[i].type)
           Sofar == {n \in Nat : Below(n, f[n])}
<1>3. Len(s) \in Nat /\ (\A i \in I : i \in Nat) /\ Solution \subseteq Type /\ Ordered(Solution)
  <2>1. Len(s) \in Nat
    OBVIOUS
  <2> QED BY <2>1, SubtypeAssumption DEF Solution
<1>4. 0 \in Sofar
  BY <1>2
<1>5. ASSUME NEW n \in Nat, n \in Sofar PROVE n + 1 \in Sofar
  <2> DEFINE v == f[n]
             w == f[n + 1]
             t == s[n + 1].type
  <2>1. w = Added(s, I, Meet, n + 1, v) /\ Below(n, v) /\ v \in Type \cup {NoType}
    BY <1>2, <1>5
  <2> HIDE DEF v, w
  <2>2. SUFFICES Below(n + 1, w)
    BY DEF w
  <2>3. \A i \in I : i <= n + 1 => i <= n \/ i = n + 1
    BY <1>3
  <2>4. CASE n + 1 \notin I
    <3>1. w = v
      BY <2>1, <2>4 DEF Added
    <3> QED BY <2>1, <2>3, <2>4, <3>1
  <2>5. CASE n + 1 \in I /\ \A i \in I : n + 1 <= i
    <3>1. w = t
      BY <2>1, <2>5 DEF Added
    <3>2. \A i \in I : i <= n + 1 => i = n + 1
      BY <2>5, <1>3
    <3>3. Sub(t, t) /\ t \in Solution
      BY <2>5, <1>3, SubtypeSelf
    <3> QED BY <3>1, <3>2, <3>3
  <2>6. CASE n + 1 \in I /\ ~(\A i \in I : n + 1 <= i)
    <3>1. w = IF v = NoType THEN NoType ELSE Meet[<<v, t>>]
      BY <2>1, <2>6 DEF Added
    <3>2. CASE v = NoType
      BY <3>1, <3>2
    <3>3. CASE v # NoType /\ w # NoType
      <4>1. t \in Solution /\ v \in Solution /\ t \in Type /\ v \in Type
        BY <2>1, <2>6, <3>3, <1>3
      <4> HIDE DEF t
      <4>2. w = IF Sub(t, v) THEN t ELSE IF Sub(v, t) THEN v ELSE NoType
        BY <3>1, <3>3, <4>1 DEF Meet
      <4>3. w \in Solution /\ Sub(w, v) /\ Sub(w, t)
        BY <3>3, <4>1, <4>2, SubtypeSelf
      <4>4. ASSUME NEW i \in I, i <= n + 1 PROVE Sub(w, s[i].type)
        <5>1. CASE i = n + 1
          BY <5>1, <4>3 DEF t
        <5>2. CASE i <= n
          <6>1. Sub(v, s[i].type) /\ s[i].type \in Solution
            BY <5>2, <2>1, <3>3
          <6> QED BY <6>1, <4>1, <4>3, <1>3 DEF Ordered
        <5> QED BY <5>1, <5>2, <2>3, <4>4
      <4> QED BY <4>3, <4>4
    <3> QED BY <3>2, <3>3
  <2> QED BY <2>4, <2>5, <2>6
<1>6. Nat \subseteq Sofar
  <2> HIDE DEF Sofar
  <2> QED BY <1>4, <1>5, Induction
<1>7. Below(Len(s), f[Len(s)])
  BY <1>3, <1>6
<1>8. \A i \in I : i <= Len(s)
  OBVIOUS
<1> QED BY <1>2, <1>3, <1>7, <1>8

(* What is solved for is a type that every constraint accepts whose        *)
(* candidates are all there                                                *)
LEMMA SolvedAccepts ==
  ASSUME NEW p \in Param, cons[p] \in Seq(ConstraintSet), NEW dead,
         NEW T \in SUBSET Type, Ordered(T), TypesOf(Members(cons[p])) \subseteq T \cup Solution,
         LiteralsFit(Members(cons[p])), Solved(p, dead) # NoType
  PROVE  /\ Solved(p, dead) \in Type
         /\ Allows(Members(cons[p]), Solved(p, dead), dead)
<1> DEFINE s == cons[p]
           held == Held(p, dead)
           exact == OfKind(p, "exact", dead)
           lower == OfKind(p, "lower", dead)
           upper == OfKind(p, "upper", dead)
           t == Solved(p, dead)
<1>1. /\ Len(s) \in Nat /\ DOMAIN s = 1 .. Len(s)
      /\ \A i \in 1 .. Len(s) : s[i] \in ConstraintSet
  BY ListFacts
<1>2. \A i \in 1 .. Len(s) : /\ s[i].type \in Type /\ s[i].kind \in Kinds
                             /\ s[i].type \in T \cup Solution
                             /\ s[i].type \in Literal => s[i].kind = "lower"
  BY <1>1 DEF ConstraintSet, TypesOf, Members, LiteralsFit
<1>3. held \in SUBSET (1 .. Len(s)) /\ held = exact \cup lower \cup upper
  BY <1>1, <1>2 DEF Held, OfKind, Kinds
<1>4. /\ \A i \in exact : i \in held /\ s[i].kind = "exact"
      /\ \A i \in lower : i \in held /\ s[i].kind = "lower"
      /\ \A i \in upper : i \in held /\ s[i].kind = "upper"
  BY DEF OfKind
<1>5. SUFFICES t \in Type /\ \A i \in held : Accepts(s[i], t)
  <2>1. ASSUME \A i \in held : Accepts(s[i], t) PROVE Allows(Members(s), t, dead)
    <3> SUFFICES ASSUME NEW c \in Members(s), c.provisions \cap dead = {} PROVE Accepts(c, t)
      BY DEF Allows
    <3>1. PICK i \in DOMAIN s : c = s[i]
      BY DEF Members
    <3>2. i \in held
      BY <3>1 DEF Held
    <3> HIDE DEF held, t
    <3> QED BY <3>1, <3>2, <2>1
  <2> QED BY <2>1
<1>6. CASE exact # {}
  <2> DEFINE c == CHOOSE c \in At(p, exact) : TRUE
  <2>1. t = AcceptedBy(c.type, At(p, held))
    BY <1>6 DEF Solved
  <2>2. At(p, exact) # {}
    BY <1>6 DEF At
  <2>3. c \in At(p, exact)
    BY <2>2
  <2>4. c.type \in Type
    <3> HIDE DEF c
    <3>1. PICK i \in exact : c = s[i]
      BY <2>3 DEF At
    <3>2. i \in 1 .. Len(s)
      BY <1>3, <1>4
    <3> QED BY <3>1, <3>2, <1>2
  <2> HIDE DEF c, held, t
  <2>5. t = c.type /\ \A d \in At(p, held) : Accepts(d, t)
    BY <2>1, <1>5 DEF AcceptedBy, t
  <2> QED BY <2>4, <2>5 DEF At
<1>7. CASE exact = {} /\ lower # {}
  <2>1. t = AcceptedBy(Fold(s, lower, Join), At(p, upper))
    BY <1>7 DEF Solved
  <2>2. lower \in SUBSET (1 .. Len(s)) /\ \A i \in lower : s[i].type \in T \cup Solution
    BY <1>2, <1>3, <1>4
  <2> HIDE DEF held, lower, upper, t
  <2>3. /\ t = Fold(s, lower, Join) /\ t # NoType
        /\ \A d \in At(p, upper) : Accepts(d, t)
    BY <2>1 DEF AcceptedBy, t
  <2>4. t \in Type /\ \A i \in lower : Sub(s[i].type, t)
    BY <2>2, <2>3, JoinAbove
  <2>5. \A i \in lower : Accepts(s[i], t)
    BY <2>4, <1>4 DEF Accepts
  <2>6. \A i \in upper : Accepts(s[i], t)
    BY <2>3 DEF At
  <2> QED BY <2>4, <2>5, <2>6, <1>3, <1>7
<1>8. CASE exact = {} /\ lower = {}
  <2>1. t = Fold(s, upper, Meet)
    BY <1>8 DEF Solved
  <2>2. upper \in SUBSET (1 .. Len(s)) /\ \A i \in upper : s[i].type \in Solution
    BY <1>2, <1>3, <1>4 DEF Solution
  <2> HIDE DEF held, upper, t
  <2>3. t # NoType
    BY DEF t
  <2>4. t \in Type /\ \A i \in upper : Sub(t, s[i].type)
    BY <2>1, <2>2, <2>3, MeetBelow
  <2>5. \A i \in upper : Accepts(s[i], t)
    BY <2>4, <1>4 DEF Accepts
  <2> QED BY <2>4, <2>5, <1>3, <1>8
<1> QED BY <1>6, <1>7, <1>8

(* A constraint that replaces two allows, of the literals too, only what   *)
(* both do                                                                 *)
LEMMA IntersectNarrows ==
  ASSUME NEW l \in ConstraintSet, NEW r \in ConstraintSet, Intersect(l, r) # NoConstraint,
         NEW T \in SUBSET Type, Ordered(T),
         l.type \in T \cup Solution, r.type \in T \cup Solution, LiteralsFit({l, r}),
         NEW t \in Type, NEW dead
  PROVE  Holds(Intersect(l, r), t, dead) => Holds(l, t, dead) /\ Holds(r, t, dead)
<1> DEFINE lenientL == l.provisions \subseteq r.provisions
           lenientR == r.provisions \subseteq l.provisions
           below == Sub(l.type, r.type) /\ ~Sub(r.type, l.type)
           above == Sub(r.type, l.type) /\ ~Sub(l.type, r.type)
           same == l.type = r.type
           takesL == /\ lenientL
                     /\ \/ same /\ (l.kind = r.kind \/ l.kind = "exact")
                        \/ below /\ l.kind \in {"upper", "exact"} /\ r.kind = "upper"
                        \/ above /\ r.kind = "lower" /\ l.kind \in {"lower", "exact"}
           takesR == /\ lenientR
                     /\ \/ same /\ (l.kind = r.kind \/ r.kind = "exact")
                        \/ below /\ l.kind = "lower" /\ r.kind \in {"lower", "exact"}
                        \/ above /\ r.kind \in {"upper", "exact"} /\ l.kind = "upper"
           both == /\ same /\ lenientL /\ lenientR /\ {l.kind, r.kind} = {"lower", "upper"}
<1>k. l.kind \in Kinds /\ r.kind \in Kinds /\ l.type \in Type /\ r.type \in Type
  BY DEF ConstraintSet
<1>f. /\ l.kind # "lower" => l.type \in Solution
      /\ r.kind # "lower" => r.type \in Solution
  BY <1>k DEF LiteralsFit, Solution
<1>s. Sub(l.type, l.type) /\ Sub(r.type, r.type)
  BY <1>k, SubtypeSelf
<1>a. /\ Sub(l.type, r.type) /\ Sub(r.type, t) => Sub(l.type, t)
      /\ Sub(r.type, l.type) /\ Sub(l.type, t) => Sub(r.type, t)
  BY SubtypeChain
<1>b. /\ l.type \in Solution /\ r.type \in Solution /\ Sub(t, l.type) /\ Sub(l.type, r.type)
           => Sub(t, r.type)
      /\ l.type \in Solution /\ r.type \in Solution /\ Sub(t, r.type) /\ Sub(r.type, l.type)
           => Sub(t, l.type)
  <2>1. ASSUME NEW x \in Solution, NEW y \in Solution, Sub(t, x), Sub(x, y) PROVE Sub(t, y)
    <3>1. CASE t \in Literal
      BY <2>1, <3>1, SubtypeAssumption
    <3>2. CASE t \in Solution
      <4>1. Ordered(Solution)
        BY SubtypeAssumption
      <4> QED BY <2>1, <3>2, <4>1 DEF Ordered
    <3> QED BY <3>1, <3>2 DEF Solution
  <2> QED BY <2>1
<1>1. CASE takesL
  <2>1. Intersect(l, r) = l
    BY <1>1 DEF Intersect
  <2>2. Accepts(l, t) => Accepts(r, t)
    BY <1>1, <1>k, <1>f, <1>s, <1>a, <1>b DEF Accepts, Kinds
  <2>3. lenientL
    BY <1>1
  <2> QED BY <2>1, <2>2, <2>3 DEF Holds
<1>2. CASE ~takesL /\ takesR
  <2>1. Intersect(l, r) = r
    BY <1>2 DEF Intersect
  <2>2. Accepts(r, t) => Accepts(l, t)
    BY <1>2, <1>k, <1>f, <1>s, <1>a, <1>b DEF Accepts, Kinds
  <2>3. lenientR
    BY <1>2
  <2> QED BY <2>1, <2>2, <2>3 DEF Holds
<1>3. CASE ~takesL /\ ~takesR /\ both
  <2>1. Intersect(l, r) = Constraint(l.type, "exact", l.provisions, 0)
    BY <1>3 DEF Intersect
  <2>2. (t = l.type) => Accepts(l, t) /\ Accepts(r, t)
    BY <1>3, <1>k, <1>s DEF Accepts, Kinds
  <2>3. l.provisions = r.provisions
    BY <1>3
  <2>4. Accepts(Intersect(l, r), t) <=> t = l.type
    BY <2>1 DEF Accepts, Constraint
  <2>5. Intersect(l, r).provisions = l.provisions
    BY <2>1 DEF Constraint
  <2> QED BY <2>2, <2>3, <2>4, <2>5 DEF Holds
<1>4. CASE ~takesL /\ ~takesR /\ ~both
  BY <1>4 DEF Intersect
<1> QED BY <1>1, <1>2, <1>3, <1>4

(* ... and is a literal only as a lower bound                              *)
LEMMA IntersectFits ==
  ASSUME NEW l \in ConstraintSet, NEW r \in ConstraintSet, Intersect(l, r) # NoConstraint,
         LiteralsFit({l, r})
  PROVE  LiteralsFit({Intersect(l, r)})
<1>1. \/ Intersect(l, r) \in {l, r}
      \/ /\ l.type = r.type /\ {l.kind, r.kind} = {"lower", "upper"}
         /\ Intersect(l, r).type = l.type
  BY DEF Intersect, Constraint
<1>2. CASE Intersect(l, r) \in {l, r}
  BY <1>2 DEF LiteralsFit
<1>3. CASE /\ l.type = r.type /\ {l.kind, r.kind} = {"lower", "upper"}
           /\ Intersect(l, r).type = l.type
  <2>1. l.kind = "upper" \/ r.kind = "upper"
    BY <1>3
  <2>2. l.type \notin Literal
    BY <1>3, <2>1 DEF LiteralsFit
  <2> QED BY <1>3, <2>2 DEF LiteralsFit
<1> QED BY <1>1, <1>2, <1>3

(* Once unification is done, the constraints of a parameter, and those of  *)
(* it at work in a merge, allow only what it was bound to, literals        *)
(* included; the values are what was last solved for.                      *)
Backs(C, p) ==
  /\ TypesOf(C) \subseteq TypesOf(bound[p]) \cup Solution
  /\ LiteralsFit(C)
  /\ \A t \in Type : \A dead \in SUBSET Candidate :
       Owner[p] \notin dead /\ Allows(C, t, dead) => Allows(bound[p], t, dead)
Backed ==
  \A p \in Param : Orderly(p) =>
    /\ Backs(Members(cons[p]), p)
    /\ work.on /\ work.param = p => Backs(InWork, p)
ValuesSolved ==
  /\ ~work.on /\ culled \in SUBSET Candidate
  /\ \A p \in Param :
       /\ cons[p] = <<>> => value[p] = NoType
       /\ cons[p] # <<>> /\ Owner[p] \notin culled => value[p] = Solved(p, culled)
SolveInv ==
  /\ phase # "unify" => bound \in [Param -> SUBSET ConstraintSet] /\ Backed
  /\ phase # "solve" => value = [p \in Param |-> NoType]
  /\ phase = "solve" => ValuesSolved

(* What backs a parameter, of fewer constraints or more lenient ones       *)
LEMMA BacksAll ==
  ASSUME NEW p, NEW C, NEW D, Backs(C, p),
         TypesOf(D) \subseteq TypesOf(C) \cup Solution, LiteralsFit(D),
         \A t \in Type : \A dead \in SUBSET Candidate :
           Owner[p] \notin dead /\ Allows(D, t, dead) => Allows(C, t, dead)
  PROVE  Backs(D, p)
BY DEF Backs

(* A parameter nothing changes for                                         *)
LEMMA BacksStays ==
  ASSUME NEW p, NEW C, Backs(C, p), bound'[p] = bound[p]
  PROVE  Backs(C, p)'
BY DEF Backs

(* Two constraints at work give way to the one that stands for them *)
LEMMA MeetBacks ==
  ASSUME NEW p \in Param, Orderly(p), bound[p] \in SUBSET ConstraintSet,
         NEW R, NEW l \in ConstraintSet, NEW r \in ConstraintSet,
         Intersect(l, r) # NoConstraint, Backs(R \cup {l} \cup {r}, p)
  PROVE  Backs(R \cup {Intersect(l, r)}, p)
<1> DEFINE x == Intersect(l, r)
           C == R \cup {l} \cup {r}
           T == TypesOf(bound[p])
<1>1. x \in ConstraintSet /\ x.type \in {l.type, r.type}
  BY IntersectType
<1>2. /\ TypesOf(C) \subseteq T \cup Solution /\ LiteralsFit(C)
      /\ l.type \in T \cup Solution /\ r.type \in T \cup Solution
  BY DEF Backs, TypesOf
<1>3. LiteralsFit({l, r}) /\ LiteralsFit(R)
  BY <1>2 DEF LiteralsFit
<1>4. LiteralsFit({x})
  BY <1>3, IntersectFits
<1>5. T \in SUBSET Type /\ Ordered(T)
  BY DEF Orderly, TypesOf, ConstraintSet
<1>6. ASSUME NEW t \in Type, NEW dead \in SUBSET Candidate, Allows(R \cup {x}, t, dead)
      PROVE  Allows(C, t, dead)
  <2> HIDE DEF T
  <2>1. Holds(x, t, dead) => Holds(l, t, dead) /\ Holds(r, t, dead)
    BY <1>2, <1>3, <1>5, IntersectNarrows
  <2>2. Allows(R \cup {x}, t, dead) <=> Allows(R, t, dead) /\ Holds(x, t, dead)
    BY AllowsParts, AllowsOne
  <2>3. Allows(C, t, dead) <=> Allows(R, t, dead) /\ Holds(l, t, dead) /\ Holds(r, t, dead)
    BY AllowsParts, AllowsOne
  <2> QED BY <1>6, <2>1, <2>2, <2>3
<1>7. TypesOf(R \cup {x}) \subseteq TypesOf(C) \cup Solution
  BY <1>1 DEF TypesOf
<1>8. LiteralsFit(R \cup {x})
  BY <1>3, <1>4 DEF LiteralsFit
<1> HIDE DEF x, C
<1>9. Backs(C, p)
  BY DEF C
<1> QED BY <1>6, <1>7, <1>8, <1>9, BacksAll DEF x

(* A list whose constraints lose their owner's provision                   *)
Owned(s, q) == [i \in DOMAIN s |-> [s[i] EXCEPT !.provisions = @ \ {q}]]
LEMMA EraseBacks ==
  ASSUME NEW p \in Param, NEW s \in Seq(ConstraintSet), Backs(Members(s), p)
  PROVE  Backs(Members(Owned(s, Owner[p])), p)
<1> DEFINE q == Owner[p]
           r == Owned(s, q)
<1>1. /\ Len(s) \in Nat /\ DOMAIN s = 1 .. Len(s)
      /\ \A i \in 1 .. Len(s) : s[i] \in ConstraintSet
  BY ListFacts
<1>2. DOMAIN r = DOMAIN s
  BY DEF Owned
<1>3. ASSUME NEW i \in DOMAIN s
      PROVE  /\ r[i].type = s[i].type /\ r[i].kind = s[i].kind
             /\ r[i].provisions = s[i].provisions \ {q}
  BY <1>1 DEF Owned, ConstraintSet
<1> HIDE DEF r
<1>4. TypesOf(Members(r)) = TypesOf(Members(s))
  BY <1>2, <1>3 DEF TypesOf, Members
<1>5. LiteralsFit(Members(s))
  BY DEF Backs
<1>6. LiteralsFit(Members(r))
  BY <1>2, <1>3, <1>5 DEF LiteralsFit, Members
<1>7. ASSUME NEW t \in Type, NEW dead \in SUBSET Candidate, q \notin dead,
             Allows(Members(r), t, dead)
      PROVE  Allows(Members(s), t, dead)
  <2> SUFFICES ASSUME NEW c \in Members(s), c.provisions \cap dead = {} PROVE Accepts(c, t)
    BY DEF Allows
  <2>1. PICK i \in DOMAIN s : c = s[i]
    BY DEF Members
  <2>2. r[i] \in Members(r)
    BY <1>2 DEF Members
  <2>3. r[i].provisions \cap dead = {}
    BY <1>3, <1>7, <2>1
  <2>4. Accepts(r[i], t)
    BY <1>7, <2>2, <2>3 DEF Allows
  <2> QED BY <1>3, <2>1, <2>4 DEF Accepts
<1> QED BY <1>4, <1>6, <1>7, BacksAll DEF r

(* A list of literals that get a size                                      *)
Sized(s) == [i \in DOMAIN s |-> [s[i] EXCEPT !.type = SizeOf(s[i].type)]]
LEMMA SizeBacks ==
  ASSUME NEW p \in Param, NEW s \in Seq(ConstraintSet), Backs(Members(s), p),
         \A c \in Members(s) : c.type \in Literal
  PROVE  Backs(Members(Sized(s)), p)
<1> DEFINE r == Sized(s)
<1>1. /\ Len(s) \in Nat /\ DOMAIN s = 1 .. Len(s)
      /\ \A i \in 1 .. Len(s) : s[i] \in ConstraintSet
  BY ListFacts
<1>2. DOMAIN r = DOMAIN s
  BY DEF Sized
<1>3. ASSUME NEW i \in DOMAIN s
      PROVE  /\ r[i].type = SizeOf(s[i].type) /\ r[i].kind = s[i].kind
             /\ r[i].provisions = s[i].provisions
  BY <1>1 DEF Sized, ConstraintSet
<1> HIDE DEF r
<1>4. LiteralsFit(Members(s))
  BY DEF Backs
<1>5. ASSUME NEW i \in DOMAIN s
      PROVE  /\ s[i].type \in Literal /\ s[i].kind = "lower" /\ Sub(s[i].type, SizeOf(s[i].type))
             /\ SizeOf(s[i].type) \in Solution
  BY <1>4, ConstraintsAssumption DEF LiteralsFit, Members
<1>6. TypesOf(Members(r)) \subseteq Solution
  BY <1>2, <1>3, <1>5 DEF TypesOf, Members
<1>7. LiteralsFit(Members(r))
  BY <1>6 DEF LiteralsFit, TypesOf, Solution
<1>8. ASSUME NEW t \in Type, NEW dead \in SUBSET Candidate, Allows(Members(r), t, dead)
      PROVE  Allows(Members(s), t, dead)
  <2> SUFFICES ASSUME NEW c \in Members(s), c.provisions \cap dead = {} PROVE Accepts(c, t)
    BY DEF Allows
  <2>1. PICK i \in DOMAIN s : c = s[i]
    BY DEF Members
  <2>2. r[i] \in Members(r)
    BY <1>2 DEF Members
  <2>3. Accepts(r[i], t)
    BY <1>3, <1>8, <2>1, <2>2 DEF Allows
  <2>4. Sub(SizeOf(s[i].type), t)
    BY <1>3, <1>5, <2>3 DEF Accepts
  <2>5. t \in Solution
    BY <1>5, <2>4, SubtypeAssumption DEF Solution
  <2>6. Sub(s[i].type, t)
    BY <1>5, <2>4, <2>5, SubtypeAssumption
  <2> QED BY <1>5, <2>1, <2>6 DEF Accepts
<1> QED BY <1>6, <1>7, <1>8, BacksAll DEF r

-----------------------------------------------------------------------------
(* What was bound stays what it was, and backs what is left of it *)
LEMMA BackedNext ==
  ASSUME bound \in [Param -> SUBSET ConstraintSet], bound' = bound,
         \A p \in Param : Orderly(p) =>
           /\ Backs(Members(cons'[p]), p)
           /\ work'.on /\ work'.param = p => Backs(InWork', p)
  PROVE  bound' \in [Param -> SUBSET ConstraintSet] /\ Backed'
BY DEF Backed, Backs, Orderly

(* Between unification and solving nothing is solved yet *)
LEMMA NotSolvedYet ==
  ASSUME SolveInv, phase \notin {"unify", "solve"}, phase' \notin {"unify", "solve"},
         value' = value, bound' = bound,
         \A p \in Param : Orderly(p) =>
           /\ Backs(Members(cons'[p]), p)
           /\ work'.on /\ work'.param = p => Backs(InWork', p)
  PROVE  SolveInv'
<1>1. bound \in [Param -> SUBSET ConstraintSet] /\ value = [p \in Param |-> NoType]
  BY DEF SolveInv
<1>2. bound' \in [Param -> SUBSET ConstraintSet] /\ Backed'
  BY <1>1, BackedNext
<1> QED BY <1>1, <1>2 DEF SolveInv

LEMMA SolveInit == ASSUME Init PROVE SolveInv
BY DEF Init, SolveInv

(* Nothing is claimed of what is still being unified *)
LEMMA UnifySolve ==
  ASSUME SolveInv, phase = "unify", phase' = phase, value' = value
  PROVE  SolveInv'
BY DEF SolveInv

(* The constraints unification ends with are what was bound *)
LEMMA EndUnifySolve == ASSUME IInv, SolveInv, EndUnify PROVE SolveInv'
<1>1. /\ 1 \in Param /\ cons \in [Param -> Seq(ConstraintSet)]
  BY ConstraintsAssumption DEF Param, IInv, MergeInv, WorkTyped
<1>2. /\ cons' = cons /\ work' = MergeOf(1) /\ phase = "unify" /\ phase' = "minimize"
      /\ value' = value /\ bound' = [p \in Param |-> Members(cons[p])]
  BY DEF EndUnify, solveVars
<1>3. work'.param = 1 /\ InWork' = Members(cons[1])
  BY <1>2, WorkBegins DEF MergeOf
<1>4. \A p \in Param : Members(cons[p]) \in SUBSET ConstraintSet
  BY <1>1, MembersTyped
<1>5. bound' \in [Param -> SUBSET ConstraintSet]
  BY <1>2, <1>4
<1>6. Backed'
  <2>1. ASSUME NEW p \in Param, Orderly(p)' PROVE Backs(Members(cons[p]), p)'
    <3>1. bound'[p] = Members(cons[p])
      BY <1>2
    <3>2. Members(cons'[p]) = Members(cons[p])
      BY <1>2
    <3> QED BY <2>1, <3>1, <3>2 DEF Backs, Orderly
  <2>2. ASSUME NEW p \in Param, Orderly(p)', work'.param = p PROVE Backs(InWork, p)'
    <3>1. InWork' = Members(cons'[p])
      BY <1>2, <1>3, <2>2
    <3> QED BY <2>1, <2>2, <3>1 DEF Backs
  <2> QED BY <2>1, <2>2 DEF Backed
<1> QED BY <1>2, <1>5, <1>6 DEF SolveInv

(* A step of a merge *)
LEMMA MergeSolve == ASSUME IInv, SolveInv, Merge PROVE SolveInv'
<1>1. /\ work.on /\ phase' = phase /\ value' = value /\ bound' = bound
      /\ cons \in [Param -> Seq(ConstraintSet)] /\ work \in WorkSet /\ work.param \in Param
  BY DEF Merge, MergeNext, MergeMeet, MergePut, EndMerge, Merged, solveVars,
         IInv, MergeInv, WorkTyped
<1>2. phase \notin {"unify", "solve"}
  BY <1>1 DEF IInv, AttemptsInv, SolveInv, ValuesSolved
<1>3. Backed /\ bound \in [Param -> SUBSET ConstraintSet]
  BY <1>2 DEF SolveInv
<1>4. SUFFICES ASSUME NEW p \in Param, Orderly(p)
               PROVE  /\ Backs(Members(cons'[p]), p)
                      /\ work'.on /\ work'.param = p => Backs(InWork', p)
  <2>1. ASSUME \A p \in Param : Orderly(p) =>
                 /\ Backs(Members(cons'[p]), p)
                 /\ work'.on /\ work'.param = p => Backs(InWork', p)
        PROVE  SolveInv'
    BY <1>1, <1>2, <2>1, NotSolvedYet
  <2> QED BY <2>1
<1>5. /\ Backs(Members(cons[p]), p)
      /\ work.param = p => Backs(InWork, p)
  BY <1>1, <1>3, <1>4 DEF Backed
<1>6. CASE MergeNext
  <2>1. InWork' = InWork /\ work'.param = work.param
    BY <1>6, WorkNext DEF IInv
  <2>2. cons' = cons
    BY <1>6 DEF MergeNext
  <2> QED BY <1>5, <2>1, <2>2
<1>7. CASE MergePut
  <2>1. InWork' = InWork /\ work'.param = work.param
    BY <1>7, WorkPut DEF IInv
  <2>2. cons' = cons
    BY <1>7 DEF MergePut
  <2> QED BY <1>5, <2>1, <2>2
<1>8. CASE MergeMeet
  <2>1. cons' = cons
    BY <1>8 DEF MergeMeet
  <2>2. work'.param = work.param
    BY <1>8, WorkMeets DEF IInv
  <2>3. ASSUME work.param = p PROVE Backs(InWork', p)
    <3>1. CASE InWork' = InWork
      BY <1>5, <2>3, <3>1
    <3>2. CASE InWork' # InWork
      <4>1. PICK R \in SUBSET ConstraintSet : \E l, r \in ConstraintSet :
              /\ Intersect(l, r) # NoConstraint
              /\ InWork = R \cup {l} \cup {r} /\ InWork' = R \cup {Intersect(l, r)}
        BY <1>8, <3>2, WorkMeets DEF IInv
      <4>2. PICK l, r \in ConstraintSet :
              /\ Intersect(l, r) # NoConstraint
              /\ InWork = R \cup {l} \cup {r} /\ InWork' = R \cup {Intersect(l, r)}
        BY <4>1
      <4>3. Backs(R \cup {l} \cup {r}, p)
        BY <1>5, <2>3, <4>2
      <4>4. bound[p] \in SUBSET ConstraintSet
        BY <1>3
      <4>5. Backs(R \cup {Intersect(l, r)}, p)
        BY <1>4, <4>2, <4>3, <4>4, MeetBacks
      <4> QED BY <4>2, <4>5
    <3> QED BY <3>1, <3>2
  <2> QED BY <1>5, <2>1, <2>2, <2>3
<1>9. CASE EndMerge
  <2>1. work.at = 0 /\ work.todo = <<>> /\ cons' = [cons EXCEPT ![work.param] = work.saved]
    BY <1>9 DEF EndMerge, Merged
  <2>2. InWork = Members(work.saved)
    <3>1. Members(<<>>) = {}
      BY DEF Members
    <3> QED BY <2>1, <3>1 DEF InWork
  <2>3. Backs(Members(cons'[p]), p)
    <3>1. CASE p = work.param
      BY <3>1, <1>1, <1>5, <2>1, <2>2
    <3>2. CASE p # work.param
      BY <3>2, <1>1, <1>5, <2>1
    <3> QED BY <3>1, <3>2
  <2>4. CASE work.param < Params /\ phase # "select"
    <3> DEFINE q == work.param + 1
    <3>1. work' = MergeOf(q)
      BY <1>9, <2>4 DEF EndMerge
    <3> HIDE DEF q
    <3>2. work'.param = q /\ InWork' = Members(cons[q])
      BY <3>1, WorkBegins DEF MergeOf
    <3> QED BY <1>5, <2>3, <3>2
  <2>5. CASE ~(work.param < Params /\ phase # "select")
    <3>1. work' = NoWork
      BY <1>9, <2>5 DEF EndMerge
    <3>2. ~work'.on
      BY <3>1 DEF NoWork
    <3> QED BY <2>3, <3>2
  <2> QED BY <2>4, <2>5
<1> QED BY <1>6, <1>7, <1>8, <1>9 DEF Merge

LEMMA ExpandSolve == ASSUME IInv, SolveInv, Expand PROVE SolveInv'
<1>1. /\ cons' = cons /\ work' = MergeOf(1) /\ value' = value /\ bound' = bound
      /\ phase \notin {"unify", "solve"} /\ phase' \notin {"unify", "solve"}
  BY DEF Expand, solveVars
<1>2. work'.param = 1 /\ InWork' = Members(cons[1])
  BY <1>1, WorkBegins DEF MergeOf
<1>3. ASSUME NEW p \in Param, Orderly(p)
      PROVE  /\ Backs(Members(cons'[p]), p)
             /\ work'.on /\ work'.param = p => Backs(InWork', p)
  <2>1. Backs(Members(cons[p]), p)
    BY <1>1, <1>3 DEF SolveInv, Backed
  <2> QED BY <1>1, <1>2, <2>1
<1> QED BY <1>1, <1>3, NotSolvedYet

LEMMA EraseSolve == ASSUME IInv, SolveInv, EraseOwners PROVE SolveInv'
<1>1. /\ cons \in [Param -> Seq(ConstraintSet)] /\ value' = value /\ bound' = bound
      /\ phase \notin {"unify", "solve"} /\ phase' \notin {"unify", "solve"}
      /\ work' = NoWork /\ cons' = [p \in Param |-> Owned(cons[p], Owner[p])]
  BY DEF EraseOwners, solveVars, IInv, MergeInv, WorkTyped, Owned
<1>2. ~work'.on
  BY <1>1 DEF NoWork
<1>3. ASSUME NEW p \in Param, Orderly(p)
      PROVE  /\ Backs(Members(cons'[p]), p)
             /\ work'.on /\ work'.param = p => Backs(InWork', p)
  <2>1. Backs(Members(cons[p]), p)
    BY <1>1, <1>3 DEF SolveInv, Backed
  <2>2. cons'[p] = Owned(cons[p], Owner[p]) /\ cons[p] \in Seq(ConstraintSet)
    BY <1>1
  <2>3. Backs(Members(Owned(cons[p], Owner[p])), p)
    BY <2>1, <2>2, EraseBacks
  <2> QED BY <1>2, <2>2, <2>3
<1> QED BY <1>1, <1>3, NotSolvedYet

LEMMA SelectSolve == ASSUME IInv, SolveInv, NEW q \in Param, SelectSize(q) PROVE SolveInv'
<1> DEFINE s == WithSizes(q)
<1>1. /\ cons \in [Param -> Seq(ConstraintSet)] /\ value' = value /\ bound' = bound
      /\ phase = "select" /\ phase' = "select" /\ cons' = [cons EXCEPT ![q] = s]
      /\ work' = [MergeOf(q) EXCEPT !.todo = s, !.before = Members(s)]
      /\ OnlyLiterals(q)
  BY DEF SelectSize, solveVars, IInv, MergeInv, WorkTyped
<1>2. s = Sized(cons[q])
  BY DEF WithSizes, Sized
<1> HIDE DEF s
<1>3. work'.param = q /\ InWork' = Members(s)
  <2>1. work' = [on |-> TRUE, param |-> q, todo |-> s, saved |-> <<>>,
                 item |-> NoConstraint, at |-> 0, before |-> Members(s)]
    BY <1>1 DEF MergeOf
  <2> QED BY <2>1, WorkBegins
<1>4. ASSUME NEW p \in Param, Orderly(p)
      PROVE  /\ Backs(Members(cons'[p]), p)
             /\ work'.on /\ work'.param = p => Backs(InWork', p)
  <2>1. Backs(Members(cons[p]), p)
    BY <1>1, <1>4 DEF SolveInv, Backed
  <2>2. CASE p # q
    BY <1>1, <1>3, <2>1, <2>2
  <2>3. CASE p = q
    <3>1. cons[q] \in Seq(ConstraintSet) /\ \A c \in Members(cons[q]) : c.type \in Literal
      BY <1>1 DEF OnlyLiterals
    <3>2. Backs(Members(s), q)
      BY <1>2, <2>1, <2>3, <3>1, SizeBacks
    <3> QED BY <1>1, <1>3, <2>3, <3>2
  <2> QED BY <2>2, <2>3
<1> QED BY <1>1, <1>4, NotSolvedYet

LEMMA ReconcileSolve ==
  ASSUME IInv, SolveInv, NEW dead \in SUBSET Candidate, Reconcile(dead) PROVE SolveInv'
<1>1. /\ ~work.on /\ phase \in {"select", "solve"} /\ phase' = "solve" /\ culled' = dead
      /\ cons' = cons /\ work' = work /\ bound' = bound
      /\ value' = [p \in Param |-> IF cons[p] # <<>> /\ Owner[p] \notin dead
                                   THEN Solved(p, dead) ELSE value[p]]
  BY DEF Reconcile
<1>2. bound \in [Param -> SUBSET ConstraintSet] /\ Backed
  BY <1>1 DEF SolveInv
<1>3. \A p \in Param : cons[p] = <<>> => value[p] = NoType
  BY <1>1 DEF SolveInv, ValuesSolved
<1>4. ASSUME NEW p \in Param, NEW D PROVE Solved(p, D)' = Solved(p, D)
  BY <1>1 DEF Solved, OfKind, Held, At
<1>5. bound' \in [Param -> SUBSET ConstraintSet] /\ Backed'
  <2>1. ASSUME NEW p \in Param, Orderly(p)
        PROVE  /\ Backs(Members(cons'[p]), p)
               /\ work'.on /\ work'.param = p => Backs(InWork', p)
    BY <1>1, <1>2, <2>1 DEF Backed
  <2> QED BY <1>1, <1>2, <2>1, BackedNext
<1>6. ValuesSolved'
  <2>1. ~work'.on /\ culled' \in SUBSET Candidate
    BY <1>1
  <2>2. ASSUME NEW p \in Param, cons'[p] = <<>> PROVE value'[p] = NoType
    BY <1>1, <1>3, <2>2
  <2>3. ASSUME NEW p \in Param, cons'[p] # <<>>, Owner[p] \notin dead
        PROVE  value'[p] = Solved(p, dead)
    BY <1>1, <2>3
  <2>4. \A p \in Param : Solved(p, culled)' = Solved(p, dead)
    BY <1>1 DEF Solved, OfKind, Held, At
  <2> QED BY <1>1, <2>1, <2>2, <2>3, <2>4 DEF ValuesSolved
<1> QED BY <1>1, <1>5, <1>6 DEF SolveInv

LEMMA SolveStep == ASSUME IInv, SolveInv, [Next]_vars PROVE SolveInv'
<1>1. CASE UNCHANGED vars
  <2>1. /\ phase' = phase /\ cons' = cons /\ work' = work /\ value' = value
        /\ culled' = culled /\ bound' = bound
    BY <1>1 DEF vars, solveVars
  <2>2. Backed' <=> Backed
    BY <2>1 DEF Backed, Backs, Orderly, InWork
  <2>3. ValuesSolved' <=> ValuesSolved
    BY <2>1 DEF ValuesSolved, Solved, OfKind, Held, At
  <2> QED BY <2>1, <2>2, <2>3 DEF SolveInv
<1>2. CASE \E o \in Offers : Bind(o)
  BY <1>2, UnifySolve DEF Bind, solveVars
<1>3. CASE OpenAttempt \/ KeepAttempt \/ FailAttempt
  BY <1>3, UnifySolve DEF OpenAttempt, KeepAttempt, FailAttempt, solveVars
<1>4. CASE EndUnify
  BY <1>4, EndUnifySolve
<1>5. CASE Simplify
  BY <1>5, MergeSolve, ExpandSolve, EraseSolve, SelectSolve DEF Simplify
<1>6. CASE \E dead \in SUBSET Candidate : Reconcile(dead)
  BY <1>6, ReconcileSolve
<1> QED BY <1>1, <1>2, <1>3, <1>4, <1>5, <1>6 DEF Next

(* What a parameter is solved for satisfies all it was bound to that still *)
(* counts, however its constraints were merged, rid of owners and given    *)
(* sizes on the way, and whichever candidates are culled or brought back   *)
(* (TypeAssignment::findSingularSolution(), after ConstraintSet::minimize()*)
(* and BindingEnv's simplification).                                       *)
THEOREM SolutionsSatisfyBindings == Spec => []SolutionTakesBindings
<1>1. Init => SolveInv
  BY SolveInit
<1>2. IInv /\ SolveInv /\ [Next]_vars => SolveInv'
  BY SolveStep
<1>3. IInv /\ SolveInv => SolutionTakesBindings
  <2> SUFFICES ASSUME IInv, SolveInv, phase = "solve", NEW p \in Param,
                      value[p] # NoType, Owner[p] \notin culled, Orderly(p)
               PROVE  Allows(bound[p], value[p], culled)
    BY DEF SolutionTakesBindings
  <2> DEFINE T == TypesOf(bound[p])
  <2>1. /\ cons[p] # <<>> /\ value[p] = Solved(p, culled) /\ culled \in SUBSET Candidate
        /\ bound[p] \in SUBSET ConstraintSet /\ Backs(Members(cons[p]), p)
    BY DEF SolveInv, ValuesSolved, Backed
  <2>2. T \in SUBSET Type /\ Ordered(T)
    BY <2>1 DEF Orderly, TypesOf, ConstraintSet
  <2>3. cons[p] \in Seq(ConstraintSet)
    BY DEF IInv, MergeInv, WorkTyped
  <2>4. TypesOf(Members(cons[p])) \subseteq T \cup Solution /\ LiteralsFit(Members(cons[p]))
    BY <2>1 DEF Backs
  <2> HIDE DEF T
  <2>5. Solved(p, culled) \in Type /\ Allows(Members(cons[p]), Solved(p, culled), culled)
    BY <2>1, <2>2, <2>3, <2>4, SolvedAccepts
  <2> QED BY <2>1, <2>5 DEF Backs
<1> QED BY <1>1, <1>2, <1>3, Invariant, PTL DEF Spec
=============================================================================

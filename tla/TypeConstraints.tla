-------------------------- MODULE TypeConstraints ---------------------------
(***************************************************************************)
(* How the compiler finds the types of template parameters: unification    *)
(* binds each parameter to constraints, in attempts that may fail and be   *)
(* taken back; the constraints are simplified, literals get a size, and    *)
(* each parameter is solved, again whenever candidates are culled.  A      *)
(* constraint holds as long as its provisions do: the candidates it        *)
(* depends on are not culled.  The types a parameter is bound to are       *)
(* closed: constraints between parameters are left out.                    *)
(***************************************************************************)
EXTENDS Integers, Sequences, FiniteSets

CONSTANTS
  Type,         \* sized types and literals
  Literal,      \* the types of literals
  Sub(_, _),    \* TypeRelation::isSubtype
  Base(_, _),   \* Type::commonBase, or NoType
  SizeOf(_),    \* the type chosen for a literal
  NoType,
  Params,       \* the number of parameters
  Candidate,    \* candidates, as provisions
  Owner,        \* [1 .. Params -> Candidate]: primaryProvision()
  Rival(_, _),  \* two candidates of one call
  Offers,       \* bound: the bindings unification may ask for
  MaxBindings,  \* bound: bindings
  MaxAttempts   \* bound: attempts inside one another

Param == 1 .. Params
Kinds == {"exact", "upper", "lower"}
Solution == Type \ Literal

ASSUME ConstraintsAssumption ==
  /\ Params \in Nat \ {0} /\ MaxBindings \in Nat /\ MaxAttempts \in Nat
  /\ Literal \subseteq Type /\ NoType \notin Type
  /\ Owner \in [Param -> Candidate]
  /\ \A o \in Offers : /\ o.param \in Param /\ o.type \in Type
                       /\ o.kind \in Kinds /\ o.provisions \subseteq Candidate
  /\ \A t \in Literal : SizeOf(t) \in Solution

(* What merging relies on: subtyping orders the types of the constraints   *)
(* and those a parameter can become.                                       *)
Ordered(T) ==
  \A u \in Solution :
    /\ Sub(u, u)
    /\ \A s \in T : Sub(s, u) /\ Sub(u, s) => s = u
    /\ \A s, t \in T : /\ Sub(s, t) /\ Sub(t, u) => Sub(s, u)
                       /\ Sub(u, s) /\ Sub(s, t) => Sub(u, t)

(* What solving relies on: sized types are ordered, literals are below one *)
(* another and below sized types, and a common base is above both.  A      *)
(* literal below another need not be a subtype of what holds the other.    *)
ASSUME SubtypeAssumption ==
  /\ Ordered(Solution)
  /\ \A l \in Literal : Sub(l, l)
  /\ \A l, m, n \in Literal : Sub(l, m) /\ Sub(m, n) => Sub(l, n)
  /\ \A l \in Literal : \A t, u \in Solution : Sub(l, t) /\ Sub(t, u) => Sub(l, u)
  /\ \A t \in Solution : \A l \in Literal : ~Sub(t, l)
  /\ \A t, u \in Type :
       Base(t, u) # NoType =>
         Base(t, u) \in Solution /\ Sub(t, Base(t, u)) /\ Sub(u, Base(t, u))

VARIABLES
  phase,      \* "unify", "minimize", "expand", "select" or "solve"
  cons,       \* [Param -> Seq(constraint)]: constraints()
  count,      \* stateCount_
  attempts,   \* the open attempts: [count, cons], cons as history
  work,       \* the list being merged
  loop,       \* [passes, changed] of the expansion
  value,      \* [Param -> Type or NoType]: value()
  culled,     \* the candidates culled when it was found
  bound       \* history: cons when unification was done

unifyVars == <<count, attempts>>
solveVars == <<value, culled>>
vars == <<phase, cons, unifyVars, work, loop, solveVars, bound>>

Constraint(t, k, p, n) == [type |-> t, kind |-> k, provisions |-> p, state |-> n]
Members(s) == {s[i] : i \in DOMAIN s}
Without(s, i) == SubSeq(s, 1, i - 1) \o SubSeq(s, i + 1, Len(s))

-----------------------------------------------------------------------------
(* Constraints.                                                            *)

Accepts(c, t) ==
  CASE c.kind = "exact" -> t = c.type
    [] c.kind = "lower" -> Sub(c.type, t)
    [] c.kind = "upper" -> Sub(t, c.type)

Consistent(p) == \A x, y \in p : ~Rival(x, y)

NoConstraint == [type |-> NoType]

(* Mutant: the narrower of two lower bounds is kept.                       *)
IntersectNarrower(l, r) ==
  LET lenientL == l.provisions \subseteq r.provisions
      lenientR == r.provisions \subseteq l.provisions
  IN CASE lenientL /\ l.kind = r.kind /\ Sub(l.type, r.type) -> l
       [] lenientR /\ l.kind = r.kind /\ Sub(r.type, l.type) -> r
       [] OTHER -> NoConstraint

(* intersect(): one constraint for two, if it says the same.  The one that *)
(* depends on fewer candidates is the more lenient.                        *)
Intersect(l, r) ==
  LET lenientL == l.provisions \subseteq r.provisions
      lenientR == r.provisions \subseteq l.provisions
      below == Sub(l.type, r.type) /\ ~Sub(r.type, l.type)
      above == Sub(r.type, l.type) /\ ~Sub(l.type, r.type)
      same == l.type = r.type
      takesL == /\ lenientL
                /\ \/ same /\ (l.kind = r.kind \/ l.kind = "exact")
                   \/ below /\ l.kind \in {"upper", "exact"} /\ r.kind = "upper"
                   \/ above /\ r.kind = "lower" /\ l.kind \in {"lower", "exact"}
      takesR == /\ lenientR
                /\ \/ same /\ (l.kind = r.kind \/ r.kind = "exact")
                   \/ below /\ l.kind = "lower" /\ r.kind \in {"lower", "exact"}
                   \/ above /\ r.kind \in {"upper", "exact"} /\ l.kind = "upper"
  IN CASE takesL -> l
       [] ~takesL /\ takesR -> r
       [] same /\ lenientL /\ lenientR /\ {l.kind, r.kind} = {"lower", "upper"} ->
            Constraint(l.type, "exact", l.provisions, 0)
       [] OTHER -> NoConstraint

-----------------------------------------------------------------------------
(* Unification.                                                            *)

NoWork == [on |-> FALSE, param |-> 0, todo |-> <<>>, saved |-> <<>>,
           item |-> NoConstraint, at |-> 0, before |-> {}]

(* The bounds a parameter is declared with come first, with state 0.       *)
Init ==
  /\ phase = "unify" /\ count = 0 /\ attempts = <<>>
  /\ cons \in [Param -> {<<>>} \cup
        {<<Constraint(o.type, o.kind, o.provisions \cup {Owner[o.param]}, 0)>> :
           o \in {b \in Offers : b.kind = "upper"}}]
  /\ \A p \in Param : \A c \in Members(cons[p]) : Owner[p] \in c.provisions
  /\ work = NoWork /\ loop = [passes |-> 0, changed |-> FALSE]
  /\ value = [p \in Param |-> NoType] /\ culled = {} /\ bound = [p \in Param |-> {}]

(* A provision of its own joins those the binding came with; a binding     *)
(* whose provisions exclude each other is dropped.                         *)
Combined(o) == o.provisions \cup {Owner[o.param]}
AlreadyBound(o) ==
  \E c \in Members(cons[o.param]) :
    c.type = o.type /\ c.kind = o.kind /\ c.provisions = Combined(o)

(* Mutant: the state is counted after the binding.                         *)
BindBeforeCount(o) ==
  /\ phase = "unify" /\ count < MaxBindings
  /\ ~AlreadyBound(o) /\ Consistent(Combined(o))
  /\ count' = count + 1
  /\ cons' = [cons EXCEPT ![o.param] =
                Append(@, Constraint(o.type, o.kind, Combined(o), count))]
  /\ UNCHANGED <<phase, attempts, work, loop, solveVars, bound>>

Bind(o) ==
  /\ phase = "unify" /\ count < MaxBindings
  /\ ~AlreadyBound(o) /\ Consistent(Combined(o))
  /\ count' = count + 1
  /\ cons' = [cons EXCEPT ![o.param] =
                Append(@, Constraint(o.type, o.kind, Combined(o), count + 1))]
  /\ UNCHANGED <<phase, attempts, work, loop, solveVars, bound>>

(* A candidate, a prospect of an ambiguous type, a base class or a member  *)
(* of a union is tried, and kept or taken back.                            *)
OpenAttempt ==
  /\ phase = "unify" /\ Len(attempts) < MaxAttempts
  /\ attempts' = Append(attempts, [count |-> count, cons |-> cons])
  /\ UNCHANGED <<phase, cons, count, work, loop, solveVars, bound>>

KeepAttempt ==
  /\ phase = "unify" /\ attempts # <<>>
  /\ attempts' = SubSeq(attempts, 1, Len(attempts) - 1)
  /\ UNCHANGED <<phase, cons, count, work, loop, solveVars, bound>>

(* backtrack(): later bindings are taken from the end of each list.        *)
Kept(s, n) ==
  LET Stays == {i \in DOMAIN s : s[i].state <= n}
  IN IF Stays = {} THEN 0 ELSE CHOOSE i \in Stays : \A j \in Stays : j <= i
FailAttempt ==
  /\ phase = "unify" /\ attempts # <<>>
  /\ LET saved == attempts[Len(attempts)].count
     IN /\ count' = saved
        /\ cons' = [p \in Param |-> SubSeq(cons[p], 1, Kept(cons[p], saved))]
  /\ attempts' = SubSeq(attempts, 1, Len(attempts) - 1)
  /\ UNCHANGED <<phase, work, loop, solveVars, bound>>

-----------------------------------------------------------------------------
(* Simplification.  A list is merged into a new one: each of its           *)
(* constraints absorbs those of the new list that it can be intersected    *)
(* with and is put at its end.                                             *)

MergeOf(p) ==
  [on |-> TRUE, param |-> p, todo |-> cons[p], saved |-> <<>>,
   item |-> NoConstraint, at |-> 0, before |-> Members(cons[p])]

EndUnify ==
  /\ phase = "unify" /\ attempts = <<>>
  /\ bound' = [p \in Param |-> Members(cons[p])]
  /\ phase' = "minimize" /\ work' = MergeOf(1)
  /\ UNCHANGED <<cons, unifyVars, loop, solveVars>>

MergeNext ==
  /\ work.on /\ work.at = 0 /\ work.todo # <<>>
  /\ work' = [work EXCEPT !.item = Head(work.todo), !.todo = Tail(work.todo), !.at = 1]
  /\ UNCHANGED <<phase, cons, unifyVars, loop, solveVars, bound>>

(* The new list's constraint comes first in insertAndOptimize(), second in *)
(* minimize().                                                             *)
Met == IF phase = "expand" THEN Intersect(work.saved[work.at], work.item)
       ELSE Intersect(work.item, work.saved[work.at])

MergeMeet ==
  /\ work.on /\ work.at \in 1 .. Len(work.saved)
  /\ work' = IF Met = NoConstraint THEN [work EXCEPT !.at = @ + 1]
             ELSE [work EXCEPT !.saved = Without(work.saved, work.at), !.item = Met]
  /\ UNCHANGED <<phase, cons, unifyVars, loop, solveVars, bound>>

MergePut ==
  /\ work.on /\ work.at > Len(work.saved)
  /\ work' = [work EXCEPT !.saved = Append(@, work.item), !.item = NoConstraint, !.at = 0]
  /\ UNCHANGED <<phase, cons, unifyVars, loop, solveVars, bound>>

Merged == work.on /\ work.at = 0 /\ work.todo = <<>>
Alike(c) == [type |-> c.type, kind |-> c.kind, provisions |-> c.provisions]

(* Mutant: the lists are compared after they were swapped, with themselves.*)
SameNever(r, s) == r # s

Same(r, s) ==
  Len(r) = Len(s) /\ {Alike(c) : c \in Members(r)} = {Alike(c) : c \in Members(s)}

EndMerge ==
  /\ Merged
  /\ cons' = [cons EXCEPT ![work.param] = work.saved]
  /\ work' = IF work.param < Params /\ phase # "select" THEN MergeOf(work.param + 1) ELSE NoWork
  /\ loop' = IF phase = "expand"
               THEN [loop EXCEPT !.changed = @ \/ ~Same(work.saved, cons[work.param])]
               ELSE loop
  /\ UNCHANGED <<phase, unifyVars, solveVars, bound>>

(* Constraints are merged again until a pass changes none; the compiler    *)
(* exits in the seventh.                                                   *)
MaxPasses == 6
Expand ==
  /\ ~work.on /\ loop.passes <= MaxPasses
  /\ phase = "minimize" \/ (phase = "expand" /\ loop.changed)
  /\ phase' = "expand" /\ work' = MergeOf(1)
  /\ loop' = [passes |-> loop.passes + 1, changed |-> FALSE]
  /\ UNCHANGED <<cons, unifyVars, solveVars, bound>>

(* A parameter's own provision is redundant now: it is solved only while   *)
(* its candidate lives.                                                    *)
EraseOwners ==
  /\ ~work.on /\ phase = "expand" /\ ~loop.changed /\ loop.passes <= MaxPasses
  /\ cons' = [p \in Param |->
                [i \in DOMAIN cons[p] |->
                   [cons[p][i] EXCEPT !.provisions = @ \ {Owner[p]}]]]
  /\ phase' = "select" /\ work' = NoWork
  /\ UNCHANGED <<unifyVars, loop, solveVars, bound>>

(* Literals that nothing else bounds become integers of a size.            *)
OnlyLiterals(p) == cons[p] # <<>> /\ \A c \in Members(cons[p]) : c.type \in Literal
WithSizes(p) ==
  [i \in DOMAIN cons[p] |-> [cons[p][i] EXCEPT !.type = SizeOf(cons[p][i].type)]]
SelectSize(p) ==
  /\ ~work.on /\ phase = "select" /\ OnlyLiterals(p)
  /\ cons' = [cons EXCEPT ![p] = WithSizes(p)]
  /\ work' = [MergeOf(p) EXCEPT !.todo = WithSizes(p), !.before = Members(WithSizes(p))]
  /\ UNCHANGED <<phase, unifyVars, loop, solveVars, bound>>

-----------------------------------------------------------------------------
(* findSingularSolution().                                                 *)

(* The places of the constraints whose candidates are all there, and of    *)
(* those that are of one kind.                                             *)
Held(p, dead) == {i \in DOMAIN cons[p] : cons[p][i].provisions \cap dead = {}}
OfKind(p, k, dead) == {i \in Held(p, dead) : cons[p][i].kind = k}
At(p, I) == {cons[p][i] : i \in I}

(* The types at the places I are joined or met one after another; NoType   *)
(* if there are none, or two of them cannot be.                            *)
Fold(s, I, F) ==
  LET fold[n \in Nat] ==
        IF n = 0 THEN NoType
        ELSE IF n \notin I THEN fold[n - 1]
        ELSE IF \A i \in I : n <= i THEN s[n].type
        ELSE IF fold[n - 1] = NoType THEN NoType ELSE F[<<fold[n - 1], s[n].type>>]
  IN fold[Len(s)]
Join ==
  [q \in Type \X Type |->
     IF Sub(q[2], q[1]) THEN q[1] ELSE IF Sub(q[1], q[2]) THEN q[2] ELSE Base(q[1], q[2])]
Meet ==
  [q \in Type \X Type |->
     IF Sub(q[2], q[1]) THEN q[2] ELSE IF Sub(q[1], q[2]) THEN q[1] ELSE NoType]

AcceptedBy(t, C) == IF t # NoType /\ \A c \in C : Accepts(c, t) THEN t ELSE NoType

(* Mutant: the upper bounds are not looked at once there is a lower one.   *)
SolvedWithoutUpper(p, dead) ==
  LET exact == OfKind(p, "exact", dead)
      lower == OfKind(p, "lower", dead)
  IN CASE exact # {} -> AcceptedBy((CHOOSE c \in At(p, exact) : TRUE).type, At(p, Held(p, dead)))
       [] exact = {} /\ lower # {} -> Fold(cons[p], lower, Join)
       [] OTHER -> Fold(cons[p], OfKind(p, "upper", dead), Meet)

Solved(p, dead) ==
  LET exact == OfKind(p, "exact", dead)
      lower == OfKind(p, "lower", dead)
      upper == OfKind(p, "upper", dead)
  IN CASE exact # {} -> AcceptedBy((CHOOSE c \in At(p, exact) : TRUE).type, At(p, Held(p, dead)))
       [] exact = {} /\ lower # {} -> AcceptedBy(Fold(cons[p], lower, Join), At(p, upper))
       [] OTHER -> Fold(cons[p], upper, Meet)

(* reconcileConstraints(), after any candidates were culled or brought     *)
(* back: parameters of culled candidates keep the value they had.          *)
Reconcile(dead) ==
  /\ ~work.on /\ phase \in {"select", "solve"}
  /\ phase = "select" => \A p \in Param : ~OnlyLiterals(p)
  /\ phase' = "solve" /\ culled' = dead
  /\ value' = [p \in Param |->
                 IF cons[p] # <<>> /\ Owner[p] \notin dead THEN Solved(p, dead) ELSE value[p]]
  /\ UNCHANGED <<cons, unifyVars, work, loop, bound>>

Merge == MergeNext \/ MergeMeet \/ MergePut \/ EndMerge
Simplify == Merge \/ Expand \/ EraseOwners \/ \E p \in Param : SelectSize(p)
Next ==
  \/ \E o \in Offers : Bind(o)
  \/ OpenAttempt \/ KeepAttempt \/ FailAttempt \/ EndUnify
  \/ Simplify
  \/ \E dead \in SUBSET Candidate : Reconcile(dead)

Spec == Init /\ [][Next]_vars /\ WF_vars(Simplify)

-----------------------------------------------------------------------------
(* Properties.                                                             *)

(* Taking an attempt back leaves the constraints as they were before it:   *)
(* none of its own stays, none of an earlier one is lost, whatever was     *)
(* tried and kept inside.                                                  *)
FailedAttemptLeavesNothing ==
  [][FailAttempt => cons' = attempts[Len(attempts)].cons]_vars

Allows(C, t, dead) == \A c \in C : c.provisions \cap dead = {} => Accepts(c, t)
SameMeaning(C, D) ==
  \A t \in Solution : \A dead \in SUBSET Candidate : Allows(C, t, dead) <=> Allows(D, t, dead)
InWork ==
  Members(work.saved) \cup Members(work.todo) \cup (IF work.at = 0 THEN {} ELSE {work.item})
TypesOf(C) == {c.type : c \in C}

(* At every step of a merge the constraints allow what they allowed before *)
(* it, whichever candidates are culled later.                              *)
MergingKeepsMeaning ==
  work.on /\ Ordered(TypesOf(work.before)) => SameMeaning(InWork, work.before)

(* Literals bound a parameter from below, and fit the size that is chosen  *)
(* for them, as one that 64 bits do not hold does not.                     *)
LiteralsFit(C) ==
  \A c \in C : c.type \in Literal => c.kind = "lower" /\ Sub(c.type, SizeOf(c.type))

(* The type found for a parameter satisfies every constraint unification   *)
(* bound it to, if the candidates it depends on are still there.           *)
Orderly(p) == Ordered(TypesOf(bound[p])) /\ LiteralsFit(bound[p])
SolutionTakesBindings ==
  phase = "solve" =>
    \A p \in Param :
      value[p] # NoType /\ Owner[p] \notin culled /\ Orderly(p) =>
        Allows(bound[p], value[p], culled)

(* The compiler never exits from the loop of simplification.               *)
SimplificationEnds == phase = "minimize" ~> phase = "select"
=============================================================================

------------------------- MODULE CompilerGCProofs --------------------------
(***************************************************************************)
(* For every heap and every number of files short of the range of          *)
(* cycleIndex_, the compiler's collector frees nothing that is in use and  *)
(* marks exactly what is in use.                                           *)
(***************************************************************************)
EXTENDS CompilerGC, TLAPS

(* The files of one run do not exhaust the cycle numbers *)
NoWrap == MaxSweeps < CycleMod

(* The inductive invariant: no object has a cycle number above the current *)
(* one, so that a new cycle starts with nothing marked; during the sweep   *)
(* the roots are marked and a marked object that is not pending has been   *)
(* traced.                                                                 *)
Heap ==
    /\ pc \in {"mutator", "module", "sweep"}
    /\ alloc \subseteq Object /\ module \subseteq alloc
    /\ edges \in [Object -> SUBSET Object]
    /\ cycle \in [Object -> Nat]
    /\ sweeps \in 0..MaxSweeps /\ cycleIndex = sweeps
    /\ pc = "module" => sweeps < MaxSweeps

NoneAhead == \A o \in Object : cycle[o] <= cycleIndex

Traced == \A o \in Marked : o \in Pending \/ edges[o] \subseteq Marked

Tricolor ==
    /\ pc = "sweep" => roots \subseteq Marked /\ Traced
    /\ pc = "sweep" => tracing \subseteq Marked
    /\ pc = "mutator" => Pending = {} /\ module = {}

InUse == Reachable(roots \cup module)

Precise ==
    /\ pc # "mutator" => Pending \subseteq InUse
    /\ pc = "sweep" => Marked \subseteq InUse

IInv == Heap /\ NoneAhead /\ NoDangling /\ Tricolor /\ Precise

USE CycleAssumption

-----------------------------------------------------------------------------
(* A closed set that contains the start contains all that is reachable *)
LEMMA ReachableLeast ==
    ASSUME NEW S, NEW C \in SUBSET Object, S \subseteq C, IsClosed(C)
    PROVE  Reachable(S) \subseteq C
BY DEF Reachable

(* The start is reachable *)
LEMMA ReachableStart ==
    ASSUME NEW S, S \subseteq Object
    PROVE  S \subseteq Reachable(S)
BY DEF Reachable

(* What a reachable object refers to is reachable *)
LEMMA ReachableClosed ==
    ASSUME NEW S, edges \in [Object -> SUBSET Object]
    PROVE  \A o \in Reachable(S) : edges[o] \subseteq Reachable(S)
BY DEF Reachable, IsClosed

(* More start, more reachable *)
LEMMA ReachableMonotone ==
    ASSUME NEW S, NEW T, S \subseteq T
    PROVE  Reachable(S) \subseteq Reachable(T)
BY DEF Reachable

-----------------------------------------------------------------------------
(* mark() raises no cycle number above the current one *)
LEMMA MarkTypes ==
    ASSUME cycle \in [Object -> Nat], NEW S, NEW i \in Nat, Mark(S, i),
           \A o \in Object : cycle[o] <= i
    PROVE  /\ cycle' \in [Object -> Nat]
           /\ \A o \in Object : cycle'[o] <= i
           /\ \A o \in Object : cycle'[o] = i <=> (o \in S \/ cycle[o] = i)
BY DEF Mark, Unmarked

(* A call of o->trace() marks what o refers to and leaves what it found    *)
(* unmarked to be traced.                                                  *)
LEMMA VisitMarks ==
    ASSUME IInv, NEW o \in alloc, Visit(o), UNCHANGED <<alloc, cycleIndex, edges>>
    PROVE  /\ cycle' \in [Object -> Nat]
           /\ NoneAhead'
           /\ Marked' = Marked \cup edges[o]
           /\ Pending' = (Pending \ {o}) \cup (edges[o] \ Marked)
           /\ tracing' \subseteq tracing \cup (edges[o] \ Marked)
<1>1. cycleIndex \in Nat
  BY DEF IInv, Heap
<1>2. Mark(edges[o], cycleIndex)
  BY DEF Visit
<1>3. /\ cycle' \in [Object -> Nat]
      /\ \A x \in Object : cycle'[x] <= cycleIndex
      /\ \A x \in Object : cycle'[x] = cycleIndex <=>
            (x \in edges[o] \/ cycle[x] = cycleIndex)
  BY <1>1, <1>2, MarkTypes DEF IInv, Heap, NoneAhead
<1>4. edges[o] \subseteq alloc /\ alloc \subseteq Object
  BY DEF IInv, Heap, NoDangling
<1>5. Marked' = Marked \cup edges[o]
  BY <1>3, <1>4 DEF Marked
<1>6. NoneAhead'
  BY <1>3, <1>4 DEF NoneAhead
<1>7. Unmarked(edges[o], cycleIndex) = edges[o] \ Marked
  BY <1>4 DEF Unmarked, Marked
<1>8. /\ Pending' = (Pending \ {o}) \cup (edges[o] \ Marked)
      /\ tracing' \subseteq tracing \cup (edges[o] \ Marked)
  BY <1>7 DEF Visit, Pending
<1> QED
  BY <1>3, <1>5, <1>6, <1>8

(* The invariant holds of the empty heap *)
LEMMA InitIInv == Init => IInv
BY DEF Init, IInv, Heap, NoneAhead, NoDangling, Tricolor, Precise, Pending

(* What the compiler does to the heap between two sweeps *)
LEMMA MutatorStep ==
    ASSUME IInv,
           \/ \E o \in Object : New(o) \/ AddRoot(o)
           \/ \E x, y \in Object : Link(x, y) \/ Unlink(x, y)
    PROVE  IInv'
<1>1. ASSUME NEW o \in Object, New(o) PROVE IInv'
  BY <1>1 DEF New, IInv, Heap, NoneAhead, NoDangling, Tricolor, Precise, Pending
<1>2. ASSUME NEW o \in Object, AddRoot(o) PROVE IInv'
  BY <1>2 DEF AddRoot, markVars, IInv, Heap, NoneAhead, NoDangling, Tricolor,
              Precise, Pending
<1>3. ASSUME NEW x \in Object, NEW y \in Object, Link(x, y) PROVE IInv'
  BY <1>3 DEF Link, markVars, IInv, Heap, NoneAhead, NoDangling, Tricolor,
              Precise, Pending
<1>4. ASSUME NEW x \in Object, NEW y \in Object, Unlink(x, y) PROVE IInv'
  BY <1>4 DEF Unlink, markVars, IInv, Heap, NoneAhead, NoDangling, Tricolor,
              Precise, Pending
<1> QED
  BY <1>1, <1>2, <1>3, <1>4

(* mod->trace() begins: its references are reachable from it *)
LEMMA FinishFileStep ==
    ASSUME IInv, NEW o \in Object, FinishFile(o)
    PROVE  IInv'
<1>1. o \in alloc
  BY DEF FinishFile, IInv, NoDangling
<1>2. Visit(o) /\ UNCHANGED <<alloc, cycleIndex, edges>>
  BY DEF FinishFile
<1>3. /\ cycle' \in [Object -> Nat]
      /\ NoneAhead'
      /\ Pending' = (Pending \ {o}) \cup (edges[o] \ Marked)
  BY <1>1, <1>2, VisitMarks
<1>4. Pending' \subseteq edges[o]
  BY <1>3 DEF FinishFile, IInv, Tricolor
<1>5. edges[o] \subseteq InUse'
  <2>1. o \in Reachable(roots' \cup module')
    BY DEF FinishFile, Reachable
  <2>2. edges[o] \subseteq Reachable(roots' \cup module')
    BY <2>1, ReachableClosed DEF IInv, Heap
  <2> QED
    BY <2>2 DEF FinishFile, InUse, Reachable, IsClosed
<1>6. Heap'
  BY <1>1, <1>3 DEF FinishFile, IInv, Heap
<1>7. NoDangling'
  BY <1>1, <1>4 DEF FinishFile, IInv, NoDangling
<1> QED
  BY <1>3, <1>4, <1>5, <1>6, <1>7 DEF FinishFile, IInv, Tricolor, Precise

(* One more call of trace(), before the sweep or in it *)
LEMMA TraceStep ==
    ASSUME IInv, NEW o \in Object, TraceModule(o) \/ TraceObject(o)
    PROVE  IInv'
<1>1. /\ Visit(o) /\ o \in Pending /\ pc \in {"module", "sweep"}
      /\ UNCHANGED <<pc, alloc, cycleIndex, edges, roots, held, module, sweeps>>
  BY DEF TraceModule, TraceObject, Pending
<1>2. o \in alloc
  BY <1>1 DEF IInv, NoDangling
<1>3. /\ cycle' \in [Object -> Nat]
      /\ NoneAhead'
      /\ Marked' = Marked \cup edges[o]
      /\ Pending' = (Pending \ {o}) \cup (edges[o] \ Marked)
      /\ tracing' \subseteq tracing \cup (edges[o] \ Marked)
  BY <1>1, <1>2, VisitMarks
<1>4. Heap'
  BY <1>1, <1>3 DEF IInv, Heap
<1>5. NoDangling'
  BY <1>1, <1>2, <1>3 DEF IInv, NoDangling
<1>6. Tricolor'
  BY <1>1, <1>3 DEF IInv, Tricolor, Traced
<1>7. edges[o] \subseteq InUse
  BY <1>1, ReachableClosed DEF IInv, Precise, Heap, InUse
<1>8. InUse' = InUse
  BY <1>1 DEF InUse, Reachable, IsClosed
<1>9. Precise'
  BY <1>1, <1>3, <1>7, <1>8 DEF IInv, Precise
<1> QED
  BY <1>3, <1>4, <1>5, <1>6, <1>9 DEF IInv

(* A new cycle: since no number is ahead, only the roots are marked *)
LEMMA BeginSweepStep ==
    ASSUME NoWrap, IInv, BeginSweep
    PROVE  IInv'
<1>1. cycleIndex' = cycleIndex + 1 /\ cycleIndex \in Nat
  BY DEF BeginSweep, IInv, Heap, NoWrap
<1>2. \A o \in Object : cycle[o] <= cycleIndex + 1 /\ cycle[o] # cycleIndex + 1
  BY <1>1 DEF IInv, NoneAhead, Heap
<1>3. Mark(roots, cycleIndex + 1)
  BY <1>1 DEF BeginSweep
<1>4. /\ cycle' \in [Object -> Nat]
      /\ \A o \in Object : cycle'[o] <= cycleIndex + 1
      /\ \A o \in Object : cycle'[o] = cycleIndex + 1 <=>
            (o \in roots \/ cycle[o] = cycleIndex + 1)
  BY <1>1, <1>2, <1>3, MarkTypes DEF IInv, Heap
<1>5. alloc \subseteq Object /\ roots \subseteq alloc
  BY DEF IInv, Heap, NoDangling
<1>6. Marked' = roots
  BY <1>1, <1>2, <1>4, <1>5 DEF Marked, BeginSweep
<1>7. tracing' = roots
  BY <1>1, <1>2, <1>5 DEF BeginSweep, Unmarked
<1>8. NoneAhead'
  BY <1>1, <1>4, <1>5 DEF NoneAhead, BeginSweep
<1>9. Heap'
  BY <1>1, <1>4 DEF BeginSweep, IInv, Heap
<1>10. NoDangling'
  BY <1>5, <1>7 DEF BeginSweep, IInv, NoDangling, Pending
<1>11. Tricolor'
  BY <1>6, <1>7 DEF BeginSweep, Tricolor, Traced, Pending
<1>12. InUse' = InUse
  BY DEF BeginSweep, InUse, Reachable, IsClosed
<1>13. roots \cup module \subseteq InUse
  BY <1>5, ReachableStart DEF InUse, IInv, Heap
<1>14. Precise'
  BY <1>6, <1>7, <1>12, <1>13 DEF BeginSweep, IInv, Precise, Pending
<1> QED
  BY <1>8, <1>9, <1>10, <1>11, <1>14 DEF IInv

(* With nothing pending the marked objects are closed, so all that is      *)
(* reachable is kept.                                                      *)
LEMMA NothingPending ==
    ASSUME IInv, pc = "sweep", Pending = {}
    PROVE  IsClosed(Marked) /\ Reachable(roots) \subseteq Marked
<1>1. IsClosed(Marked) /\ roots \subseteq Marked /\ Marked \in SUBSET Object
  BY DEF IInv, Tricolor, Traced, IsClosed, Heap, Marked
<1> QED
  BY <1>1, ReachableLeast

(* Deleting the unmarked objects *)
LEMMA FreeStep ==
    ASSUME IInv, FreeUnmarked
    PROVE  IInv'
<1>1. IsClosed(Marked) /\ Reachable(roots) \subseteq Marked
  BY NothingPending DEF FreeUnmarked
<1>2. alloc' = Marked /\ held' = Reachable(roots) /\ roots \subseteq Marked
  BY DEF FreeUnmarked, IInv, Tricolor
<1>3. Heap' /\ NoneAhead'
  BY DEF FreeUnmarked, IInv, Heap, NoneAhead, Marked
<1>4. NoDangling'
  BY <1>1, <1>2 DEF FreeUnmarked, NoDangling, Pending, IsClosed
<1> QED
  BY <1>3, <1>4 DEF FreeUnmarked, IInv, Tricolor, Precise, Pending

(* The invariant is inductive while the cycle numbers last *)
LEMMA StepIInv ==
    ASSUME NoWrap, IInv, [Next]_vars
    PROVE  IInv'
<1>1. CASE Mutate
  BY <1>1, MutatorStep, FinishFileStep DEF Mutate
<1>2. CASE Collect
  BY <1>2, TraceStep, BeginSweepStep, FreeStep DEF Collect
<1>3. CASE UNCHANGED vars
  BY <1>3 DEF vars, IInv, Heap, NoneAhead, NoDangling, Tricolor, Traced, Precise,
              Pending, Marked, InUse, Reachable, IsClosed
<1> QED
  BY <1>1, <1>2, <1>3 DEF Next

(* The invariant holds in every run *)
LEMMA AlwaysIInv == ASSUME NoWrap PROVE Spec => []IInv
BY InitIInv, StepIInv, PTL DEF Spec

-----------------------------------------------------------------------------
(* The fields of the collector keep their types; cycleIndex_ never wraps.  *)
THEOREM TypesAreCorrect == ASSUME NoWrap PROVE Spec => []TypeOK
<1>1. IInv => TypeOK
  <2> SUFFICES ASSUME IInv PROVE TypeOK
    OBVIOUS
  <2>1. alloc \subseteq Object /\ held \subseteq alloc /\ roots \subseteq alloc
        /\ Pending \subseteq alloc /\ module \subseteq alloc
    BY DEF IInv, Heap, NoDangling
  <2>2. cycleIndex \in 0..(CycleMod - 1)
    BY DEF IInv, Heap, NoWrap
  <2>3. cycle \in [Object -> 0..(CycleMod - 1)]
    BY <2>2 DEF IInv, Heap, NoneAhead
  <2> QED
    BY <2>1, <2>2, <2>3 DEF IInv, Heap, TypeOK, Pending
<1> QED
  BY <1>1, AlwaysIInv, PTL

(* A sweep frees nothing that the compiler, a root or a surviving object   *)
(* still refers to, whatever the references and the unfinished tracing     *)
(* that mod->trace() left.                                                 *)
THEOREM NothingInUseIsFreed == ASSUME NoWrap PROVE Spec => []NoDangling
<1>1. IInv => NoDangling
  BY DEF IInv
<1> QED
  BY <1>1, AlwaysIInv, PTL

(* When sweep() starts to delete, what is marked is what is in use.        *)
THEOREM MarkingIsExact == ASSUME NoWrap PROVE Spec => []TraceIsExact
<1>1. IInv => TraceIsExact
  BY NothingPending DEF IInv, TraceIsExact, Precise, InUse
<1> QED
  BY <1>1, AlwaysIInv, PTL

(* What neither a root nor the file's module reaches is gone after the     *)
(* sweep.                                                                  *)
THEOREM UnreachableIsFreed == ASSUME NoWrap PROVE Spec => GarbageIsReclaimed
<1>1. IInv /\ [Next]_vars =>
        [pc = "sweep" /\ pc' = "mutator" =>
          \A o \in alloc : o \notin Reachable(roots \cup module) => o \notin alloc']_vars
  <2> SUFFICES ASSUME IInv, [Next]_vars, pc = "sweep", pc' = "mutator"
               PROVE  \A o \in alloc :
                        o \notin Reachable(roots \cup module) => o \notin alloc'
    OBVIOUS
  <2>1. FreeUnmarked
    BY DEF Next, Mutate, Collect, New, AddRoot, FinishFile, Link, Unlink, TraceModule,
           TraceObject, BeginSweep, vars
  <2>2. alloc' = Marked /\ Marked \subseteq InUse
    BY <2>1 DEF FreeUnmarked, IInv, Precise
  <2> QED
    BY <2>2 DEF InUse
<1> QED
  BY <1>1, AlwaysIInv, PTL DEF Spec, GarbageIsReclaimed
=============================================================================

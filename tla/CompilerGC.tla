----------------------------- MODULE CompilerGC -----------------------------
(***************************************************************************)
(* The compiler's own mark-and-sweep collector (Common/GC.cpp, GC.h) and   *)
(* its one caller, AbstractCompiler::processInputFile, which sweeps after  *)
(* every input file.                                                       *)
(*                                                                         *)
(* Each object has a cycle number; an object is marked when that number is *)
(* cycleIndex_, an unsigned char that every sweep increments, so marking   *)
(* never has to be undone.  The objects whose trace() is running and the   *)
(* queue toTrace_ are sets: the order of the visits is left open.          *)
(***************************************************************************)
EXTENDS Naturals, FiniteSets

CONSTANTS
    Object,      \* the addresses malloc() may return
    CycleMod,    \* the number of values of cycleIndex_ (256)
    Deferring,   \* objects whose trace() defers (their references are in a SymbolTable)
    MaxSweeps    \* bound: the number of input files

ASSUME CycleAssumption == /\ CycleMod \in Nat \ {0}
                          /\ Deferring \subseteq Object
                          /\ MaxSweeps \in Nat

VARIABLES
    pc,          \* "mutator", "module" (mod->trace()) or "sweep"
    alloc,       \* the objects of allocList_
    cycle,       \* object -> cycle_
    cycleIndex,
    edges,       \* object -> the objects its trace() marks
    roots,       \* the objects the GCRootBase objects mark
    held,        \* objects the compiler may have a pointer to
    module,      \* {} or the module of the file being finished
    tracing,     \* marked objects whose trace() is still to return
    toTrace,
    sweeps       \* the sweeps begun

vars == <<pc, alloc, cycle, cycleIndex, edges, roots, held, module, tracing,
          toTrace, sweeps>>
markVars == <<cycle, cycleIndex, module, tracing, toTrace, sweeps>>

Marked  == {o \in alloc : cycle[o] = cycleIndex}
Pending == tracing \cup toTrace

(* What can be reached from S: the least set that holds S and the          *)
(* references of its members                                               *)
IsClosed(S)  == \A o \in S : edges[o] \subseteq S
Reachable(S) == {o \in Object : \A C \in SUBSET Object :
                                   S \subseteq C /\ IsClosed(C) => o \in C}

-----------------------------------------------------------------------------
Init ==
    /\ pc = "mutator"
    /\ alloc = {}
    /\ cycle = [o \in Object |-> 0]
    /\ cycleIndex = 0
    /\ edges = [o \in Object |-> {}]
    /\ roots = {} /\ held = {} /\ module = {}
    /\ tracing = {} /\ toTrace = {}
    /\ sweeps = 0

(* Mutant: a new object counts as marked in the coming cycle *)
NewBornMarked(o) ==
    /\ pc = "mutator" /\ o \notin alloc
    /\ alloc' = alloc \cup {o}
    /\ cycle' = [cycle EXCEPT ![o] = (cycleIndex + 1) % CycleMod]
    /\ edges' = [edges EXCEPT ![o] = {}]
    /\ held' = held \cup {o}
    /\ UNCHANGED <<pc, cycleIndex, roots, module, tracing, toTrace, sweeps>>

(* operator new() sets the cycle to cycleIndex_, the constructor to 0 *)
New(o) ==
    /\ pc = "mutator" /\ o \notin alloc
    /\ alloc' = alloc \cup {o}
    /\ cycle' = [cycle EXCEPT ![o] = 0]
    /\ edges' = [edges EXCEPT ![o] = {}]
    /\ held' = held \cup {o}
    /\ UNCHANGED <<pc, cycleIndex, roots, module, tracing, toTrace, sweeps>>

(* The compiler stores or overwrites a reference *)
Link(x, y) ==
    /\ pc = "mutator" /\ x \in held /\ y \in held
    /\ edges' = [edges EXCEPT ![x] = @ \cup {y}]
    /\ UNCHANGED <<pc, alloc, roots, held, markVars>>

Unlink(x, y) ==
    /\ pc = "mutator" /\ x \in held /\ y \in edges[x]
    /\ edges' = [edges EXCEPT ![x] = @ \ {y}]
    /\ UNCHANGED <<pc, alloc, roots, held, markVars>>

(* A type or a module enters a map that is a root *)
AddRoot(o) ==
    /\ pc = "mutator" /\ o \in held
    /\ roots' = roots \cup {o}
    /\ UNCHANGED <<pc, alloc, edges, held, markVars>>

-----------------------------------------------------------------------------
(* mark() and markDeferred() on each object of S *)
Unmarked(S, index) == {o \in S : cycle[o] # index}

Mark(S, index) == cycle' = [o \in Object |-> IF o \in Unmarked(S, index)
                                             THEN index ELSE cycle[o]]

(* Mutant: markDeferred() marks and forgets to defer *)
VisitForgetsDeferred(o) ==
    LET found == Unmarked(edges[o], cycleIndex)
    IN  /\ Mark(edges[o], cycleIndex)
        /\ tracing' = (tracing \ {o}) \cup (IF o \in Deferring THEN {} ELSE found)
        /\ toTrace' = toTrace \ {o}

(* Mutant: an object is traced again whenever a reference to it is found *)
VisitAlways(o) ==
    /\ Mark(edges[o], cycleIndex)
    /\ IF o \in Deferring
       THEN tracing' = tracing \ {o} /\ toTrace' = (toTrace \ {o}) \cup edges[o]
       ELSE tracing' = (tracing \ {o}) \cup edges[o] /\ toTrace' = toTrace \ {o}

(* One call of o->trace() *)
Visit(o) ==
    LET found == Unmarked(edges[o], cycleIndex)
    IN  /\ Mark(edges[o], cycleIndex)
        /\ IF o \in Deferring
           THEN /\ tracing' = tracing \ {o}
                /\ toTrace' = (toTrace \ {o}) \cup found
           ELSE /\ tracing' = (tracing \ {o}) \cup found
                /\ toTrace' = toTrace \ {o}

(* The end of processInputFile(): mod->trace(), which does not mark mod    *)
(* itself.  mod is a root only if it was parsed.                           *)
FinishFile(mod) ==
    /\ pc = "mutator" /\ mod \in held /\ sweeps < MaxSweeps
    /\ Visit(mod)
    /\ pc' = "module" /\ module' = {mod}
    /\ UNCHANGED <<alloc, cycleIndex, edges, roots, held, sweeps>>

(* The calls of trace() that are under way; what they defer waits for the sweep *)
TraceModule(o) ==
    /\ pc = "module" /\ o \in tracing
    /\ Visit(o)
    /\ UNCHANGED <<pc, alloc, cycleIndex, edges, roots, held, module, sweeps>>

(* Mutant: the marks of the previous cycle stay valid *)
BeginSweepSameCycle ==
    /\ pc = "module" /\ tracing = {}
    /\ Mark(roots, cycleIndex)
    /\ tracing' = Unmarked(roots, cycleIndex)
    /\ pc' = "sweep" /\ sweeps' = sweeps + 1
    /\ UNCHANGED <<alloc, cycleIndex, edges, roots, held, module, toTrace>>

(* sweep(): a new cycle begins, and the roots are marked *)
BeginSweep ==
    /\ pc = "module" /\ tracing = {}
    /\ cycleIndex' = (cycleIndex + 1) % CycleMod
    /\ Mark(roots, cycleIndex')
    /\ tracing' = Unmarked(roots, cycleIndex')
    /\ pc' = "sweep" /\ sweeps' = sweeps + 1
    /\ UNCHANGED <<alloc, edges, roots, held, module, toTrace>>

(* Calls of trace() return before toTrace_ is looked at *)
TraceObject(o) ==
    /\ pc = "sweep" /\ (o \in tracing \/ (tracing = {} /\ o \in toTrace))
    /\ Visit(o)
    /\ UNCHANGED <<pc, alloc, cycleIndex, edges, roots, held, module, sweeps>>

(* Delete every object that is not marked.  The file is done, so the       *)
(* compiler has only what its roots give it.                               *)
FreeUnmarked ==
    /\ pc = "sweep" /\ Pending = {}
    /\ alloc' = Marked
    /\ held' = Reachable(roots)
    /\ pc' = "mutator" /\ module' = {}
    /\ UNCHANGED <<cycle, cycleIndex, edges, roots, tracing, toTrace, sweeps>>

Mutate  == \/ \E o \in Object : New(o) \/ AddRoot(o) \/ FinishFile(o)
           \/ \E x, y \in Object : Link(x, y) \/ Unlink(x, y)
Collect == \/ \E o \in Object : TraceModule(o) \/ TraceObject(o)
           \/ BeginSweep \/ FreeUnmarked
Next == Mutate \/ Collect

Spec     == Init /\ [][Next]_vars
FairSpec == Spec /\ WF_vars(Collect)

-----------------------------------------------------------------------------
(* Every variable stays in its type. *)
TypeOK ==
    /\ pc \in {"mutator", "module", "sweep"}
    /\ alloc \subseteq Object
    /\ cycle \in [Object -> 0..(CycleMod - 1)]
    /\ cycleIndex \in 0..(CycleMod - 1)
    /\ edges \in [Object -> SUBSET Object]
    /\ roots \subseteq Object /\ held \subseteq Object
    /\ module \subseteq Object
    /\ tracing \subseteq Object /\ toTrace \subseteq Object
    /\ sweeps \in 0..MaxSweeps

(* Nothing that is in use is ever freed: no pointer the compiler holds, no *)
(* root, no object a trace() will visit and no reference of an object that *)
(* is still allocated leads to a freed object.                             *)
NoDangling ==
    /\ held \subseteq alloc /\ roots \subseteq alloc /\ Pending \subseteq alloc
    /\ \A o \in alloc : edges[o] \subseteq alloc

(* When sweep() starts to delete, exactly the objects in use are marked:   *)
(* all that the roots reach, and nothing that neither they nor the module  *)
(* just compiled reach (mod->trace() may leave objects in toTrace_).       *)
TraceIsExact ==
    pc = "sweep" /\ Pending = {} =>
        /\ Reachable(roots) \subseteq Marked
        /\ Marked \subseteq Reachable(roots \cup module)

(* No object is missed for good: an object that no root reaches when a     *)
(* file is finished, and that the file's module does not reach, is gone    *)
(* when the sweep returns.                                                 *)
GarbageIsReclaimed ==
    [][pc = "sweep" /\ pc' = "mutator" =>
          \A o \in alloc : o \notin Reachable(roots \cup module) => o \notin alloc']_vars

(* "Delete all unmarked objects" (GC.h, sweep), where a mark says that an  *)
(* object is "in-use": what the roots reach is never deleted.              *)
InUseSurvives == Reachable(roots) \subseteq alloc

(* Tracing ends, whatever cycles the references form. *)
SweepEnds == pc # "mutator" ~> pc = "mutator"
=============================================================================

----------------------------- MODULE SemiSpace ------------------------------
(***************************************************************************)
(* The copying collector of the Tart runtime (lib/gc1/tart/gc1/GC1.tart),  *)
(* with the tracing of roots and objects it uses (TraceAction.tart,        *)
(* GCRuntimeSupport.tart) and the objects as compiled code builds them.    *)
(*                                                                         *)
(* Memory is a function from cells to contents: an object is a header cell *)
(* followed by one cell per reference field.  Cells 1..SpaceCells are one  *)
(* semispace and the next SpaceCells the other; 0 is null.  Nothing is     *)
(* ever zeroed, so a cell keeps what it held.                              *)
(***************************************************************************)
EXTENDS Naturals, FiniteSets, Sequences

CONSTANTS
    StackRoot,    \* the variables on the stack that are roots
    StaticRoot,   \* the static variables that are roots
    SpaceCells,   \* the size of a semispace (spaceSize)
    FieldCounts,  \* how many fields an object may have
    Id,           \* identities given to objects, to compare with ObjectHeap,
                  \* or {} where they are not compared
    LateInit,     \* a constructor may allocate before it has set every field
    MaxLive       \* bound: cells the program keeps in use

ASSUME SpaceAssumption == /\ SpaceCells \in Nat \ {0}
                          /\ FieldCounts \subseteq Nat
                          /\ Id \subseteq Nat \ {0}
                          /\ LateInit \in BOOLEAN
                          /\ MaxLive \in Nat

Root == StackRoot \cup StaticRoot
Null == 0
Cell == 1..(2 * SpaceCells)
Ref  == Cell \cup {Null}

VARIABLES
    mem,          \* cell -> contents
    toBegin,      \* toSpace.begin
    pos,          \* toSpace.pos
    roots,        \* root -> the reference it holds
    pc,           \* "program", "roots" or "scan" (collect()), "failed", "corrupt"
    request,      \* the allocation that waits for collect(): <<>> or <<root, fields>>
    toVisit,      \* roots still to trace
    tracePos,     \* the Cheney scan
    unset         \* history: cells of fields no constructor has set yet

vars == <<mem, toBegin, pos, roots, pc, request, toVisit, tracePos, unset>>

-----------------------------------------------------------------------------
(* Contents of a cell: its tag, the reference in it, and for a header the  *)
(* size (gcstate) and the identity of the object                           *)
Object(size, id) == [tag |-> "object", ref |-> Null, size |-> size, id |-> id]
Moved(to)        == [tag |-> "moved", ref |-> to, size |-> 0, id |-> 0]
Field(ref)       == [tag |-> "field", ref |-> ref, size |-> 0, id |-> 0]

toEnd     == toBegin + SpaceCells
fromBegin == IF toBegin = 1 THEN SpaceCells + 1 ELSE 1
InFrom(a) == a >= fromBegin /\ a < fromBegin + SpaceCells   \* contains()

(* What from-space holds after a collection can be seen again only by a    *)
(* field that is not set: without such fields it is not kept.              *)
LeaveFrom(m) == IF LateInit THEN m
                ELSE [c \in Cell |-> IF InFrom(c) THEN Field(Null) ELSE m[c]]

CanAllocOneMore(size) == pos + size <= toEnd + 1

CanAlloc(size) == pos + size <= toEnd

(* The object a reference leads to, moved or not *)
Resolve(a)  == IF a # Null /\ mem[a].tag = "moved" THEN mem[a].ref ELSE a
FieldsOf(h) == (h + 1)..(h + mem[h].size - 1)
SetFields(h) == FieldsOf(h) \ unset

(* The objects the program can reach, by the cell of their header: those   *)
(* the roots lead to, and those n references further                       *)
RootObjects == {Resolve(roots[r]) : r \in Root} \ {Null}
Targets(S)  == (UNION {{Resolve(mem[f].ref) : f \in SetFields(h)} : h \in S}) \ {Null}
Within[n \in Nat] == IF n = 0 THEN RootObjects
                     ELSE LET S == Within[n - 1] IN S \cup Targets(S)

Live == Within[CHOOSE n \in 0..(2 * SpaceCells) : Within[n + 1] = Within[n]]

LiveIds   == {mem[h].id : h \in Live}
LiveCells == Cardinality(UNION {h..(h + mem[h].size - 1) : h \in Live})
FreshId   == IF Id = {} THEN 0 ELSE
             CHOOSE i \in Id \ LiveIds : \A j \in Id \ LiveIds : i <= j

-----------------------------------------------------------------------------
Init ==
    /\ mem = [c \in Cell |-> Field(Null)]
    /\ toBegin = 1 /\ pos = 1
    /\ roots = [r \in Root |-> Null]
    /\ pc = "program"
    /\ request = <<>>
    /\ toVisit = {} /\ tracePos = 1
    /\ unset = {}

(* Once an object was put beyond the end of its space, memory that is not  *)
(* the collector's was overwritten, and the model stops.                   *)
InSpace == pos <= toEnd
At(phase) == pc = phase /\ InSpace

(* SemiSpace.alloc() and the constructor: the fields are null, or still to *)
(* be set and then what was in memory.  An object that does not fit ends   *)
(* beyond the space.                                                       *)
Place(m, r, n) ==
    /\ pos' = pos + n + 1
    /\ \E late \in {FALSE} \cup {LateInit} :
         LET new == (pos + 1)..(pos + n) \cap Cell
         IN  /\ mem' = [c \in Cell |-> IF c = pos THEN Object(n + 1, FreshId)
                                       ELSE IF c \notin new THEN m[c]
                                       ELSE Field(IF late THEN m[c].ref ELSE Null)]
             /\ unset' = IF late THEN unset \cup new ELSE unset \ new
    /\ roots' = [roots EXCEPT ![r] = pos]

SwapSkipsStatics ==
    /\ toBegin' = fromBegin /\ pos' = fromBegin /\ tracePos' = fromBegin
    /\ toVisit' = StackRoot
    /\ pc' = "roots"
    /\ UNCHANGED <<mem, roots, unset>>

(* collect() up to the tracing: swap the spaces and start to fill the new one *)
SwapSpaces ==
    /\ toBegin' = fromBegin /\ pos' = fromBegin /\ tracePos' = fromBegin
    /\ toVisit' = Root
    /\ pc' = "roots"
    /\ UNCHANGED <<mem, roots, unset>>

(* alloc() *)
AllocFits(r, n) ==
    /\ At("program") /\ CanAlloc(n + 1) /\ LiveCells + n + 1 <= MaxLive
    /\ Place(mem, r, n)
    /\ UNCHANGED <<toBegin, pc, request, toVisit, tracePos>>

AllocTooLarge(r, n) ==
    /\ At("program") /\ ~CanAlloc(n + 1) /\ LiveCells + n + 1 <= MaxLive
    /\ 2 * (n + 1) > SpaceCells
    /\ pc' = "failed"
    /\ UNCHANGED <<mem, toBegin, pos, roots, request, toVisit, tracePos, unset>>

AllocCollects(r, n) ==
    /\ At("program") /\ ~CanAlloc(n + 1) /\ LiveCells + n + 1 <= MaxLive
    /\ 2 * (n + 1) <= SpaceCells
    /\ request' = <<r, n>>
    /\ SwapSpaces

(* A call of GC.collect() *)
Collect == At("program") /\ request' = <<>> /\ SwapSpaces

-----------------------------------------------------------------------------
(* tracePointer() on a reference: one that leads outside from-space stays, *)
(* one to a moved object is set to its new place, and any other object is  *)
(* copied and leaves a forwarding pointer.                                 *)
Unmoved(ref) == InFrom(ref) /\ mem[ref].tag = "object"
Stale(ref)   == InFrom(ref) /\ mem[ref].tag \notin {"object", "moved"}

TracedForgetsForwarding(ref) == IF Unmoved(ref) THEN pos ELSE ref

Traced(ref) == IF ~InFrom(ref) THEN ref
               ELSE IF mem[ref].tag = "moved" THEN mem[ref].ref ELSE pos

CopiedUnmarked(ref) ==
    LET new == pos..(pos + mem[ref].size - 1)
    IN  [c \in Cell |-> IF c \in new THEN mem[c - pos + ref] ELSE mem[c]]

Copied(ref) == LET new == pos..(pos + mem[ref].size - 1)
               IN  [c \in Cell |-> IF c \in new THEN mem[c - pos + ref]
                                  ELSE IF c = ref THEN Moved(pos) ELSE mem[c]]

MemAfter(ref)   == IF Unmoved(ref) THEN Copied(ref) ELSE mem
PosAfter(ref)   == IF Unmoved(ref) THEN pos + mem[ref].size ELSE pos
UnsetAfter(ref) == IF Unmoved(ref)
                   THEN (unset \ (pos..(pos + mem[ref].size - 1)))
                        \cup {c - ref + pos : c \in unset \cap FieldsOf(ref)}
                   ELSE unset

(* traceStack(), then traceStaticRoots() *)
TraceRoot(r) ==
    /\ At("roots") /\ r \in toVisit
    /\ r \in StaticRoot => toVisit \cap StackRoot = {}
    /\ ~Stale(roots[r])
    /\ mem' = MemAfter(roots[r]) /\ pos' = PosAfter(roots[r])
    /\ unset' = UnsetAfter(roots[r])
    /\ roots' = [roots EXCEPT ![r] = Traced(roots[r])]
    /\ toVisit' = toVisit \ {r}
    /\ UNCHANGED <<toBegin, pc, request, tracePos>>

RootsTraced ==
    /\ At("roots") /\ toVisit = {}
    /\ pc' = "scan"
    /\ UNCHANGED <<mem, toBegin, pos, roots, request, toVisit, tracePos, unset>>

(* The scan of to-space, a cell at a time: a header holds no reference *)
Scanning(tag) == At("scan") /\ tracePos < pos /\ mem[tracePos].tag = tag

ScanHeader ==
    /\ Scanning("object")
    /\ tracePos' = tracePos + 1
    /\ UNCHANGED <<mem, toBegin, pos, roots, pc, request, toVisit, unset>>

ScanField ==
    /\ Scanning("field")
    /\ LET ref == mem[tracePos].ref
       IN  /\ ~Stale(ref)
           /\ mem' = [MemAfter(ref) EXCEPT ![tracePos] = Field(Traced(ref))]
           /\ pos' = PosAfter(ref)
           /\ unset' = UnsetAfter(ref)
    /\ tracePos' = tracePos + 1
    /\ UNCHANGED <<toBegin, roots, pc, request, toVisit>>

(* A reference that leads to no header is followed all the same: what it   *)
(* then copies is arbitrary, and the model stops.                          *)
FollowStale ==
    /\ \/ Scanning("field") /\ Stale(mem[tracePos].ref)
       \/ At("roots") /\ \E r \in toVisit : Stale(roots[r])
    /\ pc' = "corrupt"
    /\ UNCHANGED <<mem, toBegin, pos, roots, request, toVisit, tracePos, unset>>

ResumeBeforeScan ==
    /\ At("scan") /\ request # <<>>
    /\ Place(LeaveFrom(mem), request[1], request[2])
    /\ pc' = "program" /\ request' = <<>>
    /\ UNCHANGED <<toBegin, toVisit, tracePos>>

(* collect() returns to alloc(), which does not look at the space again *)
ResumeAlloc ==
    /\ At("scan") /\ tracePos = pos /\ request # <<>>
    /\ Place(LeaveFrom(mem), request[1], request[2])
    /\ pc' = "program" /\ request' = <<>>
    /\ UNCHANGED <<toBegin, toVisit, tracePos>>

EndCollect ==
    /\ At("scan") /\ tracePos = pos /\ request = <<>>
    /\ pc' = "program" /\ mem' = LeaveFrom(mem)
    /\ UNCHANGED <<toBegin, pos, roots, request, toVisit, tracePos, unset>>

-----------------------------------------------------------------------------
(* The program: references move between roots and fields.  A field is read *)
(* only after it was set.                                                  *)
SetRoot(r, v) ==
    /\ roots' = [roots EXCEPT ![r] = v]
    /\ UNCHANGED <<mem, toBegin, pos, pc, request, toVisit, tracePos, unset>>

SetField(f, v) ==
    /\ mem' = [mem EXCEPT ![f] = Field(v)]
    /\ unset' = unset \ {f}
    /\ UNCHANGED <<toBegin, pos, roots, pc, request, toVisit, tracePos>>

RootFields == UNION {FieldsOf(roots[r]) : r \in {s \in Root : roots[s] # Null}}
Values     == {Null} \cup {roots[r] : r \in Root}
Loaded     == {mem[f].ref : f \in RootFields \ unset}

Program ==
    \/ At("program") /\ \E r \in Root : \E v \in Values \cup Loaded : SetRoot(r, v)
    \/ At("program") /\ \E f \in RootFields : \E v \in Values : SetField(f, v)
    \/ \E r \in Root, n \in FieldCounts :
          AllocFits(r, n) \/ AllocTooLarge(r, n) \/ AllocCollects(r, n)
    \/ Collect

Collector == \/ \E r \in Root : TraceRoot(r)
             \/ RootsTraced \/ ScanHeader \/ ScanField \/ FollowStale
             \/ ResumeAlloc \/ EndCollect

Next == Program \/ Collector

Spec     == Init /\ [][Next]_vars
FairSpec == Spec /\ WF_vars(Collector)

-----------------------------------------------------------------------------
(* "Allocate an object from toSpace" (GC1.tart, alloc): no object ever     *)
(* extends beyond the end of the space it is allocated or copied in.       *)
AllocatedInToSpace == InSpace

(* The collector follows references to objects only: "'header' is the head *)
(* of" an object (GC1.tart, tracePointer), never stale memory.             *)
TracesObjectsOnly == pc # "corrupt"

(* Only a field that was never set can mislead the collector: while the    *)
(* program runs, each root and each field it set in an object in reach is  *)
(* null or leads to the header of an object outside from-space, whatever   *)
(* earlier collections did with unset fields.                              *)
SetReferencesAreSound ==
    pc = "program" /\ InSpace =>
        \A a \in {roots[r] : r \in Root}
                 \cup UNION {{mem[f].ref : f \in SetFields(h)} : h \in Live} :
            a # Null => ~InFrom(a) /\ mem[a].tag = "object"

(* When the scan ends, to-space holds the objects in reach, each once and  *)
(* nothing else, and no reference into from-space is left.                 *)
CollectionIsExact ==
    pc = "scan" /\ tracePos = pos =>
        /\ pos - toBegin = LiveCells
        /\ \A g, h \in Live : mem[g].id = mem[h].id => g = h
        /\ \A h \in Live : h \in toBegin..(pos - 1)
        /\ \A r \in Root : ~InFrom(roots[r])
        /\ \A h \in Live : \A f \in SetFields(h) : ~InFrom(mem[f].ref)

(* The collector is invisible: the program sees an ideal heap *)
IdOf(a)  == IF Resolve(a) = Null THEN 0 ELSE mem[Resolve(a)].id

HeldIds  == [r \in Root |-> IdOf(roots[r])]
FieldIds == [i \in LiveIds |->
               LET h == CHOOSE h \in Live : mem[h].id = i
               IN  [k \in 1..(mem[h].size - 1) |->
                       IF h + k \in unset THEN 0 ELSE IdOf(mem[h + k].ref)]]

Heap == INSTANCE ObjectHeap WITH NoId <- 0, held <- HeldIds, fields <- FieldIds

ImplementsHeap == Heap!HeapSpec

(* A collection ends, whatever cycles the objects form. *)
CollectionEnds == pc \in {"roots", "scan"} ~> pc \in {"program", "corrupt"}
=============================================================================

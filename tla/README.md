# Tart: a verification project

Tart is a statically typed, object-oriented language. The repository (paths are
given relative to it; `PROJECT.json` has the full ones) holds a compiler and a
linker written in C++ on LLVM, a runtime in C and C++, and a standard library
written in Tart itself, the garbage collector of compiled programs included.
This directory holds TLA+ models of the parts of that system that carry state
through many steps, the TLC instances that check them, and proofs for the parts
that can be proved for every size.

- `tlc -config <run>.cfg <MC module>.tla` repeats a run;
- `tlapm <module>Proofs.tla` repeats the proofs;
- `PROJECT.json` maps each definition to source lines, and lists runs, findings,
  hazards and theorems.

## 1. The system

```
 source files --> lexer, parser --> Module --> analysis passes --> code generation --> LLVM IR
                                      |          |      \                                 |
                               PackageMgr    overload    types, conversions            linker
                               (imports)     search      (ranks)                          |
                                      |         |                                    executable
                     compiler GC sweeps    constraints,                                   |
                     after each file       type assignments     runtime: safepoint table, EH personality,
                                                          entry; library: copying collector, collections
```

| Component | State | Operations | Where it is hard |
|---|---|---|---|
| Overload search (`Sema/Infer`) | which candidate was culled at which search depth, cached ranks and counts, best solution so far, recursion of the elimination | unify, contradiction, three global rank culls, per-site rank culls, specificity, elimination, choice, `finish()` | backtracking by depth; caches that are not refreshed by every stage; a long fixed sequence of stages that assume what the last one left |
| Constraints and type assignments (`Sema/Infer`, `BindingEnv`) | lists of constraints with provisions, a state counter, solutions | unify a parameter, open and take back an attempt, minimise, expand, choose sizes for literals, solve | backtracking of bindings; merging in place; a fixpoint that gives up after six passes |
| Type conversions (`PrimitiveType`, `TypeConversion`, `Operators`) | none | subtype, common base, rank, convert, fold, choose a size | several places that judge the same value; widths and signs |
| Analysis passes (`PassMgr.h`, the analyzers) | passes finished and running per definition, layouts, method tables, the symbols of a module | `analyze`, `begin`, `finish`, one method per pass | passes that need themselves through other definitions, half-finished classes that are used |
| Module import (`PackageMgr`, `Module`, `Scope`) | modules loaded and known to be absent, members, imports and added scopes of each scope | `loadModule`, `import`, `importIntoScope`, `lookupMember` | re-entrancy; what is remembered; scopes in a circle |
| Compiler GC (`Common/GC`) | list of allocations, cycle number per object, current cycle, deferred-trace queue | `operator new`, constructor, `mark`, `markDeferred`, `sweep` | marks that are never cleared; deferred tracing; a one-byte cycle number |
| Copying collector (`lib/gc1`) | two semispaces, allocation position, forwarding pointers, roots on the stack and in statics | `alloc`, `collect`, `tracePointer` | an allocation in the middle of which everything moves; shared and cyclic objects; memory that is not cleared; the space running out |
| Deque (`collections/Deque.tart`) | linked blocks, positions in the first and last, size, mutation counter, iterators | push and pop at both ends, `clear`, `copyElements`, iterate, `__trace` | boundaries of blocks; links at both ends; iterators over a deque that changes; a deque without elements that keeps a block |
| Hash collections (`HashMap.tart`, `HashSet.tart`) | an array of items or of probed places, size, iterators | insert, find, remove, grow, clear, iterate | four probes only; growth that may have to be repeated; gaps after removals; iterators over an array that is replaced |
| Lexer, parser, code generation, metadata | position, builder | one pass over text or tree | size, not interleaving |
| Linker | a module | LLVM passes | safepoint metadata must match the code |
| Safepoint table (`gc_common.cpp`) | open-addressed table | insert, find | probing |
| Exception personality | none beyond the unwinder's phases | find a landing pad, install a context | two phases must agree |
| Runtime entry and files | file handles | wrappers of system calls | none of their own |
| Array collections | buffer, size | insert, remove, grow | overlap |
| Streams and text, reflection, tools | buffers, tables | | |

What makes each modelled component right:

- *Overload search*: a candidate is available after a backtrack exactly when it
  was before the branch; no stage but unification and contradiction takes a
  site's last candidate; elimination misses no better choice; the choice made is
  coherent; the search ends.
- *Constraints*: a failed attempt leaves no binding; simplifying a list does not
  change what it allows; what is chosen satisfies every binding that still
  holds; simplification ends.
- *Conversions*: a program that compiles without a report computes with the
  values it means; overload resolution, conversion and the choice of sizes agree.
- *Analysis passes*: analysis ends; no pass stays marked as running unless a
  class is reported; circular inheritance is rejected; layouts and method tables
  of a class extend those of its superclass; what is generated is complete;
  attributes are built from known classes.
- *Module import*: a name that was looked up stays what it was; what an import
  statement names is found once the import is done; lookups end.
- *Compiler GC*: nothing the compiler can still use is freed; everything else
  goes; a sweep ends on cyclic graphs.
- *Copying collector*: the program cannot tell that objects moved; each object
  is copied once; only objects in reach are; no object leaves its space; a
  collection ends.
- *Deque*: it is a sequence, whatever blocks the sequence lies in; links, size
  and positions agree; an iterator shows the sequence or throws.
- *Hash collections*: they are maps and sets, answers and removals included;
  every item is found; iteration misses none and repeats none; growth ends.

How they interact. `AbstractCompiler::processInputFile` parses a file, registers
its module with the package manager, runs the analyzers over its definitions and
generates code; analysis of a name may load and analyze parts of other modules.
The overload search is run by the analysis of a function for one expression at a
time; it asks unification for constraints, `TypeConversion` for ranks, and is the
only user of `cull` and `backtrack`. The compiler GC is called from one place,
the end of `processInputFile`, so no pointer of the C++ stack above it is live
then but the module's; everything else reaches it through `GCRootBase`. The
copying collector is entered from compiled code, at allocations and at explicit
`GC.collect()`; it finds roots through the stack map the linker builds, and asks
an object (`__trace`) for references its type does not describe, which is how
the Deque meets it. The compiler and the runtime are single-threaded in this
commit: the thread hooks of `GC1.tart` are empty. The interleavings of the models
are therefore those of calls and callbacks, not of threads.

## 2. The modules

| Module | What it is |
|---|---|
| `OverloadSearch`, `OverloadSearchProofs` | `TypeInferencePass` over the call sites of one expression; its theorems |
| `TypeConstraints`, `TypeConstraintsProofs` | bindings, constraint lists, solutions of template parameters; theorems |
| `IntegerTypes` | subtypes, common bases, ranks and sizes of the integer types, as operators |
| `IntegerConstants` | one integer on its way through the compiler, over `IntegerTypes` |
| `AnalysisPasses`, `AnalysisPassesProofs` | the analyzers of classes, variables and functions, and their pass managers; theorems |
| `ModuleImport` | the package manager, import statements and lookups |
| `CompilerGC`, `CompilerGCProofs` | the mark-and-sweep collector and its caller; theorems |
| `ObjectHeap` | abstract: what a program may rely on of any collector |
| `SemiSpace`, `SemiSpaceProofs` | the copying collector; refines `ObjectHeap`; theorems |
| `AbstractDeque` | abstract: a deque is a sequence |
| `BlockDeque`, `BlockDequeProofs` | the blocks, links and positions; refines `AbstractDeque`; theorems |
| `AbstractMap` | abstract: a partial function |
| `HashTable`, `HashTableProofs` | the hash collections; refines `AbstractMap`; theorems |
| `NaturalRecursion` | lemmas: induction and recursion over the naturals |
| `MC...` | finite instances for TLC |

`MCTypeConstraints` instantiates `IntegerTypes`, so the constraints are solved
over the types, subtypes and common bases that `IntegerConstants` checks.

Some definitions carry a comment that begins with "Mutant": variants of the
definition after them with one plausible mistake, which a named property refutes
(`PROJECT.json`, "mutants"). No specification uses them.

### 2.1 OverloadSearch

A call site is a number in collection order, a candidate a pair of site and
index. `pc` names the stage of `runImpl()` that runs next, and each stage, or
each pass of its loop, is an action. `pruningDepth` and `searchDepth` are the
fields of the code. What the code caches at `update()` (remaining counts, ranks,
the flags over- and underconstrained) is a function of the candidates live then:
`seen` is that set, and a stage that culls without `update()`, as contradiction
does, leaves `seen` stale exactly as the fields are. The recursion of
`cullByElimination` is the sequence `stack`, one frame of site and choice per
call.

Types are abstracted to the conversion ranks they give: `Problems` is a set of
tables with a rank for each candidate's own arguments (`own`), for each result
passed on as an argument (`conv`), for the outermost result (`outer`), and the
relation `specific`. Unification and contradiction are nondeterministic: any
subset of `Ununifiable` fails, any subset of `Contradictable` is found
unsatisfiable. Those two sets over-approximate the constraint algebra, which
`TypeConstraints` models on its own.

`MostSpecific` is the loop over the candidates of a site with its list of the
best so far: a recursive function over positions, of which `Consider` is one turn.

`trail` is a history variable: `pruningDepth` at the entry of each depth.
`CullsAreUndoable` compares it with what backtracking would restore.

### 2.2 TypeConstraints

A parameter has the list `cons[p]` of constraints, each with a type, a kind
(exact, upper, lower), the candidates it depends on (`provisions`) and the state
it was made in. `Bind` is `unifyWithTypeVar()`: what the list already implies is
not added. `OpenAttempt`, `KeepAttempt` and `FailAttempt` are the callers that
save `stateCount_` and call `backtrack()`; the history field `cons` of an attempt
is what the failed attempt must give back. A merge is taken one comparison at a
time: `work` is the list being walked, the part already merged (`saved`), the
constraint that is inserted and the position of the iterator, so that erasing
while walking is as it is in `insertAndOptimize()`. `Expand`, `EraseOwners` and
`SelectSize` are the parts of `simplifyConstraints()` and
`selectConstantIntegerTypes()`; `Reconcile` is the search for solutions, again
for any set of culled candidates. `MaxPasses` is the constant of the code after
which it calls `exit`.

`Solution` folds a list from its first entry to its last (`Fold`, a recursive
function over the places of the list), since the common base that joins two lower
bounds is not symmetric. `Join` and `Meet` are what it does with two types, in
terms of the parameters `Sub` and `Base`; `SubtypeAssumption` says of these what
`PrimitiveType.cpp` gives: the types that have a size are ordered, a common
base is above both, and the literals, which are below types by their value, are
ordered among themselves and are above no type.

The types bound are closed: a constraint between two parameters, and with it the
replacement of constraints in expansion, is left out, as are function and
composite types and the sites of conditional expressions.

### 2.3 IntegerTypes and IntegerConstants

`IntegerTypes` translates the tables and case analyses of `PrimitiveType.cpp` as
operators: `MoreGeneral` and `LiteralSubtype` (overload resolution),
`VariableRank`, `LiteralRank` and `ConstantRank` (conversion), `BasesToTry`
(`commonBase`), and three ways to choose a size. `Bits` gives each width, so
that an instance can make them small. `IntegerConstants` follows one integer:
`value` is what the compiler or the program has, `exact` what the program means,
`notes` whether something was reported, left its width when folded, or changed
sign. `type` is `literal` until a size is chosen, `known` until it is stored.

### 2.4 AnalysisPasses

`prog` is the program under analysis: who inherits from whom, types and
initializers of fields, bodies of methods, attributes of classes and fields, and
the classes the module declares. The others are imported, in source or compiled
(`p.compiled`): the members of a compiled class are read from metadata
(`mdNode()`), their attributes are objects and not calls. `running` and `finished`
are the two sets of a pass manager. The C++ stack is `stack`: a frame has the
definition, the passes still to run (`todo`, a set, of which `NextPass` is the
first in the order of `runPasses()`), the pass it is in and the steps left of it;
a step asks for another definition (`Call`) or has an effect (`LinkBase`,
`ReserveSuper`, `VisitField`, `PlaceField`, `BuildTable`, `EvaluateAttribute`,
`Symbol`). `SkipPass` and `BeginPass` are `PassMgr::begin()`; its line 50 declares
a function where it means to call one, so a pass that is running is skipped
silently, and the model does the same. `Early` names the pass that is marked
finished before it ends (`ClassAnalyzer.cpp:386`), `Marked` the passes that mark
their end at all, `Guarded` those that mark their beginning too:
`FunctionAnalyzer` only finishes its attribute pass. `AnalyzeMember`,
`AnalyzeQueued` and `Complete` are `analyzeModule()`.

A pass fails when a link would make inheritance circular, or when an analysis
fails that it cannot do without (`must`): that of a base class, of the superclass
whose constructor is needed, of a class that an expression constructs, of the
class of a compiled attribute (`readAttributeList()`, so `resolveAttributes()`). A
pass that fails marks its end, or does not: `MarksFailed`. Attribute passes
(`ClassAnalyzer.cpp:225`, `VarAnalyzer.cpp:110`) and the constructor pass
(`ClassAnalyzer.cpp:751`) return with the pass still marked as running, and every
later request then takes it for a pass in progress. The constructor's return is
never taken: a superclass that is linked has begun its attribute and base types by
then, and these are all that can make a construction fail.
`FunctionAnalyzer.cpp:327-330` leaves nothing behind, as `readFunctionType()` has
finished both passes before it can fail (`MDReader.cpp:620`).

What the model simplifies: in source, an attribute's class is asked for its
evaluation even if its construction failed; the expressions of compiled members
are constants; a compiled variable begins with its type and initializer marked as
finished, which here are passes with nothing to do, and a compiled method's
parameter types are finished before the class that owns it is asked for its
members, which no request can tell; methods have no attributes; metadata that
cannot be read is left out, and with it the failure of the scope pass
(`ClassAnalyzer.cpp:212`).

### 2.5 ModuleImport

`world` is the compilation: the input files, for each qualified name what it
declares, imports and inherits, and what each entry of the import path has for it
(nothing, a file, a broken file, an archive). `modules` is `modules_`, negative
entries included; `entries`, `aux` and `super` are the members an import adds, the
auxiliary scopes, and the base of a class. `stack` holds the calls in progress:
the imports of a scope, the lookup of a name, the preparation of a base class.
An import statement is resolved one component of its path at a time
(`ExtendPath`, `FindMember`), first absolutely, then as any name
(`MissImport`); what it has to look into is prepared first (`PrepareMember`), and
that is how one module's imports lead to another's and back. `answers` is a
history variable. A definition is known by its module and the file that it was
read from, because a module can be read from two.

The model allows more than the code: after an error the code analyzes no further
file, and a file's names are looked up in the order its analysis meets them; here
in any order.

### 2.6 CompilerGC

An object of `Object` is an address, so a freed one may be allocated again.
`alloc` is `allocList_`. `edges[o]` is what `o->trace()` marks; `Deferring` are
the objects whose trace uses `markDeferred` (symbol tables). The running
`trace()` calls and the queue `toTrace_` are the sets `tracing` and `toTrace`:
any order of visits is allowed, a superset of the code's.
`FinishFile` is the end of `processInputFile`: the module is traced with the
index of the *last* cycle, then `BeginSweep` moves to the next. `held` is what
the compiler may still have a pointer to: all it allocated while a file is
compiled, and only what the roots reach afterwards.

Weak pointers are left out: nothing in the compiler adds to `weakPtrs_`.

### 2.7 ObjectHeap and SemiSpace

`SemiSpace` is a memory of cells: an object is a header and one cell per
reference. Spaces, position, forwarding and the Cheney scan are those of
`GC1.tart`; fields that are not references are left out since the collector does
not look at them. The stack walk and the static roots are the roots `StackRoot`
and `StaticRoot`, in that order. `Place` is `alloc()` together with the
constructor. With `LateInit` a constructor may run an allocation before it has
set all its fields: the code generator stores only the type information block
in a new object (`CodeGenCall.cpp`, `genNew`), the constructor sets to null only
the fields it is not known to set (`ConstructorAnalyzer.cpp`), and `self` is a
root from its start (`CodeGenDefn.cpp`). Memory comes from `posix_memalign` and
is never cleared. `unset` is a history variable: the fields not set yet.

Identities (`Id`) exist only to compare with `ObjectHeap`: the mapping sends a
root to the identity of the object it leads to, directly or through a forwarding
pointer, so that a collection is a stuttering step of `ObjectHeap` at every point
of it. In both modules reachability is the least closed set and not a
recursion: `Live` is the set of the objects in reach of the roots of the memory,
`InReach` that of the identities of `ObjectHeap`.

Two states end a behaviour: `pos` beyond the end of the space (the program then
overwrites memory that is not the collector's) and `pc = "corrupt"` (the
collector followed a word that is not a reference). What happens after them is
undefined.

### 2.8 AbstractDeque and BlockDeque

Blocks are addresses with `next`, `prev` and `items`; every field of the class
is a variable. `chain`, a history variable, is the sequence of blocks in use, in
terms of which the links and the size are stated; no guard reads it except to
choose an unused block. One iterator may be open: several would not interact,
since an iterator never writes. `produced` is what it has returned. The items a
new block has, but that were never set, hold `Junk`. `AbstractDeque` is a
sequence with a result and a count of mutations. `copyElements` is the operator
`Written`, a function of the deque and of its two arguments.

### 2.9 AbstractMap and HashTable

`kind` chooses between `HashMap` and `HashSet`, which differ in what they return
and in how they iterate; `hash` is one of a set of hash functions. `data` and
`length` are `_data`. A table of at most `Small` places holds its items in
order; a longer one is probed at four places. Growth is taken item by item:
`BeginGrowth`, `RehashItem`, `GrowFurther` when an item finds no place, and
`EndGrowth`. An iterator keeps the array it was made with: `live` says whether
that is still the array of the collection, `old` is the array after that. The
history `first`, `known` and `disturbed` hold what it should return, may return,
and whether the code is known to repeat an item. `asked`
and `result` are the last operation, its key and its answer; what is in progress,
and what an iterator does, answers nothing.

`AbstractMap` is a partial function with the operations `Put`, `Remove`, `Get` and
`Clear`, each of which says what it answers: a lookup the value of the key asked
for, an addition to a set whether it was new, a removal whether something was
removed. `grown` is the one thing of the table it knows of. `remove()` does nothing
on a table that has grown, and answers false, so the abstract map removes what it
is asked to until `grown`, and nothing after. A collection grows only when a new
key finds the first array full (`First` items), and `Clear` takes it back. The
mapping reads `grown` from the length of the array or a growth in progress.

## 3. The runs

| Run | Instance | What it shows |
|---|---|---|
| `overload_search` | a call passed to another, two candidates each, unification and contradiction may reject; all tables over ranks {lossy, identical}, all specificity relations | culls are undone exactly; depths balance; elimination misses no best selection; only unification and contradiction empty a site; an expression accepted without a report has one coherent candidate per call; the search ends |
| `overload_unique_best` | strict, ranks {lossy, inexact, identical} | **violated**: a unique best selection is counted twice and not chosen |
| `constraints` | two parameters of rival candidates, three candidates, three bindings, two nested attempts; integer types and the literals 1, -1, 7 | a failed attempt leaves nothing; merging keeps what a list allows at every step; solutions satisfy the bindings; simplification ends |
| `constants` | four operations on an integer that starts as a literal; 2, 3, 4, 5 and 6 bits stand for 8 to 128 | what is compiled without a report keeps its value; subtypes, ranks and chosen sizes agree |
| `analysis` | two classes and an attribute class, about 2,300 programs: every way the three can inherit, for two chains every combination of field types, initializers and attributes, and every inheritance again with one or two of the classes compiled and an attribute on a class or a field | analysis ends; a pass is left running only after a reported error; circular bases rejected and reported; fields apart; method tables extended slot by slot; what is generated is complete; attribute fields known |
| `module_import` | three modules of a package and one of the core; classes or namespaces that import, unpack and inherit from each other in about 380 ways; files in two places, missing, broken or in an archive; two input files; up to three different lookups per file | lookups are stable and end; imports are complete |
| `gc_reachable` | three objects, one deferring; two files; every graph | nothing in use freed; marking exact; garbage goes; a sweep ends |
| `gc_wrap` | three cycle numbers, three files | **violated**: the number wraps to that of new objects, and one in use is freed |
| `semispace_exact` | spaces of four cells, objects of zero or one reference, a stack and a static root | the space is never exceeded while the live data fits; collections are exact, end, and refine `ObjectHeap` |
| `semispace_late` | spaces of three cells, up to two references, constructors that allocate | references that were set stay sound even after stale ones were copied |
| `deque_blocks` | four blocks of two, four elements, six mutations, two values | links; size; the iterator; `copyElements` of a tail; refinement of `AbstractDeque` |
| `hash_table` | six keys, three hash functions, a first array of two places, tables up to 32, one change while an iterator is open | every item found; iteration faithful; growth ends; every operation answers as `AbstractMap` says, and removes unless the table has grown |

Why the bounds suffice. Every mechanism of the search involves at most two
sites at once (a cull at one, an emptied site elsewhere), so two sites with two
candidates reach every action; ranks stand for the classes the code compares
against (0; below truncation and below non-preferred; below exact; identical).
Merging compares two constraints at a time, and three bindings give a list in
which a merged one meets a third; two attempts nest. Widths of 2 to 6 bits keep
the order of the real ones and every equality between them that the code tests
(a literal starts in the smallest of three widths, folding and widening go
through all three), so each comparison of bits comes out each way. Three classes
give analysis a chain, a loop of one, two and three, and a class that is reached
while each of the others is in progress. Three modules give a circle of imports
with a module outside of it, and the name `C`, in the package and in the core,
an answer that depends on the order. Three objects give the collector
of the compiler sharing, cycles, and a deferred object between two others, and
two sweeps give it a mark of an earlier cycle. `CycleMod` is small so that a
wrap, at 256 in the code, can happen in a run: with two sweeps it does not, with
three it does. A semispace of four cells holds two linked objects, or a cycle,
and several collections reuse each space. Four blocks of two cells let the deque
cross block boundaries at both ends and shrink to one block and to none. Six
keys fill the four probes of one of them and overflow; the second hash function
makes a rehash fail at one length and repeat at the next.
Symmetry is declared only where no liveness property is checked (`gc_wrap`,
`deque_blocks`), and only on model values the specification does not tell apart.

Deadlock is switched off (`CHECK_DEADLOCK FALSE`) for the search, the
constraints, the constants, the analysis and the imports, which end; for the
compiler's collector, as the compiler stops after its last file; for the copying
collector, whose program may be unable to go on after `Debug.fail`; and for the
hash table, where `MaxLength` gives up a growth. The deque is bounded by
`MaxMutations`, but an iterator can always be opened, so deadlock is checked.

Some properties are stated with an exception, because the code does not keep them
otherwise; each exception is one of the facts of section 7 and no wider:
`UnreportedKeepsValue` (folds out of a width, constants that change sign),
`MergingKeepsMeaning` and `SolutionTakesBindings` (types that subtyping does not
order, which only literals give; the second also literals that do not end below
the size chosen for them: an exact one, or one beyond `int64`),
`FieldsDoNotOverlap` and `MethodTablesExtend` (programs that are `Tangled`),
`AttributeFieldsAreKnown` (an attribute class whose analysis reaches a class it
annotates, or that met an error), `OnlyErrorsAbandonPasses` (modules with a
reported class), `LookupsAreStable` (answers given while an import is in progress,
namespaces that unpack each other), `IterationIsFaithful` of both collections,
`CopyOfRestIsExact` (a copy of less than the rest), `GrowthEnds` (keys of one
hash). `AllocatedInToSpace` is checked where the live cells and one request fit,
`TracesObjectsOnly` for constructors that set their fields first. Such a property
does not catch the excepted case itself, which the code is known to get wrong; it
shows that nothing else leads there.

## 4. Fairness

The search and the analysis are each one loop in one thread: `WF(Next)` says only
that it goes on running. For the constraints fairness is on `Simplify`, for the
hash table on `Growth`, for the collectors on their own steps (`WF(Collect)`,
`WF(Collector)`), never on the caller: once one of these is entered, nothing else
runs until it returns. No strong fairness is used anywhere. Since each fair action
is the only one enabled while its loop runs, weak fairness is the plain assumption
that a running thread takes its next step. `IntegerConstants`, `ModuleImport` and
`BlockDeque` state no fairness: they have no liveness property. That every lookup
ends is part of `LookupsAreStable`, as recursion without end is the state
`overflow` of the model.

## 5. What is proved

All theorems hold for every value of the constants that satisfies the `ASSUME`
of the module they are about. The type invariants of the proved modules are part
of their inductive invariants, so no run repeats them.

**OverloadSearchProofs** (`TypesAreCorrect`, `BacktrackingIsExact`,
`DepthsAreBalanced`, `AcceptedCallsAreCoherent`, `OnlyContradictionLosesSites`,
`EliminationSeesEveryChoice`): for any sites, candidates and
rank tables. The invariant is `IInv == TypeOK /\ CullsAreUndoable /\ Balanced`.
`CullsAreUndoable` alone is not inductive: a backtrack is exact only if it leaves
a depth that was entered, which is what `Balanced` says of each stage, and
`Balanced` needs the stack and the depths to be what their types say. The steps
group the actions into those that descend and cull, that backtrack, and that
leave depths alone; lemmas on `Append` and on the front of a sequence carry
`trail`. That accepted calls are coherent depends on a cache: `finish()` ranks by
what the last `update()` saw. `AcceptInv` says that nothing lives that it did not
see unless something was reported, and that the sites behind the cursor are
accepted; `RankAssumption` says that the tables hold ranks.

That elimination misses no best selection, and that a site is lost only to
unification or contradiction, are about the whole recursion of
`cullByElimination`. `SearchInv` has four parts. `LostInv` says that an empty site
lost its candidates to those two, at the current depths or, while the last culls
are on trial (`OnTrial`), at the depths their backtrack would leave; specificity
needs a lemma that the loop of `MostSpecific` keeps a survivor. `EntryInv` says
what is counted before the walk begins: nothing, or the one solution that the
specificity stage met and took back. `WalkInv` is the recursion. Frames are of
sites in order, and each in progress culled, at its own depth, all that its site
had but the choice it tries (`FrameInv`); what `update()` cached is stale only for
the sites of frames (`SeenInv`); the sites before the cursor are decided
(`CursorInv`); and the counts are those of the complete choices tried, out of the
candidates that lived when the walk began, with one more if specificity counted
it (`TriedInv`). The order of the choices is lexicographic in the frames, but no
induction over it is needed: a complete choice was tried if at some frame it takes
a choice already passed and agrees with what the frames below are trying, and a
step changes that for the last frame only. When no frame is left all were tried,
which is `EndInv`.

**TypeConstraintsProofs** (`MergingIsSound`, `BacktrackingRestores`,
`SolutionsSatisfyBindings`): for any types, candidates and bindings, and any
subtypes and common bases that satisfy `SubtypeAssumption`, which TLC evaluates
for the real tables on the run `constraints`. The heart is
`IntersectMeaning`: the constraint that `intersect()` returns for two allows, for
every solution and every set of culled candidates, what both do, provided
subtyping orders their types. The invariant adds to `MergingKeepsMeaning` that a
merge only ever has types it began with, so that the proviso carries over, and
that the lists are typed; one lemma for each move of the iterator shows that the
constraints in `saved`, `todo` and the one in hand are the same set or have the
same meaning. For backtracking the invariant says of the open attempts that each
list now begins with the list saved, that what follows is of a later state, and
that the saved states increase: then dropping later states from the end gives
back the saved list exactly.

That a solution satisfies what was bound goes from the bindings to the list and
from the list to the solution. For the first, `SolveInv` says (`Backed`) that what
is left of a parameter's constraints, in the list or at work in a merge, allows no
type but what each binding allows whose owner lives. It is one implication, not
the equivalence of `MergingKeepsMeaning`: literals break transitivity, so a merge
may lose on their side, and what the merge loses there has to be shown harmless
for the types that have a size (`IntersectNarrows`, `IntersectFits`). For the
second, lemmas on `Fold` by induction over the places of the list say that the
join of lower bounds is above each and the meet of upper bounds below each
(`JoinAbove`, `MeetBelow`), so that a solution found is accepted by every
constraint left (`SolvedAccepts`). `ValuesSolved` keeps it after the search.

**CompilerGCProofs** (`TypesAreCorrect`, `NothingInUseIsFreed`,
`MarkingIsExact`, `UnreachableIsFreed`): for any set of objects, under
`NoWrap == MaxSweeps < CycleMod`. The assumption is the code's real limit:
the build compiles one file per process (`lib/std/CMakeLists.txt`), so it holds
for up to 255 files in one command; `gc_wrap` shows what happens after. The
invariant has the tri-colour condition (an object marked and not pending has
only marked references), its converse for precision (what is marked is reachable
from the roots, the module, or what the module deferred), and that no object
carries the number of a cycle still to come. Reachability is the least closed
set, so no induction is needed.

**SemiSpaceProofs** (`HeapInvariant`, `ReferencesThatWereSetAreSound`,
`CollectorTracesObjectsOnly`, `ObjectsFitInToSpace`,
`CollectionLeavesTheObjectsInReach`, `CollectorIsInvisible`): for any size of the
spaces, any roots, sizes of objects and identities. The last is the refinement of
`ObjectHeap`. The argument has three invariants, each resting on the one before.

- `HeapInv`: while the position is in to-space there are a set `S` of heads in
  to-space and a set `F` of heads in from-space such that the roots already
  visited and the fields already scanned lead into `S`, the others into `F`, and
  each of `F` is still an object or was moved into `S`. It holds without any
  assumption, of constructors that allocate as well, where it claims nothing of
  the fields not set yet; that the references which were set are sound follows.
  Without such constructors `S` also covers to-space up to the position, so the
  scan goes from one object to the next and never reads stale memory.
- `Fits`: under `~LateInit` and `MaxLive <= SpaceCells`, to-space never overflows.
  The cells that copies take are those of objects in reach, each counted once, and
  what is in reach fits together with the object that waits. A program that has
  more in reach than a space holds does overflow it, as `alloc()` does not test
  again (section 7), so the second assumption is what the code needs, and the
  first is needed because a field not set can keep anything alive.
- `Identified`: objects in reach have different identities. `EnoughIds` asks for
  as many identities as cells, or infinitely many; it is about the names the
  refinement gives to objects, and not about the program.

Every step of the collector relocates the objects in reach: a map of heads that
commutes with roots and references and keeps sizes and identities (`Moves`). What a
collection leaves and what the abstract heap sees are invariant under such a map,
and both theorems follow.

**BlockDequeProofs** (`TypesAreCorrect`, `BlocksStayLinked`,
`SizeMatchesPositions`, `DequeIsASequence`, `IteratorsReturnTheElements`,
`CopiesAreExact`): for any block size, any number of blocks and any bounds.
The invariant is `TypeOK /\ WellLinked /\ SizeIsExact`; none of the three is
inductive alone. A pop follows `next` or `prev` because the size, by the count,
implies a block to leave; the count depends on the links for the last block to
be the one `_tailPos` is about; and the positions stay in range because a block
used up is always given up. One lemma per action that changes the list of blocks
shows how the new list's indexes correspond to the old. The refinement of
`AbstractDeque` needs no more: element `i` of the deque is the item at absolute
position `headPos + i - 1` of the blocks in use, and each mutation moves the
positions by a block or not at all. For the iterator `IterInv` adds that, as long
as no mutation happened, it stands at the position of some element `k`, or just
behind the last; what it returned are then the `k` elements before. A copy of the
tail is exact because the blocks that `copyElements` walks are those of the
positions asked for.

**HashTableProofs** (`ItemsStayFound`, `LookupsSeeAMap`, `IteratorsAreFaithful`):
for any keys, values, hash functions and first array. In a probed table the
invariant says that each item is at one of the four places of its key and that the
places before it hold other keys (`Good`); in a first array that the items come
first and no key twice. It is kept by every insertion because a place is written
only if it was empty or had the key, and by growth because the table that is being
filled satisfies it from the first item on. `ItemsAreFound` follows since a search
stops at the first place that is empty or has the key. For the refinement of
`AbstractMap`, `MapInv` adds that `_size` is the number of keys (`Counts`) and
that during a growth the new table has exactly the items of the old array below
the place in hand (`Copied`): the abstract map goes on with a growth as with
something that answers nothing, until its last step, which adds the item it was
for. That a removal is refused on a grown table only is where the first array and
the table meet: an array of the first length holds its items in order, so what
`findEntry()` finds is what `remove()` takes out. For the iterators `IterInv`
relates what was returned to what the array of the iterator holds before and after
its index, whether that is still the array of the collection or an old one.

**AnalysisPassesProofs** (`CoreInvariant`, `OnlyErrorsLeavePasses`,
`CircularInheritanceIsFound`, `AttributesAreComplete`, `CompletionIsComplete`,
`FieldsAreApart`, `TablesAreWhole`): for any number of classes, with any members,
declarations and references, in any order. The runs try three classes; what makes
these facts hard is that a request for an analysis that is running is skipped, at
any distance on the stack, as if it had been answered. `DeclarationAssumption`,
which only the last two theorems use, says that there are finitely many classes,
so that a chain of superclasses ends, and that a class has a signature once:
`ensureUniqueSignatures` rejects any other. There are five inductive invariants;
the last four each add to the first.

- `Core` says what the stack is. Every frame has the passes and the steps of its
  definition's analyzer, and they are in order: no request comes after the
  operation that uses its result. `Callers` says which frame may fail because of
  the one above it: of a class only the base types, the attribute and the
  constructors (`Demanding`). `RunningIs` and `Alone` say that a frame that is in a
  pass has it marked, and no other frame is in it. `Reported` is about the other
  marks (`Stale`): those are of passes that may fail so, never of a method, and
  some class is flagged. A failure is traced to its flag one
  frame at a time: a class whose analysis failed is flagged, or has such a mark
  already. `OnlyErrorsLeavePasses` is what `Reported` says of `Abandoned`. `Based`
  says that while a class is at its base types, those of its base are seen to. That
  is the pattern of every dependency: `Covers(i, a, P)` says of the frame at `i` that
  the passes `P` of `a` have begun, or `a` has failed (it is flagged, or a pass of it
  was left), or the frame has still to ask, or the frame above it is to run them;
  `CoversKept` shows once and for all that this lasts as long as the frame is in its
  pass.
- `Inheritance`: the links have no loop, a class is flagged only if the
  declarations have one (the first flag comes from a link refused), and base types
  looked at are linked or about to be, or something is flagged. If nothing is
  flagged in the end, then the links are the declarations, so these have no loop
  either. Loops are about `Reach`, a least closed set, so no induction is needed.
- `Annotations`: frames higher on the stack are of classes that those below reach.
  So if an attribute's fields are being analyzed while the attribute is built, its
  analysis has reached the class that it annotates, which the property excludes.
  What remains are attributes that have failed.
- `Completing`: what a thorough pass (field types, completion) asks for runs
  thorough passes, and nothing else does (`Quiet`); the layout of a class does not
  change any more once its field types are looked at (`LaidOut`, `TargetsStay`), so
  what was asked for is still what the class has at the end; and the first frame of
  a symbol has its passes finished, left, or in hand (`Pending`). When no frame is
  left and nothing is flagged, no mark is left either (`Reported`), so what has
  begun is finished.
- `Layouts`, for programs that are not tangled: nothing that the classes above a
  class ask for leads back to it, so its base types are settled before its fields
  and its table are begun (`Settled`). The superclass has the same pass asked for,
  running above, or finished (`Tabled`), and finished when its counts or its table
  are read (`Grounded`). Then every count of inherited fields is right and stays
  so (`FieldsLaid`), and every table is whole and extends the one it was copied
  from (`TablesBuilt`). `FieldCount` is defined by recursion along the
  superclasses; its equation is proved with the height of a class, the number of
  classes above it, which falls along a chain without a loop. That a copied,
  overridden and extended table is whole if the inherited one is, `TableIsWhole`,
  is a fact about sequences alone.

**NaturalRecursion** has no result about the program. The prover cannot use the
library's induction, whose hypothesis is an operator; these lemmas state it over a
*set* of naturals, from the well-foundedness of their order: a set of naturals has
a least element, induction, bounded induction, and that a function defined by
recursion satisfies its equation. `SemiSpaceProofs` needs them for the walk from
one object to the next, `AnalysisPassesProofs` for the steps that a pass takes for
each member and the counts along the superclasses, `OverloadSearchProofs` for the
candidates that survive a comparison and the selections tried,
`TypeConstraintsProofs` for the folds of a list, the others for the first place of
a kind.

## 6. What is only model-checked

- liveness (`Terminates`, `SimplificationEnds`, `AnalysisEnds`, `SweepEnds`,
  `CollectionEnds`, `GrowthEnds`): the provers have no `ENABLED`, and fairness
  needs it;
- `IntegerConstants`, whose values depend on powers of two, and `ModuleImport`,
  which has a recursive operator (`Find`) that no theorem may reach.

## 7. Where code and text disagree

Two disagreements have a run that ends in a counterexample:

1. a solution that specificity found stays counted after the backtrack
   (`overload_unique_best`);
2. the compiler's cycle number wraps to the number of new objects (`gc_wrap`).

The others were met while modelling and are in the models, as the exceptions of
section 3 or as what a definition does:

- *Overload search*: `finish()` of a site with errors revives what was culled
  before it erases; `unify()` gives a number of bindings to `backtrack()`, which
  takes a depth; the assertions of `cullByElimination` (`TypeInference.cpp:623`
  and `652`) can fail after contradiction empties one site while another is
  ambiguous (the state `assertFailed`).
- *Constraints*: a literal is a subtype of another by its signed bits and of a
  type by its value (`PrimitiveType.cpp:1415`), which is not transitive: -1 is
  below 7 and 7 below `uint8`, but -1 is not, and `intersect()` drops the bound
  -1 beside 7. Lower bounds are joined in list order with a `commonBase()` that
  is not symmetric: for `int8` and `uint8` below `int32` one order finds
  `int16` and the other nothing.
- *Conversions*: constants are folded in the width they happen to have and wrap
  silently, while `doc/source/lang/lex.rst:121-126` says that intermediate results may
  have any size; a typed constant is ranked by its bits and not its sign, so a
  `uint8` of 200 converts to `int8` as exact; negation widens -1 instead of the
  smallest value (`Operators.cpp:430`).
- *Analysis*: `PassMgr.h:50` declares a function instead of reporting a pass
  that needs itself. A comment there (`PassMgr.h:28`) calls `running()` the passes
  in progress, but an attribute pass that failed stays among them for good
  (`ClassAnalyzer.cpp:225`, `VarAnalyzer.cpp:110`); a later request for that class
  skips the pass and succeeds. A class reached from its own bases through a field, an
  initializer or an attribute may be laid out against a superclass that is still
  counted (assertions at `ClassAnalyzer.cpp:651` and `712`), and an attribute may
  be built from a class whose fields are unknown (`Constant.cpp:213`).
- *Imports*: a module that imports `core.C` after something that leads to a class
  with base `C` has that base resolved to the `C` of its package, although
  `doc/source/intro/modules.rst:52` says that an import adds the symbol to the
  scope; a module that was looked for and not found can no longer be an input
  file (`PackageMgr.cpp:257`); namespaces that unpack each other are searched
  without end (`Scope.cpp:58`); a module found in two directories is both files
  in one; `import namespace` of a class does nothing; a namespace reached twice
  by unpacking gives its definitions twice.
- *Copying collector*: `alloc()` does not test again after it collected, so an
  object may be placed beyond its space (`GC1.tart:103`); a new object is a root
  before its fields are set, and the collector follows what memory held
  (`GC1.tart:106`).
- *Deque*: `__trace` never advances from the first block (`Deque.tart:42`); an
  iterator over a deque that was emptied from the front returns one item that is
  not an element (`Deque.tart:220`); `copyElements` copies the last block to its
  end whatever count was asked for (`Deque.tart:193`); a pop that throws has
  already counted a mutation (`Deque.tart:123`), which `AbstractDeque` takes over.
- *Hash collections*: five keys of one hash grow the table without end
  (`HashMap.tart:78`); `remove()` does nothing on a table that has grown and
  answers false (`HashMap.tart:206`, `HashSet.tart:182`), where `Map.tart:33-35`
  promises a removal and true; `AbstractMap` states the refusal exactly, so the
  refinement shows that there is no other; an iterator of a `HashSet` returns
  what a removal left behind a first array's items once more
  (`HashSet.tart:287`).

## 8. What is not modelled, and why

- *Lexer and parser*, *code generation and metadata*, the *linker's passes*:
  functions of a text, a tree or a module, without state that outlives one call;
  what is hard in them is the size of their case analyses, which tests reach.
- *Exception personality*: a parser of tables the backend writes, called by the
  unwinder of another library, whose states are not in this repository.
- *Safepoint table*: built once and searched by one function; the walk over the
  stack is part of `SemiSpace`.
- *Runtime entry and files*: wrappers of system calls.
- *Array collections, streams and text, reflection, tools*: one buffer and one
  index, conversions of text, decoding of tables, command lines.
- Of the modelled components: templates and their instantiation, properties,
  enums, interfaces and coercers (analysis, imports); private definitions and
  the `as` clause (imports); constraints between parameters, function and
  composite types (constraints); floating point, enums and references
  (conversions); the thread hooks of the copying collector, which are empty.

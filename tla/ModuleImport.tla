---------------------------- MODULE ModuleImport ----------------------------
(***************************************************************************)
(* How the compiler finds the module, and the definition, that a name      *)
(* stands for.  A name that no scope has is looked for among the modules,  *)
(* which are read when they are first asked for; the import statements of  *)
(* a module are carried out at the first lookup in it.  An import may have *)
(* to look into a namespace or a class of another module, whose imports    *)
(* and base class are then looked up first, and that may lead back to the  *)
(* module that is importing.  The call stack is the variable stack.        *)
(*                                                                         *)
(* A qualified name is a sequence of names.  A scope is a pair <<q, i>>:   *)
(* the module q itself for i = 0, and the class or namespace q that was    *)
(* read from source i (1 is an input file, i + 1 the entry i of the import *)
(* path).  Its member n is <<q, i, n>>.                                    *)
(***************************************************************************)
EXTENDS Integers, Sequences, FiniteSets, TLC

CONSTANTS
  Core,     \* the package that is searched last
  Names,    \* the names a program may use
  MaxAnswers, \* bound: after that many different lookups a file has no more
  Worlds    \* the files of a compilation, and what is in them

VARIABLES
  world,
  modules,   \* modules_ : [qualified names asked for -> what was read]
  running, finished,  \* the scopes with their imports in progress, and done
  created,   \* the classes and namespaces whose members exist
  entries,   \* [scope -> Seq(<<name, definitions>>)]: its explicit imports
  aux,       \* [scope -> Seq(scope)]: the unpacked namespaces
  super,     \* [class -> its base class, <<>> before it is known]
  stack,     \* the calls in progress, the innermost last
  next,      \* the input file that is processed next
  answers,   \* history: the lookups and their results
  outcome    \* "running", or how the compiler stopped

scopes == <<running, finished, created, entries, aux, super>>
vars == <<world, modules, scopes, stack, next, answers, outcome>>

Elems(s) == {s[i] : i \in DOMAIN s}
Last(s) == s[Len(s)]
Front(s) == SubSeq(s, 1, Len(s) - 1)

Qualified == DOMAIN world.kind
Scope == Qualified \X (0 .. 3)
IsModule(s) == s[2] = 0
IsNamespace(d) == Len(d) = 2 /\ d[2] # 0 /\ world.kind[d[1]] = "namespace"
IsClass(d) == Len(d) = 2 /\ d[2] # 0 /\ world.kind[d[1]] = "class"

ASSUME WorldAssumption ==
  /\ MaxAnswers \in Nat
  /\ Core \in Seq(Names)
  /\ \A w \in Worlds :
       LET Q == DOMAIN w.kind
       IN /\ Q \subseteq Seq(Names) \ {<<>>}
          /\ w.kind \in [Q -> {"class", "namespace"}]
          /\ DOMAIN w.path \subseteq Q
          /\ \A q \in DOMAIN w.path : \A i \in DOMAIN w.path[q] :
               i \in {1, 2} /\ w.path[q][i] \in {"none", "file", "broken", "archive"}
          /\ w.members \in [Q -> SUBSET Names] /\ w.base \in [Q -> Names \cup {""}]
          /\ w.input \in Seq(Q)
          /\ \A q \in Q : \A imp \in Elems(w.imports[q]) \cup Elems(w.inner[q]) :
               imp.path \in Seq(Names) \ {<<>>} /\ imp.unpack \in BOOLEAN

-----------------------------------------------------------------------------
(* Loading.                                                                *)

Absent == [defs |-> <<>>, reads |-> 0]

(* Every entry of the import path is asked.  A second file is read into    *)
(* the same module; an archive replaces what was found, and its members    *)
(* hide those of a file after it; a file with errors ends the search, with *)
(* no module.                                                              *)
Searched(q) ==
  LET entry == IF q \in DOMAIN world.path THEN world.path[q] ELSE <<>>
      has == {i \in DOMAIN entry : entry[i] # "none"}
      archives == {i \in has : entry[i] = "archive"}
      from == IF archives = {} THEN 1 ELSE CHOOSE a \in archives : \A b \in archives : b <= a
      read == {i \in has : i >= from}
  IN IF \E i \in has : entry[i] = "broken" THEN Absent
     ELSE [defs |-> SelectSeq([i \in DOMAIN entry |-> i + 1], LAMBDA i :
                      IF archives = {} THEN i - 1 \in read ELSE i - 1 = from),
           reads |-> Cardinality(read)]

(* Mutant: only what was found is remembered.                              *)
LoadedAnew(M, q) ==
  IF q \in DOMAIN M \/ Searched(q).defs = <<>> THEN M ELSE M @@ (q :> Searched(q))

(* loadModule(): what was asked for before, found or not, is known.        *)
Loaded(M, q) == IF q \in DOMAIN M THEN M ELSE M @@ (q :> Searched(q))
Exists(M, q) == q \in DOMAIN M /\ M[q].defs # <<>>

(* Module::import(): the name itself, in our own package, in the core.     *)
Places(m, path, abs) ==
  IF abs THEN <<path>>
  ELSE <<path, Front(m) \o path>> \o (IF Front(m) = Core THEN <<>> ELSE <<Core \o path>>)

Import(m, path, abs) ==
  LET P == Places(m, path, abs)
      try[i \in 1 .. Len(P) + 1] ==  \* the modules loaded before place i
        IF i = 1 THEN modules ELSE Loaded(try[i - 1], P[i - 1])
      hits == {i \in DOMAIN P : Exists(try[i + 1], P[i])}
      hit == CHOOSE i \in hits : \A j \in hits : i <= j
  IN IF hits = {} THEN [modules |-> try[Len(P) + 1], defs |-> <<>>]
     ELSE [modules |-> try[hit + 1],
           defs |-> [i \in DOMAIN try[hit + 1][P[hit]].defs |->
                       <<P[hit], try[hit + 1][P[hit]].defs[i]>>]]

-----------------------------------------------------------------------------
(* Scopes.                                                                 *)

Primaries(q) == [i \in DOMAIN modules[q].defs |-> <<q, modules[q].defs[i]>>]

(* The import statements of a scope; a module has those of each file that  *)
(* was read into it.                                                       *)
Statements(s) ==
  IF ~IsModule(s) THEN IF IsNamespace(s) THEN world.inner[s[1]] ELSE <<>>
  ELSE LET all[n \in 0 .. 3] ==
             IF n = 0 THEN <<>> ELSE all[n - 1] \o world.imports[s[1]]
       IN all[modules[s[1]].reads]

Own(s, n) ==
  LET imported[i \in 0 .. Len(entries[s])] ==
        IF i = 0 THEN <<>>
        ELSE imported[i - 1] \o (IF entries[s][i][1] = n THEN entries[s][i][2] ELSE <<>>)
      declared == IF IsModule(s) THEN IF n = Last(s[1]) THEN Primaries(s[1]) ELSE <<>>
                  ELSE IF s \in created /\ n \in world.members[s[1]]
                         THEN <<s \o <<n>>>> ELSE <<>>
  IN declared \o imported[Len(entries[s])]

(* What is reached from S by steps of a relation.                          *)
Below(S, Step(_)) ==
  LET up[k \in 0 .. Cardinality(Scope)] ==
        IF k = 0 THEN S ELSE LET T == up[k - 1] IN T \cup UNION {Step(t) : t \in T}
  IN up[Cardinality(Scope)]
Added(s) == Elems(aux[s])
Circular(s) == \E t \in Below({s}, Added) : t \in Below(Added(t), Added)
Bases(d) == LET Base(t) == {super[t]} \ {<<>>} IN Below({d}, Base)

(* lookupMember(): a module or namespace has what it declares and what the *)
(* scopes added to it have; a class what it declares, else itself under    *)
(* its name, else what its base has.                                       *)
RECURSIVE Find(_, _)
Find(s, n) ==
  LET rest[i \in 0 .. Len(aux[s])] ==
        IF i = 0 THEN <<>> ELSE rest[i - 1] \o Find(aux[s][i], n)
  IN IF ~IsClass(s) THEN Own(s, n) \o rest[Len(aux[s])]
     ELSE IF Own(s, n) # <<>> THEN Own(s, n)
     ELSE IF n = Last(s[1]) THEN <<s>>
     ELSE IF super[s] = <<>> THEN <<>> ELSE Find(super[s], n)

(* A lookup from inside s, once the imports are done.                      *)
Inside(s, n) == IF IsModule(s) THEN <<>> ELSE Find(s, n)
Outside(s) == <<s[1], 0>>
Answer(s, n) ==
  IF Inside(s, n) # <<>> THEN Inside(s, n)
  ELSE IF Find(Outside(s), n) # <<>> THEN Find(Outside(s), n)
  ELSE Import(s[1], <<n>>, FALSE).defs

-----------------------------------------------------------------------------
(* Calls.                                                                  *)

Top == Last(stack)
Idle == stack = <<>>
At(op) == outcome = "running" /\ ~Idle /\ Top.op = op
SetTop(f) == stack' = Append(Front(stack), f)
Push(f) == stack' = Append(stack, f)

ImportsOf(s, todo) ==
  [op |-> "imports", on |-> s, todo |-> todo,
   at |-> 0, abs |-> TRUE, lost |-> FALSE, vals |-> <<>>]
LookupOf(s, n) == [op |-> "lookup", on |-> s, name |-> n]
BaseOf(d) == [op |-> "base", on |-> d, asked |-> FALSE, vals |-> <<>>]

(* Mutant: a namespace is left as it is.                                   *)
UnreadyModule(s) == IsModule(s) /\ s \notin finished \cup running /\ Statements(s) # <<>>

(* A scope whose imports must be carried out before it is looked into.     *)
Unready(s) ==
  /\ s \notin finished \cup running
  /\ IF IsModule(s) THEN Statements(s) # <<>> ELSE IsNamespace(s)

BeginImports(s) ==
  /\ running' = running \cup {s}
  /\ Push(ImportsOf(s, Statements(s)))
  /\ UNCHANGED <<world, modules, finished, created, entries, aux, super, next, answers, outcome>>

(* A class is prepared: its members, then its base class.                  *)
Unprepared(d) == IsClass(d) /\ d \notin created
BeginBase(d) ==
  /\ created' = created \cup {d}
  /\ Push(BaseOf(d))
  /\ UNCHANGED <<world, modules, running, finished, entries, aux, super, next, answers, outcome>>

Overflow ==
  /\ outcome' = "overflow"
  /\ UNCHANGED <<world, modules, scopes, stack, next, answers>>

Init ==
  /\ world \in Worlds
  /\ modules = << >> /\ running = {} /\ finished = {} /\ created = {}
  /\ entries = [s \in Scope |-> <<>>] /\ aux = [s \in Scope |-> <<>>]
  /\ super = [s \in Scope |-> <<>>]
  /\ stack = <<>> /\ next = 1 /\ answers = {} /\ outcome = "running"

-----------------------------------------------------------------------------
(* Lookups.                                                                *)

(* An answer given while the imports it depends on are in progress may be  *)
(* incomplete.                                                             *)
Early(s) == Below({Outside(s)}, Added) \cap running # {}
Recorded(s, n, vals) ==
  IF Early(s) THEN answers ELSE answers \cup {[on |-> s, name |-> n, vals |-> vals]}

(* Module::lookupMember() carries out the imports first, unless they are   *)
(* in progress.                                                            *)
LookupImports ==
  /\ At("lookup")
  /\ Inside(Top.on, Top.name) = <<>> /\ Unready(Outside(Top.on))
  /\ BeginImports(Outside(Top.on))

(* Namespaces that unpack each other are searched without end.             *)
LookupOverflows ==
  /\ At("lookup")
  /\ Inside(Top.on, Top.name) = <<>> /\ ~Unready(Outside(Top.on))
  /\ Circular(Outside(Top.on))
  /\ Overflow

(* lookupIdent(), then importName().                                       *)
LookupAnswers ==
  /\ At("lookup")
  /\ LET s == Top.on
         within == Inside(s, Top.name) # <<>>
         caller == stack[Len(stack) - 1]
     IN /\ within \/ (~Unready(Outside(s)) /\ ~Circular(Outside(s)))
        /\ modules' = IF within \/ Find(Outside(s), Top.name) # <<>> THEN modules
                      ELSE Import(s[1], <<Top.name>>, FALSE).modules
        /\ answers' = Recorded(s, Top.name, Answer(s, Top.name))
        /\ stack' = IF Len(stack) = 1 THEN <<>>
                    ELSE Append(SubSeq(stack, 1, Len(stack) - 2),
                                [caller EXCEPT !.vals = Answer(s, Top.name)])
  /\ UNCHANGED <<world, scopes, next, outcome>>

-----------------------------------------------------------------------------
(* Base classes.                                                           *)

NeedsBase == world.base[Top.on[1]] # ""

AskBase ==
  /\ At("base") /\ NeedsBase /\ ~Top.asked
  /\ stack' = Append(Append(Front(stack), [Top EXCEPT !.asked = TRUE]),
                     LookupOf(Top.on, world.base[Top.on[1]]))
  /\ UNCHANGED <<world, modules, scopes, next, answers, outcome>>

(* The base is prepared before the class is told of it.                    *)
PrepareBase ==
  /\ At("base") /\ Top.asked /\ Len(Top.vals) = 1 /\ Unprepared(Top.vals[1])
  /\ BeginBase(Top.vals[1])

LinkBase ==
  /\ At("base") /\ Top.asked /\ Len(Top.vals) = 1
  /\ IsClass(Top.vals[1]) /\ ~Unprepared(Top.vals[1]) /\ Top.on \notin Bases(Top.vals[1])
  /\ super' = [super EXCEPT ![Top.on] = Top.vals[1]]
  /\ stack' = Front(stack)
  /\ UNCHANGED <<world, modules, running, finished, created, entries, aux,
                 next, answers, outcome>>

(* A class without a base is done; one whose base is not found, is not one *)
(* class, or inherits from it, fails, and with it those that wait for it.  *)
EndBase ==
  /\ At("base")
  /\ \/ ~NeedsBase /\ stack' = Front(stack)
     \/ /\ Top.asked
        /\ \/ Len(Top.vals) # 1 \/ ~IsClass(Top.vals[1])
           \/ ~Unprepared(Top.vals[1]) /\ Top.on \in Bases(Top.vals[1])
        /\ LET waits == {i \in DOMAIN stack : \A j \in i .. Len(stack) : stack[j].op = "base"}
               first == CHOOSE i \in waits : \A j \in waits : i <= j
           IN stack' = SubSeq(stack, 1, first - 1)
  /\ UNCHANGED <<world, modules, scopes, next, answers, outcome>>

-----------------------------------------------------------------------------
(* Import statements: importIntoScope().  The path is looked up as it is   *)
(* and, if that fails, as any name is; vals is what its first "at" names   *)
(* stand for, and it is lost when they stand for something without the     *)
(* next.                                                                   *)

Imp == Head(Top.todo)
Importing == At("imports") /\ Top.todo # <<>>
Extends == Importing /\ Top.vals = <<>> /\ ~Top.lost /\ Top.at < Len(Imp.path)
Descends == Importing /\ Top.vals # <<>> /\ Top.at < Len(Imp.path)
Resolved == Importing /\ Top.vals # <<>> /\ Top.at = Len(Imp.path)
NextImport == ImportsOf(Top.on, Tail(Top.todo))
LooksInto == (Descends /\ Len(Top.vals) = 1) \/ (Resolved /\ Imp.unpack)

ExtendPath ==
  /\ Extends
  /\ LET found == Import(Top.on[1], SubSeq(Imp.path, 1, Top.at + 1), Top.abs)
     IN /\ modules' = found.modules
        /\ SetTop([Top EXCEPT !.at = @ + 1, !.vals = found.defs])
  /\ UNCHANGED <<world, scopes, next, answers, outcome>>

(* What is looked into is analyzed first.                                  *)
PrepareMember ==
  /\ LooksInto
  /\ LET d == Top.vals[1]
     IN \/ IsNamespace(d) /\ Unready(d) /\ BeginImports(d)
        \/ Descends /\ Unprepared(d) /\ BeginBase(d)

Prepared(d) == ~(IsNamespace(d) /\ Unready(d)) /\ ~(Descends /\ Unprepared(d))
Create(d) == created' = IF IsNamespace(d) THEN created \cup {d} ELSE created

FindMember ==
  /\ Descends
  /\ LET d == Top.vals[1]
         one == Len(Top.vals) = 1
     IN /\ one => Prepared(d) /\ (Len(d) = 2 => ~Circular(d))
        /\ IF one /\ Len(d) = 2
             THEN /\ Create(d)
                  /\ LET vals == Find(d, Imp.path[Top.at + 1])
                     IN SetTop([Top EXCEPT !.at = @ + 1, !.vals = vals, !.lost = vals = <<>>])
             ELSE /\ UNCHANGED created
                  /\ SetTop([Top EXCEPT !.vals = <<>>, !.lost = TRUE])
  /\ UNCHANGED <<world, modules, running, finished, entries, aux, super,
                 next, answers, outcome>>

MemberOverflows ==
  /\ Descends /\ Len(Top.vals) = 1 /\ Len(Top.vals[1]) = 2
  /\ Prepared(Top.vals[1]) /\ Circular(Top.vals[1])
  /\ Overflow

(* An import that is not found is reported, and the next one is tried.     *)
MissImport ==
  /\ Importing /\ Top.vals = <<>> /\ (Top.lost \/ Top.at = Len(Imp.path))
  /\ SetTop(IF Top.abs THEN [ImportsOf(Top.on, Top.todo) EXCEPT !.abs = FALSE] ELSE NextImport)
  /\ UNCHANGED <<world, modules, scopes, next, answers, outcome>>

AddEntry ==
  /\ Resolved /\ ~Imp.unpack
  /\ entries' = [entries EXCEPT ![Top.on] = Append(@, <<Last(Imp.path), Top.vals>>)]
  /\ SetTop(NextImport)
  /\ UNCHANGED <<world, modules, running, finished, created, aux, super,
                 next, answers, outcome>>

(* Only a namespace is unpacked; a class is ignored.                       *)
Unpack ==
  /\ Resolved /\ Imp.unpack /\ Prepared(Top.vals[1])
  /\ LET d == Top.vals[1]
     IN /\ aux' = IF IsNamespace(d) /\ d \notin Elems(aux[Top.on])
                    THEN [aux EXCEPT ![Top.on] = Append(@, d)] ELSE aux
        /\ Create(d)
  /\ SetTop(NextImport)
  /\ UNCHANGED <<world, modules, running, finished, entries, super,
                 next, answers, outcome>>

EndImports ==
  /\ At("imports") /\ Top.todo = <<>>
  /\ running' = running \ {Top.on} /\ finished' = finished \cup {Top.on}
  /\ Create(Top.on)
  /\ stack' = Front(stack)
  /\ UNCHANGED <<world, modules, entries, aux, super, next, answers, outcome>>

-----------------------------------------------------------------------------
(* The input files.                                                        *)

Ready == outcome = "running" /\ Idle
Current == world.input[next - 1]

(* processInputFile(): a file whose module is known is not read again; for *)
(* one that was asked for and not found, addModule() fails its assertion.  *)
NextFile ==
  /\ Ready /\ next <= Len(world.input)
  /\ LET q == world.input[next]
     IN IF Exists(modules, q) THEN UNCHANGED <<modules, outcome>>
        ELSE IF q \in DOMAIN modules THEN outcome' = "assertion" /\ UNCHANGED modules
        ELSE modules' = modules @@ (q :> [defs |-> <<1>>, reads |-> 1]) /\ UNCHANGED outcome
  /\ next' = next + 1
  /\ UNCHANGED <<world, scopes, stack, answers>>

(* The analysis of a file looks up the names it uses, and prepares what it *)
(* declares.                                                               *)
UseName(n) ==
  /\ Ready /\ next > 1 /\ Cardinality(answers) < MaxAnswers
  /\ Push(LookupOf(<<Current, 0>>, n))
  /\ UNCHANGED <<world, modules, scopes, next, answers, outcome>>

AnalyzeDefinition ==
  /\ Ready /\ next > 1
  /\ \E d \in Elems(Primaries(Current)) :
       \/ IsNamespace(d) /\ Unready(d) /\ BeginImports(d)
       \/ Unprepared(d) /\ BeginBase(d)

Lookup == LookupImports \/ LookupAnswers \/ LookupOverflows
Base == AskBase \/ PrepareBase \/ LinkBase \/ EndBase
Imports == ExtendPath \/ PrepareMember \/ FindMember \/ MemberOverflows \/ MissImport
             \/ AddEntry \/ Unpack \/ EndImports
Files == NextFile \/ (\E n \in Names : UseName(n)) \/ AnalyzeDefinition

Next == Lookup \/ Base \/ Imports \/ Files
Spec == Init /\ [][Next]_vars

-----------------------------------------------------------------------------
(* Properties.                                                             *)

(* Every namespace that a statement of s may unpack.                       *)
MayUnpack(s) ==
  {d \in Scope : IsNamespace(d) /\ \E imp \in Elems(Statements(s)) :
                                    imp.unpack /\ Last(imp.path) = Last(d[1])}

(* Whatever is looked up, and in whatever order files are read: unless a   *)
(* namespace unpacks itself in a circle, every lookup comes to an end; and *)
(* once a name has been looked up it stays what it was, except for an      *)
(* answer that was given while imports it depends on were in progress.     *)
LookupsAreStable ==
  /\ outcome = "overflow" =>
       \E d \in Scope : IsNamespace(d) /\ d \in Below(MayUnpack(d), MayUnpack)
  /\ Ready => \A a \in answers :
       Circular(Outside(a.on)) \/ a.vals = Answer(a.on, a.name)

(* The statement names a module, and no part of its path is one too.       *)
Direct(imp) ==
  /\ \A i \in 1 .. Len(imp.path) - 1 : ~Exists(modules, SubSeq(imp.path, 1, i))
  /\ Exists(modules, imp.path) \/ Searched(imp.path).defs # <<>>
Unpacks(s) ==
  {d \in Scope : IsNamespace(d) /\ \E imp \in Elems(Statements(s)) :
     imp.unpack /\ Direct(imp) /\ Exists(modules, imp.path) /\ d = Primaries(imp.path)[1]}

(* The imports of a scope are complete when no call is in progress, even   *)
(* if they led back to it: a definition that a statement names is found    *)
(* under its name, and what a namespace has, or unpacks in turn, is found  *)
(* in whatever unpacks it (doc/source/intro/modules.rst, 76-86).           *)
ImportsAreComplete ==
  Ready => \A s \in finished : Circular(s) \/
    /\ \A imp \in Elems(Statements(s)) : Direct(imp) =>
         /\ Exists(modules, imp.path)
         /\ imp.unpack \/ Elems(Primaries(imp.path)) \subseteq Elems(Find(s, Last(imp.path)))
    /\ \A d \in Below(Unpacks(s), Unpacks) : \A n \in world.members[d[1]] :
         d \o <<n>> \in Elems(Find(s, n))
=============================================================================

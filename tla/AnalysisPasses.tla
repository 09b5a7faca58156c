--------------------------- MODULE AnalysisPasses ---------------------------
(***************************************************************************)
(* Semantic analysis of one module.  Every definition carries a pass       *)
(* manager with the passes that are running and those that have finished;  *)
(* the analyzers of classes, variables and functions run, for a requested  *)
(* task, the passes of that task that are not finished, and a pass may ask *)
(* for other definitions to be analyzed, recursively.  A pass that asks    *)
(* for itself is skipped without a report.  The call stack of analyzers is *)
(* the variable stack: one frame per runPasses() in progress.              *)
(*                                                                         *)
(* The program that is analyzed is chosen at Init among Programs: who      *)
(* inherits from whom, the types and initializers of fields, the bodies of *)
(* methods, the attribute attached to each class and field, and which of   *)
(* the classes the module declares, in source order.  The others are       *)
(* imported, from their source or compiled, with metadata for a syntax     *)
(* tree: the attributes and initializers of these are constants.           *)
(***************************************************************************)
EXTENDS Integers, Sequences, FiniteSets

CONSTANTS
  Class,      \* the class definitions
  Attr,       \* those that are attribute classes
  FieldsOf,   \* [Class -> Seq(name)]: the member variables
  MethodsOf,  \* [Class -> Seq(name)]: the methods
  Static,     \* the member variables with static storage
  Programs,   \* the programs to analyze
  NoClass     \* no class, or a type that is not a class

Elems(s) == {s[i] : i \in DOMAIN s}
Var == UNION {Elems(FieldsOf[c]) : c \in Class}
Method == UNION {{<<c, n>> : n \in Elems(MethodsOf[c])} : c \in Class}
Defn == Class \cup Var \cup Method

ASSUME ProgramAssumption ==
  /\ NoClass \notin Defn /\ Attr \subseteq Class /\ Static \subseteq Var
  /\ Class \cap Var = {} /\ Class \cap Method = {} /\ Var \cap Method = {}
  /\ \A c \in Class : FieldsOf[c] \in Seq(Elems(FieldsOf[c]))
                      /\ MethodsOf[c] \in Seq(Elems(MethodsOf[c]))
  /\ \A b, c \in Class : Elems(FieldsOf[b]) \cap Elems(FieldsOf[c]) # {} => b = c
  /\ \A p \in Programs :
       /\ p.order \in Seq(Class)
       /\ p.base \in [Class -> Class \cup {NoClass}]
       /\ p.compiled \in SUBSET (Class \ Elems(p.order))
       /\ p.attr \in [Class \cup Var -> Attr \cup {NoClass}]
       /\ p.type \in [Var \cup Method -> Class \cup {NoClass}]
       /\ p.init \in [Var \cup Method -> Class \cup Static \cup {NoClass}]

(* There are finitely many classes, and a name stands for a signature: a   *)
(* class that has one twice is rejected (ensureUniqueSignatures).          *)
ASSUME DeclarationAssumption ==
  /\ IsFiniteSet(Class)
  /\ \A c \in Class : \A i, j \in DOMAIN MethodsOf[c] :
       MethodsOf[c][i] = MethodsOf[c][j] => i = j

VARIABLES
  prog,                \* the program
  running, finished,   \* the pass managers: [Defn -> SUBSET pass]
  stack,               \* the analyzers in progress, the innermost last
  super,               \* the superclass, once the base types are resolved
  flagged,             \* the classes with HasErrors
  reserved,            \* the classes whose first slot is the superclass
  first,               \* number of inherited fields a class counted
  placed,              \* [Class -> Seq(Var)]: instanceFields_
  table,               \* [Class -> Seq(Method)]: instanceMethods_
  evaluated,           \* attribute objects built before their fields are known
  next, queue, symbols, done   \* the module: members, defsToAnalyze_, result

analysis == <<running, finished, stack>>
layout == <<super, flagged, reserved, first, placed, table, evaluated>>
vars == <<prog, analysis, layout, next, queue, symbols, done>>

Owner(d) == IF d \in Class THEN d
            ELSE CHOOSE c \in Class : d \in Elems(FieldsOf[c])
                                   \/ d \in {<<c, n>> : n \in Elems(MethodsOf[c])}

-----------------------------------------------------------------------------
(* The passes of each kind of definition, in the order runPasses() runs    *)
(* them, and the passes of a task.                                         *)

ClassOrder == << "Scope", "Attribute", "Import", "NamingConflict",
  "TypeModifiers", "BaseTypes", "MemberType", "Field", "Coercer",
  "Constructor", "Method", "Overloading", "RecursiveFieldType", "Completion" >>

ClassTask(task) ==
  LET lookup == {"Scope", "TypeModifiers", "BaseTypes", "Attribute"}
      eval == lookup \cup {"Import", "NamingConflict", "Coercer", "MemberType",
                           "Field", "Method", "Overloading"}
  IN CASE task = "TypeComparison" -> {"Scope", "BaseTypes"}
       [] task = "MemberLookup" -> lookup
       [] task = "Construction" -> lookup \cup {"Import", "NamingConflict",
                                                "Constructor", "Field"}
       [] task = "Evaluation" -> eval
       [] task = "TypeGeneration" ->
            (eval \ {"Coercer", "MemberType"}) \cup {"RecursiveFieldType"}
       [] task = "CodeGeneration" -> eval \cup {"Constructor", "Completion"}

VarOrder == << "Attribute", "VariableType", "TypeModifier", "Initializer",
               "Completion" >>

VarTask(task) ==
  {"Attribute", "VariableType", "TypeModifier"}
    \cup (IF task \in {"TypeComparison", "MemberLookup"} THEN {} ELSE {"Initializer"})
    \cup (IF task = "CodeGeneration" THEN {"Completion"} ELSE {})

MethodOrder == << "Attribute", "Modifier", "ParameterType", "ReturnType",
                  "ControlFlow", "Merge", "Reflection", "Completion" >>

MethodTask(task) ==
  {"Attribute", "Modifier", "ParameterType", "ReturnType"}
    \cup (IF task = "CodeGeneration"
            THEN {"ControlFlow", "Merge", "Reflection", "Completion"} ELSE {})

PassOrder(d) == IF d \in Class THEN ClassOrder
                ELSE IF d \in Var THEN VarOrder ELSE MethodOrder
TaskPasses(d, task) == IF d \in Class THEN ClassTask(task)
                       ELSE IF d \in Var THEN VarTask(task) ELSE MethodTask(task)

(* The last pass of a variable never enters its pass manager, the first of *)
(* a method only when it ends, and the base types are marked as finished   *)
(* before the first of them is resolved.                                   *)
Marked(d, p) == ~(d \in Var /\ p = "Completion")
Guarded(d, p) == Marked(d, p) /\ ~(d \in Method /\ p = "Attribute")
Early(d, p) == d \in Class /\ p = "BaseTypes"

-----------------------------------------------------------------------------
(* What a pass does: a sequence of requests for other analyses and of      *)
(* effects.  must: a request whose failure makes the pass fail.            *)

Step(op, d, task, must) == <<[op |-> op, on |-> d, task |-> task, must |-> must]>>
Analyze(d, task) == IF d = NoClass THEN <<>> ELSE Step("analyze", d, task, FALSE)
Require(d, task) == IF d = NoClass THEN <<>> ELSE Step("analyze", d, task, TRUE)
Effect(op, d) == IF d = NoClass THEN <<>> ELSE Step(op, d, op, FALSE)

Concat(ss) ==
  LET all[i \in 0 .. Len(ss)] == IF i = 0 THEN <<>> ELSE all[i - 1] \o ss[i]
  IN all[Len(ss)]
EachOf(s, Do(_)) == Concat([i \in DOMAIN s |-> Do(s[i])])

Members(c) ==
  FieldsOf[c] \o [i \in DOMAIN MethodsOf[c] |-> <<c, MethodsOf[c][i]>>]

(* The expression of an initializer or of a body: it constructs an object  *)
(* of a class, or reads a static variable.                                 *)
Expression(d) ==
  LET x == prog.init[d]
  IN IF x \in Static
       THEN Analyze(Owner(x), "MemberLookup") \o Analyze(x, "TypeComparison")
       ELSE Require(x, "Construction")

(* The definition was read from a compiled module (mdNode).                *)
Compiled(d) == Owner(d) \in prog.compiled

(* Mutant: the members of the attribute class are enough.                  *)
AttributeStepsUnprepared(d) ==
  Analyze(prog.attr[d], "MemberLookup") \o Effect("evaluate", prog.attr[d])

(* An attribute in source is a call that is analyzed and then evaluated; a *)
(* compiled one is an object, and when its class cannot be constructed     *)
(* resolveAttributes() fails (readAttributeList).                          *)
AttributeSteps(d) ==
  (IF Compiled(d) THEN Require(prog.attr[d], "Construction")
   ELSE Analyze(prog.attr[d], "Construction") \o Analyze(prog.attr[d], "Evaluation"))
    \o Effect("evaluate", prog.attr[d])

BaseTypesSteps(c) ==
  Require(prog.base[c], "MemberLookup") \o Effect("link", prog.base[c])

FieldSteps(c) ==
  (IF super[c] # NoClass /\ "Field" \notin finished[super[c]]
     THEN Analyze(super[c], "Construction") ELSE <<>>)
    \o Effect("reserve", c) \o EachOf(FieldsOf[c], LAMBDA v : Effect("field", v))

(* The constructor that is made for a class without one initializes the    *)
(* fields of an instance.                                                  *)
ConstructField(v) == IF v \in Static THEN <<>> ELSE Analyze(v, "Construction")

ConstructorSteps(c) ==
  (IF super[c] # NoClass
        /\ "Constructor" \notin finished[super[c]] \cup running[super[c]]
     THEN Require(super[c], "Construction") ELSE <<>>)
    \o EachOf(FieldsOf[c], ConstructField)

MethodPassSteps(c) ==
  EachOf(MethodsOf[c], LAMBDA n : Analyze(<<c, n>>, "TypeComparison"))

OverloadingSteps(c) ==
  Analyze(super[c], "Evaluation") \o Effect("table", c)
    \o EachOf(MethodsOf[c], LAMBDA n : Effect("symbol", <<c, n>>))

(* Mutant: the type of a field is left to whoever needs it.                *)
FieldAlone(v) == Analyze(v, "TypeGeneration")

FieldTypes(v) == Analyze(v, "TypeGeneration") \o Analyze(prog.type[v], "TypeGeneration")

CompletionSteps(c) ==
  Analyze(super[c], "CodeGeneration")
    \o EachOf(Members(c), LAMBDA d : IF d \in Method /\ Compiled(d) THEN <<>>
                                     ELSE Analyze(d, "CodeGeneration"))

ClassSteps(c, p) ==
  CASE p = "Attribute" -> AttributeSteps(c)
    [] p = "BaseTypes" -> BaseTypesSteps(c)
    [] p = "Field" -> FieldSteps(c)
    [] p = "Constructor" -> ConstructorSteps(c)
    [] p = "Method" -> MethodPassSteps(c)
    [] p = "Overloading" -> OverloadingSteps(c)
    [] p = "RecursiveFieldType" ->
         Analyze(super[c], "TypeGeneration") \o EachOf(placed[c], FieldTypes)
    [] p = "Completion" -> CompletionSteps(c)
    [] OTHER -> <<>>

VarSteps(v, p) ==
  CASE p = "Attribute" -> AttributeSteps(v)
    [] p = "VariableType" /\ ~Compiled(v) ->
         Analyze(prog.type[v], "TypeComparison") \o Expression(v)
    [] p = "Initializer" /\ ~Compiled(v) ->
         (IF v \in Static /\ prog.init[v] \in Class
            THEN Analyze(prog.init[v], "Evaluation") ELSE <<>>)
           \o Effect("symbol", prog.type[v])
    [] p = "Completion" -> Require(prog.type[v], "TypeGeneration")
    [] OTHER -> <<>>

MethodSteps(m, p) ==
  CASE p = "ParameterType" ->
         (IF Compiled(m) THEN <<>> ELSE Analyze(prog.type[m], "TypeComparison"))
           \o Analyze(Owner(m), "MemberLookup")
    [] p = "ControlFlow" -> Expression(m)
    [] p = "Completion" ->
         Analyze(prog.type[m], "TypeGeneration") \o Analyze(Owner(m), "TypeGeneration")
    [] OTHER -> <<>>

PassSteps(d, p) == IF d \in Class THEN ClassSteps(d, p)
                   ELSE IF d \in Var THEN VarSteps(d, p) ELSE MethodSteps(d, p)

-----------------------------------------------------------------------------
(* Analyzer frames: todo is passesToRun, pass is "" between two passes.    *)

Frame(d, task, must) ==
  [on |-> d, pass |-> "", steps |-> <<>>, ok |-> TRUE, must |-> must,
   todo |-> TaskPasses(d, task) \ finished[d]]

(* The first of the passes that are left, in the order of runPasses().     *)
NextPass(f) ==
  LET order == PassOrder(f.on)
      left == {i \in DOMAIN order : order[i] \in f.todo}
  IN order[CHOOSE i \in left : \A j \in left : i <= j]

Top == stack[Len(stack)]
Below == SubSeq(stack, 1, Len(stack) - 1)
Idle == stack = <<>>
SetTop(f) == stack' = Append(Below, f)
Popped(f) == [f EXCEPT !.steps = Tail(f.steps)]

(* One pass ends: it leaves the running passes and joins the finished.     *)
Finish(d, p) ==
  /\ running' = [running EXCEPT ![d] = @ \ {p}]
  /\ finished' = [finished EXCEPT ![d] = @ \cup {p}]

Init ==
  /\ prog \in Programs
  /\ running = [d \in Defn |-> {}] /\ finished = [d \in Defn |-> {}]
  /\ stack = <<>> /\ next = 1 /\ queue = <<>> /\ symbols = {} /\ done = FALSE
  /\ super = [c \in Class |-> NoClass] /\ flagged = {}
  /\ reserved = {} /\ first = [c \in Class |-> 0] /\ evaluated = {}
  /\ placed = [c \in Class |-> <<>>] /\ table = [c \in Class |-> <<>>]

(* Mutant: a running pass is waited for.                                   *)
SkipFinishedOnly ==
  /\ ~Idle /\ Top.pass = "" /\ Top.todo # {}
  /\ NextPass(Top) \in finished[Top.on]
  /\ SetTop([Top EXCEPT !.todo = @ \ {NextPass(Top)}])
  /\ UNCHANGED <<prog, running, finished, layout, next, queue, symbols, done>>

(* runPasses() comes to the next pass it has to run.  A pass that is       *)
(* finished or running by now is passed over.                              *)
SkipPass ==
  /\ ~Idle /\ Top.pass = "" /\ Top.todo # {}
  /\ NextPass(Top) \in finished[Top.on] \cup running[Top.on]
  /\ SetTop([Top EXCEPT !.todo = @ \ {NextPass(Top)}])
  /\ UNCHANGED <<prog, running, finished, layout, next, queue, symbols, done>>

BeginPass ==
  /\ ~Idle /\ Top.pass = "" /\ Top.todo # {}
  /\ LET d == Top.on
         p == NextPass(Top)
     IN /\ p \notin finished[d] \cup running[d]
        /\ SetTop([Top EXCEPT !.todo = @ \ {NextPass(Top)}, !.pass = p,
                              !.steps = PassSteps(d, p)])
        /\ IF Early(d, p) THEN Finish(d, p)
           ELSE /\ running' = IF Guarded(d, p)
                                THEN [running EXCEPT ![d] = @ \cup {p}] ELSE running
                /\ UNCHANGED finished
  /\ UNCHANGED <<prog, layout, next, queue, symbols, done>>

FinishPass ==
  /\ ~Idle /\ Top.pass # "" /\ Top.steps = <<>>
  /\ SetTop([Top EXCEPT !.pass = ""])
  /\ IF Marked(Top.on, Top.pass) THEN Finish(Top.on, Top.pass)
     ELSE UNCHANGED <<running, finished>>
  /\ UNCHANGED <<prog, layout, next, queue, symbols, done>>

(* A pass fails: the handler returns false, and runPasses() with it.  The  *)
(* passes for the constructors and for the attributes return without       *)
(* marking their end, and are left as running.                             *)
FailedFrame(f) == [f EXCEPT !.pass = "", !.steps = <<>>, !.todo = {}, !.ok = FALSE]
(* Mutant: no failing pass marks its end.                                  *)
MarksNothing(d, p) == UNCHANGED <<running, finished>>

MarksFailed(d, p) ==
  IF Marked(d, p) /\ p # "Attribute" /\ ~(d \in Class /\ p = "Constructor")
    THEN Finish(d, p) ELSE UNCHANGED <<running, finished>>

CanStep(op) == ~Idle /\ Top.pass # "" /\ Top.steps # <<>> /\ Head(Top.steps).op = op

Call ==
  /\ CanStep("analyze")
  /\ LET s == Head(Top.steps)
     IN stack' = Append(Append(Below, Popped(Top)), Frame(s.on, s.task, s.must))
  /\ UNCHANGED <<prog, running, finished, layout, next, queue, symbols, done>>

(* An analyzer returns to the pass that asked for it.                      *)
Return ==
  /\ Len(stack) > 1 /\ Top.pass = "" /\ Top.todo = {}
  /\ LET caller == stack[Len(stack) - 1]
         fails == Top.must /\ ~Top.ok
     IN /\ stack' = IF fails THEN [Below EXCEPT ![Len(Below)] = FailedFrame(caller)]
                    ELSE Below
        /\ IF fails THEN MarksFailed(caller.on, caller.pass)
           ELSE UNCHANGED <<running, finished>>
        /\ flagged' = IF fails /\ caller.pass = "BaseTypes"
                        THEN flagged \cup {caller.on} ELSE flagged
  /\ UNCHANGED <<prog, super, reserved, first, placed, table, evaluated,
                 next, queue, symbols, done>>

-----------------------------------------------------------------------------
(* The effects of the class passes.                                        *)

(* What can be reached from c: the least set that has it and is closed.    *)
Reach(c, to) ==
  LET Closed == {S \in SUBSET Class : c \in S /\ \A a \in S : to[a] \subseteq S}
  IN {a \in Class : \A S \in Closed : a \in S}

(* c and the superclasses that are linked above it.                        *)
Chain(c) == Reach(c, [a \in Class |-> {super[a]} \ {NoClass}])

(* Mutant: any base is linked.                                             *)
LinkAnyBase ==
  /\ CanStep("link")
  /\ super' = [super EXCEPT ![Top.on] = Head(Top.steps).on]
  /\ SetTop(Popped(Top))
  /\ UNCHANGED <<prog, running, finished, flagged, reserved, first, placed, table,
                 evaluated, next, queue, symbols, done>>

(* analyzeBaseClassesImpl() once a base is analyzed: a base that already   *)
(* inherits from this class is an error, any other becomes the superclass. *)
LinkBase ==
  /\ CanStep("link")
  /\ LET c == Top.on
         b == Head(Top.steps).on
     IN IF c \in Chain(b)
          THEN /\ flagged' = flagged \cup {c}
               /\ SetTop(FailedFrame(Top)) /\ UNCHANGED super
          ELSE /\ super' = [super EXCEPT ![c] = b]
               /\ SetTop(Popped(Top)) /\ UNCHANGED flagged
  /\ UNCHANGED <<prog, running, finished, reserved, first, placed, table,
                 evaluated, next, queue, symbols, done>>

(* Mutant: the fields of the class alone are counted.                      *)
OwnFieldCount(c) == Len(placed[c])

(* instanceFieldCount(): all slots but the one a superclass should have.   *)
OwnSlots(c) == Len(placed[c]) + (IF c \in reserved THEN 1 ELSE 0)
                 - (IF super[c] # NoClass THEN 1 ELSE 0)

(* instanceFieldCountRecursive(): those of a class and its superclasses.   *)
FieldCount(c) ==
  LET count[a \in Class] ==
        OwnSlots(a) + (IF super[a] = NoClass THEN 0 ELSE count[super[a]])
  IN count[c]

(* analyzeFields(): the slot of the superclass, then field by field.       *)
ReserveSuper ==
  /\ CanStep("reserve")
  /\ LET c == Top.on
     IN IF super[c] # NoClass
          THEN /\ reserved' = reserved \cup {c}
               /\ first' = [first EXCEPT ![c] = FieldCount(super[c])]
          ELSE UNCHANGED <<reserved, first>>
  /\ SetTop(Popped(Top))
  /\ UNCHANGED <<prog, running, finished, super, flagged, placed, table,
                 evaluated, next, queue, symbols, done>>

(* A static field whose type is being resolved is not analyzed again.      *)
VisitField ==
  /\ CanStep("field")
  /\ LET v == Head(Top.steps).on
         tangled == v \in Static /\ "VariableType" \in running[v]
         added == IF v \in Static
                    THEN (IF tangled THEN <<>> ELSE Analyze(v, "TypeComparison"))
                           \o Effect("symbol", v)
                    ELSE Analyze(v, "TypeComparison") \o Effect("place", v)
     IN SetTop([Top EXCEPT !.steps = added \o Tail(@)])
  /\ UNCHANGED <<prog, running, finished, layout, next, queue, symbols, done>>

(* A class is known for an attribute class by a flag of its metadata, or   *)
(* once its own attribute is applied (isAttribute).                        *)
IsAttribute(c) == c \in Attr /\ (c \in prog.compiled \/ "Attribute" \in finished[c])

PlaceField ==
  /\ CanStep("place")
  /\ LET c == Top.on
         v == Head(Top.steps).on
         added == IF IsAttribute(c) THEN <<>> ELSE Analyze(prog.type[v], "Construction")
     IN /\ placed' = [placed EXCEPT ![c] = Append(@, v)]
        /\ SetTop([Top EXCEPT !.steps = added \o Tail(@)])
  /\ UNCHANGED <<prog, running, finished, super, flagged, reserved, first, table,
                 evaluated, next, queue, symbols, done>>

(* addNewMethods(): a slot for every method that overrides none.           *)
NewSlots(c, inherited) ==
  LET names == {inherited[i][2] : i \in DOMAIN inherited}
  IN EachOf(MethodsOf[c], LAMBDA n : IF n \in names THEN <<>> ELSE << <<c, n>> >>)

(* Mutant: an inherited method keeps its slot whoever overrides it.        *)
BuildTableKeepsInherited ==
  /\ CanStep("table")
  /\ LET c == Top.on
         inherited == IF super[c] = NoClass THEN <<>> ELSE table[super[c]]
     IN table' = [table EXCEPT ![c] = inherited \o NewSlots(c, inherited)]
  /\ SetTop(Popped(Top))
  /\ UNCHANGED <<prog, running, finished, super, flagged, reserved, first, placed,
                 evaluated, next, queue, symbols, done>>

(* copyBaseClassMethods() and overrideMembers(), then the new methods.     *)
BuildTable ==
  /\ CanStep("table")
  /\ LET c == Top.on
         inherited == IF super[c] = NoClass THEN <<>> ELSE table[super[c]]
         own == Elems(MethodsOf[c])
         overridden == [i \in DOMAIN inherited |->
                          IF inherited[i][2] \in own THEN <<c, inherited[i][2]>>
                          ELSE inherited[i]]
     IN table' = [table EXCEPT ![c] = overridden \o NewSlots(c, inherited)]
  /\ SetTop(Popped(Top))
  /\ UNCHANGED <<prog, running, finished, super, flagged, reserved, first, placed,
                 evaluated, next, queue, symbols, done>>

(* An object of the attribute class is built now: a compiled attribute     *)
(* whatever its class is (readExpression), one in source only if the class *)
(* is known for an attribute class by then (applyAttributes).              *)
EvaluateAttribute ==
  /\ CanStep("evaluate")
  /\ LET a == Head(Top.steps).on
     IN evaluated' = IF (Compiled(Top.on) \/ IsAttribute(a)) /\ "Field" \notin finished[a]
                       THEN evaluated \cup {a} ELSE evaluated
  /\ SetTop(Popped(Top))
  /\ UNCHANGED <<prog, running, finished, super, flagged, reserved, first, placed,
                 table, next, queue, symbols, done>>

-----------------------------------------------------------------------------
(* The module: Module::addSymbol() and DefnAnalyzer::analyzeModule().      *)

Export(d) == Owner(d) \in Elems(prog.order)

AddSymbol(by, d) ==
  IF Export(by) /\ d \notin symbols
    THEN symbols' = symbols \cup {d} /\ queue' = Append(queue, d)
    ELSE UNCHANGED <<symbols, queue>>

Symbol ==
  /\ CanStep("symbol")
  /\ AddSymbol(Top.on, Head(Top.steps).on)
  /\ SetTop(Popped(Top))
  /\ UNCHANGED <<prog, running, finished, layout, next, done>>

AnalyzeMember ==
  /\ Idle /\ next <= Len(prog.order)
  /\ stack' = <<Frame(prog.order[next], "CodeGeneration", FALSE)>>
  /\ UNCHANGED <<prog, running, finished, layout, next, queue, symbols, done>>

(* The analysis of a member ends; only a success adds it to the symbols.   *)
EndMember ==
  /\ Len(stack) = 1 /\ Top.pass = "" /\ Top.todo = {} /\ next <= Len(prog.order)
  /\ IF Top.ok THEN AddSymbol(Top.on, Top.on) ELSE UNCHANGED <<symbols, queue>>
  /\ stack' = <<>> /\ next' = next + 1
  /\ UNCHANGED <<prog, running, finished, layout, done>>

AnalyzeQueued ==
  /\ Idle /\ next > Len(prog.order) /\ queue # <<>>
  /\ LET d == Head(queue)
     IN stack' = <<Frame(d, IF Export(d) THEN "CodeGeneration" ELSE "TypeGeneration",
                         FALSE)>>
  /\ queue' = Tail(queue)
  /\ UNCHANGED <<prog, running, finished, layout, next, symbols, done>>

EndQueued ==
  /\ Len(stack) = 1 /\ Top.pass = "" /\ Top.todo = {} /\ next > Len(prog.order)
  /\ stack' = <<>>
  /\ UNCHANGED <<prog, running, finished, layout, next, queue, symbols, done>>

Complete ==
  /\ Idle /\ next > Len(prog.order) /\ queue = <<>> /\ ~done
  /\ done' = TRUE
  /\ UNCHANGED <<prog, analysis, layout, next, queue, symbols>>

Analyzer == SkipPass \/ BeginPass \/ FinishPass \/ Call \/ Return
Effects == LinkBase \/ ReserveSuper \/ VisitField \/ PlaceField \/ BuildTable
             \/ EvaluateAttribute \/ Symbol
ModuleSteps == AnalyzeMember \/ EndMember \/ AnalyzeQueued \/ EndQueued \/ Complete

Next == Analyzer \/ Effects \/ ModuleSteps
Spec == Init /\ [][Next]_vars /\ WF_vars(Next)

-----------------------------------------------------------------------------
(* Properties.                                                             *)

(* The passes of d that an analyzer on the stack is in and has marked, and *)
(* those that are marked as running without one.                           *)
InProgress(d) == {stack[i].pass : i \in {j \in DOMAIN stack :
                    /\ stack[j].on = d /\ stack[j].pass # ""
                    /\ Guarded(d, stack[j].pass) /\ ~Early(d, stack[j].pass)}}
Abandoned(d) == running[d] \ InProgress(d)

(* A pass is marked as running as long as an analyzer is in it, and after  *)
(* that only where the analysis of a class was given up and some class is  *)
(* reported for it: an early return that leaves a pass behind, which later *)
(* requests take for a pass in progress and skip for ever, never goes      *)
(* without an error, and a module without errors has no such pass.         *)
OnlyErrorsAbandonPasses ==
  \A d \in Defn : InProgress(d) \subseteq running[d]
                   /\ (Abandoned(d) # {} => flagged # {} /\ d \notin Method)

(* The classes declared above c.                                           *)
Declared(c) ==
  IF prog.base[c] = NoClass THEN {}
  ELSE Reach(prog.base[c], [a \in Class |-> {prog.base[a]} \ {NoClass}])

(* However the declared base classes loop, the superclass links do not, at *)
(* any time: the loops over super() (field counts, isSubclass, finders)    *)
(* end.  When the module is complete, some class is reported if and only   *)
(* if the inheritance of an analyzed class is circular.                    *)
CircularBasesAreRejected ==
  /\ \A c \in Class : super[c] # NoClass => c \notin Chain(super[c])
  /\ done => (flagged # {} <=> \E c \in Class : "BaseTypes" \in finished[c]
                                                /\ c \in Declared(c))

(* The classes that the analysis of a class asks for.                      *)
Mentions(c) ==
  LET named == {prog.base[c]} \cup {prog.attr[d] : d \in {c} \cup Elems(FieldsOf[c])}
                 \cup {prog.init[d] : d \in Elems(Members(c))}
                 \cup {prog.type[d] : d \in Elems(Members(c))}
  IN {Owner(d) : d \in named \ {NoClass}}
Reached(c) == Reach(c, [a \in Class |-> Mentions(a)])

(* A program in which the analysis of a class reaches back to a class that *)
(* inherits from it: by the type of a field, an initializer, an attribute. *)
Tangled == \E c \in Class : \E a \in Declared(c) : c \in Reached(a)

Index(c, v) == first[c] + (CHOOSE i \in DOMAIN placed[c] : placed[c][i] = v)

(* In a program that is not tangled no field has the position of an        *)
(* inherited one (memberIndexRecursive), no class counts fewer inherited   *)
(* fields than none (the assertion in analyzeFields()), and a class with a *)
(* superclass has reserved the slot for it, once its fields are known.     *)
FieldsDoNotOverlap ==
  done /\ ~Tangled => \A c \in Class : "Field" \in finished[c] =>
    /\ first[c] >= 0
    /\ c \in reserved <=> super[c] # NoClass
    /\ \A a \in Chain(c) \ {c} :
         \A v \in Elems(placed[c]), w \in Elems(placed[a]) : Index(c, v) # Index(a, w)

(* A finished method table extends the table of the superclass slot by     *)
(* slot, and each slot holds the nearest implementation of its name: the   *)
(* table that is copied is never one that is still being built.            *)
MethodTablesExtend ==
  done /\ ~Tangled => \A c \in Class : "Overloading" \in finished[c] =>
    /\ \A i \in DOMAIN table[c] :
         LET m == table[c][i]
         IN /\ m[1] \in Chain(c)
            /\ \A a \in Chain(c) :
                 m[2] \in Elems(MethodsOf[a]) => m[1] \notin Chain(a) \ {a}
    /\ super[c] # NoClass =>
         /\ Len(table[super[c]]) <= Len(table[c])
         /\ \A i \in DOMAIN table[super[c]] : table[super[c]][i][2] = table[c][i][2]
    /\ \A a \in Chain(c) : \A n \in Elems(MethodsOf[a]) :
         Cardinality({i \in DOMAIN table[c] : table[c][i][2] = n}) = 1

(* When a module without errors is complete, every symbol it collected has *)
(* had the passes of its task, and the superclass and the types of the     *)
(* fields of every class that is laid out are ready for that too, at any   *)
(* depth: a request that was skipped because the pass was running is made  *)
(* good by its end (the comment in analyzeCompletely()).                   *)
CompletionIsTransitive ==
  done /\ flagged = {} =>
    /\ \A d \in symbols :
         {p \in TaskPasses(d, IF Export(d) THEN "CodeGeneration" ELSE "TypeGeneration") :
            Marked(d, p)} \subseteq finished[d]
    /\ \A c \in Class : "RecursiveFieldType" \in finished[c] =>
         \A a \in ({super[c]} \cup {prog.type[v] : v \in Elems(placed[c])}) \ {NoClass} :
           ClassTask("TypeGeneration") \subseteq finished[a]

(* An attribute object is built only from a class whose fields are known   *)
(* (the assertion of ConstantObjectRef's constructor) or whose analysis    *)
(* met an error, unless the analysis of an attribute class reaches a class *)
(* that it annotates.                                                      *)
AttributeFieldsAreKnown ==
  (\A d \in Class \cup Var : \A a \in Class : prog.attr[d] = a => Owner(d) \notin Reached(a)) =>
    \A a \in evaluated : a \in flagged \/ Abandoned(a) # {}

(* The analysis of a module ends, whatever refers to whatever.             *)
AnalysisEnds == <>done
=============================================================================

---------------------- MODULE AnalysisPassesProofs ----------------------
(***************************************************************************)
(* For every program, of any number of classes, members, declarations and  *)
(* references: the stack of analyzers is well formed and the marks of      *)
(* passes tell what runs, or what an error that is reported has left       *)
(* (Core); bases that loop are found, and nothing else is rejected for its *)
(* bases (Inheritance); attributes are built from classes whose fields are *)
(* known (Annotations); a module that is analyzed without error is         *)
(* complete for code generation (Completing); and in a program that is not *)
(* tangled the fields and the method slots of a class follow those of its  *)
(* superclass (Layouts).                                                   *)
(*                                                                         *)
(* The argument goes by frames: a step changes the top, pushes a frame     *)
(* above it or drops it (StackStep).  What a pass depends on is asked for  *)
(* by its steps, and until the pass ends the request is still to be made,  *)
(* or is met, or is what the next frame is at, or has failed (Covers).     *)
(* The layout of a class is right from the step that uses what its         *)
(* superclass has (Ready): by then the superclass has finished (Grounded), *)
(* and what is above the class does not change any more (Settled).         *)
(***************************************************************************)
EXTENDS AnalysisPasses, NaturalRecursion, SequenceTheorems, TLAPS

-----------------------------------------------------------------------------
(* Sequences that are joined, and their elements.                          *)

(* The elements of two sequences that are joined.                          *)
LEMMA ElemsConcat ==
  ASSUME NEW S, NEW s \in Seq(S), NEW t \in Seq(S)
  PROVE  s \o t \in Seq(S) /\ Elems(s \o t) = Elems(s) \cup Elems(t)
<1>1. /\ s \o t \in Seq(S) /\ Len(s \o t) = Len(s) + Len(t) /\ Len(s) \in Nat /\ Len(t) \in Nat
      /\ DOMAIN s = 1..Len(s) /\ DOMAIN t = 1..Len(t) /\ DOMAIN (s \o t) = 1..Len(s) + Len(t)
      /\ \A i \in 1 .. Len(s) + Len(t) : (s \o t)[i] = IF i <= Len(s) THEN s[i] ELSE t[i - Len(s)]
  BY ConcatProperties, LenProperties
<1>2. Elems(s) \subseteq Elems(s \o t)
  <2> SUFFICES ASSUME NEW i \in DOMAIN s PROVE s[i] \in Elems(s \o t)
    BY DEF Elems
  <2>1. i \in 1..Len(s) + Len(t) /\ i <= Len(s)
    BY <1>1
  <2> QED BY <1>1, <2>1 DEF Elems
<1>3. Elems(t) \subseteq Elems(s \o t)
  <2> SUFFICES ASSUME NEW i \in DOMAIN t PROVE t[i] \in Elems(s \o t)
    BY DEF Elems
  <2>1. i + Len(s) \in 1..Len(s) + Len(t) /\ ~(i + Len(s) <= Len(s)) /\ (i + Len(s)) - Len(s) = i
    BY <1>1
  <2>2. (s \o t)[i + Len(s)] = t[i]
    BY <1>1, <2>1
  <2> QED BY <1>1, <2>1, <2>2 DEF Elems
<1>4. Elems(s \o t) \subseteq Elems(s) \cup Elems(t)
  <2> SUFFICES ASSUME NEW i \in 1..Len(s) + Len(t) PROVE (s \o t)[i] \in Elems(s) \cup Elems(t)
    BY <1>1 DEF Elems
  <2>1. CASE i <= Len(s)
    <3>1. i \in DOMAIN s /\ (s \o t)[i] = s[i]
      BY <1>1, <2>1
    <3> QED BY <3>1 DEF Elems
  <2>2. CASE ~(i <= Len(s))
    <3>1. i - Len(s) \in DOMAIN t /\ (s \o t)[i] = t[i - Len(s)]
      BY <1>1, <2>2
    <3> QED BY <3>1 DEF Elems
  <2> QED BY <2>1, <2>2
<1> QED BY <1>1, <1>2, <1>3, <1>4

(* An interval that grows by one number.                                   *)
LEMMA OneMore == \A m \in Nat : 1 .. m + 1 = (1 .. m) \cup {m + 1}
OBVIOUS

(* Seq under a name that can be hidden from the provers.                   *)
Sequences(S) == Seq(S)

(* Concat() is the last of the sequences that joining one more at a time   *)
(* goes through.                                                           *)
LEMMA ConcatUnfolds ==
  ASSUME NEW S, NEW ss \in Seq(Sequences(S))
  PROVE  \E all : /\ Concat(ss) = all[Len(ss)] /\ all[0] = <<>>
                  /\ \A i \in 0 .. Len(ss) - 1 : all[i + 1] = all[i] \o ss[i + 1]
<1> DEFINE n == Len(ss)
           G(h) == [i \in 0 .. n |-> IF i = 0 THEN <<>> ELSE h[i - 1] \o ss[i]]
           all == CHOOSE h : h = G(h)
           step == [q \in Nat \X Sequences(S) |-> IF q[1] + 1 \in 1 .. n THEN q[2] \o ss[q[1] + 1] ELSE q[2]]
<1>1. n \in Nat /\ DOMAIN ss = 1 .. n /\ \A i \in 1 .. n : ss[i] \in Sequences(S)
  BY LenProperties
<1>2. step \in [Nat \X Sequences(S) -> Sequences(S)]
  <2> SUFFICES ASSUME NEW i \in Nat, NEW t \in Sequences(S) PROVE step[<<i, t>>] \in Sequences(S)
    BY DEF step
  <2>1. \A u \in Sequences(S) : t \o u \in Sequences(S)
    BY ConcatProperties DEF Sequences
  <2> QED BY <1>1, <2>1
<1>3. PICK f \in [Nat -> Sequences(S)] : f[0] = <<>> /\ \A i \in Nat : f[i + 1] = step[<<i, f[i]>>]
  <2>1. <<>> \in Sequences(S)
    BY DEF Sequences
  <2> DEFINE X == Sequences(S)
  <2>2. <<>> \in X /\ step \in [Nat \X X -> X]
    BY <1>2, <2>1
  <2> HIDE DEF step, X
  <2>3. Iterates(X, <<>>, step)
    BY <2>2, Recursion
  <2> QED BY <2>3 DEF X, Iterates
<1>4. \A i \in 0 .. n - 1 : f[i + 1] = f[i] \o ss[i + 1]
  <2> SUFFICES ASSUME NEW i \in 0 .. n - 1 PROVE f[i + 1] = f[i] \o ss[i + 1]
    OBVIOUS
  <2> HIDE DEF step
  <2>1. i \in Nat /\ i + 1 \in 1 .. n /\ f[i] \in Sequences(S)
    BY <1>1, <1>3
  <2>2. f[i + 1] = step[<<i, f[i]>>]
    BY <1>3, <2>1
  <2>3. <<i, f[i]>> \in Nat \X Sequences(S)
    BY <2>1
  <2>4. step[<<i, f[i]>>] = f[i] \o ss[i + 1]
    BY <2>1, <2>3 DEF step
  <2> QED BY <2>2, <2>4
<1> DEFINE g == [i \in 0 .. n |-> f[i]]
<1>5. g = G(g)
  <2> SUFFICES ASSUME NEW i \in 0 .. n PROVE g[i] = G(g)[i]
    OBVIOUS
  <2>1. CASE i = 0
    BY <1>1, <1>3, <2>1
  <2>2. CASE i # 0
    <3> HIDE DEF n
    <3>1. i - 1 \in 0 .. n - 1 /\ i - 1 \in 0 .. n /\ (i - 1) + 1 = i
      BY <1>1, <2>2
    <3>2. f[i] = f[i - 1] \o ss[i]
      BY <1>4, <3>1
    <3> QED BY <2>2, <3>1, <3>2
  <2> QED BY <2>1, <2>2
<1>6. all = G(all)
  <2> HIDE DEF G, g
  <2> QED BY <1>5
<1>7. Concat(ss) = all[n]
  BY DEF Concat
<1>8. all[0] = <<>> /\ \A i \in 0 .. n - 1 : all[i + 1] = all[i] \o ss[i + 1]
  <2>1. 0 \in 0 .. n
    BY <1>1
  <2>2. \A i \in 0 .. n - 1 : i + 1 \in 0 .. n /\ i + 1 # 0 /\ (i + 1) - 1 = i
    BY <1>1
  <2> HIDE DEF all, n
  <2> QED BY <1>6, <2>1, <2>2
<1> HIDE DEF all
<1> QED BY <1>7, <1>8

(* The elements of sequences that are joined are those of each.            *)
LEMMA ElemsOfConcat ==
  ASSUME NEW S, NEW ss \in Seq(Sequences(S))
  PROVE  /\ Concat(ss) \in Seq(S)
         /\ Elems(Concat(ss)) = UNION {Elems(ss[i]) : i \in DOMAIN ss}
<1> DEFINE n == Len(ss)
<1>1. n \in Nat /\ DOMAIN ss = 1 .. n /\ \A i \in 1 .. n : ss[i] \in Sequences(S)
  BY LenProperties
<1>2. PICK all : /\ Concat(ss) = all[n] /\ all[0] = <<>>
                 /\ \A i \in 0 .. n - 1 : all[i + 1] = all[i] \o ss[i + 1]
  BY ConcatUnfolds
<1> HIDE DEF n
<1> DEFINE Upto(x) == /\ all[x] \in Sequences(S)
                      /\ Elems(all[x]) = UNION {Elems(ss[i]) : i \in 1 .. x}
           T == {y \in Nat : y <= n => Upto(y)}
<1>9. 0 \in T
  <2>1. Elems(<<>>) = {} /\ <<>> \in Sequences(S)
    BY DEF Elems, Sequences
  <2>2. UNION {Elems(ss[i]) : i \in 1 .. 0} = {}
    OBVIOUS
  <2> QED BY <1>2, <2>1, <2>2
<1>10. ASSUME NEW m \in Nat, m \in T PROVE m + 1 \in T
  <2>b. m <= n => Upto(m)
    BY <1>10
  <2>0. m + 1 \in Nat
    OBVIOUS
  <2>d. ASSUME m + 1 <= n PROVE Upto(m + 1)
    <3>1. Upto(m)
      <4> HIDE DEF Upto
      <4> QED BY <1>1, <2>b, <2>d
    <3>2. m \in 0 .. n - 1 /\ m + 1 \in 1 .. n
      BY <1>1, <2>d
    <3>3. all[m + 1] = all[m] \o ss[m + 1] /\ ss[m + 1] \in Sequences(S)
      BY <1>1, <1>2, <3>2
    <3>4. all[m + 1] \in Sequences(S) /\ Elems(all[m + 1]) = Elems(all[m]) \cup Elems(ss[m + 1])
      BY <3>1, <3>3, ElemsConcat DEF Sequences
    <3>5. UNION {Elems(ss[i]) : i \in 1 .. m + 1}
            = (UNION {Elems(ss[i]) : i \in 1 .. m}) \cup Elems(ss[m + 1])
      BY OneMore
    <3> QED BY <3>1, <3>4, <3>5
  <2> HIDE DEF Upto
  <2> QED BY <2>0, <2>d
<1>11. Nat \subseteq T
  <2> HIDE DEF T
  <2> QED BY <1>9, <1>10, Induction
<1>12. Upto(n)
  <2> HIDE DEF Upto
  <2> QED BY <1>1, <1>11
<1>13. {Elems(ss[i]) : i \in DOMAIN ss} = {Elems(ss[i]) : i \in 1 .. n}
  BY <1>1
<1> QED BY <1>2, <1>12, <1>13 DEF Sequences

-----------------------------------------------------------------------------
(* Steps, frames and what they depend on.                                  *)

(* The tasks that an analysis is asked for (AnalyzerTask).                 *)
Task == {"TypeComparison", "MemberLookup", "Construction", "Evaluation",
         "TypeGeneration", "CodeGeneration"}

(* The tasks of a definition that code is generated for.                   *)
Generation == {"TypeGeneration", "CodeGeneration"}

(* The passes that ask for the analysis of other classes as for code       *)
(* generation: only they lead to the same passes of another class.         *)
Thorough == {"RecursiveFieldType", "Completion"}

(* What a step may do to the state besides asking for an analysis.         *)
Operation == {"link", "reserve", "field", "place", "table", "evaluate", "symbol"}

(* The passes of all the analyzers.                                        *)
PassName == {"Scope", "Attribute", "Import", "NamingConflict", "TypeModifiers",
             "BaseTypes", "MemberType", "Field", "Coercer", "Constructor", "Method",
             "Overloading", "RecursiveFieldType", "Completion", "VariableType",
             "TypeModifier", "Initializer", "Modifier", "ParameterType", "ReturnType",
             "ControlFlow", "Merge", "Reflection"}

(* A step: a request for an analysis, or an operation.                     *)
StepType == [op : Operation \cup {"analyze"}, on : Defn, task : Task \cup Operation,
             must : BOOLEAN]

(* A frame: passes left (todo), the pass it is in, the steps left of it.   *)
FrameType == [on : Defn, pass : PassName \cup {""}, steps : Seq(StepType), ok : BOOLEAN,
              must : BOOLEAN, todo : SUBSET PassName]

(* The passes of a definition that are running or finished.                *)
Begun(d) == finished[d] \cup running[d]

(* The passes of a class that may require that an analysis does not fail   *)
(* are those for attribute, base types and constructors; a method requires *)
(* nothing for an attribute.                                               *)
Demanding(d, p) == /\ d \in Class => p \in {"Attribute", "BaseTypes", "Constructor"}
                   /\ d \in Method => p # "Attribute"

(* What a step of pass p of d may be: which other definitions it asks for  *)
(* and for what task, where a failure is passed on, and which operation is *)
(* of which pass.                                                          *)
StepOK(d, p, s) ==
  /\ s.op = "analyze" =>
       /\ s.task \in Task /\ (s.task \in Generation => p \in Thorough)
       /\ Owner(s.on) \in Mentions(Owner(d)) \cup {Owner(d)}
  /\ s.must => s.op = "analyze" /\ s.on \in Class /\ Demanding(d, p)
  /\ s.op = "link" => d \in Class /\ p = "BaseTypes" /\ s.on = prog.base[d]
  /\ s.op = "reserve" => d \in Class /\ p = "Field"
  /\ s.op \in {"field", "place"} => d \in Class /\ p = "Field" /\ s.on \in Elems(FieldsOf[d])
  /\ s.op = "table" => d \in Class /\ p = "Overloading"
  /\ s.op = "evaluate" => d \in Class \cup Var /\ p = "Attribute" /\ s.on = prog.attr[d]

(* What a frame f that waits for g is doing.                               *)
Calling(f, g) == f.pass # "" /\ (g.must => g.on \in Class /\ Demanding(f.on, f.pass))

(* Every frame but the top waits for the next.                             *)
Callers == \A i \in 1 .. Len(stack) - 1 : Calling(stack[i], stack[i + 1])

(* The frame at i is in pass p of d.                                       *)
At(i, d, p) == i \in DOMAIN stack /\ stack[i].on = d /\ stack[i].pass = p

(* The passes that are marked as running while they run: not the base      *)
(* types, which are marked as finished before.                             *)
Counted(d, p) == p # "" /\ Guarded(d, p) /\ ~Early(d, p)

(* Pass p of d was left by an error: it is marked and no frame is in it.   *)
Stale(d, p) == p \in running[d] /\ \A i : ~At(i, d, p)

(* The definitions whose analysis met an error: those flagged, and those   *)
(* with a pass that was left.                                              *)
Failing == flagged \cup {d \in Defn : \E p : Stale(d, p)}

(* Superclasses are declared as the base, and the base types of both ends  *)
(* of a link, and of classes that are flagged, were looked at; those of    *)
(* the superclass if there was no error.                                   *)
Links ==
  \A c \in Class :
    /\ super[c] # NoClass => super[c] = prog.base[c] /\ "BaseTypes" \in finished[c]
                             /\ ("BaseTypes" \in finished[super[c]] \/ flagged # {})
    /\ c \in flagged => "BaseTypes" \in finished[c]

(* The steps of a frame have a request for the passes P of a.              *)
Asks(f, a, P) == \E s \in Elems(f.steps) : s.op = "analyze" /\ s.on = a
                                            /\ P \subseteq TaskPasses(a, s.task)

(* What the frame at i needs of a is seen to: the passes P have begun, or  *)
(* a has failed, or the frame has still to ask, or the analysis it asked   *)
(* for is the next frame and is to run them.                               *)
Covers(i, a, P) ==
  \/ P \subseteq Begun(a)
  \/ a \in Failing
  \/ Asks(stack[i], a, P)
  \/ i + 1 \in DOMAIN stack /\ stack[i + 1].on = a /\ P \subseteq Begun(a) \cup stack[i + 1].todo

(* The classes that the pass for the recursive field types looks at.       *)
Targets(c) == ({super[c]} \cup {prog.type[v] : v \in Elems(placed[c])}) \ {NoClass}

(* The passes of a class for the generation of its type.                   *)
TG == ClassTask("TypeGeneration")

(* Only fields of a class are placed in its instances.                     *)
PlacedOwn == \A c \in Class : Elems(placed[c]) \subseteq Elems(FieldsOf[c])

(* The passes that pass p of a class rests on: when it begins, they were   *)
(* begun before.                                                           *)
Rests(p) == IF p = "RecursiveFieldType" THEN {"BaseTypes", "Field"}
            ELSE IF p \in {"Field", "Overloading"} THEN {"BaseTypes"} ELSE {}

(* The operations that use what the requests before them got.              *)
Late == {"link", "evaluate", "table", "reserve"}

(* No request comes after one of those operations; the fields come after   *)
(* the slot of the superclass, and ask for more.                           *)
InOrder(t) ==
  \A m, n \in DOMAIN t : m < n =>
    /\ t[m].op \in Late => t[n].op # "analyze"
    /\ t[n].op = "reserve" => t[m].op = "analyze"

-----------------------------------------------------------------------------
(* Definitions and their owners.                                           *)

(* A field belongs to the class that declares it.                          *)
LEMMA OwnerOfField ==
  ASSUME NEW c \in Class, NEW v \in Elems(FieldsOf[c])
  PROVE  v \in Var /\ v \in Defn /\ Owner(v) = c
<1>1. v \in Var /\ v \notin Class /\ v \notin Method
  BY ProgramAssumption DEF Var
<1>2. \A b \in Class : v \in Elems(FieldsOf[b]) => b = c
  BY ProgramAssumption
<1>3. \A b \in Class : v \notin {<<b, n>> : n \in Elems(MethodsOf[b])}
  BY <1>1 DEF Method
<1>4. Owner(v) = CHOOSE b \in Class : v \in Elems(FieldsOf[b])
                                     \/ v \in {<<b, n>> : n \in Elems(MethodsOf[b])}
  BY <1>1 DEF Owner
<1> QED BY <1>1, <1>2, <1>3, <1>4 DEF Defn

(* A method belongs to the class that declares it.                         *)
LEMMA OwnerOfMethod ==
  ASSUME NEW c \in Class, NEW n \in Elems(MethodsOf[c])
  PROVE  <<c, n>> \in Method /\ <<c, n>> \in Defn /\ Owner(<<c, n>>) = c
<1> DEFINE m == <<c, n>>
<1>1. m \in Method /\ m \notin Class /\ m \notin Var
  BY ProgramAssumption DEF Method
<1>2. \A b \in Class : m \notin Elems(FieldsOf[b])
  BY <1>1 DEF Var
<1>3. \A b \in Class : m \in {<<b, k>> : k \in Elems(MethodsOf[b])} => b = c
  OBVIOUS
<1>4. m \in {<<c, k>> : k \in Elems(MethodsOf[c])}
  OBVIOUS
<1>5. Owner(m) = CHOOSE b \in Class : m \in Elems(FieldsOf[b])
                                     \/ m \in {<<b, k>> : k \in Elems(MethodsOf[b])}
  BY <1>1 DEF Owner
<1> HIDE DEF m
<1>6. Owner(m) = c
  BY <1>2, <1>3, <1>4, <1>5
<1> QED BY <1>1, <1>6 DEF Defn, m

(* A class is its own owner.                                               *)
LEMMA OwnerOfClass ==
  ASSUME NEW c \in Class
  PROVE  c \in Defn /\ Owner(c) = c
BY DEF Owner, Defn

(* The members of a class are its fields and its methods, and it owns      *)
(* them.                                                                   *)
LEMMA MembersAre ==
  ASSUME NEW c \in Class
  PROVE  /\ Elems(FieldsOf[c]) \subseteq Elems(Members(c))
         /\ \A n \in Elems(MethodsOf[c]) : <<c, n>> \in Elems(Members(c))
         /\ Members(c) \in Seq(Var \cup Method)
         /\ \A d \in Elems(Members(c)) : d \in Var \cup Method /\ d \in Defn /\ Owner(d) = c
<1> DEFINE F == FieldsOf[c]
           M == [i \in DOMAIN MethodsOf[c] |-> <<c, MethodsOf[c][i]>>]
           S == Elems(F) \cup {<<c, n>> : n \in Elems(MethodsOf[c])}
<1>1. F \in Seq(S)
  <2>1. F \in Seq(Elems(F))
    BY ProgramAssumption
  <2> HIDE DEF F
  <2> QED BY <2>1, SeqMonotonic
<1>2. M \in Seq(S)
  <2>1. MethodsOf[c] \in Seq(Elems(MethodsOf[c]))
    BY ProgramAssumption
  <2>2. DOMAIN MethodsOf[c] = 1..Len(MethodsOf[c]) /\ Len(MethodsOf[c]) \in Nat
    BY <2>1, LenProperties
  <2>3. \A i \in 1..Len(MethodsOf[c]) : <<c, MethodsOf[c][i]>> \in S
    BY <2>2 DEF Elems
  <2>4. M \in [1..Len(MethodsOf[c]) -> S]
    <3> HIDE DEF S
    <3> QED BY <2>2, <2>3
  <2> HIDE DEF M, S
  <2> QED BY <2>2, <2>4
<1>3. Elems(M) = {<<c, n>> : n \in Elems(MethodsOf[c])}
  BY DEF Elems
<1>4. Members(c) = F \o M
  BY DEF Members
<1>5. Members(c) \in Seq(S) /\ Elems(Members(c)) = Elems(F) \cup Elems(M)
  <2> HIDE DEF F, M, S
  <2> QED BY <1>1, <1>2, <1>4, ElemsConcat
<1>6. S \subseteq Var \cup Method
  BY OwnerOfField, OwnerOfMethod
<1>7. Members(c) \in Seq(Var \cup Method)
  <2> HIDE DEF S
  <2> QED BY <1>5, <1>6, SeqMonotonic
<1> QED BY <1>3, <1>5, <1>7, OwnerOfField, OwnerOfMethod

(* A variable or a method is a member of its owner.                        *)
LEMMA OwnerOfMember ==
  ASSUME NEW d \in Var \cup Method
  PROVE  Owner(d) \in Class /\ d \in Elems(Members(Owner(d))) /\ d \in Defn
<1>1. CASE d \in Var
  <2>1. PICK c \in Class : d \in Elems(FieldsOf[c])
    BY <1>1 DEF Var
  <2> QED BY <2>1, OwnerOfField, MembersAre
<1>2. CASE d \in Method
  <2>1. PICK c \in Class : \E n \in Elems(MethodsOf[c]) : d = <<c, n>>
    BY <1>2 DEF Method
  <2> QED BY <2>1, OwnerOfMethod, MembersAre
<1> QED BY <1>1, <1>2

(* Every definition is owned by a class.                                   *)
LEMMA OwnerIsClass ==
  ASSUME NEW d \in Defn
  PROVE  Owner(d) \in Class /\ Owner(Owner(d)) = Owner(d)
BY OwnerOfClass, OwnerOfMember DEF Defn

(* What a program names: bases, attributes, types and initializers are of  *)
(* classes that the class that names them mentions.                        *)
LEMMA Named ==
  ASSUME prog \in Programs
  PROVE  /\ \A c \in Class : /\ prog.base[c] \in Class \cup {NoClass}
                             /\ prog.base[c] # NoClass => prog.base[c] \in Mentions(c)
         /\ \A d \in Class \cup Var :
              /\ prog.attr[d] \in Class \cup {NoClass}
              /\ prog.attr[d] # NoClass => prog.attr[d] \in Mentions(Owner(d))
         /\ \A d \in Var \cup Method :
              /\ prog.type[d] \in Class \cup {NoClass}
              /\ prog.init[d] \in Class \cup Static \cup {NoClass}
              /\ prog.type[d] # NoClass => prog.type[d] \in Mentions(Owner(d))
              /\ prog.init[d] # NoClass => Owner(prog.init[d]) \in Mentions(Owner(d))
         /\ \A c \in Class : Mentions(c) \subseteq Class
         /\ prog.order \in Seq(Class)
<1>0. /\ prog.order \in Seq(Class)
      /\ prog.base \in [Class -> Class \cup {NoClass}]
      /\ prog.attr \in [Class \cup Var -> Attr \cup {NoClass}]
      /\ prog.type \in [Var \cup Method -> Class \cup {NoClass}]
      /\ prog.init \in [Var \cup Method -> Class \cup Static \cup {NoClass}]
      /\ Attr \subseteq Class /\ Static \subseteq Var
  BY ProgramAssumption
<1>1. ASSUME NEW c \in Class
      PROVE  /\ prog.base[c] \in Class \cup {NoClass}
             /\ prog.base[c] # NoClass => prog.base[c] \in Mentions(c)
  <2>1. prog.base[c] \in Class \cup {NoClass}
    BY <1>0
  <2>2. prog.base[c] # NoClass => Owner(prog.base[c]) \in Mentions(c)
    BY DEF Mentions
  <2> QED BY <2>1, <2>2, OwnerOfClass
<1>4. ASSUME NEW d \in Class \cup Var
      PROVE  /\ prog.attr[d] \in Class \cup {NoClass}
             /\ prog.attr[d] # NoClass => prog.attr[d] \in Mentions(Owner(d))
  <2>1. prog.attr[d] \in Class \cup {NoClass}
    BY <1>0
  <2>2. PICK c \in Class : d \in {c} \cup Elems(FieldsOf[c]) /\ Owner(d) = c
    BY OwnerOfClass, OwnerOfField DEF Var
  <2>3. prog.attr[d] # NoClass => Owner(prog.attr[d]) \in Mentions(c)
    BY <2>2 DEF Mentions
  <2> QED BY <2>1, <2>2, <2>3, OwnerOfClass
<1>2. ASSUME NEW d \in Var \cup Method
      PROVE  /\ prog.type[d] \in Class \cup {NoClass}
             /\ prog.init[d] \in Class \cup Static \cup {NoClass}
             /\ prog.type[d] # NoClass => prog.type[d] \in Mentions(Owner(d))
             /\ prog.init[d] # NoClass => Owner(prog.init[d]) \in Mentions(Owner(d))
  <2>1. prog.type[d] \in Class \cup {NoClass} /\ prog.init[d] \in Class \cup Static \cup {NoClass}
    BY <1>0
  <2>0. d \in Elems(Members(Owner(d)))
    BY OwnerOfMember
  <2> DEFINE o == Owner(d)
  <2>2. prog.type[d] # NoClass => Owner(prog.type[d]) \in Mentions(o)
    <3> HIDE DEF o
    <3> SUFFICES ASSUME d \in Elems(Members(o)), prog.type[d] # NoClass
                 PROVE  Owner(prog.type[d]) \in Mentions(o)
      BY <2>0 DEF o
    <3> QED BY DEF Mentions
  <2>3. prog.init[d] # NoClass => Owner(prog.init[d]) \in Mentions(o)
    <3> HIDE DEF o
    <3> SUFFICES ASSUME d \in Elems(Members(o)), prog.init[d] # NoClass
                 PROVE  Owner(prog.init[d]) \in Mentions(o)
      BY <2>0 DEF o
    <3> QED BY DEF Mentions
  <2> QED BY <2>1, <2>2, <2>3, OwnerOfClass
<1>3. ASSUME NEW c \in Class, NEW x \in Mentions(c) PROVE x \in Class
  <2>1. PICK d : d # NoClass /\ x = Owner(d)
                  /\ d \in {prog.base[c]} \cup {prog.attr[e] : e \in {c} \cup Elems(FieldsOf[c])}
                             \cup {prog.init[e] : e \in Elems(Members(c))}
                             \cup {prog.type[e] : e \in Elems(Members(c))}
    BY DEF Mentions
  <2>2. d \in Class \cup Static
    BY <1>1, <1>2, <1>4, <2>1, MembersAre, OwnerOfField
  <2>3. d \in Defn
    BY <1>0, <2>2 DEF Defn
  <2> QED BY <2>1, <2>3, OwnerIsClass
<1> QED BY <1>0, <1>1, <1>2, <1>3, <1>4

-----------------------------------------------------------------------------
(* Sequences of steps.                                                     *)

(* The steps t have a request for the analysis of x for a task.            *)
Asking(t, x, task) == \E s \in Elems(t) : s.op = "analyze" /\ s.on = x /\ s.task = task

(* The steps t are all such as pass p of d may have.                       *)
StepsAre(d, p, t) == t \in Seq(StepType) /\ \A s \in Elems(t) : StepOK(d, p, s)

(* No step at all is such.                                                 *)
LEMMA NoSteps == \A d, p : StepsAre(d, p, <<>>)
BY DEF StepsAre, Elems

(* Steps of a pass, joined.                                                *)
LEMMA JoinedSteps ==
  ASSUME NEW d, NEW p, NEW t, NEW u, StepsAre(d, p, t), StepsAre(d, p, u)
  PROVE  StepsAre(d, p, t \o u) /\ Elems(t \o u) = Elems(t) \cup Elems(u)
<1>1. t \o u \in Seq(StepType) /\ Elems(t \o u) = Elems(t) \cup Elems(u)
  BY ElemsConcat DEF StepsAre
<1> QED BY <1>1 DEF StepsAre

(* Steps of a pass, from each of n definitions.                            *)
LEMMA ConcatSteps ==
  ASSUME NEW d, NEW p, NEW n \in Nat, NEW ss, ss = [i \in 1 .. n |-> ss[i]],
         \A i \in 1 .. n : StepsAre(d, p, ss[i])
  PROVE  /\ StepsAre(d, p, Concat(ss))
         /\ \A i \in 1 .. n : Elems(ss[i]) \subseteq Elems(Concat(ss))
         /\ \A s \in Elems(Concat(ss)) : \E i \in 1 .. n : s \in Elems(ss[i])
<1>1. ss \in Seq(Sequences(StepType)) /\ DOMAIN ss = 1 .. n
  <2>1. \A i \in 1 .. n : ss[i] \in Sequences(StepType)
    BY DEF StepsAre, Sequences
  <2>2. ss \in [1 .. n -> Sequences(StepType)]
    BY <2>1
  <2> QED BY <2>2
<1>2. Concat(ss) \in Seq(StepType) /\ Elems(Concat(ss)) = UNION {Elems(ss[i]) : i \in 1 .. n}
  BY <1>1, ElemsOfConcat
<1> QED BY <1>2 DEF StepsAre

(* Step() is a sequence of one step.                                       *)
LEMMA OneStep ==
  ASSUME NEW op \in Operation \cup {"analyze"}, NEW on \in Defn,
         NEW task \in Task \cup Operation, NEW must \in BOOLEAN
  PROVE  /\ Step(op, on, task, must) \in Seq(StepType)
         /\ Elems(Step(op, on, task, must)) = {[op |-> op, on |-> on, task |-> task, must |-> must]}
<1> DEFINE r == [op |-> op, on |-> on, task |-> task, must |-> must]
<1>1. r \in StepType
  BY DEF StepType
<1>2. Step(op, on, task, must) = <<r>>
  BY DEF Step
<1> HIDE DEF r
<1>3. <<r>> \in Seq(StepType) /\ Elems(<<r>>) = {r}
  BY <1>1 DEF Elems
<1> QED BY <1>2, <1>3 DEF r

(* A request whose failure is not passed on (Analyze()).                   *)
LEMMA AnalyzeSteps ==
  ASSUME NEW d, NEW p, NEW x \in Defn \cup {NoClass}, NEW task \in Task,
         task \in Generation => p \in Thorough,
         x # NoClass => Owner(x) \in Mentions(Owner(d)) \cup {Owner(d)}
  PROVE  /\ StepsAre(d, p, Analyze(x, task))
         /\ x # NoClass => Asking(Analyze(x, task), x, task)
<1>1. CASE x = NoClass
  BY <1>1, NoSteps DEF Analyze
<1>2. CASE x # NoClass
  <2>1. Analyze(x, task) = Step("analyze", x, task, FALSE)
    BY <1>2 DEF Analyze
  <2> DEFINE r == [op |-> "analyze", on |-> x, task |-> task, must |-> FALSE]
  <2>2. Step("analyze", x, task, FALSE) \in Seq(StepType) /\ Elems(Step("analyze", x, task, FALSE)) = {r}
    <3>1. "analyze" \in Operation \cup {"analyze"} /\ task \in Task \cup Operation /\ x \in Defn
      BY <1>2
    <3>2. FALSE \in BOOLEAN
      OBVIOUS
    <3> QED BY <3>1, <3>2, OneStep, Zenon
  <2>3. StepOK(d, p, r)
    BY <1>2 DEF StepOK
  <2>4. r.op = "analyze" /\ r.on = x /\ r.task = task
    OBVIOUS
  <2> HIDE DEF r
  <2> QED BY <2>1, <2>2, <2>3, <2>4 DEF StepsAre, Asking
<1> QED BY <1>1, <1>2

(* A request whose failure is passed on (Require()).                       *)
LEMMA RequireSteps ==
  ASSUME NEW d, NEW p, NEW x \in Class \cup {NoClass}, NEW task \in Task,
         task \in Generation => p \in Thorough,
         x # NoClass => x \in Mentions(Owner(d)),
         Demanding(d, p)
  PROVE  /\ StepsAre(d, p, Require(x, task))
         /\ x # NoClass => Asking(Require(x, task), x, task)
<1>1. CASE x = NoClass
  BY <1>1, NoSteps DEF Require
<1>2. CASE x # NoClass
  <2>0. x \in Class /\ x \in Defn /\ Owner(x) = x
    BY <1>2, OwnerOfClass
  <2>1. Require(x, task) = Step("analyze", x, task, TRUE)
    BY <1>2 DEF Require
  <2> DEFINE r == [op |-> "analyze", on |-> x, task |-> task, must |-> TRUE]
  <2>2. Step("analyze", x, task, TRUE) \in Seq(StepType) /\ Elems(Step("analyze", x, task, TRUE)) = {r}
    <3>1. "analyze" \in Operation \cup {"analyze"} /\ task \in Task \cup Operation /\ x \in Defn
      BY <2>0
    <3>2. TRUE \in BOOLEAN
      OBVIOUS
    <3> QED BY <3>1, <3>2, OneStep, Zenon
  <2>3. StepOK(d, p, r)
    BY <1>2, <2>0 DEF StepOK
  <2>4. r.op = "analyze" /\ r.on = x /\ r.task = task
    OBVIOUS
  <2> HIDE DEF r
  <2> QED BY <2>1, <2>2, <2>3, <2>4 DEF StepsAre, Asking
<1> QED BY <1>1, <1>2

(* What an operation of pass p of d may be on.                             *)
EffectOK(op, x, d, p) ==
  /\ op = "link" => d \in Class /\ p = "BaseTypes" /\ x = prog.base[d]
  /\ op = "reserve" => d \in Class /\ p = "Field"
  /\ op \in {"field", "place"} => d \in Class /\ p = "Field" /\ x \in Elems(FieldsOf[d])
  /\ op = "table" => d \in Class /\ p = "Overloading"
  /\ op = "evaluate" => d \in Class \cup Var /\ p = "Attribute" /\ x = prog.attr[d]

(* An operation is one step of its pass.                                   *)
LEMMA EffectSteps ==
  ASSUME NEW d, NEW p, NEW x \in Defn \cup {NoClass},
         NEW op \in Operation,
         x # NoClass => EffectOK(op, x, d, p)
  PROVE  /\ StepsAre(d, p, Effect(op, x))
         /\ \A s \in Elems(Effect(op, x)) : s.op = op
         /\ x # NoClass => \E s \in Elems(Effect(op, x)) : s.op = op /\ s.on = x
<1>1. CASE x = NoClass
  BY <1>1, NoSteps DEF Effect, Elems
<1>2. CASE x # NoClass
  <2>1. Effect(op, x) = Step(op, x, op, FALSE)
    BY <1>2 DEF Effect
  <2> DEFINE r == [op |-> op, on |-> x, task |-> op, must |-> FALSE]
  <2>2. Step(op, x, op, FALSE) \in Seq(StepType) /\ Elems(Step(op, x, op, FALSE)) = {r}
    <3>1. op \in Operation \cup {"analyze"} /\ op \in Task \cup Operation /\ x \in Defn
      BY <1>2
    <3>2. FALSE \in BOOLEAN
      OBVIOUS
    <3> QED BY <3>1, <3>2, OneStep, Zenon
  <2>3. StepOK(d, p, r)
    BY <1>2 DEF Operation, StepOK, EffectOK
  <2>4. r.op = op /\ r.on = x
    OBVIOUS
  <2> HIDE DEF r
  <2> QED BY <2>1, <2>2, <2>3, <2>4 DEF StepsAre, Asking
<1> QED BY <1>1, <1>2

(* What the steps of a pass depend on: the program, and the classes as far *)
(* as they are laid out.                                                   *)
Steady ==
  /\ prog \in Programs
  /\ super \in [Class -> Class \cup {NoClass}]
  /\ placed \in [Class -> Seq(Var)] /\ PlacedOwn /\ Links

(* NoClass is not a definition.                                            *)
LEMMA NoClassIsNone == NoClass \notin Class /\ NoClass \notin Var /\ NoClass \notin Method
BY ProgramAssumption DEF Defn

(* The fields of a class, as a sequence.                                   *)
LEMMA FieldSeq ==
  ASSUME NEW c \in Class
  PROVE  /\ FieldsOf[c] \in Seq(Var) /\ Len(FieldsOf[c]) \in Nat /\ DOMAIN FieldsOf[c] = 1 .. Len(FieldsOf[c])
         /\ \A i \in 1 .. Len(FieldsOf[c]) :
              FieldsOf[c][i] \in Elems(FieldsOf[c]) /\ FieldsOf[c][i] \in Var /\ FieldsOf[c][i] \in Defn
              /\ Owner(FieldsOf[c][i]) = c
<1>1. FieldsOf[c] \in Seq(Elems(FieldsOf[c])) /\ Elems(FieldsOf[c]) \subseteq Var
  BY ProgramAssumption DEF Var
<1>2. FieldsOf[c] \in Seq(Var)
  BY <1>1, SeqMonotonic
<1>3. Len(FieldsOf[c]) \in Nat /\ DOMAIN FieldsOf[c] = 1 .. Len(FieldsOf[c])
  BY <1>2, LenProperties
<1>4. \A i \in 1 .. Len(FieldsOf[c]) : FieldsOf[c][i] \in Elems(FieldsOf[c])
  BY <1>3 DEF Elems
<1> QED BY <1>2, <1>3, <1>4, OwnerOfField

(* The methods of a class, as a sequence.                                  *)
LEMMA MethodSeq ==
  ASSUME NEW c \in Class
  PROVE  /\ Len(MethodsOf[c]) \in Nat /\ DOMAIN MethodsOf[c] = 1 .. Len(MethodsOf[c])
         /\ \A i \in 1 .. Len(MethodsOf[c]) :
              <<c, MethodsOf[c][i]>> \in Defn /\ Owner(<<c, MethodsOf[c][i]>>) = c
<1>1. MethodsOf[c] \in Seq(Elems(MethodsOf[c]))
  BY ProgramAssumption
<1>2. Len(MethodsOf[c]) \in Nat /\ DOMAIN MethodsOf[c] = 1 .. Len(MethodsOf[c])
  BY <1>1, LenProperties
<1>3. \A i \in 1 .. Len(MethodsOf[c]) : MethodsOf[c][i] \in Elems(MethodsOf[c])
  BY <1>2 DEF Elems
<1> QED BY <1>2, <1>3, OwnerOfMethod

(* The superclass of a class is mentioned by it.                           *)
LEMMA Supers ==
  ASSUME Steady, NEW c \in Class
  PROVE  /\ super[c] \in Class \cup {NoClass} /\ super[c] \in Defn \cup {NoClass}
         /\ super[c] # NoClass => super[c] \in Mentions(Owner(c)) /\ Owner(super[c]) = super[c]
         /\ Owner(c) = c
<1>1. super[c] \in Class \cup {NoClass}
  BY DEF Steady
<1>2. super[c] # NoClass => super[c] = prog.base[c]
  BY DEF Steady, Links
<1>3. prog.base[c] # NoClass => prog.base[c] \in Mentions(c)
  BY Named DEF Steady
<1> QED BY <1>1, <1>2, <1>3, OwnerOfClass DEF Defn

(* The steps of an initializer or of a body.                               *)
LEMMA ExpressionSteps ==
  ASSUME prog \in Programs, NEW d \in Var \cup Method, NEW p, p # "Attribute"
  PROVE  StepsAre(d, p, Expression(d))
<1> DEFINE x == prog.init[d]
<1>1. x \in Class \cup Static \cup {NoClass} /\ (x # NoClass => Owner(x) \in Mentions(Owner(d)))
  BY Named
<1>2. Static \subseteq Var /\ d \notin Class
  BY ProgramAssumption
<1>3. CASE x \in Static
  <2>1. x \in Defn /\ x # NoClass /\ Owner(x) \in Class /\ Owner(x) \in Defn /\ Owner(Owner(x)) = Owner(x)
    BY <1>2, <1>3, NoClassIsNone, OwnerOfMember, OwnerIsClass DEF Defn
  <2>2. "MemberLookup" \in Task /\ "MemberLookup" \notin Generation
        /\ "TypeComparison" \in Task /\ "TypeComparison" \notin Generation
    BY DEF Task, Generation
  <2>3. Owner(x) \in Mentions(Owner(d))
    BY <1>1, <2>1
  <2> HIDE DEF x
  <2>4. StepsAre(d, p, Analyze(Owner(x), "MemberLookup"))
    BY <2>1, <2>2, <2>3, AnalyzeSteps
  <2>5. StepsAre(d, p, Analyze(x, "TypeComparison"))
    BY <2>1, <2>2, <2>3, AnalyzeSteps
  <2>6. Expression(d) = Analyze(Owner(x), "MemberLookup") \o Analyze(x, "TypeComparison")
    BY <1>3 DEF Expression, x
  <2> QED BY <2>4, <2>5, <2>6, JoinedSteps
<1>4. CASE x \notin Static
  <2>1. x \in Class \cup {NoClass} /\ (x # NoClass => x \in Mentions(Owner(d)))
    BY <1>1, <1>4, OwnerOfClass
  <2>2. "Construction" \in Task /\ "Construction" \notin Generation
    BY DEF Task, Generation
  <2>3. Expression(d) = Require(x, "Construction")
    BY <1>4 DEF Expression
  <2>4. Demanding(d, p)
    BY <1>2 DEF Demanding
  <2> HIDE DEF x
  <2>5. StepsAre(d, p, Require(x, "Construction"))
    BY <2>1, <2>2, <2>4, RequireSteps
  <2> QED BY <2>3, <2>5
<1> QED BY <1>3, <1>4

(* The names of tasks and passes, told apart once.                         *)
Tasks == /\ "TypeComparison" \in Task /\ "TypeComparison" \notin Generation
         /\ "MemberLookup" \in Task /\ "MemberLookup" \notin Generation
         /\ "Construction" \in Task /\ "Construction" \notin Generation
         /\ "Evaluation" \in Task /\ "Evaluation" \notin Generation
         /\ "TypeGeneration" \in Task /\ "CodeGeneration" \in Task
         /\ "Completion" \in Thorough /\ "RecursiveFieldType" \in Thorough

(* Tasks are what Tasks says.                                              *)
LEMMA TasksAre == Tasks
BY DEF Tasks, Task, Generation, Thorough

(* The names of operations.                                                *)
LEMMA OperationsAre == {"link", "reserve", "field", "place", "table", "evaluate", "symbol"} \subseteq Operation
BY DEF Operation

(* A request for the analysis of a class that is mentioned.                *)
LEMMA AnalyzeClass ==
  ASSUME NEW d, NEW p, NEW x \in Class \cup {NoClass}, NEW task \in Task,
         task \in Generation => p \in Thorough,
         x # NoClass => x \in Mentions(Owner(d))
  PROVE  /\ StepsAre(d, p, Analyze(x, task))
         /\ x # NoClass => Asking(Analyze(x, task), x, task)
<1>1. x \in Defn \cup {NoClass}
  BY OwnerOfClass
<1>2. x # NoClass => Owner(x) \in Mentions(Owner(d)) \cup {Owner(d)}
  BY OwnerOfClass
<1> QED BY <1>1, <1>2, AnalyzeSteps

(* The passes of a variable.                                               *)
LEMMA VarPassSteps ==
  ASSUME Steady, NEW v \in Var, NEW p, p # "Attribute"
  PROVE  StepsAre(v, p, VarSteps(v, p))
<1>0. v \notin Class /\ prog \in Programs /\ v \in Defn /\ v \in Var \cup Method
  BY ProgramAssumption DEF Steady, Defn
<1>1. /\ prog.type[v] \in Class \cup {NoClass}
      /\ prog.type[v] # NoClass => prog.type[v] \in Mentions(Owner(v)) /\ Owner(prog.type[v]) = prog.type[v]
      /\ prog.type[v] \in Defn \cup {NoClass}
  BY <1>0, Named, OwnerOfClass
<1>2. CASE p = "VariableType" /\ ~Compiled(v)
  <2>1. StepsAre(v, p, Analyze(prog.type[v], "TypeComparison"))
    BY <1>1, TasksAre, AnalyzeClass DEF Tasks
  <2>2. StepsAre(v, p, Expression(v))
    BY <1>0, ExpressionSteps
  <2> QED BY <1>2, <2>1, <2>2, JoinedSteps DEF VarSteps
<1>3. CASE p = "Initializer" /\ ~Compiled(v)
  <2> DEFINE x == prog.init[v]
             A == IF v \in Static /\ x \in Class THEN Analyze(x, "Evaluation") ELSE <<>>
  <2>1. StepsAre(v, p, A)
    <3>1. CASE x \in Class
      <4>1. x # NoClass /\ x \in Defn /\ Owner(x) = x /\ Owner(x) \in Mentions(Owner(v))
        BY <1>0, <3>1, Named, NoClassIsNone, OwnerOfClass
      <4>2. StepsAre(v, p, Analyze(x, "Evaluation"))
        <5> HIDE DEF x
        <5> QED BY <4>1, TasksAre, AnalyzeSteps DEF Tasks
      <4> QED BY <4>2, NoSteps
    <3> QED BY <3>1, NoSteps
  <2>2. StepsAre(v, p, Effect("symbol", prog.type[v]))
    BY <1>1, EffectSteps, OperationsAre DEF EffectOK
  <2>3. VarSteps(v, p) = A \o Effect("symbol", prog.type[v])
    BY <1>3 DEF VarSteps
  <2> HIDE DEF A
  <2> QED BY <2>1, <2>2, <2>3, JoinedSteps
<1>4. CASE p = "Completion"
  <2>1. StepsAre(v, p, Require(prog.type[v], "TypeGeneration"))
    <3>1. Demanding(v, p)
      BY <1>0, ProgramAssumption DEF Demanding
    <3> QED BY <1>0, <1>1, <1>4, <3>1, TasksAre, RequireSteps DEF Tasks
  <2> QED BY <1>4, <2>1 DEF VarSteps
<1>5. CASE p \notin {"VariableType", "Initializer", "Completion"}
  BY <1>5, NoSteps DEF VarSteps
<1>6. CASE p \in {"VariableType", "Initializer"} /\ Compiled(v)
  BY <1>6, NoSteps DEF VarSteps
<1> QED BY <1>2, <1>3, <1>4, <1>5, <1>6

(* The passes of a method.                                                 *)
LEMMA MethodPassesSteps ==
  ASSUME Steady, NEW m \in Method, NEW p
  PROVE  StepsAre(m, p, MethodSteps(m, p))
<1>0. m \notin Class /\ prog \in Programs /\ m \in Defn /\ m \in Var \cup Method
  BY ProgramAssumption DEF Steady, Defn
<1>1. /\ prog.type[m] \in Class \cup {NoClass}
      /\ prog.type[m] # NoClass => prog.type[m] \in Mentions(Owner(m)) /\ Owner(prog.type[m]) = prog.type[m]
      /\ prog.type[m] \in Defn \cup {NoClass}
      /\ Owner(m) \in Defn /\ Owner(Owner(m)) = Owner(m)
  BY <1>0, Named, OwnerOfClass, OwnerIsClass
<1>2. CASE p = "ParameterType"
  <2> DEFINE A == IF Compiled(m) THEN <<>> ELSE Analyze(prog.type[m], "TypeComparison")
  <2>1. StepsAre(m, p, A)
    BY <1>1, NoSteps, TasksAre, AnalyzeClass DEF Tasks
  <2>2. StepsAre(m, p, Analyze(Owner(m), "MemberLookup"))
    BY <1>1, TasksAre, AnalyzeSteps DEF Tasks
  <2>3. MethodSteps(m, p) = A \o Analyze(Owner(m), "MemberLookup")
    BY <1>2 DEF MethodSteps
  <2> HIDE DEF A
  <2> QED BY <2>1, <2>2, <2>3, JoinedSteps
<1>3. CASE p = "ControlFlow"
  BY <1>0, <1>3, ExpressionSteps DEF MethodSteps
<1>4. CASE p = "Completion"
  <2>1. StepsAre(m, p, Analyze(prog.type[m], "TypeGeneration"))
    BY <1>1, <1>4, TasksAre, AnalyzeClass DEF Tasks
  <2>2. StepsAre(m, p, Analyze(Owner(m), "TypeGeneration"))
    BY <1>1, <1>4, TasksAre, AnalyzeSteps DEF Tasks
  <2> QED BY <1>4, <2>1, <2>2, JoinedSteps DEF MethodSteps
<1>5. CASE p \notin {"ParameterType", "ControlFlow", "Completion"}
  BY <1>5, NoSteps DEF MethodSteps
<1> QED BY <1>2, <1>3, <1>4, <1>5

-----------------------------------------------------------------------------
(* The order of steps.                                                     *)

(* Three sequences are joined from either end.                             *)
LEMMA JoinedTwice ==
  ASSUME NEW S, NEW s \in Seq(S), NEW t \in Seq(S), NEW u \in Seq(S)
  PROVE  (s \o t) \o u = s \o (t \o u) /\ t \o u \in Seq(S)
BY ConcatAssociative, ConcatProperties

(* Steps of a pass, in three parts.                                        *)
InParts(d, p, t, u, w) ==
  /\ (t \o u) \o w = t \o (u \o w)
  /\ StepsAre(d, p, u \o w) /\ Elems(u \o w) = Elems(u) \cup Elems(w)
  /\ StepsAre(d, p, t \o (u \o w))
  /\ Elems(t \o (u \o w)) = (Elems(t) \cup Elems(u)) \cup Elems(w)

(* Steps of a pass that are joined twice.                                  *)
LEMMA ThreeParts ==
  ASSUME NEW d, NEW p, NEW t, NEW u, NEW w, StepsAre(d, p, t), StepsAre(d, p, u), StepsAre(d, p, w)
  PROVE  InParts(d, p, t, u, w)
<1>1. (t \o u) \o w = t \o (u \o w) /\ u \o w \in Seq(StepType)
  BY JoinedTwice DEF StepsAre
<1>2. Elems(u \o w) = Elems(u) \cup Elems(w)
  BY ElemsConcat DEF StepsAre
<1>3. StepsAre(d, p, u \o w)
  BY <1>1, <1>2 DEF StepsAre
<1> DEFINE r == u \o w
<1>4. r \in Seq(StepType) /\ t \in Seq(StepType) /\ StepsAre(d, p, r)
  BY <1>1, <1>3 DEF StepsAre
<1> HIDE DEF r
<1>5. t \o r \in Seq(StepType) /\ Elems(t \o r) = Elems(t) \cup Elems(r)
  BY <1>4, ElemsConcat
<1>6. StepsAre(d, p, t \o r)
  BY <1>4, <1>5 DEF StepsAre
<1> QED BY <1>1, <1>2, <1>3, <1>5, <1>6 DEF r, InParts

(* The places of two sequences that are joined.                            *)
LEMMA JoinedAt ==
  ASSUME NEW S, NEW s \in Seq(S), NEW t \in Seq(S)
  PROVE  /\ DOMAIN (s \o t) = 1 .. Len(s) + Len(t) /\ Len(t) \in Nat /\ Len(s) \in Nat
         /\ DOMAIN t = 1 .. Len(t) /\ DOMAIN s = 1 .. Len(s)
         /\ \A i \in 1 .. Len(s) + Len(t) : (s \o t)[i] = IF i <= Len(s) THEN s[i] ELSE t[i - Len(s)]
BY ConcatProperties, LenProperties

(* What comes after one step is what is joined to it.                      *)
LEMMA AfterOne ==
  ASSUME NEW S, NEW s \in Seq(S), NEW t \in Seq(S)
  PROVE  Len(s) = 1 => \A n \in DOMAIN (s \o t) : n > 1 => n - 1 \in DOMAIN t /\ (s \o t)[n] = t[n - 1]
<1>1. /\ DOMAIN (s \o t) = 1 .. Len(s) + Len(t) /\ Len(t) \in Nat
      /\ DOMAIN t = 1 .. Len(t)
      /\ \A i \in 1 .. Len(s) + Len(t) : (s \o t)[i] = IF i <= Len(s) THEN s[i] ELSE t[i - Len(s)]
  BY JoinedAt
<1> SUFFICES ASSUME Len(s) = 1, NEW n \in DOMAIN (s \o t), n > 1
             PROVE  n - 1 \in DOMAIN t /\ (s \o t)[n] = t[n - 1]
  OBVIOUS
<1>2. n \in 1 .. 1 + Len(t) /\ ~(n <= 1) /\ n - 1 \in 1 .. Len(t)
  BY <1>1
<1> QED BY <1>1, <1>2

(* No step uses what a request got.                                        *)
NoLate(t) == \A s \in Elems(t) : s.op \notin Late

(* No step is a request.                                                   *)
NoAnalyze(t) == \A s \in Elems(t) : s.op # "analyze"

(* No step takes the slot of the superclass.                               *)
NoReserve(t) == \A s \in Elems(t) : s.op # "reserve"

(* Steps without such an operation are in order.                           *)
LEMMA OrderIfOne ==
  ASSUME NEW t, NoLate(t)
  PROVE  InOrder(t)
BY DEF NoLate, Late, InOrder, Elems

(* Requests, and then operations, are in order.                            *)
LEMMA OrderJoined ==
  ASSUME NEW t \in Seq(StepType), NEW u \in Seq(StepType), NoLate(t), NoAnalyze(u),
         \/ NoReserve(u)
         \/ /\ \A s \in Elems(t) : s.op = "analyze"
            /\ \A n \in DOMAIN u : n > 1 => u[n].op # "reserve"
  PROVE  InOrder(t \o u)
<1>1. /\ DOMAIN (t \o u) = 1 .. Len(t) + Len(u) /\ Len(t) \in Nat /\ Len(u) \in Nat
      /\ DOMAIN t = 1 .. Len(t) /\ DOMAIN u = 1 .. Len(u)
      /\ \A i \in 1 .. Len(t) : (t \o u)[i] = t[i]
      /\ \A i \in Len(t) + 1 .. Len(t) + Len(u) : (t \o u)[i] = u[i - Len(t)]
  OBVIOUS
<1> DEFINE v == t \o u
<1> HIDE DEF v
<1>6. ASSUME NEW n \in DOMAIN v
      PROVE  \/ n \in 1 .. Len(t) /\ v[n] = t[n] /\ t[n] \in Elems(t)
             \/ n \in Len(t) + 1 .. Len(t) + Len(u) /\ n - Len(t) \in 1 .. Len(u)
                /\ v[n] = u[n - Len(t)] /\ u[n - Len(t)] \in Elems(u)
  BY <1>1 DEF v, Elems
<1>2. SUFFICES ASSUME NEW m \in DOMAIN v, NEW n \in DOMAIN v, m < n
               PROVE  /\ v[m].op \in Late => v[n].op # "analyze"
                      /\ v[n].op = "reserve" => v[m].op = "analyze"
  BY DEF InOrder, v
<1>3. v[m].op \in Late => v[n].op # "analyze"
  <2> SUFFICES ASSUME v[m].op \in Late PROVE v[n].op # "analyze"
    OBVIOUS
  <2>1. m \notin 1 .. Len(t)
    BY <1>1, <1>6 DEF NoLate, v, Elems
  <2>2. n \in Len(t) + 1 .. Len(t) + Len(u)
    BY <1>1, <1>2, <2>1 DEF v
  <2>3. n \notin 1 .. Len(t)
    BY <1>1, <2>2
  <2> QED BY <1>6, <2>3 DEF NoAnalyze
<1>4. v[n].op = "reserve" => v[m].op = "analyze"
  <2> SUFFICES ASSUME v[n].op = "reserve" PROVE v[m].op = "analyze"
    OBVIOUS
  <2>1. n \in Len(t) + 1 .. Len(t) + Len(u) /\ n - Len(t) \in 1 .. Len(u)
        /\ v[n] = u[n - Len(t)] /\ u[n - Len(t)] \in Elems(u)
    BY <1>6 DEF NoLate, Late
  <2>2. /\ \A s \in Elems(t) : s.op = "analyze"
        /\ ~(n - Len(t) > 1)
    BY <1>1, <2>1 DEF NoReserve
  <2>3. m \in 1 .. Len(t)
    <3> m \in 1 .. Len(t) + Len(u)
      BY <1>1 DEF v
    <3> HIDE DEF v
    <3> QED BY <1>1, <1>2, <2>1, <2>2
  <2>4. m \notin Len(t) + 1 .. Len(t) + Len(u)
    BY <1>1, <2>3
  <2> QED BY <1>6, <2>2, <2>4
<1> QED BY <1>3, <1>4

(* What is left of steps in order is in order; after an operation that     *)
(* uses what requests got there are no more requests, and after any        *)
(* operation there is none that takes the slot of the superclass.          *)
LEMMA OrderOfTail ==
  ASSUME NEW t \in Seq(StepType), t # <<>>, InOrder(t)
  PROVE  /\ InOrder(Tail(t)) /\ Tail(t) \in Seq(StepType) /\ Head(t) \in Elems(t)
         /\ Head(t).op \in Late => NoAnalyze(Tail(t))
         /\ Head(t).op # "analyze" => NoReserve(Tail(t))
         /\ Elems(t) = {Head(t)} \cup Elems(Tail(t))
<1>1. /\ Len(t) \in Nat /\ Len(t) >= 1 /\ DOMAIN t = 1 .. Len(t) /\ Head(t) = t[1]
      /\ DOMAIN Tail(t) = 1 .. Len(t) - 1 /\ Tail(t) \in Seq(StepType)
      /\ \A i \in 1 .. Len(t) - 1 : Tail(t)[i] = t[i + 1]
  OBVIOUS
<1> DEFINE u == Tail(t)
           h == Head(t)
<1> HIDE DEF u, h
<1>2. InOrder(u)
  <2> SUFFICES ASSUME NEW m \in DOMAIN u, NEW n \in DOMAIN u, m < n
               PROVE  /\ u[m].op \in Late => u[n].op # "analyze"
                      /\ u[n].op = "reserve" => u[m].op = "analyze"
    BY DEF InOrder
  <2> PICK a : a = m + 1 OBVIOUS
  <2> PICK b : b = n + 1 OBVIOUS
  <2>1. a \in DOMAIN t /\ b \in DOMAIN t /\ a < b
    BY <1>1 DEF u
  <2>2. u[m] = t[a] /\ u[n] = t[b]
    BY <1>1 DEF u
  <2>3. (t[a].op \in Late => t[b].op # "analyze") /\ (t[b].op = "reserve" => t[a].op = "analyze")
    BY <2>1 DEF InOrder
  <2> QED BY <2>2, <2>3
<1>3. (h.op \in Late => NoAnalyze(u)) /\ (h.op # "analyze" => NoReserve(u))
  <2> SUFFICES ASSUME NEW n \in DOMAIN u
               PROVE  (h.op \in Late => u[n].op # "analyze") /\ (h.op # "analyze" => u[n].op # "reserve")
    BY DEF NoAnalyze, NoReserve, Elems
  <2> PICK a : a = 1 OBVIOUS
  <2> PICK b : b = n + 1 OBVIOUS
  <2>1. a \in DOMAIN t /\ b \in DOMAIN t /\ a < b /\ u[n] = t[b] /\ h = t[a]
    BY <1>1 DEF u, h
  <2>3. (t[a].op \in Late => t[b].op # "analyze") /\ (t[b].op = "reserve" => t[a].op = "analyze")
    BY <2>1 DEF InOrder
  <2> QED BY <2>1, <2>3
<1>4. Elems(t) = {h} \cup Elems(u)
  <2>1. \A i \in 1 .. Len(t) : i = 1 \/ (i - 1 \in 1 .. Len(t) - 1 /\ i = (i - 1) + 1)
    BY <1>1
  <2>2. \A i \in 1 .. Len(t) : t[i] = h \/ (i - 1 \in DOMAIN u /\ t[i] = u[i - 1])
    BY <1>1, <2>1 DEF u, h
  <2>3. \A i \in DOMAIN u : i + 1 \in 1 .. Len(t) /\ u[i] = t[i + 1]
    BY <1>1 DEF u
  <2>4. 1 \in 1 .. Len(t) /\ h = t[1]
    BY <1>1 DEF h
  <2> QED BY <1>1, <2>2, <2>3, <2>4 DEF Elems
<1> QED BY <1>1, <1>2, <1>3, <1>4 DEF u, h, Elems

(* An operation is a step of its pass, and no request.                     *)
LEMMA EffectIs ==
  ASSUME NEW d, NEW p, NEW x \in Defn \cup {NoClass}, NEW op \in Operation, EffectOK(op, x, d, p)
  PROVE  /\ StepsAre(d, p, Effect(op, x)) /\ NoAnalyze(Effect(op, x))
         /\ \A s \in Elems(Effect(op, x)) : s.op = op
         /\ x # NoClass => \E s \in Elems(Effect(op, x)) : s.op = op
<1>1. op # "analyze"
  BY DEF Operation
<1>2. /\ StepsAre(d, p, Effect(op, x))
      /\ \A s \in Elems(Effect(op, x)) : s.op = op
      /\ x # NoClass => \E s \in Elems(Effect(op, x)) : s.op = op /\ s.on = x
  BY EffectSteps
<1> QED BY <1>1, <1>2 DEF NoAnalyze

(* The operation on a field.                                               *)
LEMMA FieldEffect ==
  ASSUME NEW c, NEW v \in Defn \cup {NoClass}, EffectOK("field", v, c, "Field")
  PROVE  StepsAre(c, "Field", Effect("field", v)) /\ \A s \in Elems(Effect("field", v)) : s.op = "field"
<1> PICK op : op = "field" OBVIOUS
<1>1. op \in Operation /\ EffectOK(op, v, c, "Field")
  BY OperationsAre
<1>2. StepsAre(c, "Field", Effect(op, v)) /\ \A s \in Elems(Effect(op, v)) : s.op = op
  BY <1>1, EffectSteps
<1> QED BY <1>2

(* The operation on a method.                                              *)
LEMMA SymbolEffect ==
  ASSUME NEW c, NEW v \in Defn \cup {NoClass}, EffectOK("symbol", v, c, "Overloading")
  PROVE  StepsAre(c, "Overloading", Effect("symbol", v)) /\ \A s \in Elems(Effect("symbol", v)) : s.op = "symbol"
<1> PICK op : op = "symbol" OBVIOUS
<1>1. op \in Operation /\ EffectOK(op, v, c, "Overloading")
  BY OperationsAre
<1>2. StepsAre(c, "Overloading", Effect(op, v)) /\ \A s \in Elems(Effect(op, v)) : s.op = op
  BY <1>1, EffectSteps
<1> QED BY <1>2

-----------------------------------------------------------------------------
(* What the passes of a class do.                                          *)

(* The pass for the attribute of a class or a variable asks for the        *)
(* attribute's class, which is then constructed (AttributePass).           *)
LEMMA AttributeAsks ==
  ASSUME Steady, NEW c \in Class \cup Var
  PROVE  /\ StepsAre(c, "Attribute", AttributeSteps(c)) /\ InOrder(AttributeSteps(c))
         /\ prog.attr[c] # NoClass => Asking(AttributeSteps(c), prog.attr[c], "Construction")
<1> PICK x : x = prog.attr[c] OBVIOUS
<1>1. x \in Class \cup {NoClass} /\ (x # NoClass => x \in Mentions(Owner(c))) /\ x \in Defn \cup {NoClass}
  <2>1. x \in Class \cup {NoClass} /\ (x # NoClass => x \in Mentions(Owner(c)))
    BY Named DEF Steady
  <2> QED BY <2>1, OwnerOfClass
<1>2. EffectOK("evaluate", x, c, "Attribute")
  BY DEF EffectOK
<1> PICK E : E = Effect("evaluate", x) OBVIOUS
<1> DEFINE Requests(A, B) ==
      /\ AttributeSteps(c) = (A \o B) \o E
      /\ StepsAre(c, "Attribute", A) /\ (x # NoClass => Asking(A, x, "Construction"))
      /\ StepsAre(c, "Attribute", B) /\ \A s \in Elems(A) \cup Elems(B) : s.op = "analyze"
<1>3. \E A, B : Requests(A, B)
  <2> DEFINE R == Require(x, "Construction")
             A == Analyze(x, "Construction")
             B == Analyze(x, "Evaluation")
  <2>1. \A s \in Elems(R) \cup Elems(A) \cup Elems(B) \cup Elems(<<>>) : s.op = "analyze"
    BY DEF Analyze, Require, Step, Elems
  <2>2. StepsAre(c, "Attribute", R) /\ (x # NoClass => Asking(R, x, "Construction"))
    <3>1. Demanding(c, "Attribute")
      BY ProgramAssumption DEF Demanding
    <3> QED BY <1>1, <3>1, TasksAre, RequireSteps DEF Tasks
  <2>3. StepsAre(c, "Attribute", A) /\ (x # NoClass => Asking(A, x, "Construction"))
    BY <1>1, TasksAre, AnalyzeClass DEF Tasks
  <2>4. StepsAre(c, "Attribute", B)
    BY <1>1, TasksAre, AnalyzeClass DEF Tasks
  <2>5. AttributeSteps(c) = IF Compiled(c) THEN R \o E ELSE (A \o B) \o E
    BY DEF AttributeSteps
  <2> HIDE DEF R, A, B
  <2>6. R \o <<>> = R
    BY <2>2 DEF StepsAre
  <2>7. CASE Compiled(c)
    <3>1. Requests(R, <<>>)
      BY <2>1, <2>2, <2>5, <2>6, <2>7, NoSteps
    <3> HIDE DEF Requests
    <3> QED BY <3>1
  <2>8. CASE ~Compiled(c)
    <3>1. Requests(A, B)
      BY <2>1, <2>3, <2>4, <2>5, <2>8
    <3> HIDE DEF Requests
    <3> QED BY <3>1
  <2> QED BY <2>7, <2>8
<1> PICK A, B : Requests(A, B)
  BY <1>3
<1>4. StepsAre(c, "Attribute", A) /\ StepsAre(c, "Attribute", B)
  OBVIOUS
<1>5. /\ AttributeSteps(c) = (A \o B) \o E /\ (x # NoClass => Asking(A, x, "Construction"))
      /\ \A s \in Elems(A) \cup Elems(B) : s.op = "analyze"
  OBVIOUS
<1>6. StepsAre(c, "Attribute", E) /\ NoAnalyze(E) /\ NoReserve(E)
  BY <1>1, <1>2, OperationsAre, EffectIs DEF NoReserve
<1> HIDE DEF Requests
<1>7. StepsAre(c, "Attribute", A \o B) /\ Elems(A \o B) = Elems(A) \cup Elems(B)
  <2>1. StepsAre(c, "Attribute", A \o B)
    BY <1>4, JoinedSteps
  <2>2. Elems(A \o B) = Elems(A) \cup Elems(B)
    BY <1>4, ElemsConcat DEF StepsAre
  <2> QED BY <2>1, <2>2
<1>8. NoLate(A \o B)
  BY <1>5, <1>7 DEF NoLate, Late
<1>9. InOrder((A \o B) \o E)
  BY <1>6, <1>7, <1>8, OrderJoined DEF StepsAre
<1>10. StepsAre(c, "Attribute", (A \o B) \o E) /\ Elems((A \o B) \o E) = Elems(A) \cup Elems(B) \cup Elems(E)
  BY <1>6, <1>7, JoinedSteps
<1> QED BY <1>5, <1>9, <1>10 DEF Asking

(* The pass for the base types asks for the base, which is then linked     *)
(* (BaseTypesPass).                                                        *)
LEMMA BaseTypesAsks ==
  ASSUME Steady, NEW c \in Class
  PROVE  /\ StepsAre(c, "BaseTypes", BaseTypesSteps(c)) /\ InOrder(BaseTypesSteps(c))
         /\ prog.base[c] # NoClass =>
              /\ Asking(BaseTypesSteps(c), prog.base[c], "MemberLookup")
              /\ \E s \in Elems(BaseTypesSteps(c)) : s.op = "link"
         /\ \A s \in Elems(BaseTypesSteps(c)) : s.op = "analyze" => s.on = prog.base[c]
<1> DEFINE x == prog.base[c]
<1>1. x \in Class \cup {NoClass} /\ (x # NoClass => x \in Mentions(Owner(c))) /\ x \in Defn \cup {NoClass}
  BY Named, OwnerOfClass DEF Steady
<1>2. EffectOK("link", x, c, "BaseTypes")
  BY DEF EffectOK
<1>3. BaseTypesSteps(c) = Require(x, "MemberLookup") \o Effect("link", x)
  BY DEF BaseTypesSteps
<1> HIDE DEF x
<1>4. /\ StepsAre(c, "BaseTypes", Require(x, "MemberLookup"))
      /\ x # NoClass => Asking(Require(x, "MemberLookup"), x, "MemberLookup")
  <2>1. Demanding(c, "BaseTypes")
    BY ProgramAssumption DEF Demanding
  <2>2. x # NoClass => x \in Mentions(Owner(c))
    BY <1>1
  <2> QED BY <1>1, <2>1, <2>2, TasksAre, RequireSteps DEF Tasks
<1>6. /\ StepsAre(c, "BaseTypes", Effect("link", x)) /\ NoAnalyze(Effect("link", x))
      /\ NoReserve(Effect("link", x))
      /\ x # NoClass => \E s \in Elems(Effect("link", x)) : s.op = "link"
  <2> PICK op : op = "link" OBVIOUS
  <2>1. op \in Operation /\ op # "reserve" /\ EffectOK(op, x, c, "BaseTypes")
    BY <1>2, OperationsAre
  <2>2. /\ StepsAre(c, "BaseTypes", Effect(op, x)) /\ NoAnalyze(Effect(op, x))
        /\ \A s \in Elems(Effect(op, x)) : s.op = op
        /\ x # NoClass => \E s \in Elems(Effect(op, x)) : s.op = op
    BY <1>1, <2>1, EffectIs
  <2> QED BY <2>1, <2>2 DEF NoReserve
<1> DEFINE A == Require(x, "MemberLookup")
           E == Effect("link", x)
<1>7. NoLate(A) /\ \A s \in Elems(A) : s.on = x
  BY DEF NoLate, Late, Require, Step, Elems
<1> HIDE DEF A, E
<1>8. InOrder(A \o E)
  BY <1>4, <1>6, <1>7, OrderJoined DEF A, E, StepsAre
<1>9. StepsAre(c, "BaseTypes", A \o E) /\ Elems(A \o E) = Elems(A) \cup Elems(E)
  <2> StepsAre(c, "BaseTypes", A) /\ StepsAre(c, "BaseTypes", E)
    BY <1>4, <1>6 DEF A, E
  <2> QED BY JoinedSteps
<1>10. \A s \in Elems(A \o E) : s.op = "analyze" => s.on = x
  BY <1>6, <1>7, <1>9 DEF E, NoAnalyze
<1> QED BY <1>3, <1>4, <1>6, <1>8, <1>9, <1>10 DEF A, E, x, Asking

(* The operations on the fields of a class.                                *)
LEMMA FieldEffects ==
  ASSUME Steady, NEW c \in Class
  PROVE  LET ss == [i \in DOMAIN FieldsOf[c] |-> Effect("field", FieldsOf[c][i])]
         IN  StepsAre(c, "Field", Concat(ss)) /\ \A s \in Elems(Concat(ss)) : s.op = "field"
<1> DEFINE ss == [i \in DOMAIN FieldsOf[c] |-> Effect("field", FieldsOf[c][i])]
           n == Len(FieldsOf[c])
<1>1. n \in Nat /\ ss = [i \in 1 .. n |-> ss[i]]
  BY FieldSeq
<1>2. ASSUME NEW i \in 1 .. n
      PROVE  StepsAre(c, "Field", ss[i]) /\ \A s \in Elems(ss[i]) : s.op = "field"
  <2>1. FieldsOf[c][i] \in Defn /\ ss[i] = Effect("field", FieldsOf[c][i])
    BY FieldSeq
  <2> PICK v : v = FieldsOf[c][i] OBVIOUS
  <2>2. EffectOK("field", v, c, "Field")
    BY FieldSeq DEF EffectOK
  <2>3. v \in Defn \cup {NoClass} /\ ss[i] = Effect("field", v)
    BY <2>1
  <2> HIDE DEF ss, n
  <2>4. StepsAre(c, "Field", Effect("field", v)) /\ \A s \in Elems(Effect("field", v)) : s.op = "field"
    BY <2>2, <2>3, FieldEffect
  <2> QED BY <2>3, <2>4
<1> HIDE DEF n, ss
<1>3. StepsAre(c, "Field", Concat(ss)) /\ \A s \in Elems(Concat(ss)) : \E i \in 1 .. n : s \in Elems(ss[i])
  BY <1>1, <1>2, ConcatSteps
<1>4. StepsAre(c, "Field", Concat(ss)) /\ \A s \in Elems(Concat(ss)) : s.op = "field"
  BY <1>2, <1>3
<1> QED BY <1>4 DEF ss

(* The pass for the fields asks for the superclass, unless the fields of   *)
(* that are finished, and then takes its slot.                             *)
LEMMA FieldPassSteps ==
  ASSUME Steady, NEW c \in Class
  PROVE  /\ StepsAre(c, "Field", FieldSteps(c)) /\ InOrder(FieldSteps(c))
         /\ super[c] # NoClass /\ "Field" \notin finished[super[c]] =>
              Asking(FieldSteps(c), super[c], "Construction")
         /\ \E s \in Elems(FieldSteps(c)) : s.op = "reserve"
<1> DEFINE x == super[c]
           A == IF x # NoClass /\ "Field" \notin finished[x] THEN Analyze(x, "Construction") ELSE <<>>
           E == Effect("reserve", c)
           ss == [i \in DOMAIN FieldsOf[c] |-> Effect("field", FieldsOf[c][i])]
<1>1. /\ StepsAre(c, "Field", A) /\ \A s \in Elems(A) : s.op = "analyze"
      /\ x # NoClass /\ "Field" \notin finished[x] => Asking(A, x, "Construction")
  <2>1. x \in Class \cup {NoClass} /\ (x # NoClass => x \in Mentions(Owner(c)))
    BY Supers
  <2> HIDE DEF x
  <2>2. /\ StepsAre(c, "Field", Analyze(x, "Construction"))
        /\ x # NoClass => Asking(Analyze(x, "Construction"), x, "Construction")
    BY <2>1, TasksAre, AnalyzeClass DEF Tasks
  <2>3. \A s \in Elems(Analyze(x, "Construction")) \cup Elems(<<>>) : s.op = "analyze"
    BY DEF Analyze, Step, Elems
  <2> QED BY <2>2, <2>3, NoSteps
<1>2. /\ StepsAre(c, "Field", E) /\ E = Step("reserve", c, "reserve", FALSE)
      /\ \A s \in Elems(E) : s.op = "reserve"
  <2>1. c \in Defn \cup {NoClass} /\ EffectOK("reserve", c, c, "Field")
    BY OwnerOfClass DEF EffectOK
  <2>2. StepsAre(c, "Field", Effect("reserve", c)) /\ \A s \in Elems(Effect("reserve", c)) : s.op = "reserve"
    <3> PICK op : op = "reserve" OBVIOUS
    <3>1. op \in Operation /\ EffectOK(op, c, c, "Field")
      BY <2>1, OperationsAre
    <3>2. StepsAre(c, "Field", Effect(op, c)) /\ \A s \in Elems(Effect(op, c)) : s.op = op
      BY <2>1, <3>1, EffectSteps
    <3> QED BY <3>2
  <2>3. c # NoClass
    BY NoClassIsNone
  <2> QED BY <2>2, <2>3 DEF Effect
<1>3. StepsAre(c, "Field", Concat(ss)) /\ \A s \in Elems(Concat(ss)) : s.op = "field"
  BY FieldEffects
<1>4. FieldSteps(c) = (A \o E) \o Concat(ss)
  BY DEF FieldSteps, EachOf
<1> DEFINE C == Concat(ss)
<1>16. StepsAre(c, "Field", C) /\ (\A s \in Elems(C) : s.op = "field") /\ FieldSteps(c) = (A \o E) \o C
  BY <1>3, <1>4
<1> HIDE DEF ss, A, E, C, x
<1>5. A \in Seq(StepType) /\ E \in Seq(StepType) /\ C \in Seq(StepType)
  BY <1>1, <1>2, <1>16 DEF StepsAre
<1>15. /\ (A \o E) \o C = A \o (E \o C)
       /\ StepsAre(c, "Field", E \o C) /\ Elems(E \o C) = Elems(E) \cup Elems(C)
       /\ StepsAre(c, "Field", A \o (E \o C))
       /\ Elems(A \o (E \o C)) = (Elems(A) \cup Elems(E)) \cup Elems(C)
  <2> StepsAre(c, "Field", A) /\ StepsAre(c, "Field", E) /\ StepsAre(c, "Field", C)
    BY <1>1, <1>2, <1>16
  <2>1. InParts(c, "Field", A, E, C)
    BY ThreeParts
  <2> QED BY <2>1 DEF InParts
<1>6. (A \o E) \o C = A \o (E \o C) /\ E \o C \in Seq(StepType)
  BY <1>15 DEF StepsAre
<1>7. StepsAre(c, "Field", E \o C) /\ Elems(E \o C) = Elems(E) \cup Elems(C)
  BY <1>15
<1>8. NoAnalyze(E \o C)
  BY <1>2, <1>16, <1>7 DEF NoAnalyze
<1>9. \A n \in DOMAIN (E \o C) : n > 1 => (E \o C)[n].op # "reserve"
  <2>1. Len(E) = 1
    BY <1>2 DEF Step
  <2>4. Len(E) = 1 => \A n \in DOMAIN (E \o C) : n > 1 => n - 1 \in DOMAIN C /\ (E \o C)[n] = C[n - 1]
    BY <1>5, AfterOne
  <2> SUFFICES ASSUME NEW n \in DOMAIN (E \o C), n > 1 PROVE (E \o C)[n].op # "reserve"
    OBVIOUS
  <2>2. n - 1 \in DOMAIN C /\ (E \o C)[n] = C[n - 1]
    BY <2>1, <2>4
  <2>3. C[n - 1] \in Elems(C)
    BY <2>2 DEF Elems
  <2> QED BY <1>16, <2>2, <2>3
<1>10. InOrder(A \o (E \o C))
  <2>1. NoLate(A)
    BY <1>1 DEF NoLate, Late
  <2>2. \A s \in Elems(A) : s.op = "analyze"
    BY <1>1
  <2> QED BY <1>5, <1>6, <1>8, <1>9, <2>1, <2>2, OrderJoined
<1>11. StepsAre(c, "Field", A \o (E \o C)) /\ Elems(A \o (E \o C)) = Elems(A) \cup Elems(E \o C)
  BY <1>15
<1>12. \E s \in Elems(E) : s.op = "reserve"
  BY <1>2 DEF Step, Elems
<1>13. FieldSteps(c) = A \o (E \o C)
  BY <1>16, <1>6
<1>14. x # NoClass /\ "Field" \notin finished[x] => Asking(A \o (E \o C), x, "Construction")
  BY <1>1, <1>11 DEF Asking
<1> QED BY <1>7, <1>10, <1>11, <1>12, <1>13, <1>14 DEF x

(* The pass for the constructors.                                          *)
LEMMA ConstructorPassSteps ==
  ASSUME Steady, NEW c \in Class
  PROVE  StepsAre(c, "Constructor", ConstructorSteps(c))
<1> DEFINE x == super[c]
           A == IF x # NoClass /\ "Constructor" \notin finished[x] \cup running[x]
                  THEN Require(x, "Construction") ELSE <<>>
           ss == [i \in DOMAIN FieldsOf[c] |-> ConstructField(FieldsOf[c][i])]
<1>1. StepsAre(c, "Constructor", A)
  <2>1. x \in Class \cup {NoClass} /\ (x # NoClass => x \in Mentions(Owner(c))) /\ Demanding(c, "Constructor")
    BY Supers, ProgramAssumption DEF Demanding
  <2>2. StepsAre(c, "Constructor", Require(x, "Construction"))
    <3> HIDE DEF x
    <3> QED BY <2>1, TasksAre, RequireSteps DEF Tasks
  <2> QED BY <2>2, NoSteps
<1>3. StepsAre(c, "Constructor", Concat(ss))
  <2> DEFINE n == Len(FieldsOf[c])
  <2>1. n \in Nat /\ ss = [i \in 1 .. n |-> ss[i]]
    BY FieldSeq
  <2>2. ASSUME NEW i \in 1 .. n PROVE StepsAre(c, "Constructor", ss[i])
    <3>1. FieldsOf[c][i] \in Defn /\ Owner(FieldsOf[c][i]) = Owner(c) /\ ss[i] = ConstructField(FieldsOf[c][i])
      BY FieldSeq, OwnerOfClass
    <3> PICK v : v = FieldsOf[c][i] OBVIOUS
    <3>2. StepsAre(c, "Constructor", Analyze(v, "Construction"))
      BY <3>1, TasksAre, AnalyzeSteps DEF Tasks
    <3> QED BY <3>1, <3>2, NoSteps DEF ConstructField
  <2> HIDE DEF n, ss
  <2> QED BY <2>1, <2>2, ConcatSteps
<1>4. ConstructorSteps(c) = A \o Concat(ss)
  BY DEF ConstructorSteps, EachOf
<1> HIDE DEF A, ss
<1> QED BY <1>1, <1>3, <1>4, JoinedSteps

(* The pass for the methods.                                               *)
LEMMA MethodPassIs ==
  ASSUME Steady, NEW c \in Class
  PROVE  StepsAre(c, "Method", MethodPassSteps(c))
<1> DEFINE ss == [i \in DOMAIN MethodsOf[c] |-> Analyze(<<c, MethodsOf[c][i]>>, "TypeComparison")]
<1>3. StepsAre(c, "Method", Concat(ss))
  <2> DEFINE n == Len(MethodsOf[c])
  <2>1. n \in Nat /\ ss = [i \in 1 .. n |-> ss[i]]
    BY MethodSeq
  <2>2. ASSUME NEW i \in 1 .. n PROVE StepsAre(c, "Method", ss[i])
    <3>1. <<c, MethodsOf[c][i]>> \in Defn /\ Owner(<<c, MethodsOf[c][i]>>) = Owner(c)
          /\ ss[i] = Analyze(<<c, MethodsOf[c][i]>>, "TypeComparison")
      BY MethodSeq, OwnerOfClass
    <3> PICK v : v = <<c, MethodsOf[c][i]>> OBVIOUS
    <3>2. v \in Defn \cup {NoClass} /\ (v # NoClass => Owner(v) \in Mentions(Owner(c)) \cup {Owner(c)})
          /\ ss[i] = Analyze(v, "TypeComparison")
      BY <3>1
    <3> HIDE DEF ss
    <3>3. "TypeComparison" \in Task /\ ("TypeComparison" \in Generation => "Method" \in Thorough)
      BY TasksAre DEF Tasks
    <3>4. StepsAre(c, "Method", Analyze(v, "TypeComparison"))
      BY <3>2, <3>3, AnalyzeSteps, Zenon
    <3> QED BY <3>2, <3>4
  <2> HIDE DEF n, ss
  <2> QED BY <2>1, <2>2, ConcatSteps
<1>4. MethodPassSteps(c) = Concat(ss)
  BY DEF MethodPassSteps, EachOf
<1> QED BY <1>3, <1>4

(* The operations on the methods of a class.                               *)
LEMMA SymbolEffects ==
  ASSUME Steady, NEW c \in Class
  PROVE  LET ss == [i \in DOMAIN MethodsOf[c] |-> Effect("symbol", <<c, MethodsOf[c][i]>>)]
         IN  StepsAre(c, "Overloading", Concat(ss)) /\ \A s \in Elems(Concat(ss)) : s.op = "symbol"
<1> DEFINE ss == [i \in DOMAIN MethodsOf[c] |-> Effect("symbol", <<c, MethodsOf[c][i]>>)]
           n == Len(MethodsOf[c])
<1>1. n \in Nat /\ ss = [i \in 1 .. n |-> ss[i]]
  BY MethodSeq
<1>2. ASSUME NEW i \in 1 .. n
      PROVE  StepsAre(c, "Overloading", ss[i]) /\ \A s \in Elems(ss[i]) : s.op = "symbol"
  <2>1. <<c, MethodsOf[c][i]>> \in Defn /\ ss[i] = Effect("symbol", <<c, MethodsOf[c][i]>>)
    BY MethodSeq
  <2> PICK v : v = <<c, MethodsOf[c][i]>> OBVIOUS
  <2>2. EffectOK("symbol", v, c, "Overloading")
    BY DEF EffectOK
  <2>3. v \in Defn \cup {NoClass} /\ ss[i] = Effect("symbol", v)
    BY <2>1
  <2> HIDE DEF ss, n
  <2>4. StepsAre(c, "Overloading", Effect("symbol", v)) /\ \A s \in Elems(Effect("symbol", v)) : s.op = "symbol"
    BY <2>2, <2>3, SymbolEffect
  <2> QED BY <2>3, <2>4
<1> HIDE DEF n, ss
<1>3. StepsAre(c, "Overloading", Concat(ss)) /\ \A s \in Elems(Concat(ss)) : \E i \in 1 .. n : s \in Elems(ss[i])
  BY <1>1, <1>2, ConcatSteps
<1>4. StepsAre(c, "Overloading", Concat(ss)) /\ \A s \in Elems(Concat(ss)) : s.op = "symbol"
  BY <1>2, <1>3
<1> QED BY <1>4 DEF ss

(* The pass for the overloading; the table is built after the superclass   *)
(* is analyzed.                                                            *)
LEMMA OverloadingPassSteps ==
  ASSUME Steady, NEW c \in Class
  PROVE  /\ StepsAre(c, "Overloading", OverloadingSteps(c)) /\ InOrder(OverloadingSteps(c))
         /\ super[c] # NoClass => Asking(OverloadingSteps(c), super[c], "Evaluation")
         /\ \E s \in Elems(OverloadingSteps(c)) : s.op = "table"
<1> DEFINE x == super[c]
           A == Analyze(x, "Evaluation")
           E == Effect("table", c)
           ss == [i \in DOMAIN MethodsOf[c] |-> Effect("symbol", <<c, MethodsOf[c][i]>>)]
<1>1. StepsAre(c, "Overloading", A) /\ (x # NoClass => Asking(A, x, "Evaluation"))
  <2>1. x \in Class \cup {NoClass} /\ (x # NoClass => x \in Mentions(Owner(c)))
    BY Supers
  <2> HIDE DEF x
  <2> QED BY <2>1, TasksAre, AnalyzeClass DEF Tasks
<1>2. StepsAre(c, "Overloading", E) /\ NoAnalyze(E) /\ \E s \in Elems(E) : s.op = "table"
  <2>1. c \in Defn \cup {NoClass} /\ EffectOK("table", c, c, "Overloading")
    BY OwnerOfClass DEF EffectOK
  <2> QED BY <2>1, NoClassIsNone, OperationsAre, EffectSteps DEF NoAnalyze
<1>3. StepsAre(c, "Overloading", Concat(ss)) /\ NoAnalyze(Concat(ss))
  BY SymbolEffects DEF NoAnalyze
<1>7. NoLate(A)
  BY DEF NoLate, Late, Analyze, Step, Elems
<1>4. OverloadingSteps(c) = (A \o E) \o Concat(ss)
  BY DEF OverloadingSteps, EachOf
<1> DEFINE C == Concat(ss)
<1> HIDE DEF A, E, ss, C
<1>16. StepsAre(c, "Overloading", C) /\ NoAnalyze(C) /\ OverloadingSteps(c) = (A \o E) \o C
  BY <1>3, <1>4 DEF C
<1>5. A \in Seq(StepType) /\ E \in Seq(StepType) /\ C \in Seq(StepType)
  BY <1>1, <1>2, <1>16 DEF StepsAre
<1>15. /\ (A \o E) \o C = A \o (E \o C)
       /\ StepsAre(c, "Overloading", E \o C) /\ Elems(E \o C) = Elems(E) \cup Elems(C)
       /\ StepsAre(c, "Overloading", A \o (E \o C))
       /\ Elems(A \o (E \o C)) = (Elems(A) \cup Elems(E)) \cup Elems(C)
  <2> StepsAre(c, "Overloading", A) /\ StepsAre(c, "Overloading", E) /\ StepsAre(c, "Overloading", C)
    BY <1>1, <1>2, <1>16
  <2>1. InParts(c, "Overloading", A, E, C)
    BY ThreeParts
  <2> QED BY <2>1 DEF InParts
<1>6. (A \o E) \o C = A \o (E \o C) /\ E \o C \in Seq(StepType)
  BY <1>15 DEF StepsAre
<1>8. NoAnalyze(E \o C) /\ NoReserve(E \o C)
  <2>1. StepsAre(c, "Overloading", E \o C) /\ Elems(E \o C) = Elems(E) \cup Elems(C)
    BY <1>15
  <2>3. NoReserve(E \o C)
    BY <2>1 DEF NoReserve, StepsAre, StepOK
  <2> QED BY <1>2, <1>16, <2>1, <2>3 DEF NoAnalyze
<1>9. InOrder(A \o (E \o C))
  BY <1>5, <1>6, <1>7, <1>8, OrderJoined
<1>12. (x # NoClass => Asking(A \o (E \o C), x, "Evaluation")) /\ \E s \in Elems(A \o (E \o C)) : s.op = "table"
  BY <1>1, <1>2, <1>15 DEF Asking
<1> QED BY <1>16, <1>6, <1>9, <1>15, <1>12

(* The pass for the recursive field types asks for the superclass and the  *)
(* types of all the fields that were placed.                               *)
LEMMA RecursiveAsks ==
  ASSUME Steady, NEW c \in Class
  PROVE  LET t == Analyze(super[c], "TypeGeneration") \o EachOf(placed[c], FieldTypes)
         IN /\ StepsAre(c, "RecursiveFieldType", t)
            /\ \A a \in Targets(c) : Asking(t, a, "TypeGeneration")
<1> DEFINE x == super[c]
           q == "RecursiveFieldType"
           ss == [i \in DOMAIN placed[c] |-> FieldTypes(placed[c][i])]
           n == Len(placed[c])
<1> PICK A : A = Analyze(x, "TypeGeneration") OBVIOUS
<1>1. /\ StepsAre(c, q, A)
      /\ x # NoClass => Asking(A, x, "TypeGeneration")
  <2>1. x \in Class \cup {NoClass} /\ (x # NoClass => x \in Mentions(Owner(c)))
    BY Supers
  <2> HIDE DEF x
  <2> QED BY <2>1, TasksAre, AnalyzeClass DEF Tasks
<1>2. n \in Nat /\ DOMAIN placed[c] = 1 .. n /\ ss = [i \in 1 .. n |-> ss[i]]
      /\ \A i \in 1 .. n : placed[c][i] \in Elems(placed[c])
  <2>1. placed[c] \in Seq(Var)
    BY DEF Steady
  <2>2. n \in Nat /\ DOMAIN placed[c] = 1 .. n
    BY <2>1, LenProperties
  <2> QED BY <2>2 DEF Elems
<1>3. ASSUME NEW i \in 1 .. n
      PROVE  LET v == placed[c][i] IN
             /\ StepsAre(c, q, ss[i])
             /\ prog.type[v] # NoClass => Asking(ss[i], prog.type[v], "TypeGeneration")
  <2> PICK v : v = placed[c][i] OBVIOUS
  <2>1. v \in Elems(FieldsOf[c])
    BY <1>2 DEF Steady, PlacedOwn
  <2>2. v \in Defn \cup {NoClass} /\ v \in Var /\ Owner(v) = c /\ Owner(c) = c
    BY <2>1, OwnerOfField, OwnerOfClass
  <2>3. StepsAre(c, q, Analyze(v, "TypeGeneration"))
    <3>1. v # NoClass => Owner(v) \in Mentions(Owner(c)) \cup {Owner(c)}
      BY <2>2
    <3> QED BY <2>2, <3>1, TasksAre, AnalyzeSteps DEF Tasks
  <2> PICK y : y = prog.type[v] OBVIOUS
  <2>4. y \in Class \cup {NoClass} /\ (y # NoClass => y \in Mentions(Owner(c)))
    BY <2>2, Named DEF Steady
  <2>5. /\ StepsAre(c, q, Analyze(y, "TypeGeneration"))
        /\ y # NoClass => Asking(Analyze(y, "TypeGeneration"), y, "TypeGeneration")
    <3> y # NoClass => y \in Mentions(Owner(c))
      BY <2>2, <2>4
    <3>3. "TypeGeneration" \in Task /\ ("TypeGeneration" \in Generation => q \in Thorough)
      BY TasksAre DEF Tasks
    <3>4. y # NoClass => y \in Mentions(Owner(c))
      BY <2>2, <2>4
    <3> QED BY <2>4, <3>3, <3>4, AnalyzeClass
  <2>6. ss[i] = Analyze(v, "TypeGeneration") \o Analyze(y, "TypeGeneration")
    BY <1>2 DEF FieldTypes
  <2> PICK Q : Q = Analyze(v, "TypeGeneration") OBVIOUS
  <2> PICK R : R = Analyze(y, "TypeGeneration") OBVIOUS
  <2> HIDE DEF ss, q
  <2>7. StepsAre(c, q, Q \o R) /\ Elems(Q \o R) = Elems(Q) \cup Elems(R)
    BY <2>3, <2>5, JoinedSteps
  <2> QED BY <2>5, <2>6, <2>7 DEF Asking
<1> PICK C : C = Concat(ss) OBVIOUS
<1>4. StepsAre(c, q, C) /\ \A i \in 1 .. n : Elems(ss[i]) \subseteq Elems(C)
  <2> HIDE DEF n, ss, q
  <2> QED BY <1>2, <1>3, ConcatSteps
<1> DEFINE t == Analyze(super[c], "TypeGeneration") \o EachOf(placed[c], FieldTypes)
<1>5. t = A \o C
  BY DEF EachOf
<1> HIDE DEF q, ss, n
<1>6. StepsAre(c, q, A \o C) /\ Elems(A \o C) = Elems(A) \cup Elems(C)
  BY <1>1, <1>4, JoinedSteps
<1> DEFINE Asked(a) == Asking(A \o C, a, "TypeGeneration")
<1>7. ASSUME NEW a \in Targets(c) PROVE Asked(a)
  <2>1. CASE a = super[c]
    BY <1>1, <1>6, <1>7, <2>1 DEF Targets, Asking
  <2>2. CASE a # super[c]
    <3>1. PICK v \in Elems(placed[c]) : a = prog.type[v] /\ a # NoClass
      BY <1>7, <2>2 DEF Targets
    <3>2. PICK i \in 1 .. n : v = placed[c][i]
      BY <1>2 DEF Elems
    <3> QED BY <1>3, <1>4, <1>6, <3>1, <3>2 DEF Asking
  <2> QED BY <2>1, <2>2
<1> QED BY <1>5, <1>6, <1>7 DEF q

(* The pass for the completion.                                            *)
LEMMA CompletionPassSteps ==
  ASSUME Steady, NEW c \in Class
  PROVE  StepsAre(c, "Completion", CompletionSteps(c))
<1> DEFINE x == super[c]
           A == Analyze(x, "CodeGeneration")
           Do(v) == IF v \in Method /\ Compiled(v) THEN <<>> ELSE Analyze(v, "CodeGeneration")
           ss == [i \in DOMAIN Members(c) |-> Do(Members(c)[i])]
<1>1. StepsAre(c, "Completion", A)
  <2>1. x \in Class \cup {NoClass} /\ (x # NoClass => x \in Mentions(Owner(c)))
    BY Supers
  <2> HIDE DEF x
  <2> QED BY <2>1, TasksAre, AnalyzeClass DEF Tasks
<1>3. StepsAre(c, "Completion", Concat(ss))
  <2> DEFINE n == Len(Members(c))
  <2>0. n \in Nat /\ DOMAIN Members(c) = 1 .. n
    BY MembersAre, LenProperties
  <2>1. n \in Nat /\ ss = [i \in 1 .. n |-> ss[i]]
    BY <2>0
  <2>2. ASSUME NEW i \in 1 .. n PROVE StepsAre(c, "Completion", ss[i])
    <3>1. Members(c)[i] \in Elems(Members(c)) /\ ss[i] \in {<<>>, Analyze(Members(c)[i], "CodeGeneration")}
      BY <2>0 DEF Elems
    <3>2. Members(c)[i] \in Defn /\ Owner(Members(c)[i]) = Owner(c)
      BY <3>1, MembersAre, OwnerOfClass
    <3> PICK v : v = Members(c)[i] OBVIOUS
    <3>3. StepsAre(c, "Completion", Analyze(v, "CodeGeneration"))
      BY <3>2, TasksAre, AnalyzeSteps DEF Tasks
    <3> QED BY <3>1, <3>3, NoSteps
  <2> HIDE DEF n, ss
  <2> QED BY <2>1, <2>2, ConcatSteps
<1>4. CompletionSteps(c) = A \o Concat(ss)
  BY DEF CompletionSteps, EachOf
<1> HIDE DEF A, ss
<1> QED BY <1>1, <1>3, <1>4, JoinedSteps

(* Pass p of d has the steps t that it should: those it may have, in       *)
(* order, and the requests that its effects depend on.                     *)
Meets(d, p, t) ==
  /\ StepsAre(d, p, t) /\ InOrder(t)
  /\ d \in Class =>
       /\ p = "BaseTypes" /\ prog.base[d] # NoClass =>
            /\ Asking(t, prog.base[d], "MemberLookup")
            /\ \E s \in Elems(t) : s.op = "link"
       /\ p = "BaseTypes" => \A s \in Elems(t) : s.op = "analyze" => s.on = prog.base[d]
       /\ p = "Field" =>
            /\ super[d] # NoClass /\ "Field" \notin finished[super[d]] =>
                 Asking(t, super[d], "Construction")
            /\ \E s \in Elems(t) : s.op = "reserve"
       /\ p = "Overloading" =>
            /\ super[d] # NoClass => Asking(t, super[d], "Evaluation")
            /\ \E s \in Elems(t) : s.op = "table"
       /\ p = "RecursiveFieldType" => \A a \in Targets(d) :
            Asking(t, a, "TypeGeneration")
  /\ d \in Class \cup Var /\ p = "Attribute" /\ prog.attr[d] # NoClass =>
       Asking(t, prog.attr[d], "Construction")

(* The other passes have none of the operations that have to come late.    *)
LEMMA OrderByPass ==
  ASSUME NEW d, NEW p, NEW t, StepsAre(d, p, t),
         d \in Class => p \notin {"BaseTypes", "Attribute", "Field", "Overloading"},
         d \in Var => p # "Attribute"
  PROVE  InOrder(t)
<1>1. NoLate(t)
  BY DEF NoLate, Late, StepsAre, StepOK
<1> QED BY <1>1, OrderIfOne

(* Every pass of every analyzer has the steps that it should.              *)
LEMMA PassStepsMeet ==
  ASSUME Steady, NEW d \in Defn, NEW p
  PROVE  Meets(d, p, PassSteps(d, p))
<1>0. Class \cap Var = {} /\ Class \cap Method = {} /\ Var \cap Method = {}
  BY ProgramAssumption
<1>3. CASE d \in Class \cup Var /\ p = "Attribute"
  <2>1. PassSteps(d, p) = AttributeSteps(d)
    BY <1>3 DEF PassSteps, ClassSteps, VarSteps
  <2> QED BY <1>3, <2>1, AttributeAsks DEF Meets
<1>1. CASE d \in Class /\ p # "Attribute"
  <2>0. PassSteps(d, p) = ClassSteps(d, p)
    BY <1>1 DEF PassSteps
  <2>2. CASE p = "BaseTypes"
    <3>1. PassSteps(d, p) = BaseTypesSteps(d)
      BY <2>0, <2>2 DEF ClassSteps
    <3> QED BY <1>1, <2>2, <3>1, BaseTypesAsks DEF Meets
  <2>3. CASE p = "Overloading"
    <3>1. PassSteps(d, p) = OverloadingSteps(d)
      BY <2>0, <2>3 DEF ClassSteps
    <3> QED BY <1>1, <2>3, <3>1, OverloadingPassSteps DEF Meets
  <2>4. CASE p = "RecursiveFieldType"
    <3>1. PassSteps(d, p) = Analyze(super[d], "TypeGeneration") \o EachOf(placed[d], FieldTypes)
      BY <2>0, <2>4 DEF ClassSteps
    <3> DEFINE t == PassSteps(d, p)
    <3>2. /\ StepsAre(d, p, t)
          /\ \A a \in Targets(d) : Asking(t, a, "TypeGeneration")
      <4> DEFINE u == Analyze(super[d], "TypeGeneration") \o EachOf(placed[d], FieldTypes)
      <4>1. /\ StepsAre(d, "RecursiveFieldType", u)
            /\ \A a \in Targets(d) : Asking(u, a, "TypeGeneration")
        BY <1>1, RecursiveAsks
      <4>2. t = u
        BY <3>1
      <4> HIDE DEF t, u
      <4> QED BY <2>4, <4>1, <4>2
    <3> HIDE DEF t
    <3>3. InOrder(t)
      BY <1>0, <1>1, <2>4, <3>2, OrderByPass
    <3> QED BY <2>4, <3>2, <3>3 DEF Meets, t
  <2>6. CASE p = "Field"
    <3>1. PassSteps(d, p) = FieldSteps(d)
      BY <2>0, <2>6 DEF ClassSteps
    <3> QED BY <1>1, <2>6, <3>1, FieldPassSteps DEF Meets
  <2>5. CASE p \notin {"BaseTypes", "Field", "Overloading", "RecursiveFieldType"}
    <3>1. StepsAre(d, p, PassSteps(d, p))
      <4>2. CASE p = "Constructor"
        BY <1>1, <2>0, <4>2, ConstructorPassSteps DEF ClassSteps
      <4>3. CASE p = "Method"
        BY <1>1, <2>0, <4>3, MethodPassIs DEF ClassSteps
      <4>4. CASE p = "Completion"
        BY <1>1, <2>0, <4>4, CompletionPassSteps DEF ClassSteps
      <4>5. CASE p \notin {"Constructor", "Method", "Completion"}
        <5>1. PassSteps(d, p) = <<>>
          BY <1>1, <2>0, <2>5, <4>5 DEF ClassSteps
        <5> QED BY <5>1, NoSteps
      <4> QED BY <4>2, <4>3, <4>4, <4>5
    <3> DEFINE t == PassSteps(d, p)
    <3> HIDE DEF t
    <3>3. StepsAre(d, p, t)
      BY <3>1 DEF t
    <3>2. InOrder(t)
      BY <1>0, <1>1, <2>5, <3>3, OrderByPass
    <3> QED BY <1>1, <2>5, <3>2, <3>3 DEF Meets, t
  <2> QED BY <2>2, <2>3, <2>4, <2>5, <2>6
<1>2. CASE d \notin Class /\ ~(d \in Var /\ p = "Attribute")
  <2>1. StepsAre(d, p, PassSteps(d, p))
    <3>1. CASE d \in Var
      BY <1>2, <3>1, VarPassSteps DEF PassSteps
    <3>2. CASE d \notin Var
      <4>1. d \in Method
        BY <1>2, <3>2 DEF Defn
      <4> QED BY <1>2, <3>2, <4>1, MethodPassesSteps DEF PassSteps
    <3> QED BY <3>1, <3>2
  <2> DEFINE t == PassSteps(d, p)
  <2> HIDE DEF t
  <2>3. StepsAre(d, p, t)
    BY <2>1 DEF t
  <2>2. InOrder(t)
    BY <1>2, <2>3, OrderByPass
  <2> QED BY <1>2, <2>2, <2>3 DEF Meets, t
<1> QED BY <1>1, <1>2, <1>3

-----------------------------------------------------------------------------
(* Tasks and the order of passes.                                          *)

(* The passes in the order of runPasses().                                 *)
LEMMA OrderPasses ==
  /\ Elems(ClassOrder) = {"Scope", "Attribute", "Import", "NamingConflict", "TypeModifiers",
       "BaseTypes", "MemberType", "Field", "Coercer", "Constructor", "Method", "Overloading",
       "RecursiveFieldType", "Completion"}
  /\ Elems(VarOrder) = {"Attribute", "VariableType", "TypeModifier", "Initializer", "Completion"}
  /\ Elems(MethodOrder) = {"Attribute", "Modifier", "ParameterType", "ReturnType",
       "ControlFlow", "Merge", "Reflection", "Completion"}
<1>1. DOMAIN ClassOrder = {1,2,3,4,5,6,7,8,9,10,11,12,13,14}
  BY DEF ClassOrder
<1>2. DOMAIN VarOrder = {1,2,3,4,5}
  BY DEF VarOrder
<1>3. DOMAIN MethodOrder = {1,2,3,4,5,6,7,8}
  BY DEF MethodOrder
<1> QED BY <1>1, <1>2, <1>3 DEF Elems, ClassOrder, VarOrder, MethodOrder

(* The passes of a task are some of those in the order, the thorough ones  *)
(* only for generation, and none without those that it rests on.           *)
LEMMA TasksInOrder ==
  ASSUME NEW d \in Defn, NEW task \in Task
  PROVE  /\ TaskPasses(d, task) \subseteq Elems(PassOrder(d))
         /\ task \notin Generation => TaskPasses(d, task) \cap Thorough = {}
         /\ d \in Class => \A p \in TaskPasses(d, task) : Rests(p) \subseteq TaskPasses(d, task)
<1>1. CASE d \in Class
  <2>1. \A p \in {"RecursiveFieldType", "Field", "Overloading"} :
          p \in TaskPasses(d, task) => Rests(p) \subseteq TaskPasses(d, task)
    BY <1>1 DEF TaskPasses, ClassTask, Task, Rests
  <2>2. /\ TaskPasses(d, task) \subseteq Elems(PassOrder(d))
        /\ task \notin Generation => TaskPasses(d, task) \cap Thorough = {}
    BY <1>1, OrderPasses DEF TaskPasses, ClassTask, PassOrder, Task, Generation, Thorough
  <2>3. \A p : p \notin {"RecursiveFieldType", "Field", "Overloading"} => Rests(p) = {}
    BY DEF Rests
  <2> QED BY <2>1, <2>2, <2>3
<1>2. CASE d \in Var
  BY <1>2, ProgramAssumption, OrderPasses DEF TaskPasses, VarTask, PassOrder, Task, Generation, Thorough
<1>3. CASE d \notin Class /\ d \notin Var
  BY <1>3, OrderPasses DEF TaskPasses, MethodTask, PassOrder, Task, Generation, Thorough
<1> QED BY <1>1, <1>2, <1>3

(* Passes have names other than that of no pass.                           *)
LEMMA OrderNames ==
  ASSUME NEW d
  PROVE  Elems(PassOrder(d)) \subseteq PassName /\ "" \notin PassName
BY OrderPasses DEF PassOrder, PassName

(* What the tasks that requests are made for include.                      *)
LEMMA LookupTasks ==
  ASSUME NEW c \in Class
  PROVE  /\ "BaseTypes" \in TaskPasses(c, "MemberLookup")
         /\ "Field" \in TaskPasses(c, "Construction")
         /\ TaskPasses(c, "TypeGeneration") = TG
         /\ TG \subseteq TaskPasses(c, "CodeGeneration") \cup Thorough
BY DEF TaskPasses, ClassTask, TG, Thorough

(* The next pass is one of those that are left.                            *)
LEMMA NextIsLeft ==
  ASSUME NEW f, f.todo # {}, f.todo \subseteq Elems(PassOrder(f.on))
  PROVE  NextPass(f) \in f.todo
<1> DEFINE order == PassOrder(f.on)
           left == {i \in DOMAIN order : order[i] \in f.todo}
<1>1. left # {} /\ left \subseteq Nat
  <2>1. DOMAIN order \subseteq Nat
    BY DEF PassOrder, ClassOrder, VarOrder, MethodOrder
  <2> QED BY <2>1 DEF Elems
<1>2. \E i \in left : \A j \in left : i <= j
  <2> HIDE DEF left
  <2> QED BY <1>1, LeastElement
<1>3. PICK i \in left : NextPass(f) = order[i]
  <2>1. NextPass(f) = order[CHOOSE i \in left : \A j \in left : i <= j]
    BY DEF NextPass
  <2> QED BY <1>2, <2>1
<1> QED BY <1>3

(* When a pass comes next, those that it rests on are no longer left.      *)
LEMMA RestsAreEarly ==
  ASSUME NEW f, f.on \in Class, f.todo \subseteq Elems(PassOrder(f.on)), f.todo # {}
  PROVE  Rests(NextPass(f)) \cap f.todo = {}
<1> DEFINE order == PassOrder(f.on)
           left == {i \in DOMAIN order : order[i] \in f.todo}
<1>0. order = ClassOrder
  BY DEF PassOrder
<1>1. left # {} /\ left \subseteq Nat
  <2>1. DOMAIN order \subseteq Nat
    BY DEF PassOrder, ClassOrder, VarOrder, MethodOrder
  <2> QED BY <2>1 DEF Elems
<1>2. \E i \in left : \A j \in left : i <= j
  <2> HIDE DEF left
  <2> QED BY <1>1, LeastElement
<1>3. PICK i \in left : order[i] = NextPass(f) /\ \A j \in left : i <= j
  <2>1. NextPass(f) = order[CHOOSE i \in left : \A j \in left : i <= j]
    BY DEF NextPass
  <2> QED BY <1>2, <2>1
<1>4. DOMAIN ClassOrder = 1 .. 14
  BY DEF ClassOrder
<1>5. i \in {1,2,3,4,5,6,7,8,9,10,11,12,13,14} /\ ClassOrder[i] = NextPass(f)
  BY <1>0, <1>3, <1>4
<1>6. /\ NextPass(f) = "RecursiveFieldType" => i = 13
      /\ NextPass(f) = "Overloading" => i = 12
      /\ NextPass(f) = "Field" => i = 8
  BY <1>5 DEF ClassOrder
<1>8. ClassOrder[6] = "BaseTypes" /\ ClassOrder[8] = "Field" /\ 6 \in DOMAIN order /\ 8 \in DOMAIN order
  BY <1>0, <1>4 DEF ClassOrder
<1>7. /\ i \in {8, 12, 13} => "BaseTypes" \notin f.todo
      /\ i = 13 => "Field" \notin f.todo
  BY <1>0, <1>3, <1>8
<1> QED BY <1>6, <1>7 DEF Rests

-----------------------------------------------------------------------------
(* The shape of the stack after a step.                                    *)

(* A sequence without its last element.                                    *)
LEMMA Front ==
  ASSUME NEW S, NEW s \in Seq(S), s # <<>>
  PROVE  LET u == SubSeq(s, 1, Len(s) - 1) IN
         /\ Len(s) \in Nat \ {0} /\ s[Len(s)] \in S
         /\ u \in Seq(S) /\ Len(u) = Len(s) - 1 /\ \A i \in 1 .. Len(s) - 1 : u[i] = s[i] /\ s[i] \in S
<1>1. Len(s) \in Nat \ {0} /\ s \in [1 .. Len(s) -> S]
  OBVIOUS
<1> PICK n : n = Len(s) OBVIOUS
<1>2. n - 1 \in Nat /\ \A i \in 1 .. n - 1 : i \in 1 .. n
  BY <1>1
<1>3. \A i \in 1 .. n : s[i] \in S
  BY <1>1
<1>4. SubSeq(s, 1, n - 1) = [i \in 1 .. n - 1 |-> s[i]]
  BY <1>1, <1>2
<1> PICK u : u = SubSeq(s, 1, n - 1) OBVIOUS
<1>5. u = [i \in 1 .. n - 1 |-> s[i]] /\ u \in [1 .. n - 1 -> S]
  BY <1>2, <1>3, <1>4
<1>6. u \in Seq(S) /\ Len(u) = n - 1
  <2>m. PICK m \in Nat : m = n - 1
    BY <1>2
  <2>1. u \in [1 .. m -> S]
    BY <1>5, <2>m
  <2>2. u \in Seq(S)
    BY <2>1, SeqDef
  <2>3. Len(u) = m
    BY <2>1, <2>2, LenProperties
  <2> QED BY <2>2, <2>3, <2>m
<1>7. n \in Nat \ {0} /\ s[n] \in S
  <2> n \in 1 .. n BY <1>1
  <2> QED BY <1>1, <1>3
<1>8. \A i \in 1 .. n - 1 : u[i] = s[i] /\ s[i] \in S
  BY <1>2, <1>3, <1>5
<1> QED BY <1>6, <1>7, <1>8

(* t is s with f in the place of its last element.                         *)
Replaces(S, s, f, t) ==
  /\ t \in Seq(S) /\ Len(t) = Len(s) /\ DOMAIN t = 1 .. Len(s) /\ t # <<>>
  /\ \A i \in 1 .. Len(s) - 1 : t[i] = s[i]
  /\ t[Len(s)] = f

(* Popping an element and pushing another one replaces it.                 *)
LEMMA ReplaceLast ==
  ASSUME NEW S, NEW s \in Seq(S), s # <<>>, NEW f \in S, NEW t,
         t = Append(SubSeq(s, 1, Len(s) - 1), f)
  PROVE  Replaces(S, s, f, t)
<1> PICK u : u = SubSeq(s, 1, Len(s) - 1) OBVIOUS
<1>1. /\ Len(s) \in Nat \ {0}
      /\ u \in Seq(S) /\ Len(u) = Len(s) - 1 /\ \A i \in 1 .. Len(s) - 1 : u[i] = s[i]
  BY Front
<1>2. t = Append(u, f)
  OBVIOUS
<1>3. t \in Seq(S) /\ Len(t) = Len(u) + 1 /\ t[Len(u) + 1] = f /\ \A i \in 1 .. Len(u) : t[i] = u[i]
  BY <1>1, <1>2, AppendProperties
<1>4. Len(u) + 1 = Len(s)
  BY <1>1
<1>5. DOMAIN t = 1 .. Len(t)
  BY <1>3, LenProperties
<1>6. t # <<>>
  BY <1>1, <1>3, <1>4
<1> QED BY <1>1, <1>3, <1>4, <1>5, <1>6 DEF Replaces

(* A sequence with one more element.                                       *)
LEMMA PushOne ==
  ASSUME NEW S, NEW s \in Seq(S), NEW f \in S, NEW t, t = Append(s, f)
  PROVE  /\ t \in Seq(S) /\ Len(t) = Len(s) + 1 /\ Len(s) \in Nat /\ DOMAIN t = 1 .. Len(s) + 1
         /\ \A i \in 1 .. Len(s) : t[i] = s[i]
         /\ t[Len(s) + 1] = f
<1>1. t \in Seq(S) /\ Len(t) = Len(s) + 1 /\ t[Len(s) + 1] = f /\ \A i \in 1 .. Len(s) : t[i] = s[i]
  BY AppendProperties
<1> QED BY <1>1, LenProperties

(* A sequence with its last element changed.                               *)
LEMMA ExceptLast ==
  ASSUME NEW S, NEW s \in Seq(S), s # <<>>, NEW f \in S, NEW t, t = [s EXCEPT ![Len(s)] = f]
  PROVE  /\ t \in Seq(S) /\ Len(t) = Len(s) /\ t[Len(s)] = f
         /\ \A i \in 1 .. Len(s) - 1 : t[i] = s[i]
<1>1. Len(s) \in Nat \ {0} /\ Len(s) \in DOMAIN s
  OBVIOUS
<1> QED BY <1>1

(* The stack after the step has f on top, and is the same below.           *)
Retop(f) ==
  /\ Len(stack) \in Nat \ {0} /\ Len(stack') = Len(stack) /\ stack' \in Seq(FrameType)
  /\ stack' # <<>>
  /\ DOMAIN stack = 1 .. Len(stack) /\ DOMAIN stack' = 1 .. Len(stack)
  /\ \A i \in 1 .. Len(stack) - 1 : stack'[i] = stack[i]
  /\ stack'[Len(stack)] = f

(* SetTop() changes the top only.                                          *)
LEMMA SetTopShape ==
  ASSUME stack \in Seq(FrameType), ~Idle, NEW f \in FrameType, SetTop(f)
  PROVE  Retop(f) /\ f \in FrameType
<1> PICK n : n = Len(stack) OBVIOUS
<1>1. stack # <<>> /\ stack' = Append(SubSeq(stack, 1, Len(stack) - 1), f)
  BY DEF Idle, SetTop, Below
<1>2. Len(stack) \in Nat \ {0} /\ DOMAIN stack = 1 .. Len(stack)
  BY <1>1, Front, LenProperties
<1> PICK S : S = FrameType OBVIOUS
<1> PICK t : t = stack' OBVIOUS
<1>3. /\ t \in Seq(S) /\ Len(t) = Len(stack) /\ DOMAIN t = 1 .. Len(stack) /\ t # <<>>
      /\ \A i \in 1 .. Len(stack) - 1 : t[i] = stack[i]
      /\ t[Len(stack)] = f
  <2>1. Replaces(S, stack, f, t)
    BY <1>1, ReplaceLast
  <2> QED BY <2>1 DEF Replaces
<1> QED BY <1>2, <1>3 DEF Retop

(* The top of the stack is its last frame.                                 *)
LEMMA TopIs ==
  ASSUME stack \in Seq(FrameType), ~Idle
  PROVE  /\ Top = stack[Len(stack)] /\ Top \in FrameType /\ Len(stack) \in DOMAIN stack
         /\ Len(stack) \in Nat \ {0} /\ DOMAIN stack = 1 .. Len(stack)
<1>1. stack # <<>>
  BY DEF Idle
<1>2. Len(stack) \in Nat \ {0} /\ DOMAIN stack = 1 .. Len(stack) /\ stack[Len(stack)] \in FrameType
  BY <1>1, Front, LenProperties
<1> QED BY <1>2 DEF Top

(* What the fields of a frame are.                                         *)
LEMMA FrameFields ==
  ASSUME NEW f \in FrameType
  PROVE  /\ f.on \in Defn /\ f.pass \in PassName \cup {""} /\ f.steps \in Seq(StepType)
         /\ f.ok \in BOOLEAN /\ f.must \in BOOLEAN /\ f.todo \subseteq PassName
BY DEF FrameType

(* A frame with other passes left to run.                                  *)
LEMMA FrameTodo ==
  ASSUME NEW f \in FrameType, NEW T \in SUBSET PassName, NEW g, g = [f EXCEPT !.todo = T]
  PROVE  /\ g \in FrameType /\ g.on = f.on /\ g.pass = f.pass /\ g.steps = f.steps
         /\ g.ok = f.ok /\ g.must = f.must /\ g.todo = T
BY DEF FrameType

(* A frame with other steps.                                               *)
LEMMA FrameSteps ==
  ASSUME NEW f \in FrameType, NEW t \in Seq(StepType), NEW g, g = [f EXCEPT !.steps = t]
  PROVE  /\ g \in FrameType /\ g.on = f.on /\ g.pass = f.pass /\ g.steps = t
         /\ g.ok = f.ok /\ g.must = f.must /\ g.todo = f.todo
BY DEF FrameType

(* A frame whose pass ended.                                               *)
LEMMA FrameEnded ==
  ASSUME NEW f \in FrameType, NEW g, g = [f EXCEPT !.pass = ""]
  PROVE  /\ g \in FrameType /\ g.on = f.on /\ g.pass = "" /\ g.steps = f.steps
         /\ g.ok = f.ok /\ g.must = f.must /\ g.todo = f.todo
BY DEF FrameType

(* A frame that failed has no pass, no steps and nothing left.             *)
LEMMA FailedIs ==
  ASSUME NEW f \in FrameType
  PROVE  LET g == FailedFrame(f) IN
         /\ g \in FrameType /\ g.on = f.on /\ g.pass = "" /\ g.steps = <<>> /\ g.ok = FALSE
         /\ g.must = f.must /\ g.todo = {}
<1>1. <<>> \in Seq(StepType) /\ {} \subseteq PassName /\ FALSE \in BOOLEAN
  OBVIOUS
<1> QED BY <1>1 DEF FrameType, FailedFrame

(* g is a frame that has not begun, of d, to run the passes T.             *)
IsFrame(g, d, m, T) ==
  /\ g \in FrameType /\ g.on = d /\ g.pass = "" /\ g.steps = <<>> /\ g.ok
  /\ (g.must <=> m) /\ g.todo = T

(* Such a frame, as a record.                                              *)
LEMMA FreshFrame ==
  ASSUME NEW d \in Defn, NEW m \in BOOLEAN, NEW T \in SUBSET PassName
  PROVE  IsFrame([on |-> d, pass |-> "", steps |-> <<>>, ok |-> TRUE, must |-> m, todo |-> T],
                 d, m, T)
<1>1. \A b \in BOOLEAN, e \in Seq(StepType) :
        [on |-> d, pass |-> "", steps |-> e, ok |-> b, must |-> m, todo |-> T] \in FrameType
  BY DEF FrameType
<1>2. TRUE \in BOOLEAN /\ <<>> \in Seq(StepType)
  OBVIOUS
<1>3. [on |-> d, pass |-> "", steps |-> <<>>, ok |-> TRUE, must |-> m, todo |-> T] \in FrameType
  BY <1>1, <1>2, Zenon
<1> QED BY <1>3 DEF IsFrame

(* The frame of an analyzer that was just made.                            *)
LEMMA NewFrame ==
  ASSUME NEW d \in Defn, NEW task \in Task, NEW must \in BOOLEAN
  PROVE  IsFrame(Frame(d, task, must), d, must, TaskPasses(d, task) \ finished[d])
<1>T. PICK T : T = TaskPasses(d, task) \ finished[d] OBVIOUS
<1>1. T \in SUBSET PassName
  BY <1>T, TasksInOrder, OrderNames
<1>2. Frame(d, task, must) = [on |-> d, pass |-> "", steps |-> <<>>, ok |-> TRUE, must |-> must,
                              todo |-> T]
  BY <1>T DEF Frame
<1>3. IsFrame([on |-> d, pass |-> "", steps |-> <<>>, ok |-> TRUE, must |-> must, todo |-> T],
              d, must, T)
  BY <1>1, FreshFrame
<1> QED BY <1>T, <1>2, <1>3, Zenon

-----------------------------------------------------------------------------
(* What an action does to the frame on top.                                *)

(* The frame's passes and steps are those of its definition's analyzer; it *)
(* looks at base types only when they are marked, and it fails only if its *)
(* class has.                                                              *)
FrameOK(f) ==
  /\ f.todo \subseteq Elems(PassOrder(f.on)) /\ f.pass \in Elems(PassOrder(f.on)) \cup {""}
  /\ StepsAre(f.on, f.pass, f.steps) /\ InOrder(f.steps)
  /\ f.on \in Class => /\ f.pass = "BaseTypes" => "BaseTypes" \in finished[f.on]
                       /\ ~f.ok => f.on \in Failing

(* The marks, the stack, the classes flagged and laid out are what they    *)
(* should be.                                                              *)
TypedState ==
  /\ running \in [Defn -> SUBSET PassName] /\ finished \in [Defn -> SUBSET PassName]
  /\ stack \in Seq(FrameType) /\ flagged \subseteq Class
  /\ Steady

(* Every frame on the stack is as it should be.                            *)
Frames == \A i \in DOMAIN stack : FrameOK(stack[i])

(* g is a later state of the frame f.                                      *)
Same(f, g) == g.on = f.on /\ (g.must <=> f.must)

(* The top leaves out a pass that was begun before (runPasses).            *)
Skips(g) ==
  /\ Same(Top, g) /\ Top.pass = "" /\ g.pass = "" /\ g.steps = Top.steps /\ (g.ok <=> Top.ok)
  /\ \E p \in Top.todo : p \in Begun(Top.on) /\ g.todo = Top.todo \ {p}
  /\ UNCHANGED <<running, finished, flagged>>

(* The top begins a pass, and marks it.                                    *)
Begins(g) ==
  /\ Same(Top, g) /\ Top.pass = "" /\ (g.ok <=> Top.ok)
  /\ g.pass \in Top.todo /\ g.pass \notin Begun(Top.on) /\ g.todo = Top.todo \ {g.pass}
  /\ Top.on \in Class => Rests(g.pass) \cap Top.todo = {}
  /\ Meets(Top.on, g.pass, g.steps)
  /\ IF Early(Top.on, g.pass) THEN Finish(Top.on, g.pass)
     ELSE /\ running' = IF Guarded(Top.on, g.pass)
                          THEN [running EXCEPT ![Top.on] = @ \cup {g.pass}] ELSE running
          /\ finished' = finished
  /\ flagged' = flagged

(* The top ends its pass, and marks it.                                    *)
Ends(g) ==
  /\ Same(Top, g) /\ Top.pass # "" /\ Top.steps = <<>> /\ g.pass = "" /\ g.steps = <<>>
  /\ (g.ok <=> Top.ok) /\ g.todo = Top.todo
  /\ IF Marked(Top.on, Top.pass) THEN Finish(Top.on, Top.pass) ELSE UNCHANGED <<running, finished>>
  /\ flagged' = flagged

(* The top takes a step of its pass that is not a request.                 *)
Goes(g) ==
  /\ Same(Top, g) /\ Top.pass # "" /\ Top.steps # <<>> /\ Head(Top.steps).op # "analyze"
  /\ g.pass = Top.pass /\ (g.ok <=> Top.ok) /\ g.todo = Top.todo
  /\ StepsAre(g.on, g.pass, g.steps) /\ Elems(Tail(Top.steps)) \subseteq Elems(g.steps)
  /\ \A s \in Elems(g.steps) : s.op \in {"link", "reserve", "table"} => s \in Elems(Tail(Top.steps))
  /\ Top.pass = "BaseTypes" => g.steps = Tail(Top.steps)
  /\ InOrder(g.steps)
  /\ UNCHANGED <<running, finished, flagged>>

(* The top finds that a link would close a loop, and flags its class.      *)
Fails(g) ==
  /\ Same(Top, g) /\ Top.on \in Class /\ Top.pass = "BaseTypes" /\ Top.steps # <<>>
  /\ Head(Top.steps).op = "link" /\ Top.on \in Chain(Head(Top.steps).on)
  /\ g.pass = "" /\ g.steps = <<>> /\ ~g.ok /\ g.todo = {}
  /\ UNCHANGED <<running, finished>> /\ flagged' = flagged \cup {Top.on}

(* The top is a frame as it should be.                                     *)
LEMMA TopFrame ==
  ASSUME TypedState, Frames, ~Idle
  PROVE  /\ Top = stack[Len(stack)] /\ Top \in FrameType /\ FrameOK(Top)
         /\ Len(stack) \in DOMAIN stack /\ Len(stack) \in Nat \ {0} /\ DOMAIN stack = 1 .. Len(stack)
BY TopIs DEF TypedState, Frames

(* SkipPass leaves out a pass.                                             *)
LEMMA SkipIs ==
  ASSUME TypedState, Frames, SkipPass
  PROVE  \E g \in FrameType : Retop(g) /\ Skips(g)
<1>0. ~Idle /\ Top.pass = "" /\ Top.todo # {} /\ SetTop([Top EXCEPT !.todo = @ \ {NextPass(Top)}])
      /\ NextPass(Top) \in Begun(Top.on) /\ UNCHANGED <<running, finished, flagged>>
  BY DEF SkipPass, Begun, layout
<1>1. Top \in FrameType /\ Top.todo \subseteq Elems(PassOrder(Top.on)) /\ Top.todo \subseteq PassName
  BY <1>0, TopFrame, FrameFields DEF FrameOK
<1> PICK f : f = Top OBVIOUS
<1> PICK p : p = NextPass(f) OBVIOUS
<1>2. p \in f.todo
  BY <1>0, <1>1, NextIsLeft
<1> PICK T : T = f.todo \ {p} OBVIOUS
<1> PICK g : g = [f EXCEPT !.todo = T] OBVIOUS
<1>3. /\ g \in FrameType /\ g.on = f.on /\ g.pass = f.pass /\ g.steps = f.steps
      /\ g.ok = f.ok /\ g.must = f.must /\ g.todo = T
  <2> T \in SUBSET PassName BY <1>1
  <2> QED BY <1>1, FrameTodo
<1>4. SetTop(g)
  BY <1>0
<1>5. Retop(g)
  BY <1>0, <1>3, <1>4, SetTopShape DEF TypedState
<1>6. Skips(g)
  BY <1>0, <1>2, <1>3 DEF Skips, Same
<1> QED BY <1>3, <1>5, <1>6

(* BeginPass begins one.                                                   *)
LEMMA BeginIs ==
  ASSUME TypedState, Frames, BeginPass
  PROVE  \E g \in FrameType : Retop(g) /\ Begins(g)
<1>f. PICK f : f = Top OBVIOUS
<1>p. PICK p : p = NextPass(f) OBVIOUS
<1>t. PICK t : t = PassSteps(f.on, p) OBVIOUS
<1>0. ~Idle /\ f.pass = "" /\ f.todo # {} /\ SetTop([f EXCEPT !.todo = @ \ {p}, !.pass = p, !.steps = t])
      /\ p \notin Begun(f.on) /\ flagged' = flagged
      /\ IF Early(f.on, p) THEN Finish(f.on, p)
           ELSE /\ running' = IF Guarded(f.on, p)
                                THEN [running EXCEPT ![f.on] = @ \cup {p}] ELSE running
                /\ finished' = finished
  BY <1>t, <1>f, <1>p DEF BeginPass, Begun, layout
<1>1. f \in FrameType /\ f.todo \subseteq Elems(PassOrder(f.on)) /\ f.todo \subseteq PassName /\ f.on \in Defn
  BY <1>0, <1>f, TopFrame, FrameFields DEF FrameOK
<1>2. p \in f.todo
  BY <1>0, <1>1, <1>p, NextIsLeft
<1>7. Meets(f.on, p, t)
  BY <1>1, <1>t, PassStepsMeet DEF TypedState
<1>8. t \in Seq(StepType)
  BY <1>7 DEF Meets, StepsAre
<1>T. PICK T : T = f.todo \ {p} OBVIOUS
<1>g. PICK g : g = [f EXCEPT !.todo = T, !.pass = p, !.steps = t] OBVIOUS
<1>3. /\ g \in FrameType /\ g.on = f.on /\ g.pass = p /\ g.steps = t
      /\ g.ok = f.ok /\ g.must = f.must /\ g.todo = T
  <2>1. T \in SUBSET PassName /\ p \in PassName
    BY <1>1, <1>2, <1>T
  <2>2. f \in FrameType
    BY <1>1
  <2> QED BY <2>2, <1>8, <1>g, <2>1 DEF FrameType
<1>4. SetTop(g)
  BY <1>0, <1>T, <1>g
<1>5. Retop(g)
  BY <1>0, <1>3, <1>4, SetTopShape DEF TypedState
<1>9. f.on \in Class => Rests(p) \cap f.todo = {}
  BY <1>0, <1>1, <1>p, RestsAreEarly
<1>6. Begins(g)
  BY <1>0, <1>2, <1>3, <1>7, <1>9, <1>T, <1>f DEF Begins, Same
<1> QED BY <1>3, <1>5, <1>6

(* FinishPass ends one.                                                    *)
LEMMA FinishIs ==
  ASSUME TypedState, Frames, FinishPass
  PROVE  \E g \in FrameType : Retop(g) /\ Ends(g)
<1> PICK f : f = Top OBVIOUS
<1> PICK g : g = [f EXCEPT !.pass = ""] OBVIOUS
<1>0. /\ ~Idle /\ f.pass # "" /\ f.steps = <<>> /\ SetTop(g) /\ flagged' = flagged
      /\ IF Marked(f.on, f.pass) THEN Finish(f.on, f.pass) ELSE UNCHANGED <<running, finished>>
  BY DEF FinishPass, layout
<1>1. f \in FrameType
  BY <1>0, TopFrame
<1>3. /\ g \in FrameType /\ g.on = f.on /\ g.pass = "" /\ g.steps = f.steps
      /\ g.ok = f.ok /\ g.must = f.must /\ g.todo = f.todo
  BY <1>1, FrameEnded
<1>5. Retop(g)
  BY <1>0, <1>3, SetTopShape DEF TypedState
<1>6. Ends(g)
  BY <1>0, <1>3 DEF Ends, Same
<1> QED BY <1>3, <1>5, <1>6

(* A pass that has steps has taken them from the front.                    *)
LEMMA StepsLeft ==
  ASSUME NEW d, NEW p, NEW t, StepsAre(d, p, t), InOrder(t), t # <<>>
  PROVE  /\ StepsAre(d, p, Tail(t)) /\ InOrder(Tail(t)) /\ Head(t) \in Elems(t)
         /\ Elems(t) = {Head(t)} \cup Elems(Tail(t)) /\ Head(t) \in StepType /\ StepOK(d, p, Head(t))
         /\ Head(t).op \in Late => NoAnalyze(Tail(t))
         /\ Head(t).op # "analyze" => NoReserve(Tail(t))
<1>1. t \in Seq(StepType)
  BY DEF StepsAre
<1>2. /\ InOrder(Tail(t)) /\ Tail(t) \in Seq(StepType) /\ Head(t) \in Elems(t)
      /\ Head(t).op \in Late => NoAnalyze(Tail(t))
      /\ Head(t).op # "analyze" => NoReserve(Tail(t))
      /\ Elems(t) = {Head(t)} \cup Elems(Tail(t))
  BY <1>1, OrderOfTail
<1>3. Head(t) \in StepType
  BY <1>1
<1> QED BY <1>1, <1>2, <1>3 DEF StepsAre

(* The top does a step and that is all.                                    *)
Popping ==
  /\ ~Idle /\ Top.pass # "" /\ Top.steps # <<>> /\ Head(Top.steps).op # "analyze"
  /\ SetTop(Popped(Top)) /\ UNCHANGED <<running, finished, flagged>>

(* That leaves the other steps.                                            *)
LEMMA PopsIs ==
  ASSUME TypedState, Frames, Popping
  PROVE  \E g \in FrameType : Retop(g) /\ Goes(g) /\ g.steps = Tail(Top.steps)
<1>f. PICK f : f = Top OBVIOUS
<1>t. PICK t : t = Tail(f.steps) OBVIOUS
<1>g. PICK g : g = [f EXCEPT !.steps = t] OBVIOUS
<1>1. f \in FrameType /\ FrameOK(f)
  BY <1>f, TopFrame DEF Popping
<1>2. StepsAre(f.on, f.pass, t) /\ InOrder(t)
  <2> f.steps # <<>> BY <1>f DEF Popping
  <2> QED BY <1>1, <1>t, StepsLeft DEF FrameOK
<1>3. /\ g \in FrameType /\ g.on = f.on /\ g.pass = f.pass /\ g.steps = t
      /\ g.ok = f.ok /\ g.must = f.must /\ g.todo = f.todo
  <2> t \in Seq(StepType) BY <1>2 DEF StepsAre
  <2> QED BY <1>1, <1>g, FrameSteps
<1>4. SetTop(g)
  BY <1>f, <1>t, <1>g DEF Popped, Popping
<1>5. Retop(g)
  BY <1>3, <1>4, SetTopShape DEF TypedState, Popping
<1>6. Goes(g)
  BY <1>2, <1>3, <1>t, <1>f DEF Goes, Same, Popping
<1> QED BY <1>3, <1>5, <1>6, <1>t, <1>f

(* The top puts steps in the place of the one it does.                     *)
Adding(added) ==
  /\ ~Idle /\ Top.pass # "" /\ Top.steps # <<>> /\ Head(Top.steps).op \in {"field", "place"}
  /\ StepsAre(Top.on, Top.pass, added) /\ NoReserve(added)
  /\ SetTop([Top EXCEPT !.steps = added \o Tail(@)]) /\ UNCHANGED <<running, finished, flagged>>

(* Steps of the pass for the fields put in the place of one of them.       *)
LEMMA AddsIs ==
  ASSUME TypedState, Frames, NEW added, Adding(added)
  PROVE  \E g \in FrameType : Retop(g) /\ Goes(g)
<1>f. PICK f : f = Top OBVIOUS
<1>1. f \in FrameType /\ FrameOK(f)
  BY <1>f, TopFrame DEF Adding
<1>2. /\ StepsAre(f.on, f.pass, Tail(f.steps)) /\ InOrder(Tail(f.steps)) /\ StepOK(f.on, f.pass, Head(f.steps))
      /\ NoReserve(Tail(f.steps))
  <2> f.steps # <<>> /\ Head(f.steps).op # "analyze" BY <1>f DEF Adding
  <2> QED BY <1>1, StepsLeft DEF FrameOK
<1>3. f.on \in Class /\ f.pass = "Field"
  BY <1>2, <1>f DEF StepOK, Adding
<1>r. PICK r : r = Tail(f.steps) OBVIOUS
<1>d. PICK d : d = f.on OBVIOUS
<1>p. PICK p : p = f.pass OBVIOUS
<1>4. StepsAre(d, p, added \o r) /\ Elems(added \o r) = Elems(added) \cup Elems(r)
  <2>1. StepsAre(d, p, added) /\ StepsAre(d, p, r)
    BY <1>2, <1>r, <1>d, <1>p, <1>f DEF Adding
  <2> QED BY <2>1, JoinedSteps
<1>t. PICK t : t = added \o r OBVIOUS
<1>5. StepsAre(d, p, t) /\ InOrder(t) /\ Elems(t) = Elems(added) \cup Elems(r)
  <2>1. StepsAre(d, p, t) /\ Elems(t) = Elems(added) \cup Elems(r)
    BY <1>4, <1>t
  <2>2. NoReserve(t)
    BY <1>2, <1>r, <2>1 DEF NoReserve, Adding
  <2>3. NoLate(t)
    BY <1>3, <1>p, <1>d, <2>1, <2>2 DEF NoLate, Late, NoReserve, StepsAre, StepOK
  <2> QED BY <2>1, <2>3, OrderIfOne
<1>6. p = "Field" /\ \A s \in Elems(t) : s.op \notin {"link", "reserve", "table"}
  <2>1. NoReserve(t)
    BY <1>2, <1>r, <1>5 DEF NoReserve, Adding
  <2> QED BY <1>3, <1>5, <1>p, <2>1 DEF StepsAre, StepOK, NoReserve
<1>g. PICK g : g = [f EXCEPT !.steps = t] OBVIOUS
<1>7. /\ g \in FrameType /\ g.on = f.on /\ g.pass = f.pass /\ g.steps = t
      /\ g.ok = f.ok /\ g.must = f.must /\ g.todo = f.todo
  <2> t \in Seq(StepType) BY <1>5 DEF StepsAre
  <2> QED BY <1>1, <1>g, FrameSteps
<1>8. SetTop(g)
  BY <1>r, <1>t, <1>g, <1>f DEF Adding
<1>9. Retop(g)
  BY <1>7, <1>8, SetTopShape DEF TypedState, Adding
<1>10. Goes(g)
  BY <1>5, <1>6, <1>7, <1>r, <1>f, <1>d, <1>p DEF Goes, Same, Adding
<1> QED BY <1>7, <1>9, <1>10

-----------------------------------------------------------------------------
(* Effects.                                                                *)

(* The module's own state is what it should be.                            *)
ModuleTyped == next \in Nat /\ next >= 1 /\ queue \in Seq(Defn) /\ symbols \subseteq Defn

(* The operations that do no more to the analyzers than go on, a link that *)
(* closes no loop among them.                                              *)
LEMMA EffectPops ==
  ASSUME TypedState, Frames,
         ReserveSuper \/ BuildTable \/ EvaluateAttribute \/ Symbol
           \/ (LinkBase /\ Top.on \notin Chain(Head(Top.steps).on))
  PROVE  \E g \in FrameType : Retop(g) /\ Goes(g)
<1>1. Popping
  <2>1. CASE ReserveSuper
    BY <2>1 DEF ReserveSuper, CanStep, Popping
  <2>2. CASE BuildTable
    BY <2>2 DEF BuildTable, CanStep, Popping
  <2>3. CASE EvaluateAttribute
    BY <2>3 DEF EvaluateAttribute, CanStep, Popping
  <2>4. CASE Symbol
    BY <2>4 DEF Symbol, CanStep, Popping, layout
  <2>5. CASE LinkBase /\ Top.on \notin Chain(Head(Top.steps).on)
    BY <2>5 DEF LinkBase, CanStep, Popping
  <2> QED BY <2>1, <2>2, <2>3, <2>4, <2>5
<1> QED BY <1>1, PopsIs

(* A link that would close a loop fails.                                   *)
LEMMA FailedLinkIs ==
  ASSUME TypedState, Frames, LinkBase, Top.on \in Chain(Head(Top.steps).on)
  PROVE  \E g \in FrameType : Retop(g) /\ Fails(g)
<1>f. PICK f : f = Top OBVIOUS
<1>g. PICK g : g = FailedFrame(f) OBVIOUS
<1>0. /\ ~Idle /\ f.pass # "" /\ f.steps # <<>> /\ Head(f.steps).op = "link" /\ SetTop(g)
      /\ f.on \in Chain(Head(f.steps).on)
      /\ UNCHANGED <<running, finished>> /\ flagged' = flagged \cup {f.on}
  BY <1>f, <1>g DEF LinkBase, CanStep
<1>1. f \in FrameType /\ FrameOK(f)
  BY <1>0, <1>f, TopFrame
<1>2. StepOK(f.on, f.pass, Head(f.steps))
  BY <1>0, <1>1, StepsLeft DEF FrameOK
<1>3. f.on \in Class /\ f.pass = "BaseTypes"
  BY <1>0, <1>2 DEF StepOK
<1>4. /\ g \in FrameType /\ g.on = f.on /\ g.pass = "" /\ g.steps = <<>> /\ g.ok = FALSE
      /\ g.must = f.must /\ g.todo = {}
  BY <1>1, <1>g, FailedIs
<1>5. Retop(g)
  BY <1>0, <1>4, SetTopShape DEF TypedState
<1>6. Fails(g)
  BY <1>0, <1>3, <1>4, <1>f DEF Fails, Same
<1> QED BY <1>4, <1>5, <1>6

(* VisitField puts steps of the fields' pass in its place.                 *)
LEMMA VisitIs ==
  ASSUME TypedState, Frames, VisitField
  PROVE  \E g \in FrameType : Retop(g) /\ Goes(g)
<1>f. PICK f : f = Top OBVIOUS
<1>v. PICK v : v = Head(f.steps).on OBVIOUS
<1>a. PICK added : added = IF v \in Static
                     THEN (IF v \in Static /\ "VariableType" \in running[v] THEN <<>> ELSE Analyze(v, "TypeComparison"))
                            \o Effect("symbol", v)
                     ELSE Analyze(v, "TypeComparison") \o Effect("place", v)
  OBVIOUS
<1>0. /\ ~Idle /\ f.pass # "" /\ f.steps # <<>> /\ Head(f.steps).op = "field"
      /\ SetTop([f EXCEPT !.steps = added \o Tail(@)])
      /\ UNCHANGED <<running, finished, flagged>>
  BY <1>f, <1>v, <1>a DEF VisitField, CanStep, layout
<1>1. f \in FrameType /\ FrameOK(f)
  BY <1>0, <1>f, TopFrame
<1>2. StepOK(f.on, f.pass, Head(f.steps))
  BY <1>0, <1>1, StepsLeft DEF FrameOK
<1>c. PICK c : c = f.on OBVIOUS
<1>3. c \in Class /\ f.pass = "Field" /\ v \in Elems(FieldsOf[c])
  BY <1>0, <1>2, <1>v, <1>c DEF StepOK
<1>4. v \in Defn \cup {NoClass} /\ Owner(v) = c /\ Owner(c) = c
  BY <1>3, OwnerOfField, OwnerOfClass
<1>5. StepsAre(c, "Field", Analyze(v, "TypeComparison"))
  <2>1. v # NoClass => Owner(v) \in Mentions(Owner(c)) \cup {Owner(c)}
    BY <1>4
  <2> QED BY <1>4, <2>1, TasksAre, AnalyzeSteps DEF Tasks
<1>6. /\ StepsAre(c, "Field", Effect("symbol", v)) /\ StepsAre(c, "Field", Effect("place", v))
      /\ NoReserve(Effect("symbol", v)) /\ NoReserve(Effect("place", v))
  <2>1. EffectOK("symbol", v, c, "Field")
    BY DEF EffectOK
  <2>2. EffectOK("place", v, c, "Field")
    BY <1>3 DEF EffectOK
  <2> QED BY <1>4, <2>1, <2>2, OperationsAre, EffectIs DEF NoReserve
<1>7. StepsAre(c, "Field", added) /\ NoReserve(added)
  <2>a. PICK A : A = Analyze(v, "TypeComparison") OBVIOUS
  <2>s. PICK S : S = Effect("symbol", v) OBVIOUS
  <2>p. PICK P : P = Effect("place", v) OBVIOUS
  <2>0. /\ StepsAre(c, "Field", A) /\ StepsAre(c, "Field", S) /\ StepsAre(c, "Field", P)
        /\ StepsAre(c, "Field", <<>>)
        /\ NoReserve(A) /\ NoReserve(S) /\ NoReserve(P) /\ NoReserve(<<>>)
    <3> NoReserve(A) /\ NoReserve(<<>>)
      BY <2>a DEF NoReserve, Analyze, Step, Elems
    <3> QED BY <1>5, <1>6, <2>a, <2>s, <2>p, NoSteps
  <2>3. \A t, u : StepsAre(c, "Field", t) /\ StepsAre(c, "Field", u) /\ NoReserve(t) /\ NoReserve(u) =>
                  StepsAre(c, "Field", t \o u) /\ NoReserve(t \o u)
    <3> SUFFICES ASSUME NEW t, NEW u, StepsAre(c, "Field", t), StepsAre(c, "Field", u), NoReserve(t), NoReserve(u)
                 PROVE  StepsAre(c, "Field", t \o u) /\ NoReserve(t \o u)
      OBVIOUS
    <3>1. StepsAre(c, "Field", t \o u) /\ Elems(t \o u) = Elems(t) \cup Elems(u)
      BY JoinedSteps
    <3> QED BY <3>1 DEF NoReserve
  <2>1. /\ StepsAre(c, "Field", <<>> \o S) /\ StepsAre(c, "Field", A \o S) /\ StepsAre(c, "Field", A \o P)
        /\ NoReserve(<<>> \o S) /\ NoReserve(A \o S) /\ NoReserve(A \o P)
    BY <2>0, <2>3
  <2>2. added \in {<<>> \o S, A \o S, A \o P}
    BY <1>a, <2>a, <2>s, <2>p
  <2> QED BY <2>1, <2>2
<1>8. Adding(added)
  BY <1>0, <1>3, <1>7, <1>f, <1>c DEF Adding
<1> QED BY <1>8, AddsIs

(* So does PlaceField.                                                     *)
LEMMA PlaceIs ==
  ASSUME TypedState, Frames, PlaceField
  PROVE  \E g \in FrameType : Retop(g) /\ Goes(g)
<1>f. PICK f : f = Top OBVIOUS
<1>v. PICK v : v = Head(f.steps).on OBVIOUS
<1>a. PICK added : added = IF IsAttribute(f.on) THEN <<>>
                           ELSE Analyze(prog.type[v], "Construction")
  OBVIOUS
<1>0. /\ ~Idle /\ f.pass # "" /\ f.steps # <<>> /\ Head(f.steps).op = "place"
      /\ SetTop([f EXCEPT !.steps = added \o Tail(@)])
      /\ UNCHANGED <<running, finished, flagged>>
  BY <1>f, <1>v, <1>a DEF PlaceField, CanStep
<1>1. f \in FrameType /\ FrameOK(f)
  BY <1>0, <1>f, TopFrame
<1>2. StepOK(f.on, f.pass, Head(f.steps))
  BY <1>0, <1>1, StepsLeft DEF FrameOK
<1>c. PICK c : c = f.on OBVIOUS
<1>3. c \in Class /\ f.pass = "Field" /\ v \in Elems(FieldsOf[c])
  BY <1>0, <1>2, <1>v, <1>c DEF StepOK
<1>4. v \in Var /\ Owner(v) = c /\ Owner(c) = c
  BY <1>3, OwnerOfField, OwnerOfClass
<1>y. PICK y : y = prog.type[v] OBVIOUS
<1>5. y \in Class \cup {NoClass} /\ (y # NoClass => y \in Mentions(Owner(c)))
  BY <1>4, <1>y, Named DEF TypedState, Steady
<1>6. StepsAre(c, "Field", Analyze(y, "Construction"))
  BY <1>5, TasksAre, AnalyzeClass DEF Tasks
<1>7. StepsAre(c, "Field", added) /\ NoReserve(added)
  <2>1. NoReserve(Analyze(y, "Construction")) /\ NoReserve(<<>>)
    BY DEF NoReserve, Analyze, Step, Elems
  <2> QED BY <1>6, <1>a, <1>y, <2>1, NoSteps
<1>8. Adding(added)
  BY <1>0, <1>3, <1>7, <1>f, <1>c DEF Adding
<1> QED BY <1>8, AddsIs

(* Every operation is a step of the top that goes on or fails.             *)
LEMMA EffectIsOne ==
  ASSUME TypedState, Frames, Effects
  PROVE  \E g \in FrameType : Retop(g) /\ (Goes(g) \/ Fails(g))
<1>1. CASE VisitField BY <1>1, VisitIs
<1>2. CASE PlaceField BY <1>2, PlaceIs
<1>3. CASE LinkBase BY <1>3, EffectPops, FailedLinkIs
<1> QED BY <1>1, <1>2, <1>3, EffectPops DEF Effects

-----------------------------------------------------------------------------
(* Calls and returns.                                                      *)

(* The stack after the step has g on top of f, and f for its old top.      *)
Pushed(f, g) ==
  /\ Len(stack) \in Nat \ {0} /\ Len(stack') = Len(stack) + 1 /\ stack' \in Seq(FrameType)
  /\ DOMAIN stack = 1 .. Len(stack) /\ DOMAIN stack' = 1 .. Len(stack) + 1
  /\ \A i \in 1 .. Len(stack) - 1 : stack'[i] = stack[i]
  /\ stack'[Len(stack)] = f /\ stack'[Len(stack) + 1] = g

(* g is a frame of d that is to run what is not finished of a task.        *)
Fresh(g, d, task) ==
  /\ g.on = d /\ g.pass = "" /\ g.steps = <<>> /\ g.ok
  /\ g.todo = TaskPasses(d, task) \ finished[d]

(* The top asks for an analysis, which is to begin.                        *)
Calls(f, g) ==
  /\ Same(Top, f) /\ Top.pass # "" /\ Top.steps # <<>> /\ f.pass = Top.pass
  /\ (f.ok <=> Top.ok) /\ f.todo = Top.todo /\ f.steps = Tail(Top.steps)
  /\ LET s == Head(Top.steps)
     IN s \in StepType /\ s.op = "analyze" /\ s.task \in Task /\ s.on \in Defn
        /\ Fresh(g, s.on, s.task) /\ (g.must <=> s.must)
  /\ UNCHANGED <<running, finished, flagged>>

(* Call pushes the frame of the analysis.                                  *)
LEMMA CallIs ==
  ASSUME TypedState, Frames, Call
  PROVE  \E f, g \in FrameType : Pushed(f, g) /\ Calls(f, g)
<1>h. PICK h : h = Top OBVIOUS
<1>s. PICK s : s = Head(h.steps) OBVIOUS
<1>t. PICK t : t = Tail(h.steps) OBVIOUS
<1>f. PICK f : f = [h EXCEPT !.steps = t] OBVIOUS
<1>g. PICK g : g = Frame(s.on, s.task, s.must) OBVIOUS
<1>0. /\ ~Idle /\ h.pass # "" /\ h.steps # <<>> /\ s.op = "analyze"
      /\ stack' = Append(Append(Below, f), g)
      /\ UNCHANGED <<running, finished, flagged>>
  BY <1>h, <1>s, <1>t, <1>f, <1>g DEF Call, CanStep, layout, Popped
<1>1. h \in FrameType /\ FrameOK(h)
  BY <1>0, <1>h, TopFrame
<1>2. StepsAre(h.on, h.pass, t) /\ s \in StepType /\ StepOK(h.on, h.pass, s)
  BY <1>0, <1>1, <1>s, <1>t, StepsLeft DEF FrameOK
<1>3. s.task \in Task /\ s.on \in Defn /\ s.must \in BOOLEAN
  BY <1>0, <1>2 DEF StepOK, StepType
<1>4. /\ f \in FrameType /\ f.on = h.on /\ f.pass = h.pass /\ f.steps = t
      /\ f.ok = h.ok /\ f.must = h.must /\ f.todo = h.todo
  <2> t \in Seq(StepType) BY <1>2 DEF StepsAre
  <2> QED BY <1>1, <1>f, FrameSteps
<1>5. /\ g \in FrameType /\ g.on = s.on /\ g.pass = "" /\ g.steps = <<>> /\ g.ok
      /\ (g.must <=> s.must) /\ g.todo = TaskPasses(s.on, s.task) \ finished[s.on]
  <2>d. PICK d : d = s.on OBVIOUS
  <2>k. PICK task : task = s.task OBVIOUS
  <2>m. PICK must : must = s.must OBVIOUS
  <2>1. d \in Defn /\ task \in Task /\ must \in BOOLEAN /\ g = Frame(d, task, must)
    BY <1>3, <1>g, <2>d, <2>k, <2>m
  <2>2. /\ g \in FrameType /\ g.on = d /\ g.pass = "" /\ g.steps = <<>> /\ g.ok
        /\ (g.must <=> must) /\ g.todo = TaskPasses(d, task) \ finished[d]
    <3>1. IsFrame(g, d, must, TaskPasses(d, task) \ finished[d])
      BY <2>1, NewFrame
    <3> QED BY <3>1 DEF IsFrame
  <2> QED BY <2>2, <2>d, <2>k, <2>m, Zenon
<1>6. Pushed(f, g)
  <2>1. stack \in Seq(FrameType) /\ stack # <<>> /\ DOMAIN stack = 1 .. Len(stack) /\ Len(stack) \in Nat \ {0}
    BY <1>0, TopFrame DEF TypedState, Idle
  <2>u. PICK u : u = Append(Below, f) OBVIOUS
  <2>2. /\ u \in Seq(FrameType) /\ Len(u) = Len(stack) /\ DOMAIN u = 1 .. Len(stack) /\ u # <<>>
        /\ \A i \in 1 .. Len(stack) - 1 : u[i] = stack[i]
        /\ u[Len(stack)] = f
    <3>S. PICK S : S = FrameType OBVIOUS
    <3>r. PICK r : r = stack OBVIOUS
    <3>1. r \in Seq(S) /\ r # <<>> /\ f \in S /\ u = Append(SubSeq(r, 1, Len(r) - 1), f)
      BY <2>1, <2>u, <1>4, <3>S, <3>r DEF Below
    <3>2. /\ u \in Seq(S) /\ Len(u) = Len(r) /\ DOMAIN u = 1 .. Len(r) /\ u # <<>>
          /\ \A i \in 1 .. Len(r) - 1 : u[i] = r[i]
          /\ u[Len(r)] = f
      <4>1. Replaces(S, r, f, u)
        BY <3>1, ReplaceLast
      <4> QED BY <4>1 DEF Replaces
    <3> QED BY <3>2, <3>S, <3>r
  <2>w. PICK w : w = stack' OBVIOUS
  <2>3. w = Append(u, g)
    BY <1>0, <2>u, <2>w
  <2>4. /\ w \in Seq(FrameType) /\ Len(w) = Len(u) + 1 /\ Len(u) \in Nat /\ DOMAIN w = 1 .. Len(u) + 1
        /\ \A i \in 1 .. Len(u) : w[i] = u[i]
        /\ w[Len(u) + 1] = g
    <3>S. PICK S : S = FrameType OBVIOUS
    <3>1. u \in Seq(S) /\ g \in S /\ w = Append(u, g)
      BY <2>2, <2>3, <1>5, <3>S
    <3>2. /\ w \in Seq(S) /\ Len(w) = Len(u) + 1 /\ Len(u) \in Nat /\ DOMAIN w = 1 .. Len(u) + 1
          /\ \A i \in 1 .. Len(u) : w[i] = u[i]
          /\ w[Len(u) + 1] = g
      BY <3>1, PushOne
    <3> QED BY <3>2, <3>S
  <2> QED BY <2>1, <2>2, <2>4, <2>w DEF Pushed
<1>7. Calls(f, g)
  BY <1>0, <1>2, <1>3, <1>4, <1>5, <1>h, <1>s, <1>t DEF Calls, Same, Fresh
<1> QED BY <1>4, <1>5, <1>6, <1>7

(* The stack after the step is without its top, and has g for the frame    *)
(* that was below.                                                         *)
Dropped(g) ==
  /\ Len(stack) \in Nat /\ Len(stack) > 1 /\ Len(stack') = Len(stack) - 1 /\ stack' \in Seq(FrameType)
  /\ DOMAIN stack = 1 .. Len(stack) /\ DOMAIN stack' = 1 .. Len(stack) - 1
  /\ \A i \in 1 .. Len(stack) - 2 : stack'[i] = stack[i]
  /\ stack'[Len(stack) - 1] = g

(* The frame below the top.                                                *)
Caller == stack[Len(stack) - 1]

(* The analysis returns, with nothing that its caller has to pass on.      *)
ReturnsOk ==
  /\ Top.pass = "" /\ Top.todo = {} /\ ~(Top.must /\ ~Top.ok)
  /\ UNCHANGED <<running, finished, flagged>>

(* The analysis failed and its caller g, that required it, fails too.      *)
ReturnsFailed(g) ==
  /\ Top.pass = "" /\ Top.todo = {} /\ Top.must /\ ~Top.ok
  /\ Same(Caller, g) /\ g.pass = "" /\ g.steps = <<>> /\ ~g.ok /\ g.todo = {}
  /\ MarksFailed(Caller.on, Caller.pass)
  /\ flagged' = IF Caller.pass = "BaseTypes" THEN flagged \cup {Caller.on} ELSE flagged

(* Return goes one way or the other.                                       *)
LEMMA ReturnIs ==
  ASSUME TypedState, Frames, Return
  PROVE  \/ Dropped(Caller) /\ ReturnsOk
         \/ \E g \in FrameType : Dropped(g) /\ ReturnsFailed(g)
<1>1. stack \in Seq(FrameType) /\ stack # <<>> /\ Len(stack) \in Nat /\ Len(stack) > 1 /\ DOMAIN stack = 1 .. Len(stack)
  <2>1. Len(stack) > 1 /\ stack \in Seq(FrameType)
    BY DEF Return, TypedState
  <2>2. Len(stack) \in Nat /\ DOMAIN stack = 1 .. Len(stack)
    BY <2>1, LenProperties
  <2>3. stack # <<>>
    BY <2>1, <2>2
  <2> QED BY <2>1, <2>2, <2>3
<1>u. PICK u : u = Below OBVIOUS
<1>2. /\ u \in Seq(FrameType) /\ Len(u) = Len(stack) - 1 /\ \A i \in 1 .. Len(stack) - 1 : u[i] = stack[i]
      /\ DOMAIN u = 1 .. Len(stack) - 1 /\ u # <<>>
  <2>1. u \in Seq(FrameType) /\ Len(u) = Len(stack) - 1 /\ \A i \in 1 .. Len(stack) - 1 : u[i] = stack[i]
    BY <1>1, <1>u, Front DEF Below
  <2>2. DOMAIN u = 1 .. Len(u) /\ u # <<>>
    BY <1>1, <2>1, LenProperties
  <2> QED BY <2>1, <2>2
<1>n. /\ Len(stack) - 1 \in 1 .. Len(stack) - 1
      /\ \A i \in 1 .. Len(stack) - 2 : i \in 1 .. Len(stack) - 1
  BY <1>1
<1>3. CASE ~(Top.must /\ ~Top.ok)
  <2>1. stack' = u
    BY <1>3, <1>u DEF Return
  <2>2. ReturnsOk
    BY <1>3 DEF Return, ReturnsOk
  <2>3. Dropped(Caller)
    BY <1>1, <1>2, <1>n, <2>1 DEF Dropped, Caller
  <2> QED BY <2>2, <2>3
<1>4. CASE Top.must /\ ~Top.ok
  <2>c. PICK c : c = Caller OBVIOUS
  <2>g. PICK g : g = FailedFrame(c) OBVIOUS
  <2>0. c \in FrameType
    <3>1. Len(stack) - 1 \in DOMAIN stack
      BY <1>1
    <3> QED BY <1>1, <2>c, <3>1, ElementOfSeq DEF Caller
  <2>1. /\ g \in FrameType /\ g.on = c.on /\ g.pass = "" /\ g.steps = <<>> /\ g.ok = FALSE
        /\ g.must = c.must /\ g.todo = {}
    BY <2>0, <2>g, FailedIs
  <2>2. stack' = [u EXCEPT ![Len(u)] = g]
    BY <1>4, <1>u, <2>c, <2>g DEF Return, Caller
  <2>3. ReturnsFailed(g)
    BY <1>4, <2>1, <2>c DEF Return, ReturnsFailed, Caller, Same
  <2>w. PICK w : w = stack' OBVIOUS
  <2>4. w \in Seq(FrameType) /\ Len(w) = Len(u) /\ w[Len(u)] = g /\ \A i \in 1 .. Len(u) - 1 : w[i] = u[i]
    <3>S. PICK S : S = FrameType OBVIOUS
    <3>1. u \in Seq(S) /\ u # <<>> /\ g \in S /\ w = [u EXCEPT ![Len(u)] = g]
      BY <1>2, <2>1, <2>2, <2>w, <3>S
    <3>2. w \in Seq(S) /\ Len(w) = Len(u) /\ w[Len(u)] = g /\ \A i \in 1 .. Len(u) - 1 : w[i] = u[i]
      BY <3>1, ExceptLast
    <3> QED BY <3>2, <3>S
  <2>5. DOMAIN w = 1 .. Len(w)
    BY <2>4, LenProperties
  <2>6. Dropped(g)
    <3>1. Len(u) = Len(stack) - 1 /\ Len(u) - 1 = Len(stack) - 2
      BY <1>1, <1>2
    <3>2. \A i \in 1 .. Len(stack) - 2 : w[i] = stack[i]
      BY <1>2, <1>n, <2>4, <3>1
    <3> QED BY <1>1, <1>2, <2>4, <2>5, <2>w, <3>1, <3>2 DEF Dropped
  <2> QED BY <2>1, <2>3, <2>6
<1> QED BY <1>3, <1>4

(* The module pushes the first frame.                                      *)
Entered(g) ==
  /\ stack = <<>> /\ stack' = <<g>> /\ Len(stack') = 1 /\ DOMAIN stack' = {1} /\ stack' \in Seq(FrameType)
  /\ \E task \in Generation : Fresh(g, g.on, task)
  /\ ~g.must
  /\ UNCHANGED <<running, finished, flagged>>

(* The module takes the last frame off.                                    *)
Left ==
  /\ Len(stack) = 1 /\ Top.pass = "" /\ Top.todo = {} /\ stack' = <<>> /\ DOMAIN stack' = {}
  /\ UNCHANGED <<running, finished, flagged>>

(* A sequence of one element.                                              *)
LEMMA SingletonIs ==
  ASSUME NEW S, NEW g \in S
  PROVE  <<g>> \in Seq(S) /\ Len(<<g>>) = 1 /\ DOMAIN <<g>> = {1}
OBVIOUS

(* No index is in the domain of the empty sequence.                        *)
LEMMA NothingIn == DOMAIN <<>> = {}
OBVIOUS

(* The frame that the module pushes.                                       *)
LEMMA EnterIs ==
  ASSUME TypedState, ModuleTyped, NEW d \in Defn, NEW task \in Generation,
         stack = <<>>, stack' = <<Frame(d, task, FALSE)>>, UNCHANGED <<running, finished, flagged>>
  PROVE  \E g \in FrameType : Entered(g) /\ g.on = d /\ Fresh(g, d, task)
<1>g. PICK g : g = Frame(d, task, FALSE) OBVIOUS
<1>1. task \in Task /\ FALSE \in BOOLEAN
  BY DEF Generation, Task
<1>2. /\ g \in FrameType /\ g.on = d /\ g.pass = "" /\ g.steps = <<>> /\ g.ok
      /\ ~g.must /\ g.todo = TaskPasses(d, task) \ finished[d]
  <2>1. IsFrame(Frame(d, task, FALSE), d, FALSE, TaskPasses(d, task) \ finished[d])
    BY <1>1, NewFrame, Zenon
  <2> QED BY <2>1, <1>g DEF IsFrame
<1>3. stack' = <<g>> /\ Len(stack') = 1 /\ DOMAIN stack' = {1} /\ stack' \in Seq(FrameType)
  <2>1. stack' = <<g>>
    BY <1>g
  <2>S. PICK S : S = FrameType OBVIOUS
  <2>3. <<g>> \in Seq(S) /\ Len(<<g>>) = 1 /\ DOMAIN <<g>> = {1}
    <3> g \in S BY <1>2, <2>S
    <3> QED BY SingletonIs
  <2>2. <<g>> \in Seq(FrameType) /\ Len(<<g>>) = 1 /\ DOMAIN <<g>> = {1}
    BY <2>3, <2>S
  <2> QED BY <2>1, <2>2
<1>4. Fresh(g, d, task)
  BY <1>2 DEF Fresh
<1> QED BY <1>2, <1>3, <1>4 DEF Entered

(* A step of the module enters an analysis, leaves one or does neither.    *)
LEMMA ModuleStepIs ==
  ASSUME TypedState, ModuleTyped, ModuleSteps
  PROVE  \/ \E g \in FrameType : Entered(g)
         \/ Left
         \/ stack = <<>> /\ UNCHANGED <<stack, running, finished, flagged>>
<1>1. CASE AnalyzeMember
  <2>1. /\ stack = <<>> /\ stack' = <<Frame(prog.order[next], "CodeGeneration", FALSE)>>
        /\ UNCHANGED <<running, finished, flagged>> /\ next <= Len(prog.order)
    BY <1>1 DEF AnalyzeMember, Idle, layout
  <2>2. prog.order[next] \in Defn
    <3>1. prog.order \in Seq(Class)
      BY Named DEF TypedState, Steady
    <3>2. next \in 1 .. Len(prog.order)
      BY <2>1, <3>1, LenProperties DEF ModuleTyped
    <3>3. prog.order[next] \in Class
      BY <3>1, <3>2, ElementOfSeq
    <3> QED BY <3>3, OwnerOfClass
  <2>d. PICK d : d = prog.order[next] OBVIOUS
  <2>3. d \in Defn /\ stack' = <<Frame(d, "CodeGeneration", FALSE)>> /\ "CodeGeneration" \in Generation
    BY <2>1, <2>2, <2>d DEF Generation
  <2> QED BY <2>1, <2>3, EnterIs
<1>2. CASE AnalyzeQueued
  <2>d. PICK d : d = Head(queue) OBVIOUS
  <2>t. PICK task : task = IF Export(d) THEN "CodeGeneration" ELSE "TypeGeneration" OBVIOUS
  <2>1. /\ stack = <<>> /\ stack' = <<Frame(d, task, FALSE)>>
        /\ UNCHANGED <<running, finished, flagged>> /\ queue # <<>>
    BY <1>2, <2>d, <2>t DEF AnalyzeQueued, Idle, layout
  <2>2. d \in Defn /\ task \in Generation
    BY <2>1, <2>d, <2>t DEF Generation, ModuleTyped
  <2> QED BY <2>1, <2>2, EnterIs
<1>3. CASE EndMember
  <2>1. Len(stack) = 1 /\ Top.pass = "" /\ Top.todo = {} /\ stack' = <<>>
        /\ UNCHANGED <<running, finished, flagged>>
    BY <1>3 DEF EndMember, layout
  <2> QED BY <2>1, NothingIn DEF Left
<1>4. CASE EndQueued
  <2>1. Len(stack) = 1 /\ Top.pass = "" /\ Top.todo = {} /\ stack' = <<>>
        /\ UNCHANGED <<running, finished, flagged>>
    BY <1>4 DEF EndQueued, layout
  <2> QED BY <2>1, NothingIn DEF Left
<1>5. CASE Complete
  BY <1>5 DEF Complete, Idle, analysis, layout
<1> QED BY <1>1, <1>2, <1>3, <1>4, <1>5 DEF ModuleSteps

-----------------------------------------------------------------------------
(* What every step does to the analyzers.                                  *)

(* The top changes, by one of the steps of its own.                        *)
Moves(g) == Retop(g) /\ (Skips(g) \/ Begins(g) \/ Ends(g) \/ Goes(g) \/ Fails(g))

(* All that a step can do to the analyzers.                                *)
StackStep ==
  \/ \E g \in FrameType : Moves(g)
  \/ \E f, g \in FrameType : Pushed(f, g) /\ Calls(f, g)
  \/ Dropped(Caller) /\ ReturnsOk
  \/ \E g \in FrameType : Dropped(g) /\ ReturnsFailed(g)
  \/ \E g \in FrameType : Entered(g)
  \/ Left
  \/ UNCHANGED <<stack, running, finished, flagged>>

(* Every step of the model does one of those.                              *)
LEMMA NextIs ==
  ASSUME TypedState, ModuleTyped, Frames, [Next]_vars
  PROVE  StackStep
<1>1. CASE SkipPass BY <1>1, SkipIs DEF StackStep, Moves
<1>2. CASE BeginPass BY <1>2, BeginIs DEF StackStep, Moves
<1>3. CASE FinishPass BY <1>3, FinishIs DEF StackStep, Moves
<1>4. CASE Call BY <1>4, CallIs DEF StackStep
<1>5. CASE Return BY <1>5, ReturnIs DEF StackStep
<1>6. CASE Effects BY <1>6, EffectIsOne DEF StackStep, Moves
<1>7. CASE ModuleSteps BY <1>7, ModuleStepIs DEF StackStep
<1>8. CASE UNCHANGED vars BY <1>8 DEF StackStep, vars, analysis, layout
<1> QED BY <1>1, <1>2, <1>3, <1>4, <1>5, <1>6, <1>7, <1>8 DEF Next, Analyzer

-----------------------------------------------------------------------------
(* Passes that have begun stay so.                                         *)

(* The marks are sets of names of passes.                                  *)
MarksTyped == running \in [Defn -> SUBSET PassName] /\ finished \in [Defn -> SUBSET PassName]

(* No mark of a pass that has begun is taken back, no class is cleared.    *)
MarksGrow ==
  /\ MarksTyped'
  /\ \A e \in Defn : finished[e] \subseteq finished'[e]
                     /\ finished[e] \cup running[e] \subseteq finished'[e] \cup running'[e]
  /\ flagged \subseteq flagged'

(* Pass p of d is no longer marked as running.                             *)
Unmarks(d, p) == \A e \in Defn : \A q : q \in running'[e] <=> (q \in running[e] /\ ~(e = d /\ q = p))

(* Pass p of d is marked as running, and no other.                         *)
Marks(d, p) == \A e \in Defn : \A q : q \in running'[e] <=> (q \in running[e] \/ (e = d /\ q = p))

(* A pass that is finished has begun, and is not running.                  *)
LEMMA FinishGrows ==
  ASSUME MarksTyped, NEW d \in Defn, NEW p \in PassName, Finish(d, p), flagged \subseteq flagged'
  PROVE  MarksGrow /\ Unmarks(d, p) /\ p \in finished'[d]
<1>1. /\ running' = [running EXCEPT ![d] = @ \ {p}]
      /\ finished' = [finished EXCEPT ![d] = @ \cup {p}]
  BY DEF Finish
<1>2. running'[d] = running[d] \ {p} /\ \A e \in Defn \ {d} : running'[e] = running[e]
  BY <1>1 DEF MarksTyped
<1>3. finished'[d] = finished[d] \cup {p} /\ \A e \in Defn \ {d} : finished'[e] = finished[e]
  BY <1>1 DEF MarksTyped
<1>4. MarksTyped'
  BY <1>1 DEF MarksTyped
<1>5. Unmarks(d, p)
  BY <1>2 DEF Unmarks
<1>6. \A e \in Defn : finished[e] \subseteq finished'[e]
                     /\ finished[e] \cup running[e] \subseteq finished'[e] \cup running'[e]
  BY <1>2, <1>3
<1> QED BY <1>3, <1>4, <1>5, <1>6 DEF MarksGrow

(* A pass that is started is one more that has begun.                      *)
LEMMA StartGrows ==
  ASSUME MarksTyped, NEW d \in Defn, NEW p \in PassName, flagged \subseteq flagged',
         running' = [running EXCEPT ![d] = @ \cup {p}], finished' = finished
  PROVE  MarksGrow /\ Marks(d, p)
<1>2. running'[d] = running[d] \cup {p} /\ \A e \in Defn \ {d} : running'[e] = running[e]
  BY DEF MarksTyped
<1>4. MarksTyped'
  BY DEF MarksTyped
<1>5. Marks(d, p)
  BY <1>2 DEF Marks
<1>6. \A e \in Defn : finished[e] \subseteq finished'[e]
                     /\ finished[e] \cup running[e] \subseteq finished'[e] \cup running'[e]
  BY <1>2
<1> QED BY <1>4, <1>5, <1>6 DEF MarksGrow

(* Steps that mark no pass take no mark back.                              *)
LEMMA StillGrows ==
  ASSUME MarksTyped, UNCHANGED <<running, finished>>, flagged \subseteq flagged'
  PROVE  MarksGrow
BY DEF MarksGrow, MarksTyped

(* What a step of the top starts from.                                     *)
LEMMA TopOfMove ==
  ASSUME TypedState, Frames, NEW g, Retop(g)
  PROVE  /\ Top = stack[Len(stack)] /\ Top \in FrameType /\ FrameOK(Top) /\ Top.on \in Defn
         /\ Top.pass \in PassName \cup {""} /\ Top.todo \subseteq PassName
         /\ Len(stack) \in DOMAIN stack /\ MarksTyped
<1>1. ~Idle
  <2>1. DOMAIN stack = 1 .. Len(stack) /\ Len(stack) \in Nat \ {0}
    BY DEF Retop
  <2>2. Len(stack) \in DOMAIN stack
    BY <2>1
  <2>3. stack # <<>>
    BY <2>2, NothingIn
  <2> QED BY <2>3 DEF Idle
<1>2. Top = stack[Len(stack)] /\ Top \in FrameType /\ FrameOK(Top) /\ Len(stack) \in DOMAIN stack
  BY <1>1, TopFrame
<1>3. Top.on \in Defn /\ Top.pass \in PassName \cup {""} /\ Top.todo \subseteq PassName
  BY <1>2, FrameFields
<1> QED BY <1>2, <1>3 DEF TypedState, MarksTyped

(* No step of the top takes a mark back.                                   *)
LEMMA MoveGrows ==
  ASSUME TypedState, Frames, NEW g \in FrameType, Moves(g)
  PROVE  MarksGrow
<1>0. Top.on \in Defn /\ Top.pass \in PassName \cup {""} /\ Top.todo \subseteq PassName /\ MarksTyped
  BY TopOfMove DEF Moves
<1>1. CASE Skips(g) \/ Goes(g) \/ Fails(g)
  BY <1>0, <1>1, StillGrows DEF Skips, Goes, Fails
<1>2. CASE Begins(g)
  <2>1. g.pass \in PassName /\ flagged \subseteq flagged'
    BY <1>0, <1>2 DEF Begins
  <2>2. CASE Early(Top.on, g.pass)
    BY <1>0, <1>2, <2>1, <2>2, FinishGrows DEF Begins
  <2>3. CASE ~Early(Top.on, g.pass) /\ Guarded(Top.on, g.pass)
    BY <1>0, <1>2, <2>1, <2>3, StartGrows DEF Begins
  <2>4. CASE ~Early(Top.on, g.pass) /\ ~Guarded(Top.on, g.pass)
    BY <1>0, <1>2, <2>1, <2>4, StillGrows DEF Begins
  <2> QED BY <2>2, <2>3, <2>4
<1>3. CASE Ends(g)
  <2>1. Top.pass \in PassName /\ flagged \subseteq flagged'
    BY <1>0, <1>3 DEF Ends
  <2>2. CASE Marked(Top.on, Top.pass)
    BY <1>0, <1>3, <2>1, <2>2, FinishGrows DEF Ends
  <2>3. CASE ~Marked(Top.on, Top.pass)
    BY <1>0, <1>3, <2>1, <2>3, StillGrows DEF Ends
  <2> QED BY <2>2, <2>3
<1> QED BY <1>1, <1>2, <1>3 DEF Moves

(* What a return starts from.                                              *)
LEMMA CallerFrame ==
  ASSUME TypedState, Frames, NEW g, Dropped(g)
  PROVE  /\ Top = stack[Len(stack)] /\ Top \in FrameType /\ FrameOK(Top)
         /\ Caller = stack[Len(stack) - 1] /\ Caller \in FrameType /\ FrameOK(Caller)
         /\ Caller.on \in Defn /\ Caller.pass \in PassName \cup {""}
         /\ Len(stack) \in DOMAIN stack /\ Len(stack) - 1 \in DOMAIN stack /\ MarksTyped
<1>1. Len(stack) \in Nat /\ Len(stack) > 1 /\ DOMAIN stack = 1 .. Len(stack)
  BY DEF Dropped
<1>2. Len(stack) \in DOMAIN stack /\ Len(stack) - 1 \in DOMAIN stack
  BY <1>1
<1>3. \A i \in DOMAIN stack : stack[i] \in FrameType /\ FrameOK(stack[i])
  BY ElementOfSeq, <1>1 DEF TypedState, Frames
<1>4. Caller \in FrameType /\ FrameOK(Caller)
  BY <1>2, <1>3 DEF Caller
<1>5. Caller.on \in Defn /\ Caller.pass \in PassName \cup {""}
  BY <1>4, FrameFields
<1> QED BY <1>2, <1>3, <1>4, <1>5 DEF Top, Caller, TypedState, MarksTyped

(* What fails is a class that was required.  Its caller marks its own pass *)
(* as finished, or leaves it as it is: a caller that is a class resolves   *)
(* the base types then, or leaves a pass that counts.                      *)
LEMMA FailingCaller ==
  ASSUME TypedState, Frames, Callers, NEW g, Dropped(g), ReturnsFailed(g)
  PROVE  /\ Caller.pass \in PassName /\ Top.on \in Class /\ Top.must /\ ~Top.ok
         /\ Demanding(Caller.on, Caller.pass)
         /\ \/ Finish(Caller.on, Caller.pass)
            \/ UNCHANGED <<running, finished>> /\ ~(Caller.on \in Method /\ Marked(Caller.on, Caller.pass))
         /\ Caller.on \in Class /\ Caller.pass # "BaseTypes" =>
              Counted(Caller.on, Caller.pass) /\ UNCHANGED <<running, finished>>
<1>0. /\ Top = stack[Len(stack)] /\ Caller = stack[Len(stack) - 1] /\ Len(stack) > 1 /\ Len(stack) \in Nat
      /\ Caller.pass \in PassName \cup {""}
  BY CallerFrame DEF Dropped
<1>1. Calling(Caller, Top)
  <2>0. Len(stack) > 1 /\ Len(stack) \in Nat
    BY <1>0
  <2>1. Len(stack) - 1 \in 1 .. Len(stack) - 1 /\ (Len(stack) - 1) + 1 = Len(stack)
    BY <2>0
  <2> QED BY <1>0, <2>1 DEF Callers
<1>2. /\ Caller.pass # "" /\ Demanding(Caller.on, Caller.pass)
      /\ Top.on \in Class /\ Top.must /\ ~Top.ok
  BY <1>1 DEF Calling, ReturnsFailed
<1> PICK d : d = Caller.on OBVIOUS
<1> PICK p : p = Caller.pass OBVIOUS
<1>3. IF Marked(d, p) /\ p # "Attribute" /\ ~(d \in Class /\ p = "Constructor")
        THEN Finish(d, p) ELSE UNCHANGED <<running, finished>>
  BY DEF ReturnsFailed, MarksFailed
<1>4. Finish(d, p) \/ (UNCHANGED <<running, finished>> /\ ~(d \in Method /\ Marked(d, p)))
  <2>1. d \in Method => p # "Attribute" /\ d \notin Class
    BY <1>2, ProgramAssumption DEF Demanding
  <2>2. CASE Marked(d, p) /\ p # "Attribute" /\ ~(d \in Class /\ p = "Constructor")
    BY <1>3, <2>2
  <2>3. CASE ~(Marked(d, p) /\ p # "Attribute" /\ ~(d \in Class /\ p = "Constructor"))
    BY <1>3, <2>1, <2>3
  <2> QED BY <2>2, <2>3
<1>5. ASSUME d \in Class, p # "BaseTypes" PROVE Counted(d, p) /\ UNCHANGED <<running, finished>>
  <2>1. p \in {"Attribute", "Constructor"} /\ d \notin Var /\ d \notin Method
    BY <1>2, <1>5, ProgramAssumption DEF Demanding
  <2> QED BY <1>3, <1>5, <2>1 DEF MarksFailed, Counted, Guarded, Marked, Early
<1> QED BY <1>0, <1>2, <1>4, <1>5

(* No step takes a mark back.                                              *)
LEMMA StepMarks ==
  ASSUME TypedState, Frames, Callers, StackStep
  PROVE  MarksGrow
<1>0. MarksTyped
  BY DEF TypedState, MarksTyped
<1>1. CASE \E g \in FrameType : Moves(g)
  BY <1>1, MoveGrows
<1>2. CASE \E g \in FrameType : Dropped(g) /\ ReturnsFailed(g)
  <2>1. PICK g \in FrameType : Dropped(g) /\ ReturnsFailed(g)
    BY <1>2
  <2>2. Caller.on \in Defn /\ Caller.pass \in PassName
    BY <2>1, CallerFrame, FailingCaller
  <2>3. flagged \subseteq flagged'
    BY <2>1 DEF ReturnsFailed
  <2>4. Finish(Caller.on, Caller.pass) \/ UNCHANGED <<running, finished>>
    BY <2>1, FailingCaller
  <2> QED BY <1>0, <2>2, <2>3, <2>4, FinishGrows, StillGrows
<1>3. CASE UNCHANGED <<running, finished, flagged>>
  BY <1>0, <1>3, StillGrows
<1> QED BY <1>1, <1>2, <1>3 DEF StackStep, Calls, ReturnsOk, Entered, Left

-----------------------------------------------------------------------------
(* The passes that are marked as running.                                  *)

(* A pass is marked as running when some frame is in it, and no other      *)
(* passes are marked than those that count.                                *)
RunningIs ==
  \A d \in Defn : \A p :
    /\ (Counted(d, p) /\ \E i : At(i, d, p)) => p \in running[d]
    /\ p \in running[d] => Counted(d, p)

(* Two frames are never in the same pass of the same definition: an        *)
(* analysis that is asked for while it runs skips the pass.                *)
Alone == \A d, p : Counted(d, p) => \A i, j : (At(i, d, p) /\ At(j, d, p)) => i = j

(* A pass is left only when some class is flagged, and never of a method,  *)
(* and it is one that may require analyses.                                *)
Reported ==
  \A d \in Defn : \A p : Stale(d, p) => flagged # {} /\ d \notin Method /\ Demanding(d, p)

(* A definition that failed stands for an error that is reported.          *)
LEMMA FailuresAreFlagged ==
  ASSUME Reported, NEW d, d \in Failing
  PROVE  flagged # {}
BY DEF Reported, Failing

(* The passes that are left are those that are abandoned.                  *)
LEMMA AbandonedIs ==
  ASSUME RunningIs, NEW d \in Defn
  PROVE  InProgress(d) \subseteq running[d] /\ \A p : p \in Abandoned(d) <=> Stale(d, p)
<1>1. \A p : p \in InProgress(d) <=> (Counted(d, p) /\ \E i : At(i, d, p))
  BY DEF InProgress, Counted, At
<1>2. \A p : p \in InProgress(d) => p \in running[d]
  BY <1>1 DEF RunningIs
<1>3. \A p : p \in running[d] => Counted(d, p)
  BY DEF RunningIs
<1> QED BY <1>1, <1>2, <1>3 DEF Abandoned, Stale

(* Then only errors leave passes marked as running.                        *)
LEMMA RunningMeans ==
  ASSUME RunningIs, Reported
  PROVE  OnlyErrorsAbandonPasses
BY AbandonedIs DEF OnlyErrorsAbandonPasses, Reported

(* One frame goes from one pass to another; the other frames that come or  *)
(* go are between passes.                                                  *)
Turns(k, d, p, q) ==
  /\ At(k, d, p) /\ At(k, d, q)'
  /\ \A i, e, r : (r # "" /\ i # k) => (At(i, e, r)' <=> At(i, e, r))

(* No pass is left, and none that was is taken up.                         *)
SameStale == \A e \in Defn : \A r : Stale(e, r)' <=> Stale(e, r)

(* Pass p of d is left, and no other.                                      *)
Leaves(d, p) == \A e \in Defn : \A r : Stale(e, r)' <=> (Stale(e, r) \/ (e = d /\ r = p))

(* Both facts hold on when no mark changes and that frame's pass does not  *)
(* count.                                                                  *)
LEMMA TurnKept ==
  ASSUME RunningIs, Alone, NEW k, NEW d, NEW p, NEW q, Turns(k, d, p, q),
         p = q \/ (~Counted(d, p) /\ ~Counted(d, q)), running' = running
  PROVE  RunningIs' /\ Alone' /\ SameStale
<1>1. \A i, e, r : Counted(e, r) => (At(i, e, r)' <=> At(i, e, r))
  <2> SUFFICES ASSUME NEW i, NEW e, NEW r, Counted(e, r) PROVE At(i, e, r)' <=> At(i, e, r)
    OBVIOUS
  <2>0. r # ""
    BY DEF Counted
  <2>1. CASE i # k
    BY <2>0, <2>1 DEF Turns
  <2>2. CASE i = k
    <3>1. At(k, e, r) <=> e = d /\ r = p
      BY DEF Turns, At
    <3>2. At(k, e, r)' <=> e = d /\ r = q
      BY DEF Turns, At
    <3> QED BY <2>2, <3>1, <3>2
  <2> QED BY <2>1, <2>2
<1>2. RunningIs' /\ SameStale
  <2> SUFFICES ASSUME NEW e \in Defn, NEW r
               PROVE  /\ (Counted(e, r) /\ \E i : At(i, e, r)') => r \in running'[e]
                      /\ r \in running'[e] => Counted(e, r)
                      /\ Stale(e, r)' <=> Stale(e, r)
    BY DEF RunningIs, SameStale, Counted, Guarded, Marked, Early
  <2>1. /\ (Counted(e, r) /\ \E i : At(i, e, r)) => r \in running[e]
        /\ r \in running[e] => Counted(e, r)
    BY DEF RunningIs
  <2> QED BY <1>1, <2>1 DEF Stale
<1>3. Alone'
  <2> SUFFICES ASSUME NEW e, NEW r, Counted(e, r), NEW i, NEW j, At(i, e, r)', At(j, e, r)' PROVE i = j
    BY DEF Alone, Counted, Guarded, Marked, Early
  <2>1. At(i, e, r) /\ At(j, e, r)
    BY <1>1
  <2> QED BY <2>1 DEF Alone
<1> QED BY <1>2, <1>3

(* They do when the frame begins the pass that is then marked.             *)
LEMMA TurnBegun ==
  ASSUME RunningIs, Alone, NEW k, NEW d \in Defn, NEW p, NEW q, Turns(k, d, p, q),
         ~Counted(d, p), Counted(d, q), q \notin running[d], Marks(d, q)
  PROVE  RunningIs' /\ Alone' /\ SameStale
<1>0. \A i : ~At(i, d, q)
  BY DEF RunningIs
<1>1. \A i, e, r : Counted(e, r) => (At(i, e, r)' <=> (At(i, e, r) \/ (i = k /\ e = d /\ r = q)))
  <2> SUFFICES ASSUME NEW i, NEW e, NEW r, Counted(e, r)
               PROVE At(i, e, r)' <=> (At(i, e, r) \/ (i = k /\ e = d /\ r = q))
    OBVIOUS
  <2>0. r # ""
    BY DEF Counted
  <2>1. CASE i # k
    BY <2>0, <2>1 DEF Turns
  <2>2. CASE i = k
    <3>1. At(k, e, r) <=> e = d /\ r = p
      BY DEF Turns, At
    <3>2. At(k, e, r)' <=> e = d /\ r = q
      BY DEF Turns, At
    <3> QED BY <2>2, <3>1, <3>2
  <2> QED BY <2>1, <2>2
<1>2. RunningIs' /\ SameStale
  <2> SUFFICES ASSUME NEW e \in Defn, NEW r
               PROVE  /\ (Counted(e, r) /\ \E i : At(i, e, r)') => r \in running'[e]
                      /\ r \in running'[e] => Counted(e, r)
                      /\ Stale(e, r)' <=> Stale(e, r)
    BY DEF RunningIs, SameStale, Counted, Guarded, Marked, Early
  <2>1. /\ (Counted(e, r) /\ \E i : At(i, e, r)) => r \in running[e]
        /\ r \in running[e] => Counted(e, r)
    BY DEF RunningIs
  <2>2. r \in running'[e] <=> (r \in running[e] \/ (e = d /\ r = q))
    BY DEF Marks
  <2> QED BY <1>0, <1>1, <2>1, <2>2 DEF Stale
<1>3. Alone'
  <2> SUFFICES ASSUME NEW e, NEW r, Counted(e, r), NEW i, NEW j, At(i, e, r)', At(j, e, r)' PROVE i = j
    BY DEF Alone, Counted, Guarded, Marked, Early
  <2>1. At(i, e, r) \/ (i = k /\ e = d /\ r = q)
    BY <1>1
  <2>2. At(j, e, r) \/ (j = k /\ e = d /\ r = q)
    BY <1>1
  <2>3. (At(i, e, r) /\ At(j, e, r)) => i = j
    BY DEF Alone
  <2> QED BY <1>0, <2>1, <2>2, <2>3
<1> QED BY <1>2, <1>3

(* They do when the frame ends the pass whose mark is then taken back.     *)
LEMMA TurnEnded ==
  ASSUME RunningIs, Alone, NEW k, NEW d \in Defn, NEW p, NEW q, Turns(k, d, p, q),
         Counted(d, p), ~Counted(d, q), Unmarks(d, p)
  PROVE  RunningIs' /\ Alone' /\ SameStale
<1>0. \A i : At(i, d, p) => i = k
  BY DEF Alone, Turns
<1>1. \A i, e, r : Counted(e, r) => (At(i, e, r)' <=> (At(i, e, r) /\ ~(e = d /\ r = p)))
  <2> SUFFICES ASSUME NEW i, NEW e, NEW r, Counted(e, r)
               PROVE At(i, e, r)' <=> (At(i, e, r) /\ ~(e = d /\ r = p))
    OBVIOUS
  <2>0. r # ""
    BY DEF Counted
  <2>1. CASE i # k
    BY <1>0, <2>0, <2>1 DEF Turns
  <2>2. CASE i = k
    <3>1. At(k, e, r) <=> e = d /\ r = p
      BY DEF Turns, At
    <3>2. At(k, e, r)' <=> e = d /\ r = q
      BY DEF Turns, At
    <3> QED BY <2>2, <3>1, <3>2
  <2> QED BY <2>1, <2>2
<1>2. RunningIs' /\ SameStale
  <2> SUFFICES ASSUME NEW e \in Defn, NEW r
               PROVE  /\ (Counted(e, r) /\ \E i : At(i, e, r)') => r \in running'[e]
                      /\ r \in running'[e] => Counted(e, r)
                      /\ Stale(e, r)' <=> Stale(e, r)
    BY DEF RunningIs, SameStale, Counted, Guarded, Marked, Early
  <2>1. /\ (Counted(e, r) /\ \E i : At(i, e, r)) => r \in running[e]
        /\ r \in running[e] => Counted(e, r)
    BY DEF RunningIs
  <2>2. (r \in running'[e] <=> (r \in running[e] /\ ~(e = d /\ r = p))) /\ At(k, d, p)
    BY DEF Unmarks, Turns
  <2> QED BY <1>0, <1>1, <2>1, <2>2 DEF Stale
<1>3. Alone'
  <2> SUFFICES ASSUME NEW e, NEW r, Counted(e, r), NEW i, NEW j, At(i, e, r)', At(j, e, r)' PROVE i = j
    BY DEF Alone, Counted, Guarded, Marked, Early
  <2>1. At(i, e, r) /\ At(j, e, r)
    BY <1>1
  <2> QED BY <2>1 DEF Alone
<1> QED BY <1>2, <1>3

(* They do when the frame ends the pass and its mark stays.                *)
LEMMA TurnLeft ==
  ASSUME RunningIs, Alone, NEW k, NEW d \in Defn, NEW p, NEW q, Turns(k, d, p, q),
         Counted(d, p), ~Counted(d, q), running' = running
  PROVE  RunningIs' /\ Alone' /\ Leaves(d, p)
<1>0. \A i : At(i, d, p) => i = k
  BY DEF Alone, Turns
<1>1. \A i, e, r : Counted(e, r) => (At(i, e, r)' <=> (At(i, e, r) /\ ~(e = d /\ r = p)))
  <2> SUFFICES ASSUME NEW i, NEW e, NEW r, Counted(e, r)
               PROVE At(i, e, r)' <=> (At(i, e, r) /\ ~(e = d /\ r = p))
    OBVIOUS
  <2>0. r # ""
    BY DEF Counted
  <2>1. CASE i # k
    BY <1>0, <2>0, <2>1 DEF Turns
  <2>2. CASE i = k
    <3>1. At(k, e, r) <=> e = d /\ r = p
      BY DEF Turns, At
    <3>2. At(k, e, r)' <=> e = d /\ r = q
      BY DEF Turns, At
    <3> QED BY <2>2, <3>1, <3>2
  <2> QED BY <2>1, <2>2
<1>2. RunningIs' /\ Leaves(d, p)
  <2> SUFFICES ASSUME NEW e \in Defn, NEW r
               PROVE  /\ (Counted(e, r) /\ \E i : At(i, e, r)') => r \in running'[e]
                      /\ r \in running'[e] => Counted(e, r)
                      /\ Stale(e, r)' <=> (Stale(e, r) \/ (e = d /\ r = p))
    BY DEF RunningIs, Leaves, Counted, Guarded, Marked, Early
  <2>1. /\ (Counted(e, r) /\ \E i : At(i, e, r)) => r \in running[e]
        /\ r \in running[e] => Counted(e, r)
    BY DEF RunningIs
  <2>2. p \in running[d] /\ At(k, d, p)
    BY DEF RunningIs, Turns
  <2> QED BY <1>0, <1>1, <2>1, <2>2 DEF Stale
<1>3. Alone'
  <2> SUFFICES ASSUME NEW e, NEW r, Counted(e, r), NEW i, NEW j, At(i, e, r)', At(j, e, r)' PROVE i = j
    BY DEF Alone, Counted, Guarded, Marked, Early
  <2>1. At(i, e, r) /\ At(j, e, r)
    BY <1>1
  <2> QED BY <2>1 DEF Alone
<1> QED BY <1>2, <1>3

(* A pass that is not counted is not marked either.                        *)
LEMMA UncountedFinish ==
  ASSUME RunningIs, MarksTyped, NEW d \in Defn, NEW p \in PassName, ~Counted(d, p), Finish(d, p)
  PROVE  running' = running
<1>1. p \notin running[d]
  BY DEF RunningIs
<1>2. running[d] \ {p} = running[d]
  BY <1>1
<1> QED BY <1>2 DEF Finish, MarksTyped

(* The number after the last of an interval is outside.                    *)
LEMMA PastLast == \A n \in Nat : n + 1 \notin 1 .. n /\ n + 1 \in Nat
OBVIOUS

(* The last numbers of an interval, and the others.                        *)
LEMMA LastButOne ==
  ASSUME NEW n \in Nat, n > 1
  PROVE  /\ n - 1 \in 1 .. n /\ n - 1 \in 1 .. n - 1 /\ n \notin 1 .. n - 1 /\ n - 1 \in Nat
         /\ \A i : (i # n - 1 /\ i # n) =>
                     ((i \in 1 .. n - 1 <=> i \in 1 .. n) /\ (i \in 1 .. n => i \in 1 .. n - 2))
OBVIOUS

(* Only the top changes its pass when the top is replaced.                 *)
LEMMA RetopTurns ==
  ASSUME TypedState, Frames, NEW g, Retop(g), g.on = Top.on,
         NEW k, NEW d, NEW p, NEW q, k = Len(stack), d = Top.on, p = Top.pass, q = g.pass
  PROVE  Turns(k, d, p, q)
<1>0. Top = stack[k] /\ k \in DOMAIN stack
  BY TopOfMove
<1>1. /\ DOMAIN stack = 1 .. k /\ DOMAIN stack' = 1 .. k /\ k \in Nat
      /\ \A i \in 1 .. k - 1 : stack'[i] = stack[i]
      /\ stack'[k] = g
  BY DEF Retop
<1>2. At(k, d, p)
  BY <1>0 DEF At
<1>3. At(k, d, q)'
  <2>1. k \in DOMAIN stack' /\ stack'[k].on = d /\ stack'[k].pass = q
    BY <1>0, <1>1
  <2> QED BY <2>1 DEF At
<1>4. \A i : i # k => ((i \in DOMAIN stack' <=> i \in DOMAIN stack) /\ (i \in DOMAIN stack => stack'[i] = stack[i]))
  BY <1>1
<1>5. \A i, e, r : (r # "" /\ i # k) => (At(i, e, r)' <=> At(i, e, r))
  BY <1>4 DEF At
<1> QED BY <1>2, <1>3, <1>5 DEF Turns

(* No frame changes its pass when another is pushed.                       *)
LEMMA PushTurns ==
  ASSUME TypedState, NEW f, NEW g, Pushed(f, g), Calls(f, g),
         NEW k, NEW d, NEW p, k = Len(stack), d = Top.on, p = Top.pass
  PROVE  Turns(k, d, p, p)
<1>1. /\ DOMAIN stack = 1 .. k /\ DOMAIN stack' = 1 .. k + 1 /\ k \in Nat \ {0}
      /\ \A i \in 1 .. k - 1 : stack'[i] = stack[i]
      /\ stack'[k] = f /\ stack'[k + 1] = g
  BY DEF Pushed
<1>0. Top = stack[k] /\ k \in DOMAIN stack
  BY <1>1 DEF Top
<1>2. At(k, d, p)
  BY <1>0 DEF At
<1>3. At(k, d, p)'
  <2>1. f.on = d /\ f.pass = p
    BY DEF Calls, Same
  <2>2. k \in DOMAIN stack'
    BY <1>1
  <2> QED BY <1>1, <2>1, <2>2 DEF At
<1>4. g.pass = ""
  BY DEF Calls, Fresh
<1>5. \A i : (i # k /\ i # k + 1) => ((i \in DOMAIN stack' <=> i \in DOMAIN stack)
                                       /\ (i \in DOMAIN stack => stack'[i] = stack[i]))
  BY <1>1
<1>6. \A i, e, r : (r # "" /\ i # k) => (At(i, e, r)' <=> At(i, e, r))
  <2> SUFFICES ASSUME NEW i, NEW e, NEW r, r # "", i # k PROVE At(i, e, r)' <=> At(i, e, r)
    OBVIOUS
  <2>1. CASE i = k + 1
    <3>0. k \in Nat => k + 1 \notin 1 .. k
      BY PastLast
    <3>1. i \notin DOMAIN stack
      BY <1>1, <2>1, <3>0
    <3>2. stack'[i].pass # r
      BY <1>1, <1>4, <2>1
    <3> QED BY <3>1, <3>2 DEF At
  <2>2. CASE i # k + 1
    BY <1>5, <2>2 DEF At
  <2> QED BY <2>1, <2>2
<1> QED BY <1>2, <1>3, <1>6 DEF Turns

(* Only the caller changes its pass when the top returns.                  *)
LEMMA DropTurns ==
  ASSUME TypedState, Frames, NEW g, Dropped(g), Top.pass = "", g.on = Caller.on,
         NEW k, NEW d, NEW p, NEW q, k = Len(stack) - 1, d = Caller.on, p = Caller.pass, q = g.pass
  PROVE  Turns(k, d, p, q)
<1>n. PICK n : n = Len(stack) OBVIOUS
<1>1. /\ DOMAIN stack = 1 .. n /\ DOMAIN stack' = 1 .. n - 1 /\ n \in Nat /\ n > 1 /\ k = n - 1
      /\ \A i \in 1 .. n - 2 : stack'[i] = stack[i]
      /\ stack'[k] = g
  BY <1>n DEF Dropped
<1>0. Caller = stack[k] /\ Top = stack[n]
  BY <1>n DEF Caller, Top
<1>n1. n \in Nat /\ n > 1 /\ k = n - 1
  BY <1>1
<1>d1. k \in 1 .. n /\ k \in 1 .. n - 1
  BY <1>n1, LastButOne
<1>d. k \in DOMAIN stack /\ k \in DOMAIN stack'
  BY <1>1, <1>d1
<1>2. At(k, d, p)
  BY <1>0, <1>d DEF At
<1>3. At(k, d, q)'
  BY <1>0, <1>d, <1>1 DEF At
<1>5. \A i : (i # k /\ i # n) => ((i \in DOMAIN stack' <=> i \in DOMAIN stack)
                                       /\ (i \in DOMAIN stack => stack'[i] = stack[i]))
  <2> SUFFICES ASSUME NEW i, i # k, i # n
               PROVE ((i \in DOMAIN stack' <=> i \in DOMAIN stack)
                                       /\ (i \in DOMAIN stack => stack'[i] = stack[i]))
    OBVIOUS
  <2>0. i # n /\ i # n - 1
    BY <1>n1
  <2>1. i \in 1 .. n - 1 <=> i \in 1 .. n
    BY <1>n1, <2>0, LastButOne
  <2>2. i \in 1 .. n => i \in 1 .. n - 2
    BY <1>n1, <2>0, LastButOne
  <2> QED BY <1>1, <2>1, <2>2
<1>6. \A i, e, r : (r # "" /\ i # k) => (At(i, e, r)' <=> At(i, e, r))
  <2> SUFFICES ASSUME NEW i, NEW e, NEW r, r # "", i # k PROVE At(i, e, r)' <=> At(i, e, r)
    OBVIOUS
  <2>1. CASE i = n
    <3>0. n \notin 1 .. n - 1
      BY <1>n1, LastButOne
    <3>1. i \notin DOMAIN stack'
      BY <1>1, <2>1, <3>0
    <3>2. stack[i].pass # r
      BY <1>0, <2>1
    <3> QED BY <3>1, <3>2 DEF At
  <2>2. CASE i # n
    BY <1>5, <2>2 DEF At
  <2> QED BY <2>1, <2>2
<1> QED BY <1>2, <1>3, <1>6 DEF Turns

(* The marks tell what runs after a step of the top.                       *)
LEMMA MoveRuns ==
  ASSUME TypedState, Frames, RunningIs, Alone, NEW g \in FrameType, Moves(g)
  PROVE  RunningIs' /\ Alone' /\ SameStale
<1>k. PICK k : k = Len(stack) OBVIOUS
<1>d. PICK d : d = Top.on OBVIOUS
<1>p. PICK p : p = Top.pass OBVIOUS
<1>q. PICK q : q = g.pass OBVIOUS
<1>0. d \in Defn /\ p \in PassName \cup {""} /\ Top.todo \subseteq PassName /\ MarksTyped
  BY <1>d, <1>p, TopOfMove DEF Moves
<1>1. Turns(k, d, p, q)
  <2>1. g.on = Top.on /\ Retop(g)
    BY DEF Moves, Skips, Begins, Ends, Goes, Fails, Same
  <2> QED BY <1>k, <1>d, <1>p, <1>q, <2>1, RetopTurns
<1>2. CASE Skips(g) \/ Goes(g)
  <2>1. p = q /\ running' = running
    BY <1>2, <1>p, <1>q DEF Skips, Goes
  <2> QED BY <1>1, <2>1, TurnKept
<1>3. CASE Fails(g)
  <2>1. ~Counted(d, p) /\ ~Counted(d, q) /\ running' = running
    BY <1>3, <1>d, <1>p, <1>q DEF Fails, Counted, Early
  <2> QED BY <1>1, <2>1, TurnKept
<1>4. CASE Begins(g)
  <2>1. /\ q \in PassName /\ q # "" /\ p = "" /\ ~Counted(d, p) /\ q \notin running[d]
    BY <1>0, <1>4, <1>d, <1>p, <1>q, OrderNames DEF Begins, Counted, Begun
  <2>2. CASE Counted(d, q)
    <3>1. Marks(d, q)
      <4>1. running' = [running EXCEPT ![d] = @ \cup {q}] /\ finished' = finished /\ flagged \subseteq flagged'
        BY <1>4, <1>d, <1>q, <2>2 DEF Begins, Counted
      <4> QED BY <1>0, <2>1, <4>1, StartGrows
    <3> QED BY <1>0, <1>1, <2>1, <2>2, <3>1, TurnBegun
  <2>3. CASE ~Counted(d, q)
    <3>1. running' = running
      <4>1. CASE Early(d, q)
        <5>1. Finish(d, q)
          BY <1>4, <1>d, <1>q, <4>1 DEF Begins
        <5> QED BY <1>0, <2>1, <2>3, <5>1, UncountedFinish
      <4>2. CASE ~Early(d, q)
        <5>1. ~Guarded(d, q)
          BY <2>1, <2>3, <4>2 DEF Counted
        <5> QED BY <1>4, <1>d, <1>q, <4>2, <5>1 DEF Begins
      <4> QED BY <4>1, <4>2
    <3> QED BY <1>1, <2>1, <2>3, <3>1, TurnKept
  <2> QED BY <2>2, <2>3
<1>5. CASE Ends(g)
  <2>1. /\ p \in PassName /\ q = "" /\ ~Counted(d, q)
    BY <1>0, <1>5, <1>p, <1>q DEF Ends, Counted
  <2>2. CASE Counted(d, p)
    <3>1. Finish(d, p) /\ flagged \subseteq flagged'
      BY <1>5, <1>d, <1>p, <2>2 DEF Ends, Counted, Guarded
    <3>2. Unmarks(d, p)
      BY <1>0, <2>1, <3>1, FinishGrows
    <3> QED BY <1>0, <1>1, <2>1, <2>2, <3>2, TurnEnded
  <2>3. CASE ~Counted(d, p)
    <3>1. running' = running
      <4>1. CASE Marked(d, p)
        <5>1. Finish(d, p)
          BY <1>5, <1>d, <1>p, <4>1 DEF Ends
        <5> QED BY <1>0, <2>1, <2>3, <5>1, UncountedFinish
      <4>2. CASE ~Marked(d, p)
        BY <1>5, <1>d, <1>p, <4>2 DEF Ends
      <4> QED BY <4>1, <4>2
    <3> QED BY <1>1, <2>1, <2>3, <3>1, TurnKept
  <2> QED BY <2>2, <2>3
<1> QED BY <1>2, <1>3, <1>4, <1>5 DEF Moves

(* The marks tell what runs after the caller failed.                       *)
LEMMA FailedReturnRuns ==
  ASSUME TypedState, Frames, Callers, RunningIs, Alone, NEW g \in FrameType,
         Dropped(g), ReturnsFailed(g)
  PROVE  /\ RunningIs' /\ Alone'
         /\ \/ SameStale
            \/ Leaves(Caller.on, Caller.pass) /\ Caller.on \in Defn \ Method
         /\ Caller.on \in Class => Caller.on \in Failing'
<1>k. PICK k : k = Len(stack) - 1 OBVIOUS
<1>d. PICK d : d = Caller.on OBVIOUS
<1>p. PICK p : p = Caller.pass OBVIOUS
<1>q. PICK q : q = g.pass OBVIOUS
<1>0. d \in Defn /\ p \in PassName /\ MarksTyped
  BY <1>d, <1>p, CallerFrame, FailingCaller
<1>1. Turns(k, d, p, q)
  <2>1. g.on = Caller.on /\ Top.pass = ""
    BY DEF ReturnsFailed, Same
  <2> QED BY <1>k, <1>d, <1>p, <1>q, <2>1, DropTurns
<1>2. q = "" /\ ~Counted(d, q) /\ flagged \subseteq flagged'
  BY <1>q DEF ReturnsFailed, Counted
<1>3. /\ Finish(d, p) \/ (UNCHANGED <<running, finished>> /\ ~(d \in Method /\ Marked(d, p)))
      /\ d \in Class /\ p # "BaseTypes" => Counted(d, p) /\ UNCHANGED <<running, finished>>
  BY <1>d, <1>p, FailingCaller
<1>f. flagged' = IF p = "BaseTypes" THEN flagged \cup {d} ELSE flagged
  BY <1>d, <1>p DEF ReturnsFailed
<1>4. CASE Counted(d, p) /\ UNCHANGED <<running, finished>> /\ ~(d \in Method /\ Marked(d, p))
  <2>1. RunningIs' /\ Alone' /\ Leaves(d, p)
    BY <1>0, <1>1, <1>2, <1>4, TurnLeft
  <2>2. d \notin Method
    BY <1>4 DEF Counted, Guarded
  <2>3. d \in Failing'
    BY <1>0, <2>1 DEF Leaves, Failing
  <2> QED BY <1>0, <1>d, <1>p, <2>1, <2>2, <2>3
<1>6. CASE Counted(d, p) /\ Finish(d, p)
  <2>1. Unmarks(d, p)
    BY <1>0, <1>2, <1>6, FinishGrows
  <2>2. RunningIs' /\ Alone' /\ SameStale
    BY <1>0, <1>1, <1>2, <1>6, <2>1, TurnEnded
  <2>3. ASSUME d \in Class PROVE d \in Failing'
    <3>1. CASE p = "BaseTypes"
      BY <1>6, <2>3, <3>1 DEF Counted, Early
    <3>2. CASE p # "BaseTypes"
      <4>1. RunningIs' /\ Alone' /\ Leaves(d, p)
        BY <1>0, <1>1, <1>2, <1>3, <2>3, <3>2, TurnLeft
      <4> QED BY <1>0, <4>1 DEF Leaves, Failing
    <3> QED BY <3>1, <3>2
  <2> QED BY <1>d, <2>2, <2>3
<1>5. CASE ~Counted(d, p)
  <2>1. running' = running
    BY <1>0, <1>3, <1>5, UncountedFinish
  <2>2. RunningIs' /\ Alone' /\ SameStale
    BY <1>1, <1>2, <1>5, <2>1, TurnKept
  <2>3. d \in Class => d \in Failing'
    BY <1>3, <1>5, <1>f DEF Failing
  <2> QED BY <1>d, <2>2, <2>3
<1> QED BY <1>3, <1>4, <1>5, <1>6

(* A pass is left by a caller that fails, which is not a method.           *)
LeftByFailure ==
  \E g \in FrameType : /\ Dropped(g) /\ ReturnsFailed(g) /\ Leaves(Caller.on, Caller.pass)
                       /\ Caller.on \in Defn \ Method

(* The marks tell what runs after every step.                              *)
LEMMA StepRuns ==
  ASSUME TypedState, Frames, Callers, RunningIs, Alone, StackStep
  PROVE  RunningIs' /\ Alone' /\ (SameStale \/ LeftByFailure)
<1>1. CASE \E g \in FrameType : Moves(g)
  BY <1>1, MoveRuns
<1>2. CASE \E f, g \in FrameType : Pushed(f, g) /\ Calls(f, g)
  <2>1. PICK f, g \in FrameType : Pushed(f, g) /\ Calls(f, g)
    BY <1>2
  <2>k. PICK k : k = Len(stack) OBVIOUS
  <2>d. PICK d : d = Top.on OBVIOUS
  <2>p. PICK p : p = Top.pass OBVIOUS
  <2>2. Turns(k, d, p, p)
    BY <2>1, <2>k, <2>d, <2>p, PushTurns
  <2>3. running' = running
    BY <2>1 DEF Calls
  <2> QED BY <2>2, <2>3, TurnKept
<1>3. CASE Dropped(Caller) /\ ReturnsOk
  <2>k. PICK k : k = Len(stack) - 1 OBVIOUS
  <2>d. PICK d : d = Caller.on OBVIOUS
  <2>p. PICK p : p = Caller.pass OBVIOUS
  <2>c. PICK c : c = Caller OBVIOUS
  <2>1. Dropped(c) /\ c.on = Caller.on /\ c.pass = p /\ Top.pass = ""
    BY <1>3, <2>c, <2>p DEF Dropped, ReturnsOk
  <2>2. Turns(k, d, p, p)
    BY <2>1, <2>k, <2>d, <2>p, DropTurns
  <2>3. running' = running
    BY <1>3 DEF ReturnsOk
  <2> QED BY <2>2, <2>3, TurnKept
<1>4. CASE \E g \in FrameType : Dropped(g) /\ ReturnsFailed(g)
  BY <1>4, FailedReturnRuns DEF LeftByFailure
<1>5. CASE \E g \in FrameType : Entered(g)
  <2>1. PICK g \in FrameType : Entered(g)
    BY <1>5
  <2>2. g.pass = "" /\ DOMAIN stack' = {1} /\ stack'[1] = g /\ stack = <<>> /\ running' = running
    BY <2>1 DEF Entered, Fresh
  <2>3. \A i, e, r : Counted(e, r) => ~At(i, e, r)' /\ ~At(i, e, r)
    BY <2>2, NothingIn DEF At, Counted
  <2> QED BY <2>2, <2>3 DEF RunningIs, Alone, SameStale, Stale, Counted, Guarded, Marked, Early
<1>6. CASE Left
  <2>1. DOMAIN stack' = {} /\ DOMAIN stack = {1} /\ stack[1].pass = "" /\ running' = running
    <3>1. DOMAIN stack = 1 .. Len(stack)
      BY LenProperties DEF TypedState
    <3>2. Len(stack) = 1 /\ Top.pass = "" /\ DOMAIN stack' = {} /\ running' = running
      BY <1>6 DEF Left
    <3>3. 1 .. 1 = {1}
      OBVIOUS
    <3> QED BY <3>1, <3>2, <3>3 DEF Top
  <2>3. \A i, e, r : Counted(e, r) => ~At(i, e, r)' /\ ~At(i, e, r)
    BY <2>1 DEF At, Counted
  <2> QED BY <2>1, <2>3 DEF RunningIs, Alone, SameStale, Stale, Counted, Guarded, Marked, Early
<1>7. CASE UNCHANGED <<stack, running, finished, flagged>>
  <2>1. \A i, e, r : At(i, e, r)' <=> At(i, e, r)
    BY <1>7 DEF At
  <2> QED BY <1>7, <2>1 DEF RunningIs, Alone, SameStale, Stale, Counted, Guarded, Marked, Early
<1> QED BY <1>1, <1>2, <1>3, <1>4, <1>5, <1>6, <1>7 DEF StackStep

(* No mark of a pass that has begun is taken back, and a definition that   *)
(* has failed stays so.                                                    *)
Grows == MarksGrow /\ Failing \subseteq Failing'

(* No step takes a mark back, or an error.                                 *)
LEMMA StepGrows ==
  ASSUME TypedState, Frames, Callers, RunningIs, Alone, StackStep
  PROVE  Grows
<1>1. MarksGrow
  BY StepMarks
<1>2. \A d \in Defn : \A p : Stale(d, p) => Stale(d, p)'
  BY StepRuns DEF LeftByFailure, SameStale, Leaves
<1> QED BY <1>1, <1>2 DEF Grows, MarksGrow, Failing

(* An analysis that was required fails only after a class is flagged.      *)
LEMMA FailureIsFlagged ==
  ASSUME TypedState, Frames, Callers, Reported, NEW g, Dropped(g), ReturnsFailed(g)
  PROVE  flagged # {}
<1>1. Top.on \in Class /\ ~Top.ok /\ FrameOK(Top)
  BY FailingCaller, CallerFrame
<1> QED BY <1>1, FailuresAreFlagged DEF FrameOK

(* What is left is reported after every step.                              *)
LEMMA StepReports ==
  ASSUME TypedState, Frames, Callers, RunningIs, Alone, Reported, StackStep
  PROVE  Reported'
<1>1. flagged \subseteq flagged'
  BY StepMarks DEF MarksGrow
<1>2. CASE SameStale
  BY <1>1, <1>2 DEF Reported, SameStale
<1>3. CASE LeftByFailure
  <2>1. PICK g \in FrameType : /\ Dropped(g) /\ ReturnsFailed(g) /\ Leaves(Caller.on, Caller.pass)
                              /\ Caller.on \notin Method
    BY <1>3 DEF LeftByFailure
  <2>3. flagged # {} /\ Demanding(Caller.on, Caller.pass)
    BY <2>1, FailureIsFlagged, FailingCaller
  <2> QED BY <1>1, <2>1, <2>3 DEF Reported, Leaves
<1> QED BY <1>2, <1>3, StepRuns

-----------------------------------------------------------------------------
(* The frames.                                                             *)

(* A step that a pass may have is one that it may have later.              *)
LEMMA StepKept ==
  ASSUME Grows, prog' = prog, NEW d, NEW p, NEW s, StepOK(d, p, s)
  PROVE  StepOK(d, p, s)'
<1>2. \A c : Mentions(c)' = Mentions(c)
  BY DEF Mentions
<1>3. s.op = "analyze" =>
       /\ s.task \in Task /\ (s.task \in Generation => p \in Thorough)
       /\ Owner(s.on) \in Mentions(Owner(d))' \cup {Owner(d)}
  BY <1>2 DEF StepOK
<1>4. s.must => s.op = "analyze" /\ s.on \in Class /\ Demanding(d, p)'
  BY DEF StepOK, Demanding
<1>5. (s.op = "link" => d \in Class /\ p = "BaseTypes" /\ s.on = prog'.base[d])
      /\ (s.op = "evaluate" => d \in Class \cup Var /\ p = "Attribute" /\ s.on = prog'.attr[d])
  BY DEF StepOK
<1>6. /\ s.op = "reserve" => d \in Class /\ p = "Field"
      /\ s.op \in {"field", "place"} => d \in Class /\ p = "Field" /\ s.on \in Elems(FieldsOf[d])
      /\ s.op = "table" => d \in Class /\ p = "Overloading"
  BY DEF StepOK
<1> QED BY <1>3, <1>4, <1>5, <1>6 DEF StepOK

(* So are all its steps.                                                   *)
LEMMA StepsKept ==
  ASSUME Grows, prog' = prog, NEW d, NEW p, NEW t, StepsAre(d, p, t)
  PROVE  StepsAre(d, p, t)'
<1>1. t \in Seq(StepType) /\ \A s \in Elems(t) : StepOK(d, p, s)
  BY DEF StepsAre
<1>2. \A s \in Elems(t) : StepOK(d, p, s)'
  BY <1>1, StepKept
<1> QED BY <1>1, <1>2 DEF StepsAre

(* A frame that is as it should be stays so if it does not change.         *)
LEMMA FrameKept ==
  ASSUME Grows, prog' = prog, NEW f \in FrameType, FrameOK(f)
  PROVE  FrameOK(f)'
<1>1. \A e \in Defn : finished[e] \subseteq finished'[e]
  BY DEF Grows, MarksGrow
<1>2. StepsAre(f.on, f.pass, f.steps)'
  <2>1. PICK d : d = f.on OBVIOUS
  <2>2. PICK p : p = f.pass OBVIOUS
  <2>3. PICK t : t = f.steps OBVIOUS
  <2>4. StepsAre(d, p, t)
    BY <2>1, <2>2, <2>3 DEF FrameOK
  <2>5. StepsAre(d, p, t)'
    BY <2>4, StepsKept
  <2> QED BY <2>1, <2>2, <2>3, <2>5
<1>3. f.on \in Defn /\ Failing \subseteq Failing'
  BY FrameFields DEF Grows, MarksGrow
<1> QED BY <1>1, <1>2, <1>3 DEF FrameOK

(* A frame of the new stack, by its place.                                 *)
LEMMA FrameAt ==
  ASSUME NEW i, NEW g, stack'[i] = g, FrameOK(g)'
  PROVE  FrameOK(stack[i])'
BY DEF FrameOK, StepsAre, StepOK

(* There are no steps in the empty sequence.                               *)
LEMMA NoneIn == Elems(<<>>) = {} /\ <<>> \in Seq(StepType)
<1>1. Elems(<<>>) = {}
  BY DEF Elems
<1>2. <<>> \in Seq(StepType)
  OBVIOUS
<1> QED BY <1>1, <1>2

(* No steps are in order.                                                  *)
LEMMA NoOrder == InOrder(<<>>)
BY NothingIn DEF InOrder

(* A frame between two passes is as it should be.                          *)
LEMMA FrameBetween ==
  ASSUME NEW g, g.pass = "", g.steps = <<>>, g.todo \subseteq Elems(PassOrder(g.on)),
         (g.on \in Class /\ ~g.ok) => g.on \in Failing'
  PROVE  FrameOK(g)'
<1>0. Elems(<<>>) = {} /\ <<>> \in Seq(StepType)
  BY NoneIn
<1>1. StepsAre(g.on, g.pass, g.steps)'
  BY <1>0 DEF StepsAre
<1>2. InOrder(g.steps)
  BY NoOrder
<1> QED BY <1>1, <1>2 DEF FrameOK

(* The top is as it should be after a step of its own.                     *)
LEMMA MovedFrame ==
  ASSUME TypedState, Frames, Grows, prog' = prog, NEW g \in FrameType, Moves(g)
  PROVE  FrameOK(g)'
<1>f. PICK f : f = Top OBVIOUS
<1>0. f \in FrameType /\ FrameOK(f) /\ f.on \in Defn /\ MarksTyped /\ f.todo \subseteq PassName
  BY <1>f, TopOfMove DEF Moves
<1>1. CASE Skips(g)
  <2>1. g.on = f.on /\ g.pass = f.pass /\ g.steps = f.steps /\ (g.ok <=> f.ok) /\ g.todo \subseteq f.todo
    BY <1>1, <1>f DEF Skips, Same
  <2>2. FrameOK(g)
    BY <1>0, <2>1 DEF FrameOK
  <2> QED BY <2>2, FrameKept
<1>2. CASE Goes(g)
  <2>1. g.on = f.on /\ g.pass = f.pass /\ (g.ok <=> f.ok) /\ g.todo = f.todo
        /\ StepsAre(g.on, g.pass, g.steps) /\ InOrder(g.steps)
    BY <1>2, <1>f DEF Goes, Same
  <2>2. FrameOK(g)
    BY <1>0, <2>1 DEF FrameOK
  <2> QED BY <2>2, FrameKept
<1>3. CASE Ends(g)
  <2>1. g.on = f.on /\ g.pass = "" /\ g.steps = <<>> /\ (g.ok <=> f.ok) /\ g.todo = f.todo
    BY <1>3, <1>f DEF Ends, Same
  <2>2. FrameOK(g)
    <3>1. StepsAre(g.on, g.pass, g.steps)
      BY <2>1, NoSteps
    <3>2. InOrder(g.steps)
      BY <2>1, NoOrder
    <3> QED BY <1>0, <2>1, <3>1, <3>2 DEF FrameOK
  <2> QED BY <2>2, FrameKept
<1>4. CASE Fails(g)
  <2>1. g.on = f.on /\ g.pass = "" /\ g.steps = <<>> /\ g.todo = {} /\ g.on \in Failing'
    BY <1>4, <1>f DEF Fails, Same, Failing
  <2> QED BY <2>1, FrameBetween
<1>5. CASE Begins(g)
  <2>1. g.on = f.on /\ (g.ok <=> f.ok) /\ g.pass \in f.todo /\ g.todo \subseteq f.todo /\ Meets(g.on, g.pass, g.steps)
    BY <1>5, <1>f DEF Begins, Same
  <2>2. StepsAre(g.on, g.pass, g.steps) /\ InOrder(g.steps)
    BY <2>1 DEF Meets
  <2>3. StepsAre(g.on, g.pass, g.steps)'
    <3>1. PICK d : d = g.on OBVIOUS
    <3>2. PICK p : p = g.pass OBVIOUS
    <3>3. PICK t : t = g.steps OBVIOUS
    <3>4. StepsAre(d, p, t)
      BY <2>2, <3>1, <3>2, <3>3
    <3>5. StepsAre(d, p, t)'
      BY <3>4, StepsKept
    <3> QED BY <3>1, <3>2, <3>3, <3>5
  <2>4. g.on \in Class /\ g.pass = "BaseTypes" => "BaseTypes" \in finished'[g.on]
    <3> SUFFICES ASSUME g.on \in Class, g.pass = "BaseTypes" PROVE "BaseTypes" \in finished'[g.on]
      OBVIOUS
    <3>1. Early(Top.on, g.pass)
      BY <1>f, <2>1 DEF Early
    <3>2. Finish(g.on, g.pass) /\ flagged' = flagged
      BY <1>5, <1>f, <2>1, <3>1 DEF Begins
    <3>3. g.on \in Defn /\ g.pass \in PassName
      BY <1>0, <2>1
    <3>d. PICK d : d = g.on OBVIOUS
    <3>p. PICK p : p = g.pass OBVIOUS
    <3>4. d \in Defn /\ p \in PassName /\ Finish(d, p) /\ flagged \subseteq flagged'
      BY <3>2, <3>3, <3>d, <3>p
    <3>5. p \in finished'[d]
      BY <1>0, <3>4, FinishGrows
    <3> QED BY <3>5, <3>d, <3>p
  <2>5. Failing \subseteq Failing'
    BY DEF Grows, MarksGrow
  <2> QED BY <1>0, <2>1, <2>2, <2>3, <2>4, <2>5 DEF FrameOK
<1> QED BY <1>1, <1>2, <1>3, <1>4, <1>5 DEF Moves

(* The caller and the frame that is called are.                            *)
LEMMA CalledFrames ==
  ASSUME TypedState, Frames, Grows, prog' = prog, NEW f \in FrameType, NEW g \in FrameType,
         Pushed(f, g), Calls(f, g)
  PROVE  FrameOK(f)' /\ FrameOK(g)'
<1>h. PICK h : h = Top OBVIOUS
<1>0. h \in FrameType /\ FrameOK(h)
  <2>1. Len(stack) \in DOMAIN stack /\ Top = stack[Len(stack)]
    BY DEF Pushed, Top
  <2> QED BY <1>h, <2>1, ElementOfSeq DEF TypedState, Frames
<1>1. FrameOK(f)'
  <2>1. f.on = h.on /\ f.pass = h.pass /\ (f.ok <=> h.ok) /\ f.todo = h.todo /\ f.steps = Tail(h.steps)
        /\ h.steps # <<>>
    BY <1>h DEF Calls, Same
  <2>2. StepsAre(h.on, h.pass, Tail(h.steps)) /\ InOrder(Tail(h.steps))
    BY <1>0, <2>1, StepsLeft DEF FrameOK
  <2>3. FrameOK(f)
    BY <1>0, <2>1, <2>2 DEF FrameOK
  <2> QED BY <2>3, FrameKept
<1>2. FrameOK(g)'
  <2>s. PICK s : s = Head(h.steps) OBVIOUS
  <2>1. g.on = s.on /\ g.pass = "" /\ g.steps = <<>> /\ g.ok /\ s.task \in Task /\ s.on \in Defn
        /\ g.todo \subseteq TaskPasses(s.on, s.task)
    BY <1>h, <2>s DEF Calls, Fresh
  <2>2. TaskPasses(s.on, s.task) \subseteq Elems(PassOrder(s.on))
    BY <2>1, TasksInOrder
  <2> QED BY <2>1, <2>2, FrameBetween
<1> QED BY <1>1, <1>2

(* The frames that do not change are.                                      *)
LEMMA FramesStay ==
  ASSUME TypedState, Frames, Grows, prog' = prog, NEW i \in DOMAIN stack, stack'[i] = stack[i]
  PROVE  FrameOK(stack[i])'
<1>f. PICK f : f = stack[i] OBVIOUS
<1>1. f \in FrameType /\ FrameOK(f)
  BY <1>f, ElementOfSeq DEF TypedState, Frames
<1>2. FrameOK(f)' /\ stack'[i] = f
  BY <1>f, <1>1, FrameKept
<1> QED BY <1>2, FrameAt

(* All the frames are as they should be after a step.                      *)
LEMMA StepFrames ==
  ASSUME TypedState, Frames, Callers, RunningIs, Alone, StackStep, prog' = prog
  PROVE  Frames'
<1>0. Grows
  BY StepGrows
<1> SUFFICES ASSUME NEW i \in DOMAIN stack' PROVE FrameOK(stack[i])'
  BY DEF Frames
<1>9. CASE i \in DOMAIN stack /\ stack'[i] = stack[i]
  BY <1>0, <1>9, FramesStay
<1>1. CASE \E g \in FrameType : Moves(g)
  <2>1. PICK g \in FrameType : Moves(g)
    BY <1>1
  <2>2. FrameOK(g)'
    BY <1>0, <2>1, MovedFrame
  <2>3. stack'[i] = g \/ (i \in DOMAIN stack /\ stack'[i] = stack[i])
    BY <2>1 DEF Moves, Retop
  <2> QED BY <1>9, <2>2, <2>3, FrameAt
<1>2. CASE \E f, g \in FrameType : Pushed(f, g) /\ Calls(f, g)
  <2>1. PICK f, g \in FrameType : Pushed(f, g) /\ Calls(f, g)
    BY <1>2
  <2>2. FrameOK(f)' /\ FrameOK(g)'
    BY <1>0, <2>1, CalledFrames
  <2>3. stack'[i] = f \/ stack'[i] = g \/ (i \in DOMAIN stack /\ stack'[i] = stack[i])
    BY <2>1 DEF Pushed
  <2> QED BY <1>9, <2>2, <2>3, FrameAt
<1>3. CASE Dropped(Caller) /\ ReturnsOk
  <2>1. i \in DOMAIN stack /\ stack'[i] = stack[i]
    BY <1>3 DEF Dropped, Caller
  <2> QED BY <1>9, <2>1
<1>4. CASE \E g \in FrameType : Dropped(g) /\ ReturnsFailed(g)
  <2>1. PICK g \in FrameType : Dropped(g) /\ ReturnsFailed(g)
    BY <1>4
  <2>2. FrameOK(g)'
    <3>1. Caller.on \in Class => Caller.on \in Failing'
      BY <2>1, FailedReturnRuns
    <3>2. g.pass = "" /\ g.steps = <<>> /\ g.todo = {} /\ (g.on \in Class => g.on \in Failing')
      BY <2>1, <3>1 DEF ReturnsFailed, Same
    <3> QED BY <3>2, FrameBetween
  <2>3. stack'[i] = g \/ (i \in DOMAIN stack /\ stack'[i] = stack[i])
    BY <2>1 DEF Dropped
  <2> QED BY <1>9, <2>2, <2>3, FrameAt
<1>5. CASE \E g \in FrameType : Entered(g)
  <2>1. PICK g \in FrameType : Entered(g)
    BY <1>5
  <2>2. stack'[i] = g
    BY <2>1 DEF Entered
  <2>3. PICK task \in Generation : Fresh(g, g.on, task)
    BY <2>1 DEF Entered
  <2>4. task \in Task /\ g.on \in Defn
    BY FrameFields DEF Generation, Task
  <2>5. TaskPasses(g.on, task) \subseteq Elems(PassOrder(g.on))
    BY <2>4, TasksInOrder
  <2>6. FrameOK(g)'
    BY <2>3, <2>5, FrameBetween DEF Fresh
  <2> QED BY <2>2, <2>6, FrameAt
<1>6. CASE Left
  BY <1>6 DEF Left
<1>7. CASE UNCHANGED <<stack, running, finished, flagged>>
  BY <1>7, <1>9
<1> QED BY <1>1, <1>2, <1>3, <1>4, <1>5, <1>6, <1>7 DEF StackStep

-----------------------------------------------------------------------------
(* The callers.                                                            *)

(* A frame that waits goes on waiting.                                     *)
LEMMA CallingKept ==
  ASSUME NEW f, NEW g, Calling(f, g)
  PROVE  Calling(f, g)'
BY DEF Calling, Demanding

(* A frame waits for the top as it did, whatever the top does.             *)
LEMMA CallingMove ==
  ASSUME NEW f, NEW g, Moves(g), NEW h, h = Top, Calling(f, h)
  PROVE  Calling(f, g)'
<1>1. g.on = h.on /\ (g.must <=> h.must)
  BY DEF Moves, Skips, Begins, Ends, Goes, Fails, Same
<1> QED BY <1>1 DEF Calling, Demanding

(* The frame that called waits for the one it called.                      *)
LEMMA CallingCalled ==
  ASSUME TypedState, Frames, NEW f \in FrameType, NEW g \in FrameType, Pushed(f, g), Calls(f, g)
  PROVE  Calling(f, g)'
<1>h. PICK h : h = Top OBVIOUS
<1>0. h \in FrameType /\ FrameOK(h)
  <2>1. Len(stack) \in DOMAIN stack /\ Top = stack[Len(stack)]
    BY DEF Pushed, Top
  <2> QED BY <1>h, <2>1, ElementOfSeq DEF TypedState, Frames
<1>s. PICK s : s = Head(h.steps) OBVIOUS
<1>1. f.on = h.on /\ f.pass = h.pass /\ f.pass # "" /\ h.steps # <<>>
  BY <1>h DEF Calls, Same
<1>2. g.on = s.on /\ (g.must <=> s.must)
  BY <1>h, <1>s DEF Calls, Fresh
<1>3. StepOK(h.on, h.pass, s)
  BY <1>0, <1>1, <1>s, StepsLeft DEF FrameOK
<1>4. g.must => g.on \in Class /\ Demanding(f.on, f.pass)
  BY <1>1, <1>2, <1>3 DEF StepOK
<1> QED BY <1>1, <1>4 DEF Calling, Demanding

(* What waits for a frame waits for it when it has failed.                 *)
LEMMA CallingFailed ==
  ASSUME NEW g, ReturnsFailed(g), NEW f, Calling(f, Caller)
  PROVE  Calling(f, g)'
<1>1. g.on = Caller.on /\ (g.must <=> Caller.must)
  BY DEF ReturnsFailed, Same
<1> QED BY <1>1 DEF Calling, Demanding

(* Who waits for whom, by their places in the stack.                       *)
LEMMA CallingAt ==
  ASSUME NEW i, NEW f, NEW g, stack'[i] = f, stack'[i + 1] = g, Calling(f, g)'
  PROVE  Calling(stack[i], stack[i + 1])'
BY DEF Calling

(* Neighbours in an interval.                                              *)
LEMMA Pairs ==
  ASSUME NEW n \in Nat, NEW i \in 1 .. n - 1
  PROVE  i \in 1 .. n /\ i + 1 \in 1 .. n /\ (i + 1 \in 1 .. n - 1 \/ i + 1 = n) /\ i # n
         /\ (i + 1 = n => i = n - 1) /\ i + 1 # i
OBVIOUS

(* Every frame but the top waits for the next, after every step.           *)
LEMMA StepCallers ==
  ASSUME TypedState, Frames, Callers, StackStep
  PROVE  Callers'
<1> SUFFICES ASSUME NEW i \in 1 .. Len(stack') - 1 PROVE Calling(stack[i], stack[i + 1])'
  BY DEF Callers
<1>n. PICK n : n = Len(stack) OBVIOUS
<1>N. n \in Nat /\ DOMAIN stack = 1 .. n
  BY <1>n, LenProperties DEF TypedState
<1>C. \A j \in 1 .. n - 1 : Calling(stack[j], stack[j + 1])
  BY <1>n DEF Callers
<1>9. CASE i \in 1 .. n - 1 /\ stack'[i] = stack[i] /\ stack'[i + 1] = stack[i + 1]
  <2>f. PICK f : f = stack[i] OBVIOUS
  <2>g. PICK g : g = stack[i + 1] OBVIOUS
  <2>1. Calling(f, g)
    BY <1>9, <1>C, <2>f, <2>g
  <2>2. Calling(f, g)'
    BY <2>1, CallingKept
  <2> QED BY <1>9, <2>2, <2>f, <2>g, CallingAt
<1>1. CASE \E g \in FrameType : Moves(g)
  <2>1. PICK g \in FrameType : Moves(g)
    BY <1>1
  <2>2. /\ Len(stack') = n /\ stack'[n] = g /\ \A j \in 1 .. n - 1 : stack'[j] = stack[j]
    BY <1>n, <2>1 DEF Moves, Retop
  <2>3. i \in 1 .. n - 1 /\ (i + 1 \in 1 .. n - 1 \/ i + 1 = n)
    BY <1>N, <2>2, Pairs
  <2>4. CASE i + 1 = n
    <3>f. PICK f : f = stack[i] OBVIOUS
    <3>h. PICK h : h = Top OBVIOUS
    <3>1. Calling(f, h)
      BY <1>C, <1>n, <2>3, <2>4, <3>f, <3>h DEF Top
    <3>2. Calling(f, g)'
      BY <2>1, <3>h, <3>1, CallingMove
    <3>3. stack'[i] = f /\ stack'[i + 1] = g
      BY <2>2, <2>3, <2>4, <3>f
    <3> QED BY <3>2, <3>3, CallingAt
  <2> QED BY <1>9, <2>2, <2>3, <2>4
<1>2. CASE \E f, g \in FrameType : Pushed(f, g) /\ Calls(f, g)
  <2>1. PICK f, g \in FrameType : Pushed(f, g) /\ Calls(f, g)
    BY <1>2
  <2>2. /\ Len(stack') = n + 1 /\ stack'[n] = f /\ stack'[n + 1] = g
        /\ \A j \in 1 .. n - 1 : stack'[j] = stack[j]
    BY <1>n, <2>1 DEF Pushed
  <2>3. i \in 1 .. n /\ (i = n \/ i \in 1 .. n - 1)
    BY <1>N, <2>2
  <2>4. CASE i = n
    <3>1. Calling(f, g)'
      BY <2>1, CallingCalled
    <3> QED BY <2>2, <2>4, <3>1, CallingAt
  <2>5. CASE i \in 1 .. n - 1
    <3>1. i + 1 \in 1 .. n - 1 \/ i + 1 = n
      BY <1>N, <2>5, Pairs
    <3>2. CASE i + 1 = n
      <4>e. PICK e : e = stack[i] OBVIOUS
      <4>h. PICK h : h = Top OBVIOUS
      <4>1. Calling(e, h)
        BY <1>C, <1>n, <2>5, <3>2, <4>e, <4>h DEF Top
      <4>2. Calling(e, h)'
        BY <4>1, CallingKept
      <4>3. f.on = h.on /\ (f.must <=> h.must) /\ f.pass = h.pass /\ (f.ok <=> h.ok) /\ f.todo = h.todo
        BY <2>1, <4>h DEF Calls, Same
      <4>4. Calling(e, f)'
        BY <4>2, <4>3 DEF Calling
      <4>5. stack'[i] = e /\ stack'[i + 1] = f
        BY <2>2, <2>5, <3>2, <4>e
      <4> QED BY <4>4, <4>5, CallingAt
    <3> QED BY <1>9, <2>2, <2>5, <3>1, <3>2
  <2> QED BY <2>3, <2>4, <2>5
<1>3. CASE Dropped(Caller) /\ ReturnsOk
  <2>1. Len(stack') = n - 1 /\ n > 1 /\ \A j \in 1 .. n - 1 : stack'[j] = stack[j]
    <3>1. Len(stack') = n - 1 /\ n > 1 /\ (\A j \in 1 .. n - 2 : stack'[j] = stack[j]) /\ stack'[n - 1] = stack[n - 1]
      BY <1>3, <1>n DEF Dropped, Caller
    <3>2. \A j \in 1 .. n - 1 : j \in 1 .. n - 2 \/ j = n - 1
      BY <1>N
    <3> QED BY <3>1, <3>2
  <2>2. i \in 1 .. n - 1 /\ i + 1 \in 1 .. n - 1
    <3>1. n - 1 \in Nat
      BY <1>N, <2>1
    <3>2. i \in 1 .. n - 1 /\ i + 1 \in 1 .. n - 1
      BY <2>1, <3>1, Pairs
    <3> QED BY <3>2
  <2> QED BY <1>9, <2>1, <2>2
<1>4. CASE \E g \in FrameType : Dropped(g) /\ ReturnsFailed(g)
  <2>1. PICK g \in FrameType : Dropped(g) /\ ReturnsFailed(g)
    BY <1>4
  <2>2. Len(stack') = n - 1 /\ n > 1 /\ stack'[n - 1] = g /\ \A j \in 1 .. n - 2 : stack'[j] = stack[j]
    BY <1>n, <2>1 DEF Dropped
  <2>m. PICK m : m = n - 1 OBVIOUS
  <2>3. m \in Nat /\ i \in 1 .. m - 1 /\ m - 1 = n - 2
    BY <1>N, <2>2, <2>m
  <2>4. i \in 1 .. m /\ (i + 1 \in 1 .. m - 1 \/ i + 1 = m)
    BY <2>3, Pairs
  <2>5. stack'[i] = stack[i] /\ i \in 1 .. n - 1
    BY <2>2, <2>3, <2>4, <2>m
  <2>6. CASE i + 1 = m
    <3>f. PICK f : f = stack[i] OBVIOUS
    <3>1. Calling(f, Caller)
      BY <1>C, <1>n, <2>m, <2>5, <2>6, <3>f DEF Caller
    <3>2. Calling(f, g)'
      BY <2>1, <3>1, CallingFailed
    <3>3. stack'[i] = f /\ stack'[i + 1] = g
      BY <2>2, <2>5, <2>6, <2>m, <3>f
    <3> QED BY <3>2, <3>3, CallingAt
  <2>7. CASE i + 1 \in 1 .. m - 1
    BY <1>9, <2>2, <2>3, <2>5, <2>7
  <2> QED BY <2>4, <2>6, <2>7
<1>5. CASE \E g \in FrameType : Entered(g)
  <2>1. Len(stack') = 1
    BY <1>5 DEF Entered
  <2> QED BY <2>1
<1>6. CASE Left
  <2>1. stack' = <<>>
    BY <1>6 DEF Left
  <2> QED BY <2>1
<1>7. CASE UNCHANGED <<stack, running, finished, flagged>>
  BY <1>7, <1>9, <1>n
<1> QED BY <1>1, <1>2, <1>3, <1>4, <1>5, <1>6, <1>7 DEF StackStep

(* The first element of a sequence of one.                                 *)
LEMMA OneElement == \A g : <<g>>[1] = g
OBVIOUS

(* A number of an interval is the last or before it.                       *)
LEMMA LastOrBefore ==
  ASSUME NEW n \in Nat, NEW i \in 1 .. n
  PROVE  i = n \/ i \in 1 .. n - 1
OBVIOUS

(* Intervals that are one longer or shorter.                               *)
LEMMA WithinAll ==
  ASSUME NEW n \in Nat
  PROVE  n + 1 \in 1 .. n + 1 /\ \A i \in 1 .. n - 1 : i \in 1 .. n
OBVIOUS

(* The frames of the stack when the top was replaced.                      *)
LEMMA RetopAt ==
  ASSUME NEW g, Retop(g), NEW i \in DOMAIN stack'
  PROVE  /\ i \in DOMAIN stack
         /\ \/ i = Len(stack) /\ stack'[i] = g
            \/ i \in 1 .. Len(stack) - 1 /\ stack'[i] = stack[i]
<1>1. Len(stack) \in Nat /\ i \in 1 .. Len(stack)
  BY DEF Retop
<1>n. PICK n : n = Len(stack) OBVIOUS
<1>2. i = n \/ i \in 1 .. n - 1
  BY <1>1, <1>n, LastOrBefore
<1> QED BY <1>2, <1>n DEF Retop

(* The frames of the stack when the top was dropped.                       *)
LEMMA DroppedAt ==
  ASSUME NEW g, Dropped(g), NEW i \in DOMAIN stack'
  PROVE  /\ i \in DOMAIN stack
         /\ \/ i = Len(stack) - 1 /\ stack'[i] = g
            \/ i \in 1 .. Len(stack) - 2 /\ stack'[i] = stack[i]
<1>n. PICK n : n = Len(stack) OBVIOUS
<1>1. n \in Nat /\ n > 1 /\ i \in 1 .. n - 1 /\ DOMAIN stack = 1 .. n
  BY <1>n DEF Dropped
<1>2. (i = n - 1 \/ i \in 1 .. n - 2) /\ i \in 1 .. n
  <2>1. n \in Nat /\ n > 1 /\ i \in 1 .. n - 1
    BY <1>1
  <2>2. i \in 1 .. n /\ n - 1 \in Nat /\ (n - 1) - 1 = n - 2
    BY <2>1, WithinAll
  <2>3. i = n - 1 \/ i \in 1 .. (n - 1) - 1
    BY <2>1, <2>2, LastOrBefore
  <2> QED BY <2>2, <2>3
<1> QED BY <1>1, <1>2, <1>n DEF Dropped

-----------------------------------------------------------------------------
(* What a pass has asked for.                                              *)

(* A frame that is in a pass was in it before, or has just begun it.       *)
LEMMA PassesBegin ==
  ASSUME TypedState, Frames, Callers, StackStep, NEW i, NEW d, NEW p, p # "", At(i, d, p)'
  PROVE  \/ At(i, d, p)
         \/ \E g \in FrameType : /\ Moves(g) /\ Begins(g) /\ i = Len(stack) /\ stack'[i] = g
                                 /\ g.on = d /\ g.pass = p /\ Top.on = d
<1>0. i \in DOMAIN stack' /\ stack'[i].on = d /\ stack'[i].pass = p
  BY DEF At
<1>9. CASE i \in DOMAIN stack /\ stack'[i] = stack[i]
  BY <1>0, <1>9 DEF At
<1>1. CASE \E g \in FrameType : Moves(g)
  <2>1. PICK g \in FrameType : Moves(g)
    BY <1>1
  <2>2. \/ i \in DOMAIN stack /\ stack'[i] = stack[i]
        \/ i = Len(stack) /\ stack'[i] = g /\ i \in DOMAIN stack
    <3>1. Retop(g)
      BY <2>1 DEF Moves
    <3> QED BY <1>0, <3>1, RetopAt
  <2>3. CASE i = Len(stack) /\ stack'[i] = g /\ i \in DOMAIN stack
    <3>1. g.on = d /\ g.pass = p /\ Top = stack[i]
      BY <1>0, <2>3 DEF Top
    <3>2. g.on = Top.on
      BY <2>1 DEF Moves, Skips, Begins, Ends, Goes, Fails, Same
    <3>3. CASE Begins(g)
      BY <2>1, <2>3, <3>1, <3>2, <3>3
    <3>4. CASE ~Begins(g)
      <4>1. g.pass = Top.pass
        BY <2>1, <3>1, <3>4 DEF Moves, Skips, Ends, Goes, Fails
      <4> QED BY <2>3, <3>1, <3>2, <4>1 DEF At
    <3> QED BY <3>3, <3>4
  <2> QED BY <1>9, <2>2, <2>3
<1>2. CASE \E f, g \in FrameType : Pushed(f, g) /\ Calls(f, g)
  <2>1. PICK f, g \in FrameType : Pushed(f, g) /\ Calls(f, g)
    BY <1>2
  <2>k. PICK k : k = Len(stack) OBVIOUS
  <2>e. PICK e : e = Top.on OBVIOUS
  <2>q. PICK q : q = Top.pass OBVIOUS
  <2>2. Turns(k, e, q, q)
    BY <2>1, <2>k, <2>e, <2>q, PushTurns
  <2> QED BY <1>0, <2>2 DEF Turns, At
<1>3. CASE Dropped(Caller) /\ ReturnsOk
  <2>c. PICK c : c = Caller OBVIOUS
  <2>1. i \in DOMAIN stack /\ ((i = Len(stack) - 1 /\ stack'[i] = c) \/ stack'[i] = stack[i])
    BY <1>0, <1>3, <2>c, DroppedAt
  <2>2. i \in DOMAIN stack /\ stack'[i] = stack[i]
    BY <2>1, <2>c DEF Caller
  <2> QED BY <1>9, <2>2
<1>4. CASE \E g \in FrameType : Dropped(g) /\ ReturnsFailed(g)
  <2>1. PICK g \in FrameType : Dropped(g) /\ ReturnsFailed(g)
    BY <1>4
  <2>2. stack'[i] = g \/ (i \in DOMAIN stack /\ stack'[i] = stack[i])
    BY <1>0, <2>1, DroppedAt
  <2>3. g.pass = ""
    BY <2>1 DEF ReturnsFailed
  <2> QED BY <1>0, <1>9, <2>2, <2>3
<1>5. CASE \E g \in FrameType : Entered(g)
  <2>1. PICK g \in FrameType : Entered(g)
    BY <1>5
  <2>2. stack'[i] = g /\ g.pass = ""
    <3>1. DOMAIN stack' = {1} /\ stack' = <<g>>
      BY <2>1 DEF Entered
    <3>2. g.pass = ""
      BY <2>1 DEF Entered, Fresh
    <3>3. i = 1
      BY <1>0, <3>1
    <3> QED BY <3>1, <3>2, <3>3, OneElement
  <2> QED BY <1>0, <2>2
<1>6. CASE Left
  BY <1>0, <1>6 DEF Left
<1>7. CASE UNCHANGED <<stack, running, finished, flagged>>
  BY <1>0, <1>7 DEF At
<1> QED BY <1>1, <1>2, <1>3, <1>4, <1>5, <1>6, <1>7 DEF StackStep

(* What has begun is seen to later on.                                     *)
LEMMA CoverBegun ==
  ASSUME Grows, NEW i, NEW a \in Class, NEW P, P \subseteq Begun(a) \/ a \in Failing
  PROVE  Covers(i, a, P)'
<1>1. Begun(a) \subseteq Begun(a)' /\ Failing \subseteq Failing'
  BY OwnerOfClass DEF Grows, MarksGrow, Begun
<1>2. P \subseteq Begun(a)' \/ a \in Failing'
  BY <1>1
<1> QED BY <1>2 DEF Covers

(* So is what has failed.                                                  *)
LEMMA CoverFailing ==
  ASSUME NEW i, NEW a, NEW P, a \in flagged' \/ a \in Failing'
  PROVE  Covers(i, a, P)'
BY DEF Covers, Failing

(* So is what a frame is still to ask for.                                 *)
LEMMA CoverAsks ==
  ASSUME NEW i, NEW a, NEW P, NEW g, stack'[i] = g, Asks(g, a, P)
  PROVE  Covers(i, a, P)'
<1>1. Asks(stack[i], a, P)'
  BY DEF Asks
<1> QED BY <1>1 DEF Covers

(* So is what the frame above is to run.                                   *)
LEMMA CoverTodo ==
  ASSUME Grows, NEW i, NEW a \in Class, NEW P, NEW g, i + 1 \in DOMAIN stack', stack'[i + 1] = g, g.on = a,
         \/ P \subseteq Begun(a) \cup g.todo
         \/ P \subseteq Begun(a)' \cup g.todo
  PROVE  Covers(i, a, P)'
<1>1. Begun(a) \subseteq Begun(a)'
  BY OwnerOfClass DEF Grows, MarksGrow, Begun
<1>2. P \subseteq Begun(a)' \cup g.todo
  BY <1>1
<1>3. (stack[i + 1].on = a /\ P \subseteq Begun(a) \cup stack[i + 1].todo)'
  BY <1>2
<1> QED BY <1>3 DEF Covers

(* A request that is still to be made is made, or it stays.                *)
LEMMA AsksKept ==
  ASSUME TypedState, Frames, Callers, Grows, StackStep, NEW i, NEW d, NEW p, p # "",
         At(i, d, p), At(i, d, p)', NEW a \in Class, NEW P, Asks(stack[i], a, P)
  PROVE  Covers(i, a, P)'
<1>f. PICK f : f = stack[i] OBVIOUS
<1>n. PICK n : n = Len(stack) OBVIOUS
<1>0. /\ i \in DOMAIN stack /\ f.on = d /\ f.pass = p /\ Asks(f, a, P)
      /\ i \in DOMAIN stack' /\ stack'[i].on = d /\ stack'[i].pass = p
      /\ DOMAIN stack = 1 .. n /\ n \in Nat /\ (i = n \/ i \in 1 .. n - 1)
  <2>1. /\ i \in DOMAIN stack /\ f.on = d /\ f.pass = p /\ Asks(f, a, P)
        /\ i \in DOMAIN stack' /\ stack'[i].on = d /\ stack'[i].pass = p
    BY <1>f DEF At
  <2>2. DOMAIN stack = 1 .. n /\ n \in Nat
    BY <1>n, LenProperties DEF TypedState
  <2>3. i \in 1 .. n => (i = n \/ i \in 1 .. n - 1)
    BY <2>2, LastOrBefore
  <2> QED BY <2>1, <2>2, <2>3
<1>9. CASE stack'[i] = f
  BY <1>0, <1>9, CoverAsks
<1>1. CASE \E g \in FrameType : Moves(g)
  <2>1. PICK g \in FrameType : Moves(g)
    BY <1>1
  <2>2. stack'[n] = g /\ (i \in 1 .. n - 1 => stack'[i] = f)
    BY <1>f, <1>n, <2>1 DEF Moves, Retop
  <2>3. CASE i = n
    <3>1. f = Top /\ g.pass = p
      BY <1>0, <1>f, <1>n, <2>2, <2>3 DEF Top
    <3>2. Goes(g)
      BY <1>0, <2>1, <3>1 DEF Moves, Skips, Begins, Ends, Fails
    <3>3. Asks(g, a, P)
      <4>1. PICK s \in Elems(f.steps) : s.op = "analyze" /\ s.on = a /\ P \subseteq TaskPasses(a, s.task)
        BY <1>0 DEF Asks
      <4>2. f.steps # <<>> /\ Head(f.steps).op # "analyze" /\ Elems(Tail(f.steps)) \subseteq Elems(g.steps)
        BY <3>1, <3>2 DEF Goes
      <4>3. FrameOK(f)
        BY <1>0, <1>f DEF Frames
      <4>4. Elems(f.steps) = {Head(f.steps)} \cup Elems(Tail(f.steps))
        BY <4>2, <4>3, StepsLeft DEF FrameOK
      <4>5. s \in Elems(g.steps)
        BY <4>1, <4>2, <4>4
      <4> QED BY <4>1, <4>5 DEF Asks
    <3> QED BY <2>2, <2>3, <3>3, CoverAsks
  <2> QED BY <1>0, <1>9, <2>2, <2>3
<1>2. CASE \E u, g \in FrameType : Pushed(u, g) /\ Calls(u, g)
  <2>1. PICK u, g \in FrameType : Pushed(u, g) /\ Calls(u, g)
    BY <1>2
  <2>2. /\ stack'[n] = u /\ stack'[n + 1] = g /\ DOMAIN stack' = 1 .. n + 1
        /\ i \in 1 .. n - 1 => stack'[i] = f
    BY <1>f, <1>n, <2>1 DEF Pushed
  <2>3. CASE i = n
    <3>1. f = Top
      BY <1>f, <1>n, <2>3 DEF Top
    <3>2. PICK s \in Elems(f.steps) : s.op = "analyze" /\ s.on = a /\ P \subseteq TaskPasses(a, s.task)
      BY <1>0 DEF Asks
    <3>3. f.steps # <<>> /\ u.steps = Tail(f.steps)
      BY <2>1, <3>1 DEF Calls
    <3>4. Elems(f.steps) = {Head(f.steps)} \cup Elems(u.steps)
      <4>1. FrameOK(f)
        BY <1>0, <1>f DEF Frames
      <4>2. StepsAre(f.on, f.pass, f.steps) /\ InOrder(f.steps)
        BY <4>1 DEF FrameOK
      <4>3. Elems(f.steps) = {Head(f.steps)} \cup Elems(Tail(f.steps))
        BY <3>3, <4>2, StepsLeft
      <4> QED BY <3>3, <4>3
    <3>5. CASE s \in Elems(u.steps)
      <4>1. Asks(u, a, P)
        BY <3>2, <3>5 DEF Asks
      <4> QED BY <2>2, <2>3, <4>1, CoverAsks
    <3>6. CASE s = Head(f.steps)
      <4>1. g.on = a /\ g.todo = TaskPasses(a, s.task) \ finished[a]
        BY <2>1, <3>1, <3>2, <3>6 DEF Calls, Fresh
      <4>2. P \subseteq Begun(a) \cup g.todo
        BY <3>2, <4>1 DEF Begun
      <4>3. i + 1 \in DOMAIN stack' /\ stack'[i + 1] = g
        <5>1. n + 1 \in 1 .. n + 1
          BY <1>0, WithinAll
        <5> QED BY <2>2, <2>3, <5>1
      <4> QED BY <4>1, <4>2, <4>3, CoverTodo
    <3> QED BY <3>2, <3>4, <3>5, <3>6
  <2> QED BY <1>0, <1>9, <2>2, <2>3
<1>3. CASE Dropped(Caller) /\ ReturnsOk
  <2>c. PICK c : c = Caller OBVIOUS
  <2>1. (i = Len(stack) - 1 /\ stack'[i] = c) \/ stack'[i] = stack[i]
    BY <1>0, <1>3, <2>c, DroppedAt
  <2>2. stack'[i] = stack[i]
    BY <2>1, <2>c DEF Caller
  <2> QED BY <1>9, <1>f, <2>2
<1>4. CASE \E g \in FrameType : Dropped(g) /\ ReturnsFailed(g)
  <2>1. PICK g \in FrameType : Dropped(g) /\ ReturnsFailed(g)
    BY <1>4
  <2>2. stack'[i] = g \/ stack'[i] = stack[i]
    BY <1>0, <2>1, DroppedAt
  <2>3. g.pass = ""
    BY <2>1 DEF ReturnsFailed
  <2> QED BY <1>0, <1>9, <1>f, <2>2, <2>3
<1>5. CASE \E g \in FrameType : Entered(g)
  BY <1>0, <1>5, NothingIn DEF Entered
<1>6. CASE Left
  BY <1>0, <1>6 DEF Left
<1>7. CASE UNCHANGED <<stack, running, finished, flagged>>
  BY <1>7, <1>9, <1>f
<1> QED BY <1>1, <1>2, <1>3, <1>4, <1>5, <1>6, <1>7 DEF StackStep

(* A number of an interval is in one that is longer.                       *)
LEMMA WithinMore ==
  ASSUME NEW n \in Nat, NEW j \in 1 .. n
  PROVE  j \in 1 .. n + 1
OBVIOUS

(* A number before the last two is not followed by the last.               *)
LEMMA NextOf ==
  ASSUME NEW n \in Nat, NEW i \in 1 .. n - 1, i # n - 1
  PROVE  i + 1 # n
OBVIOUS

(* A request that was made is met, or the analysis it called goes on.      *)
LEMMA CalledKept ==
  ASSUME TypedState, Frames, Callers, RunningIs, Alone, Reported, Grows, StackStep, NEW i,
         NEW d, NEW p, p # "",
         At(i, d, p), At(i, d, p)', NEW a \in Class, NEW P, i + 1 \in DOMAIN stack,
         stack[i + 1].on = a, P \subseteq Begun(a) \cup stack[i + 1].todo
  PROVE  Covers(i, a, P)'
<1>j. PICK j : j = i + 1 OBVIOUS
<1>h. PICK h : h = stack[j] OBVIOUS
<1>n. PICK n : n = Len(stack) OBVIOUS
<1>0. /\ j \in DOMAIN stack /\ h.on = a /\ P \subseteq Begun(a) \cup h.todo
      /\ DOMAIN stack = 1 .. n /\ n \in Nat /\ (j = n \/ j \in 1 .. n - 1)
  <2>1. j \in DOMAIN stack /\ h.on = a /\ P \subseteq Begun(a) \cup h.todo
    BY <1>j, <1>h
  <2>2. DOMAIN stack = 1 .. n /\ n \in Nat
    BY <1>n, LenProperties DEF TypedState
  <2>3. j \in 1 .. n => (j = n \/ j \in 1 .. n - 1)
    BY <2>2, LastOrBefore
  <2> QED BY <2>1, <2>2, <2>3
<1>i. i \in DOMAIN stack' /\ stack'[i].pass = p
  BY DEF At
<1>9. CASE j \in DOMAIN stack' /\ stack'[j] = h
  BY <1>0, <1>9, <1>j, CoverTodo
<1>8. ASSUME P \subseteq Begun(a) PROVE Covers(i, a, P)'
  BY <1>8, CoverBegun
<1>1. CASE \E g \in FrameType : Moves(g)
  <2>1. PICK g \in FrameType : Moves(g)
    BY <1>1
  <2>2. DOMAIN stack' = DOMAIN stack /\ stack'[n] = g /\ (j \in 1 .. n - 1 => stack'[j] = h)
    BY <1>h, <1>n, <2>1 DEF Moves, Retop
  <2>3. CASE j = n
    <3>1. h = Top
      BY <1>h, <1>n, <2>3 DEF Top
    <3>2. CASE Fails(g)
      <4>1. a \in flagged'
        BY <1>0, <3>1, <3>2 DEF Fails
      <4> QED BY <4>1, CoverFailing
    <3>3. CASE ~Fails(g)
      <4>1. g.on = a /\ P \subseteq Begun(a)' \cup g.todo
        <5>1. CASE Skips(g) \/ Ends(g) \/ Goes(g)
          <6>1. g.on = a /\ h.todo \subseteq g.todo \cup Begun(a)
            BY <1>0, <3>1, <5>1 DEF Skips, Ends, Goes, Same
          <6>2. Begun(a) \subseteq Begun(a)'
            BY OwnerOfClass DEF Grows, MarksGrow, Begun
          <6> QED BY <1>0, <6>1, <6>2
        <5>2. CASE Begins(g)
          <6>1. g.on = a /\ h.todo \subseteq g.todo \cup {g.pass} /\ g.pass \in PassName
            <7>1. g.pass \in Top.todo /\ Top.todo \subseteq PassName
              BY <2>1, <5>2, TopOfMove DEF Begins, Moves
            <7> QED BY <1>0, <3>1, <5>2, <7>1 DEF Begins, Same
          <6>2. Begun(a) \subseteq Begun(a)'
            BY OwnerOfClass DEF Grows, MarksGrow, Begun
          <6>3. g.pass \in Begun(a)'
            <7>1. a \in Defn /\ MarksTyped /\ Guarded(a, g.pass) /\ flagged \subseteq flagged'
              <8>1. Guarded(a, g.pass)
                BY ProgramAssumption DEF Guarded, Marked
              <8> QED BY <8>1, OwnerOfClass DEF TypedState, MarksTyped, Grows, MarksGrow
            <7>q. PICK q : q = g.pass OBVIOUS
            <7>2. CASE Early(a, q)
              <8>1. Finish(a, q)
                BY <1>0, <3>1, <5>2, <7>2, <7>q DEF Begins
              <8> QED BY <6>1, <7>1, <7>q, <8>1, FinishGrows DEF Begun
            <7>3. CASE ~Early(a, q)
              <8>1. running' = [running EXCEPT ![a] = @ \cup {q}] /\ finished' = finished
                BY <1>0, <3>1, <5>2, <7>1, <7>3, <7>q DEF Begins
              <8>2. Marks(a, q)
                BY <6>1, <7>1, <7>q, <8>1, StartGrows
              <8> QED BY <7>1, <7>q, <8>2 DEF Marks, Begun
            <7> QED BY <7>2, <7>3
          <6> QED BY <1>0, <6>1, <6>2, <6>3
        <5> QED BY <2>1, <3>3, <5>1, <5>2 DEF Moves
      <4> QED BY <1>0, <1>j, <2>2, <2>3, <4>1, CoverTodo
    <3> QED BY <3>2, <3>3
  <2> QED BY <1>0, <1>9, <2>2, <2>3
<1>2. CASE \E u, g \in FrameType : Pushed(u, g) /\ Calls(u, g)
  <2>1. PICK u, g \in FrameType : Pushed(u, g) /\ Calls(u, g)
    BY <1>2
  <2>2. /\ stack'[n] = u /\ DOMAIN stack' = 1 .. n + 1 /\ (j \in 1 .. n - 1 => stack'[j] = h)
    BY <1>h, <1>n, <2>1 DEF Pushed
  <2>4. j \in DOMAIN stack'
    BY <1>0, <2>2, WithinMore
  <2>3. CASE j = n
    <3>1. u.on = a /\ u.todo = h.todo
      BY <1>0, <1>h, <1>n, <2>1, <2>3 DEF Calls, Same, Top
    <3> QED BY <1>0, <1>j, <2>2, <2>3, <2>4, <3>1, CoverTodo
  <2> QED BY <1>0, <1>9, <2>2, <2>3, <2>4
<1>3. CASE Dropped(Caller) /\ ReturnsOk
  <2>1. CASE j = n
    <3>1. h.todo = {}
      BY <1>3, <1>h, <1>n, <2>1 DEF ReturnsOk, Top
    <3> QED BY <1>0, <1>8, <3>1
  <2>2. CASE j \in 1 .. n - 1
    <3>1. j \in DOMAIN stack'
      BY <1>3, <1>n, <2>2 DEF Dropped
    <3>c. PICK c : c = Caller OBVIOUS
    <3>2. (j = Len(stack) - 1 /\ stack'[j] = c) \/ stack'[j] = stack[j]
      BY <1>3, <3>1, <3>c, DroppedAt
    <3>3. stack'[j] = h
      BY <3>2, <3>c, <1>h DEF Caller
    <3> QED BY <1>9, <3>1, <3>3
  <2> QED BY <1>0, <2>1, <2>2
<1>4. CASE \E g \in FrameType : Dropped(g) /\ ReturnsFailed(g)
  <2>1. PICK g \in FrameType : Dropped(g) /\ ReturnsFailed(g)
    BY <1>4
  <2>2. g.pass = ""
    BY <2>1 DEF ReturnsFailed
  <2>3. DOMAIN stack' = 1 .. n - 1 /\ stack'[n - 1] = g /\ n > 1
    BY <1>n, <2>1 DEF Dropped
  <2>4. i # n - 1
    BY <1>i, <2>2, <2>3
  <2>5. j # n
    <3>1. i \in 1 .. n - 1
      BY <1>i, <2>3
    <3> QED BY <1>0, <1>j, <2>4, <3>1, NextOf
  <2>6. j \in DOMAIN stack'
    BY <1>0, <2>3, <2>5
  <2>7. CASE stack'[j] = h
    BY <1>9, <2>6, <2>7
  <2>8. CASE j = Len(stack) - 1
    <3>1. h = Caller
      BY <1>h, <2>8 DEF Caller
    <3>2. a \in Failing'
      <4>1. Caller.on \in Class => Caller.on \in Failing'
        BY <2>1, FailedReturnRuns
      <4> QED BY <1>0, <3>1, <4>1
    <3> QED BY <3>2, CoverFailing
  <2> QED BY <1>h, <2>1, <2>6, <2>7, <2>8, DroppedAt
<1>5. CASE \E g \in FrameType : Entered(g)
  BY <1>0, <1>5, NothingIn DEF Entered
<1>6. CASE Left
  BY <1>i, <1>6 DEF Left
<1>7. CASE UNCHANGED <<stack, running, finished, flagged>>
  BY <1>0, <1>7, <1>9, <1>h
<1> QED BY <1>1, <1>2, <1>3, <1>4, <1>5, <1>6, <1>7 DEF StackStep

(* What a pass depends on stays seen to until the pass ends.               *)
LEMMA CoversKept ==
  ASSUME TypedState, Frames, Callers, RunningIs, Alone, Reported, StackStep, NEW i, NEW d,
         NEW p, p # "",
         At(i, d, p), At(i, d, p)', NEW a \in Class, NEW P, Covers(i, a, P)
  PROVE  Covers(i, a, P)'
<1>0. Grows
  BY StepGrows
<1>1. CASE P \subseteq Begun(a) \/ a \in Failing
  BY <1>0, <1>1, CoverBegun
<1>2. CASE Asks(stack[i], a, P)
  BY <1>0, <1>2, AsksKept
<1>3. CASE i + 1 \in DOMAIN stack /\ stack[i + 1].on = a /\ P \subseteq Begun(a) \cup stack[i + 1].todo
  BY <1>0, <1>3, CalledKept
<1> QED BY <1>1, <1>2, <1>3 DEF Covers

(* Only classes have the pass for base types.                              *)
LEMMA BaseTypesOfClass ==
  ASSUME NEW f, FrameOK(f), f.pass = "BaseTypes"
  PROVE  f.on \in Class
<1>1. "BaseTypes" \in Elems(PassOrder(f.on))
  BY DEF FrameOK
<1> QED BY <1>1, OrderPasses DEF PassOrder

-----------------------------------------------------------------------------
(* The layout of the classes.                                              *)

(* What the pass for the base types depends on, that those of the base are *)
(* looked at, is seen to.                                                  *)
Based == \A i : \A c \in Class :
           (At(i, c, "BaseTypes") /\ prog.base[c] # NoClass) => Covers(i, prog.base[c], {"BaseTypes"})

(* The step links c to its base b, which is not below c.                   *)
LinkStep(c, b) ==
  /\ ~Idle /\ Top.on = c /\ Top.pass = "BaseTypes" /\ c \in Class /\ b \in Class /\ b = prog.base[c]
  /\ c \notin Chain(b) /\ "BaseTypes" \in finished[c] /\ ("BaseTypes" \in finished[b] \/ flagged # {})
  /\ super' = [super EXCEPT ![c] = b] /\ placed' = placed

(* The step places field v in the instances of c.                          *)
PlaceStep(c, v) ==
  /\ ~Idle /\ Top.on = c /\ Top.pass = "Field" /\ c \in Class /\ v \in Elems(FieldsOf[c])
  /\ placed' = [placed EXCEPT ![c] = Append(@, v)] /\ super' = super

(* All that a step can do to the layout of the classes.                    *)
LayoutStep ==
  /\ prog' = prog
  /\ \/ UNCHANGED <<super, placed>>
     \/ \E c, b \in Class : LinkStep(c, b)
     \/ \E c \in Class : \E v \in Elems(FieldsOf[c]) : PlaceStep(c, v)

(* The next step of the top is one that its pass may have.                 *)
LEMMA TopStep ==
  ASSUME TypedState, Frames, ~Idle, Top.steps # <<>>
  PROVE  /\ StepOK(Top.on, Top.pass, Head(Top.steps)) /\ Head(Top.steps) \in StepType
         /\ Top.on \in Defn
<1>1. Top \in FrameType /\ FrameOK(Top)
  BY TopFrame
<1> QED BY <1>1, StepsLeft, FrameFields DEF FrameOK

(* The base of a class has had its base types looked at when it is linked. *)
LEMMA LinkIs ==
  ASSUME TypedState, Frames, RunningIs, Reported, Based, LinkBase, Top.on \notin Chain(Head(Top.steps).on)
  PROVE  \E c, b \in Class : LinkStep(c, b)
<1>f. PICK f : f = Top OBVIOUS
<1>s. PICK s : s = Head(f.steps) OBVIOUS
<1>c. PICK c : c = f.on OBVIOUS
<1>b. PICK b : b = s.on OBVIOUS
<1>n. PICK n : n = Len(stack) OBVIOUS
<1>0. /\ ~Idle /\ f.pass # "" /\ f.steps # <<>> /\ s.op = "link" /\ c \notin Chain(b)
      /\ super' = [super EXCEPT ![c] = b] /\ placed' = placed
  BY <1>f, <1>s, <1>c, <1>b DEF LinkBase, CanStep
<1>1. StepOK(f.on, f.pass, s) /\ s \in StepType
  BY <1>0, <1>f, <1>s, TopStep
<1>2. c \in Class /\ f.pass = "BaseTypes" /\ b = prog.base[c]
  BY <1>0, <1>1, <1>c, <1>b DEF StepOK
<1>3. b \in Class
  <2>1. s.on \in Defn
    BY <1>1 DEF StepType
  <2>2. prog.base[c] \in Class \cup {NoClass}
    BY <1>2, Named DEF TypedState, Steady
  <2> QED BY <1>2, <1>b, <2>1, <2>2, ProgramAssumption
<1>4. f = stack[n] /\ n \in DOMAIN stack /\ FrameOK(f) /\ DOMAIN stack = 1 .. n /\ n \in Nat
  BY <1>0, <1>f, <1>n, TopFrame
<1>5. "BaseTypes" \in finished[c]
  BY <1>2, <1>4, <1>c DEF FrameOK
<1>6. "BaseTypes" \in finished[b] \/ flagged # {}
  <2>1. Covers(n, b, {"BaseTypes"})
    <3>1. At(n, c, "BaseTypes") /\ prog.base[c] # NoClass
      BY <1>2, <1>3, <1>4, <1>c, NoClassIsNone DEF At
    <3> QED BY <1>2, <3>1 DEF Based
  <2>2. CASE {"BaseTypes"} \subseteq Begun(b)
    <3>1. ~Counted(b, "BaseTypes")
      BY <1>3 DEF Counted, Early
    <3>2. "BaseTypes" \notin running[b]
      BY <1>3, <3>1, OwnerOfClass DEF RunningIs
    <3> QED BY <2>2, <3>2 DEF Begun
  <2>3. CASE b \in Failing
    BY <2>3, FailuresAreFlagged
  <2>4. CASE Asks(stack[n], b, {"BaseTypes"})
    <3>1. PICK r \in Elems(f.steps) : r.op = "analyze"
      BY <1>4, <2>4 DEF Asks
    <3>2. s.op \in Late
      BY <1>0 DEF Late
    <3>3. Elems(f.steps) = {s} \cup Elems(Tail(f.steps)) /\ NoAnalyze(Tail(f.steps))
      BY <1>0, <1>4, <1>s, <3>2, StepsLeft DEF FrameOK
    <3>4. r.op # "analyze"
      BY <1>0, <3>3 DEF NoAnalyze
    <3> QED BY <3>1, <3>4
  <2>5. CASE n + 1 \in DOMAIN stack
    BY <1>4, <2>5, PastLast
  <2> QED BY <2>1, <2>2, <2>3, <2>4, <2>5 DEF Covers
<1> QED BY <1>0, <1>2, <1>3, <1>5, <1>6, <1>f, <1>c DEF LinkStep

(* A field is placed in the class that declares it.                        *)
LEMMA PlacesIs ==
  ASSUME TypedState, Frames, PlaceField
  PROVE  \E c \in Class : \E v \in Elems(FieldsOf[c]) : PlaceStep(c, v)
<1>f. PICK f : f = Top OBVIOUS
<1>c. PICK c : c = f.on OBVIOUS
<1>v. PICK v : v = Head(f.steps).on OBVIOUS
<1>0. /\ ~Idle /\ f.pass # "" /\ f.steps # <<>> /\ Head(f.steps).op = "place"
      /\ placed' = [placed EXCEPT ![c] = Append(@, v)] /\ super' = super
  BY <1>f, <1>c, <1>v DEF PlaceField, CanStep
<1>1. StepOK(f.on, f.pass, Head(f.steps))
  BY <1>0, <1>f, TopStep
<1>2. c \in Class /\ f.pass = "Field" /\ v \in Elems(FieldsOf[c])
  BY <1>0, <1>1, <1>c, <1>v DEF StepOK
<1> QED BY <1>0, <1>2, <1>f, <1>c DEF PlaceStep

(* Every step of the model does no more than that to the layout.           *)
LEMMA NextLayout ==
  ASSUME TypedState, Frames, RunningIs, Reported, Based, [Next]_vars
  PROVE  LayoutStep
<1>0. prog' = prog
  BY DEF Next, Analyzer, Effects, ModuleSteps, SkipPass, BeginPass, FinishPass, Call, Return, LinkBase,
         ReserveSuper, VisitField, PlaceField, BuildTable, EvaluateAttribute, Symbol, AnalyzeMember,
         EndMember, AnalyzeQueued, EndQueued, Complete, vars
<1>1. CASE LinkBase
  <2>1. CASE Top.on \notin Chain(Head(Top.steps).on)
    BY <1>0, <1>1, <2>1, LinkIs DEF LayoutStep
  <2>2. CASE Top.on \in Chain(Head(Top.steps).on)
    BY <1>0, <1>1, <2>2 DEF LinkBase, LayoutStep
  <2> QED BY <2>1, <2>2
<1>2. CASE PlaceField
  BY <1>0, <1>2, PlacesIs DEF LayoutStep
<1>3. CASE ~LinkBase /\ ~PlaceField
  <2>1. UNCHANGED <<super, placed>>
    BY <1>3 DEF Next, Analyzer, Effects, ModuleSteps, SkipPass, BeginPass, FinishPass, Call, Return,
         ReserveSuper, VisitField, BuildTable, EvaluateAttribute, Symbol, AnalyzeMember,
         EndMember, AnalyzeQueued, EndQueued, Complete, vars, layout
  <2> QED BY <1>0, <2>1 DEF LayoutStep
<1> QED BY <1>1, <1>2, <1>3

(* A class that a step flags has had its base types looked at, and it was  *)
(* to be linked into a loop or required an analysis that failed.           *)
LEMMA StepFlags ==
  ASSUME TypedState, Frames, Callers, StackStep, NEW c \in flagged', c \notin flagged
  PROVE  /\ c \in Class /\ "BaseTypes" \in finished[c]
         /\ \/ ~Idle /\ Top.pass = "BaseTypes" /\ Top.on = c /\ Top.steps # <<>>
               /\ Head(Top.steps).op = "link" /\ c \in Chain(Head(Top.steps).on)
            \/ Top.must /\ ~Top.ok
<1>1. CASE \E g \in FrameType : Moves(g)
  <2>1. PICK g \in FrameType : Moves(g)
    BY <1>1
  <2>2. Fails(g)
    BY <2>1 DEF Moves, Skips, Begins, Ends, Goes
  <2>3. FrameOK(Top) /\ Len(stack) \in DOMAIN stack
    BY <2>1, TopOfMove DEF Moves
  <2>4. c = Top.on
    BY <2>2 DEF Fails
  <2>5. ~Idle
    BY <2>3, NothingIn DEF Idle
  <2> QED BY <2>2, <2>3, <2>4, <2>5 DEF Fails, FrameOK
<1>2. CASE \E g \in FrameType : Dropped(g) /\ ReturnsFailed(g)
  <2>1. PICK g \in FrameType : Dropped(g) /\ ReturnsFailed(g)
    BY <1>2
  <2>2. c = Caller.on /\ Caller.pass = "BaseTypes" /\ Top.must /\ ~Top.ok
    BY <2>1 DEF ReturnsFailed
  <2>3. FrameOK(Caller)
    BY <2>1, CallerFrame
  <2>4. c \in Class
    <3> QED BY <2>2, <2>3, BaseTypesOfClass
  <2> QED BY <2>2, <2>3, <2>4 DEF FrameOK
<1>3. CASE flagged' = flagged
  BY <1>3
<1> QED BY <1>1, <1>2, <1>3 DEF StackStep, Calls, ReturnsOk, Entered, Left

(* w has the elements of t and v.                                          *)
Longer(S, t, v, w) == w \in Seq(S) /\ Elems(w) = Elems(t) \cup {v}

(* A sequence with one more element at the end.                            *)
LEMMA AppendedElems ==
  ASSUME NEW S, NEW t \in Seq(S), NEW v \in S, NEW w, w = Append(t, v)
  PROVE  Longer(S, t, v, w)
<1>1. w \in Seq(S) /\ Len(w) = Len(t) + 1 /\ w[Len(t) + 1] = v /\ \A i \in 1 .. Len(t) : w[i] = t[i]
  BY AppendProperties
<1>2. DOMAIN w = 1 .. Len(t) + 1 /\ DOMAIN t = 1 .. Len(t) /\ Len(t) \in Nat
  BY <1>1, LenProperties
<1>n. PICK n : n = Len(t) OBVIOUS
<1>3. 1 .. n + 1 = (1 .. n) \cup {n + 1}
  BY <1>2, <1>n, OneMore
<1>4. Elems(w) = {w[i] : i \in (1 .. n) \cup {n + 1}}
  BY <1>2, <1>3, <1>n DEF Elems
<1>5. Elems(t) = {t[i] : i \in 1 .. n}
  BY <1>2, <1>n DEF Elems
<1> QED BY <1>1, <1>4, <1>5, <1>n DEF Longer

(* The links stay as they should be.                                       *)
LEMMA LinksKept ==
  ASSUME TypedState, Frames, Callers, RunningIs, Alone, Reported, StackStep, LayoutStep
  PROVE  Links'
<1>0. Grows /\ prog' = prog
  BY StepGrows DEF LayoutStep
<1>1. \A e \in Class : finished[e] \subseteq finished'[e]
  BY <1>0, OwnerOfClass DEF Grows, MarksGrow
<1>2. \A c \in Class : c \in flagged' => "BaseTypes" \in finished'[c]
  <2> SUFFICES ASSUME NEW c \in Class, c \in flagged' PROVE "BaseTypes" \in finished'[c]
    OBVIOUS
  <2>1. "BaseTypes" \in finished[c]
    BY StepFlags DEF TypedState, Steady, Links
  <2> QED BY <1>1, <2>1
<1>3. \A c \in Class : super'[c] # NoClass =>
        /\ super'[c] = prog.base[c] /\ super'[c] \in Class /\ "BaseTypes" \in finished[c]
        /\ "BaseTypes" \in finished[super'[c]] \/ flagged # {}
  <2>0. \A c \in Class : super[c] # NoClass =>
        /\ super[c] = prog.base[c] /\ super[c] \in Class /\ "BaseTypes" \in finished[c]
        /\ "BaseTypes" \in finished[super[c]] \/ flagged # {}
    BY DEF TypedState, Steady, Links
  <2>1. CASE super' = super
    BY <2>0, <2>1
  <2>2. CASE \E c, b \in Class : LinkStep(c, b)
    <3>1. PICK c, b \in Class : LinkStep(c, b)
      BY <2>2
    <3>2. super'[c] = b /\ \A e \in Class \ {c} : super'[e] = super[e]
      BY <3>1 DEF LinkStep, TypedState, Steady
    <3>3. b = prog.base[c] /\ "BaseTypes" \in finished[c] /\ ("BaseTypes" \in finished[b] \/ flagged # {})
      BY <3>1 DEF LinkStep
    <3> QED BY <2>0, <3>2, <3>3
  <2> QED BY <2>1, <2>2 DEF LayoutStep, PlaceStep
<1>4. ASSUME NEW c \in Class, super'[c] # NoClass
      PROVE  /\ super'[c] = prog'.base[c] /\ "BaseTypes" \in finished'[c]
             /\ "BaseTypes" \in finished'[super'[c]] \/ flagged' # {}
  <2>b. PICK b : b = super'[c] OBVIOUS
  <2>1. /\ b = prog.base[c] /\ b \in Class /\ "BaseTypes" \in finished[c]
        /\ "BaseTypes" \in finished[b] \/ flagged # {}
    BY <1>3, <1>4, <2>b
  <2>2. finished[b] \subseteq finished'[b] /\ finished[c] \subseteq finished'[c] /\ flagged \subseteq flagged'
    BY <1>0, <1>1, <2>1 DEF Grows, MarksGrow
  <2> QED BY <1>0, <2>b, <2>1, <2>2
<1> QED BY <1>2, <1>4 DEF Links

(* So does what the steps of passes depend on.                             *)
LEMMA SteadyKept ==
  ASSUME TypedState, Frames, Callers, RunningIs, Alone, Reported, StackStep, LayoutStep
  PROVE  Steady'
<1>1. Links' /\ prog' \in Programs
  BY LinksKept DEF LayoutStep, TypedState, Steady
<1>0. super \in [Class -> Class \cup {NoClass}] /\ placed \in [Class -> Seq(Var)]
      /\ \A c \in Class : Elems(placed[c]) \subseteq Elems(FieldsOf[c])
  BY DEF TypedState, Steady, PlacedOwn
<1>2. super' \in [Class -> Class \cup {NoClass}]
  <2>1. CASE super' = super
    BY <1>0, <2>1
  <2>2. CASE \E c, b \in Class : super' = [super EXCEPT ![c] = b]
    BY <1>0, <2>2
  <2> QED BY <2>1, <2>2 DEF LayoutStep, LinkStep, PlaceStep
<1>3. placed' \in [Class -> Seq(Var)] /\ \A c \in Class : Elems(placed'[c]) \subseteq Elems(FieldsOf[c])
  <2>1. CASE placed' = placed
    BY <1>0, <2>1
  <2>2. CASE \E c \in Class : \E v \in Elems(FieldsOf[c]) : PlaceStep(c, v)
    <3>1. PICK c \in Class : \E v \in Elems(FieldsOf[c]) : PlaceStep(c, v)
      BY <2>2
    <3>2. PICK v \in Elems(FieldsOf[c]) : PlaceStep(c, v)
      BY <3>1
    <3>w. PICK w : w = Append(placed[c], v) OBVIOUS
    <3>3. placed' = [placed EXCEPT ![c] = w]
      BY <3>2, <3>w DEF PlaceStep
    <3>4. w \in Seq(Var) /\ Elems(w) \subseteq Elems(FieldsOf[c])
      <4>t. PICK t : t = placed[c] OBVIOUS
      <4>1. t \in Seq(Var) /\ v \in Var /\ Elems(t) \subseteq Elems(FieldsOf[c]) /\ w = Append(t, v)
        BY <1>0, <3>w, <4>t, OwnerOfField
      <4>2. w \in Seq(Var) /\ Elems(w) = Elems(t) \cup {v}
        <5>S. PICK S : S = Var OBVIOUS
        <5>1. t \in Seq(S) /\ v \in S /\ w = Append(t, v)
          BY <4>1, <5>S
        <5>2. Longer(S, t, v, w)
          BY <5>1, AppendedElems
        <5> QED BY <5>2, <5>S DEF Longer
      <4> QED BY <4>1, <4>2
    <3>5. placed'[c] = w /\ \A e \in Class \ {c} : placed'[e] = placed[e]
      BY <1>0, <3>3
    <3>6. placed' \in [Class -> Seq(Var)]
      BY <1>0, <3>3, <3>4
    <3> QED BY <1>0, <3>4, <3>5, <3>6
  <2> QED BY <2>1, <2>2 DEF LayoutStep, LinkStep
<1> QED BY <1>1, <1>2, <1>3 DEF Steady, PlacedOwn

(* The stack is a sequence of frames after every step.                     *)
LEMMA StackTyped ==
  ASSUME TypedState, StackStep
  PROVE  stack' \in Seq(FrameType)
<1>0. stack \in Seq(FrameType)
  BY DEF TypedState
<1>1. CASE \E g \in FrameType : Moves(g)
  BY <1>1 DEF Moves, Retop
<1>2. CASE \E f, g \in FrameType : Pushed(f, g) /\ Calls(f, g)
  BY <1>2 DEF Pushed
<1>3. CASE Dropped(Caller) /\ ReturnsOk
  BY <1>3 DEF Dropped
<1>4. CASE \E g \in FrameType : Dropped(g) /\ ReturnsFailed(g)
  BY <1>4 DEF Dropped
<1>5. CASE \E g \in FrameType : Entered(g)
  BY <1>5 DEF Entered
<1>6. CASE Left
  <2>1. stack' = <<>>
    BY <1>6 DEF Left
  <2>2. <<>> \in Seq(FrameType)
    OBVIOUS
  <2> QED BY <2>1, <2>2
<1>7. CASE stack' = stack
  BY <1>0, <1>7
<1> QED BY <1>1, <1>2, <1>3, <1>4, <1>5, <1>6, <1>7 DEF StackStep

(* The state is what it should be after every step.                        *)
LEMMA TypedKept ==
  ASSUME TypedState, Frames, Callers, RunningIs, Alone, Reported, StackStep, LayoutStep
  PROVE  TypedState'
<1>1. Steady' /\ stack' \in Seq(FrameType)
  BY SteadyKept, StackTyped
<1>2. MarksTyped'
  BY StepGrows DEF Grows, MarksGrow
<1>3. flagged' \subseteq Class
  BY StepFlags DEF TypedState
<1> QED BY <1>1, <1>2, <1>3 DEF TypedState, MarksTyped

(* What the passes for base types depend on is seen to after every step.   *)
LEMMA BasedKept ==
  ASSUME TypedState, Frames, Callers, RunningIs, Alone, Reported, Based, StackStep, LayoutStep
  PROVE  Based'
<1>0. Grows /\ prog' = prog
  BY StepGrows DEF LayoutStep
<1> SUFFICES ASSUME NEW i, NEW c \in Class, At(i, c, "BaseTypes")', prog.base[c] # NoClass
             PROVE  Covers(i, prog.base[c], {"BaseTypes"})'
  BY <1>0 DEF Based
<1>b. PICK b : b = prog.base[c] OBVIOUS
<1>1. b \in Class /\ prog'.base[c] = b
  BY <1>0, <1>b, Named DEF TypedState, Steady
<1>2. Covers(i, b, {"BaseTypes"})'
  <2>1. CASE At(i, c, "BaseTypes")
    <3>1. Covers(i, b, {"BaseTypes"})
      BY <1>b, <2>1 DEF Based
    <3> QED BY <1>1, <2>1, <3>1, CoversKept
  <2>2. CASE \E g \in FrameType : /\ Moves(g) /\ Begins(g) /\ stack'[i] = g
                                  /\ g.on = c /\ g.pass = "BaseTypes" /\ Top.on = c
    <3>1. PICK g \in FrameType : /\ Moves(g) /\ Begins(g) /\ stack'[i] = g
                                 /\ g.on = c /\ g.pass = "BaseTypes" /\ Top.on = c
      BY <2>2
    <3>2. Asking(g.steps, b, "MemberLookup")
      BY <1>b, <3>1 DEF Begins, Meets
    <3>3. Asks(g, b, {"BaseTypes"})
      <4>1. {"BaseTypes"} \subseteq TaskPasses(b, "MemberLookup")
        BY <1>1, LookupTasks
      <4> QED BY <3>2, <4>1 DEF Asking, Asks
    <3> QED BY <3>1, <3>3, CoverAsks
  <2>3. "BaseTypes" # ""
    OBVIOUS
  <2>4. \/ At(i, c, "BaseTypes")
        \/ \E g \in FrameType : /\ Moves(g) /\ Begins(g) /\ i = Len(stack) /\ stack'[i] = g
                                /\ g.on = c /\ g.pass = "BaseTypes" /\ Top.on = c
    BY <2>3, PassesBegin
  <2> QED BY <2>1, <2>2, <2>4
<1> QED BY <1>1, <1>2 DEF Covers

-----------------------------------------------------------------------------
(* The module.                                                             *)

(* A symbol that is added is a definition.                                 *)
LEMMA AddTyped ==
  ASSUME ModuleTyped, NEW e, NEW d \in Defn, AddSymbol(e, d)
  PROVE  queue' \in Seq(Defn) /\ symbols' \subseteq Defn
<1>1. \/ symbols' = symbols \cup {d} /\ queue' = Append(queue, d)
      \/ UNCHANGED <<symbols, queue>>
  BY DEF AddSymbol
<1>2. queue \in Seq(Defn) /\ symbols \subseteq Defn
  BY DEF ModuleTyped
<1> QED BY <1>1, <1>2, AppendProperties

(* The only frame is the top.                                              *)
LEMMA LastTop ==
  ASSUME TypedState, Frames, Len(stack) = 1
  PROVE  Top \in FrameType /\ FrameOK(Top) /\ Top.on \in Defn /\ ~Idle /\ Top = stack[1]
<1>1. ~Idle
  BY DEF Idle
<1> QED BY <1>1, TopFrame, FrameFields DEF Top

(* The module's own state is what it should be after every step.           *)
LEMMA ModuleKept ==
  ASSUME TypedState, ModuleTyped, Frames, [Next]_vars
  PROVE  ModuleTyped'
<1>0. next \in Nat /\ next >= 1 /\ queue \in Seq(Defn) /\ symbols \subseteq Defn
  BY DEF ModuleTyped
<1>1. CASE Symbol
  <2>1. ~Idle /\ Top.steps # <<>> /\ AddSymbol(Top.on, Head(Top.steps).on) /\ next' = next
    BY <1>1 DEF Symbol, CanStep
  <2>2. Head(Top.steps).on \in Defn
    BY <2>1, TopStep DEF StepType
  <2>3. queue' \in Seq(Defn) /\ symbols' \subseteq Defn
    BY <2>1, <2>2, AddTyped
  <2> QED BY <1>0, <2>1, <2>3 DEF ModuleTyped
<1>2. CASE EndMember
  <2>1. Len(stack) = 1 /\ next' = next + 1 /\ (AddSymbol(Top.on, Top.on) \/ UNCHANGED <<symbols, queue>>)
    BY <1>2 DEF EndMember
  <2>2. queue' \in Seq(Defn) /\ symbols' \subseteq Defn
    BY <1>0, <2>1, LastTop, AddTyped
  <2>3. next' \in Nat /\ next' >= 1
    BY <1>0, <2>1
  <2> QED BY <2>2, <2>3 DEF ModuleTyped
<1>3. CASE AnalyzeQueued
  <2>1. queue # <<>> /\ queue' = Tail(queue) /\ UNCHANGED <<next, symbols>>
    BY <1>3 DEF AnalyzeQueued
  <2>2. queue' \in Seq(Defn)
    BY <1>0, <2>1, HeadTailProperties
  <2> QED BY <1>0, <2>1, <2>2 DEF ModuleTyped
<1>4. CASE ~Symbol /\ ~EndMember /\ ~AnalyzeQueued
  <2>1. UNCHANGED <<next, queue, symbols>>
    BY <1>4 DEF Next, Analyzer, Effects, ModuleSteps, SkipPass, BeginPass, FinishPass, Call, Return, LinkBase,
         ReserveSuper, VisitField, PlaceField, BuildTable, EvaluateAttribute, AnalyzeMember,
         EndQueued, Complete, vars
  <2> QED BY <1>0, <2>1 DEF ModuleTyped
<1> QED BY <1>1, <1>2, <1>3, <1>4

-----------------------------------------------------------------------------
(* The invariant.                                                          *)

(* The invariant that all the others rest on.                              *)
Core == TypedState /\ ModuleTyped /\ Frames /\ Callers /\ RunningIs /\ Alone /\ Reported /\ Based

(* It holds at the start.                                                  *)
LEMMA InitCore == Init => Core
<1> SUFFICES ASSUME Init PROVE Core
  OBVIOUS
<1>0. stack = <<>> /\ DOMAIN stack = {} /\ \A i, d, p : ~At(i, d, p)
  BY NothingIn DEF Init, At
<1>1. TypedState
  <2>1. super \in [Class -> Class \cup {NoClass}] /\ placed \in [Class -> Seq(Var)] /\ PlacedOwn
    <3>1. \A c \in Class : super[c] = NoClass /\ placed[c] = <<>>
      BY DEF Init
    <3>2. <<>> \in Seq(Var) /\ Elems(<<>>) = {}
      BY NoneIn
    <3>3. super = [c \in Class |-> NoClass] /\ placed = [c \in Class |-> <<>>]
      BY DEF Init
    <3> QED BY <3>1, <3>2, <3>3 DEF PlacedOwn
  <2>2. Links
    BY DEF Init, Links
  <2>3. <<>> \in Seq(FrameType)
    OBVIOUS
  <2>4. running \in [Defn -> SUBSET PassName] /\ finished \in [Defn -> SUBSET PassName] /\ flagged \subseteq Class
    BY DEF Init
  <2> QED BY <1>0, <2>1, <2>2, <2>3, <2>4 DEF TypedState, Steady, Init
<1>2. ModuleTyped
  <2>1. next = 1 /\ queue = <<>> /\ symbols = {}
    BY DEF Init
  <2>2. <<>> \in Seq(Defn)
    OBVIOUS
  <2> QED BY <2>1, <2>2 DEF ModuleTyped
<1>3. Frames /\ Callers
  BY <1>0 DEF Frames, Callers
<1>4. RunningIs /\ Alone /\ Reported /\ Based
  <2>1. \A d \in Defn : running[d] = {}
    BY DEF Init
  <2> QED BY <1>0, <2>1 DEF RunningIs, Alone, Reported, Stale, Based
<1> QED BY <1>1, <1>2, <1>3, <1>4 DEF Core

(* It holds after every step; and every step does to the analyzers and to  *)
(* the layout what was said.                                               *)
LEMMA NextCore == Core /\ [Next]_vars => Core' /\ StackStep /\ LayoutStep
<1> SUFFICES ASSUME Core, [Next]_vars PROVE Core' /\ StackStep /\ LayoutStep
  OBVIOUS
<1>0. TypedState /\ ModuleTyped /\ Frames /\ Callers /\ RunningIs /\ Alone /\ Reported /\ Based
  BY DEF Core
<1>1. StackStep
  BY <1>0, NextIs
<1>2. LayoutStep
  BY <1>0, NextLayout
<1>3. TypedState' /\ ModuleTyped'
  BY <1>0, <1>1, <1>2, TypedKept, ModuleKept
<1>4. Frames' /\ Callers'
  BY <1>0, <1>1, <1>2, StepFrames, StepCallers DEF LayoutStep
<1>5. RunningIs' /\ Alone' /\ Reported'
  BY <1>0, <1>1, StepRuns, StepReports
<1>6. Based'
  BY <1>0, <1>1, <1>2, BasedKept
<1> QED BY <1>1, <1>2, <1>3, <1>4, <1>5, <1>6 DEF Core

(* The stack of analyzers is well formed in every program: the state has   *)
(* its types; every frame has the passes of its definition's analyzer      *)
(* left, with the steps these have, in order; every frame but the top      *)
(* waits for the next; a pass that a frame is in is marked as running, and *)
(* no two frames are in it; the other marks were left by an error that is  *)
(* reported; and the base of a class is seen to while its base types are   *)
(* looked at.                                                              *)
THEOREM CoreInvariant == Spec => []Core
<1>1. Init => Core
  BY InitCore
<1>2. Core /\ [Next]_vars => Core'
  BY NextCore
<1> QED BY <1>1, <1>2, PTL DEF Spec

(* A pass is marked as running while an analyzer is in it.  After that it  *)
(* stays marked only where a class or a variable was given up after an     *)
(* error (the early returns of its passes for attributes and constructors: *)
(* a later request takes it for a pass in progress and skips it), and only *)
(* if a class is reported; the passes of functions never do.               *)
THEOREM OnlyErrorsLeavePasses == Spec => []OnlyErrorsAbandonPasses
<1>1. Core => OnlyErrorsAbandonPasses
  BY RunningMeans DEF Core
<1> QED BY <1>1, CoreInvariant, PTL

-----------------------------------------------------------------------------
(* What can be reached.                                                    *)

(* S has all that its elements lead to.                                    *)
ClosedUnder(S, to) == \A a \in S : to[a] \subseteq S

(* R is the least set that has c and is so closed.                         *)
Least(R, c, to) ==
  /\ c \in R /\ R \subseteq Class /\ ClosedUnder(R, to)
  /\ \A S \in SUBSET Class : (c \in S /\ ClosedUnder(S, to)) => R \subseteq S

(* Reach() is the least set that is closed.                                *)
LEMMA ReachIsLeast ==
  ASSUME NEW c \in Class, NEW to, \A a \in Class : to[a] \subseteq Class
  PROVE  Least(Reach(c, to), c, to)
<1> DEFINE Closed == {S \in SUBSET Class : c \in S /\ \A a \in S : to[a] \subseteq S}
           R == {a \in Class : \A S \in Closed : a \in S}
<1>0. Reach(c, to) = R
  BY DEF Reach
<1>1. c \in R /\ R \subseteq Class
  OBVIOUS
<1>2. ClosedUnder(R, to)
  <2> SUFFICES ASSUME NEW a \in R, NEW x \in to[a], NEW S \in Closed PROVE x \in Class /\ x \in S
    BY DEF ClosedUnder
  <2> QED OBVIOUS
<1>3. \A S \in SUBSET Class : (c \in S /\ ClosedUnder(S, to)) => R \subseteq S
  BY DEF ClosedUnder
<1> HIDE DEF R
<1> QED BY <1>0, <1>1, <1>2, <1>3 DEF Least

(* The classes above a class, by the links or by the declarations.         *)
Up(up) == [a \in Class |-> {up[a]} \ {NoClass}]

(* c and those above it.                                                   *)
Above(c, up) == Reach(c, Up(up))

(* S has what is above its elements.                                       *)
Highest(S, up) == \A a \in S : up[a] # NoClass => up[a] \in S

(* R is the least such set with c.                                         *)
IsAbove(R, c, up) ==
  /\ c \in R /\ R \subseteq Class /\ Highest(R, up)
  /\ \A S \in SUBSET Class : (c \in S /\ Highest(S, up)) => R \subseteq S

(* Above() is.                                                             *)
LEMMA AboveIs ==
  ASSUME NEW up \in [Class -> Class \cup {NoClass}], NEW c \in Class
  PROVE  IsAbove(Above(c, up), c, up)
<1>1. \A a \in Class : Up(up)[a] \subseteq Class
  BY DEF Up
<1>t. PICK to : to = Up(up) OBVIOUS
<1>2. Least(Reach(c, to), c, to)
  BY <1>1, <1>t, ReachIsLeast
<1>3. \A S \in SUBSET Class : ClosedUnder(S, to) <=> Highest(S, up)
  <2> SUFFICES ASSUME NEW S \in SUBSET Class PROVE ClosedUnder(S, to) <=> Highest(S, up)
    OBVIOUS
  <2>1. \A a \in S : to[a] = {up[a]} \ {NoClass}
    BY <1>t DEF Up
  <2> QED BY <2>1 DEF ClosedUnder, Highest
<1>R. PICK R : R = Reach(c, to) OBVIOUS
<1>4. IsAbove(R, c, up)
  <2>1. c \in R /\ R \subseteq Class /\ ClosedUnder(R, to)
        /\ \A S \in SUBSET Class : (c \in S /\ ClosedUnder(S, to)) => R \subseteq S
    BY <1>2, <1>R DEF Least
  <2> QED BY <1>3, <2>1 DEF IsAbove
<1> QED BY <1>4, <1>R, <1>t DEF Above

(* What is above a class above c is above c.                               *)
LEMMA AboveAbove ==
  ASSUME NEW up \in [Class -> Class \cup {NoClass}], NEW c \in Class, NEW a \in Above(c, up)
  PROVE  Above(a, up) \subseteq Above(c, up) /\ a \in Class
<1>1. IsAbove(Above(c, up), c, up)
  BY AboveIs
<1>2. a \in Class
  BY <1>1 DEF IsAbove
<1>3. IsAbove(Above(a, up), a, up)
  BY <1>2, AboveIs
<1> QED BY <1>1, <1>2, <1>3 DEF IsAbove

(* No class is above itself.                                               *)
NoLoop(up) == \A e \in Class : up[e] # NoClass => e \notin Above(up[e], up)

(* A link to a class that is not below the one that is linked closes no    *)
(* loop.                                                                   *)
LEMMA LinkClosesNoLoop ==
  ASSUME NEW up \in [Class -> Class \cup {NoClass}], NoLoop(up),
         NEW c \in Class, NEW b \in Class, up[c] = NoClass, c \notin Above(b, up),
         NEW new, new = [up EXCEPT ![c] = b]
  PROVE  NoLoop(new)
<1>0. new \in [Class -> Class \cup {NoClass}] /\ new[c] = b /\ \A e \in Class \ {c} : new[e] = up[e]
  OBVIOUS
<1>b. b \in Above(b, up) /\ Above(b, up) \subseteq Class /\ Highest(Above(b, up), up)
  BY AboveIs DEF IsAbove
<1>1. \A x \in Class : Above(x, new) \subseteq Above(x, up) \cup Above(b, up)
  <2> SUFFICES ASSUME NEW x \in Class PROVE Above(x, new) \subseteq Above(x, up) \cup Above(b, up)
    OBVIOUS
  <2>S. PICK S : S = Above(x, up) \cup Above(b, up) OBVIOUS
  <2>1. x \in Above(x, up) /\ Above(x, up) \subseteq Class /\ Highest(Above(x, up), up)
    BY AboveIs DEF IsAbove
  <2>2. S \in SUBSET Class /\ x \in S
    BY <1>b, <2>1, <2>S
  <2>3. Highest(S, new)
    <3> SUFFICES ASSUME NEW a \in S, new[a] # NoClass PROVE new[a] \in S
      BY DEF Highest
    <3> QED BY <1>0, <1>b, <2>1, <2>2, <2>S DEF Highest
  <2>4. IsAbove(Above(x, new), x, new)
    BY <1>0, AboveIs
  <2> QED BY <2>2, <2>3, <2>4, <2>S DEF IsAbove
<1>2. \A x \in Class : c \notin Above(x, up) => Above(x, new) \subseteq Above(x, up)
  <2> SUFFICES ASSUME NEW x \in Class, c \notin Above(x, up) PROVE Above(x, new) \subseteq Above(x, up)
    OBVIOUS
  <2>1. x \in Above(x, up) /\ Above(x, up) \subseteq Class /\ Highest(Above(x, up), up)
    BY AboveIs DEF IsAbove
  <2>3. Highest(Above(x, up), new)
    BY <1>0, <2>1 DEF Highest
  <2>4. IsAbove(Above(x, new), x, new)
    BY <1>0, AboveIs
  <2> QED BY <2>1, <2>3, <2>4 DEF IsAbove
<1> SUFFICES ASSUME NEW e \in Class, new[e] # NoClass PROVE e \notin Above(new[e], new)
  BY DEF NoLoop
<1>3. CASE e = c
  BY <1>0, <1>2, <1>3
<1>4. CASE e # c
  <2>x. PICK x : x = up[e] OBVIOUS
  <2>1. new[e] = x /\ x \in Class /\ e \notin Above(x, up)
    BY <1>0, <1>4, <2>x DEF NoLoop
  <2>2. CASE c \notin Above(x, up)
    BY <1>2, <2>1, <2>2
  <2>3. CASE c \in Above(x, up)
    <3> SUFFICES ASSUME e \in Above(b, up) PROVE FALSE
      BY <1>1, <2>1
    <3>1. x \in Above(b, up)
      BY <1>b, <2>1, <2>x DEF Highest
    <3>2. Above(x, up) \subseteq Above(b, up)
      BY <3>1, AboveAbove
    <3> QED BY <2>3, <3>2
  <2> QED BY <2>2, <2>3
<1> QED BY <1>3, <1>4

-----------------------------------------------------------------------------
(* The loops of the bases.                                                 *)

(* The chain of a class is what is above it by the links.                  *)
LEMMA ChainIs == \A c : Chain(c) = Above(c, super)
BY DEF Chain, Above, Up

(* What is declared above a class is above its base.                       *)
LEMMA DeclaredIs ==
  ASSUME NEW c
  PROVE  Declared(c) = IF prog.base[c] = NoClass THEN {} ELSE Above(prog.base[c], prog.base)
BY DEF Declared, Above, Up

(* The links have no loop after a step.                                    *)
LEMMA AcyclicKept ==
  ASSUME TypedState, NoLoop(super), LayoutStep
  PROVE  NoLoop(super)'
<1>0. super \in [Class -> Class \cup {NoClass}]
  BY DEF TypedState, Steady
<1>1. CASE super' = super
  BY <1>1 DEF NoLoop, Above, Up
<1>2. CASE \E c, b \in Class : LinkStep(c, b)
  <2>1. PICK c, b \in Class : LinkStep(c, b)
    BY <1>2
  <2>u. PICK up : up = super OBVIOUS
  <2>n. PICK new : new = super' OBVIOUS
  <2>2. c \notin Above(b, up) /\ new = [up EXCEPT ![c] = b] /\ b = prog.base[c]
    BY <2>1, <2>u, <2>n, ChainIs DEF LinkStep
  <2>3. up \in [Class -> Class \cup {NoClass}] /\ NoLoop(up)
    BY <1>0, <2>u
  <2>4. CASE up[c] = NoClass
    <3>1. NoLoop(new)
      BY <2>2, <2>3, <2>4, LinkClosesNoLoop
    <3> QED BY <3>1, <2>n DEF NoLoop, Above, Up
  <2>5. CASE up[c] # NoClass
    <3>1. up[c] = b
      BY <2>2, <2>5, <2>u DEF TypedState, Steady, Links
    <3>2. new = up
      BY <2>2, <2>3, <3>1
    <3>3. NoLoop(new)
      BY <2>3, <3>2
    <3> QED BY <3>3, <2>n DEF NoLoop, Above, Up
  <2> QED BY <2>4, <2>5
<1> QED BY <1>1, <1>2 DEF LayoutStep, PlaceStep

(* What is linked above a class is declared above it.                      *)
LEMMA LinkedIsDeclared ==
  ASSUME TypedState, NEW b \in Class
  PROVE  Chain(b) \subseteq Above(b, prog.base)
<1>u. PICK up : up = super OBVIOUS
<1>v. PICK base : base = prog.base OBVIOUS
<1>0. up \in [Class -> Class \cup {NoClass}] /\ base \in [Class -> Class \cup {NoClass}]
  BY <1>u, <1>v, ProgramAssumption DEF TypedState, Steady
<1>1. \A a \in Class : up[a] # NoClass => up[a] = base[a]
  BY <1>u, <1>v DEF TypedState, Steady, Links
<1>2. IsAbove(Above(b, up), b, up) /\ IsAbove(Above(b, base), b, base)
  BY <1>0, AboveIs
<1>3. Highest(Above(b, base), up)
  BY <1>1, <1>2 DEF IsAbove, Highest
<1>4. Above(b, up) \subseteq Above(b, base)
  BY <1>2, <1>3 DEF IsAbove
<1> QED BY <1>4, <1>u, <1>v, ChainIs

(* A class whose base types were looked at is declared above itself.       *)
Circular == \E c \in Class : "BaseTypes" \in finished[c] /\ c \in Declared(c)

(* Classes are flagged only in a program that has such a class.            *)
FlaggedForCause == flagged # {} => Circular

(* The first class is flagged because its bases form a loop; the others    *)
(* because of that one.                                                    *)
LEMMA FirstFlag ==
  ASSUME TypedState, Frames, Callers, RunningIs, Alone, Reported, StackStep, flagged = {},
         flagged' # {}
  PROVE  Circular
<1>1. PICK c : c \in flagged'
  OBVIOUS
<1>2. CASE \E g \in FrameType : Dropped(g) /\ ReturnsFailed(g)
  BY <1>2, FailureIsFlagged
<1>3. CASE \E g \in FrameType : Moves(g)
  <2>1. PICK g \in FrameType : Moves(g)
    BY <1>3
  <2>f. PICK f : f = Top OBVIOUS
  <2>2. Fails(g)
    BY <2>1 DEF Moves, Skips, Begins, Ends, Goes
  <2>3. FrameOK(f) /\ Len(stack) \in DOMAIN stack
    BY <2>1, <2>f, TopOfMove DEF Moves
  <2>5. ~Idle
    BY <2>3, NothingIn DEF Idle
  <2>s. PICK s : s = Head(f.steps) OBVIOUS
  <2>b. PICK b : b = s.on OBVIOUS
  <2>6. f.on \in Class /\ f.pass = "BaseTypes" /\ f.steps # <<>> /\ s.op = "link" /\ f.on \in Chain(b)
    BY <2>2, <2>f, <2>s, <2>b DEF Fails
  <2>7. StepOK(f.on, f.pass, s) /\ s \in StepType
    BY <2>5, <2>6, <2>f, <2>s, TopStep
  <2>8. b = prog.base[f.on] /\ b \in Defn
    BY <2>6, <2>7, <2>b DEF StepOK, StepType
  <2>9. b \in Class /\ b # NoClass
    <3>1. b \in Class \cup {NoClass}
      BY <2>6, <2>8, Named DEF TypedState, Steady
    <3>2. NoClass \notin Defn
      BY ProgramAssumption
    <3> QED BY <2>8, <3>1, <3>2
  <2>10. f.on \in Above(b, prog.base)
    BY <2>6, <2>9, LinkedIsDeclared
  <2>11. f.on \in Declared(f.on)
    BY <2>8, <2>9, <2>10, DeclaredIs
  <2>12. "BaseTypes" \in finished[f.on]
    BY <2>3, <2>6 DEF FrameOK
  <2> QED BY <2>6, <2>11, <2>12 DEF Circular
<1>4. CASE flagged' = flagged
  BY <1>4
<1> QED BY <1>2, <1>3, <1>4 DEF StackStep, Calls, ReturnsOk, Entered, Left

(* There is a cause for the flags after every step.                        *)
LEMMA CauseKept ==
  ASSUME TypedState, Frames, Callers, RunningIs, Alone, Reported, FlaggedForCause, StackStep,
         LayoutStep
  PROVE  FlaggedForCause'
<1> SUFFICES ASSUME flagged' # {} PROVE Circular'
  BY DEF FlaggedForCause
<1>1. Circular
  BY FirstFlag DEF FlaggedForCause
<1>2. Grows /\ prog' = prog
  BY StepGrows DEF LayoutStep
<1>3. \A c \in Class : finished[c] \subseteq finished'[c]
  BY <1>2, OwnerOfClass DEF Grows, MarksGrow
<1>4. PICK c \in Class : "BaseTypes" \in finished[c] /\ c \in Declared(c)
  BY <1>1 DEF Circular
<1>5. c \in Declared(c)'
  BY <1>2, <1>4 DEF Declared, Reach
<1> QED BY <1>3, <1>4, <1>5 DEF Circular

-----------------------------------------------------------------------------
(* The base types that are resolved.                                       *)

(* The frame at i has still to link c to its base.                         *)
LinkingAt(i, c) == At(i, c, "BaseTypes") /\ \E s \in Elems(stack[i].steps) : s.op = "link"

(* A class whose base types were looked at is linked to its base, or is    *)
(* still to be linked, unless there is an error.                           *)
Resolved == \A c \in Class : "BaseTypes" \in finished[c] =>
              super[c] = prog.base[c] \/ flagged # {} \/ \E i : LinkingAt(i, c)

(* The link of a base is the only step that an analyzer with that next can *)
(* take.                                                                   *)
LEMMA OnlyLinks ==
  ASSUME Next, ~Idle, Len(stack) \in Nat \ {0}, Top.pass # "", Top.steps # <<>>, Head(Top.steps).op = "link"
  PROVE  LinkBase
<1>1. Next => LinkBase \/ \E op \in {"analyze", "reserve", "field", "place", "table", "evaluate", "symbol"} : CanStep(op)
              \/ Top.pass = "" \/ Top.steps = <<>> \/ Idle
  BY DEF Next, Analyzer, Effects, ModuleSteps, SkipPass, BeginPass, FinishPass, Call, Return,
         ReserveSuper, VisitField, PlaceField, BuildTable, EvaluateAttribute, Symbol, AnalyzeMember,
         EndMember, AnalyzeQueued, EndQueued, Complete
<1> QED BY <1>1 DEF CanStep

(* The link that an analyzer comes to is made, or the class is flagged.    *)
LEMMA LinkIsMade ==
  ASSUME TypedState, Frames, Next, NEW c \in Class, NEW i, i = Len(stack), At(i, c, "BaseTypes"),
         stack[i].steps # <<>>, Head(stack[i].steps).op = "link"
  PROVE  super'[c] = prog.base[c] \/ flagged' # {}
<1>0. i \in DOMAIN stack /\ stack[i].on = c /\ stack[i].pass = "BaseTypes"
  BY DEF At
<1>1. ~Idle
  BY <1>0, NothingIn DEF Idle
<1>f. PICK f : f = Top OBVIOUS
<1>2. f = stack[i] /\ Len(stack) \in Nat \ {0}
  BY <1>1, <1>f, TopFrame
<1>3. f.pass = "BaseTypes" /\ f.steps # <<>> /\ Head(f.steps).op = "link" /\ f.on = c
  BY <1>0, <1>2
<1>4. LinkBase
  BY <1>1, <1>2, <1>3, <1>f, OnlyLinks
<1>5. StepOK(f.on, f.pass, Head(f.steps))
  BY <1>1, <1>3, <1>f, TopStep
<1>6. Head(f.steps).on = prog.base[c]
  BY <1>3, <1>5 DEF StepOK
<1>7. super \in [Class -> Class \cup {NoClass}]
  BY DEF TypedState, Steady
<1>8. CASE c \in Chain(Head(f.steps).on)
  BY <1>3, <1>4, <1>8, <1>f DEF LinkBase
<1>9. CASE c \notin Chain(Head(f.steps).on)
  <2>1. super' = [super EXCEPT ![c] = prog.base[c]]
    BY <1>3, <1>4, <1>6, <1>9, <1>f DEF LinkBase
  <2> QED BY <1>7, <2>1
<1> QED BY <1>8, <1>9

(* A frame that has still to link, by its place.                           *)
LEMMA LinkingTop ==
  ASSUME NEW i, NEW c, NEW g, i \in DOMAIN stack', stack'[i] = g, g.on = c, g.pass = "BaseTypes",
         \E s \in Elems(g.steps) : s.op = "link"
  PROVE  LinkingAt(i, c)'
BY DEF LinkingAt, At

(* A class that is to be linked stays so until it is linked or flagged.    *)
LEMMA LinkingKept ==
  ASSUME TypedState, Frames, Callers, RunningIs, Alone, Reported, StackStep, Next,
         NEW c \in Class, NEW i, LinkingAt(i, c)
  PROVE  super'[c] = prog.base[c] \/ flagged' # {} \/ LinkingAt(i, c)'
<1>f. PICK f : f = stack[i] OBVIOUS
<1>n. PICK n : n = Len(stack) OBVIOUS
<1>0. /\ i \in DOMAIN stack /\ At(i, c, "BaseTypes") /\ f.on = c /\ f.pass = "BaseTypes"
      /\ \E s \in Elems(f.steps) : s.op = "link"
      /\ DOMAIN stack = 1 .. n /\ n \in Nat /\ (i = n \/ i \in 1 .. n - 1)
  <2>1. /\ i \in DOMAIN stack /\ At(i, c, "BaseTypes") /\ f.on = c /\ f.pass = "BaseTypes"
        /\ \E s \in Elems(f.steps) : s.op = "link"
    BY <1>f DEF LinkingAt, At
  <2>2. DOMAIN stack = 1 .. n /\ n \in Nat
    BY <1>n, LenProperties DEF TypedState
  <2>3. i \in 1 .. n => (i = n \/ i \in 1 .. n - 1)
    BY <2>2, LastOrBefore
  <2> QED BY <2>1, <2>2, <2>3
<1>s. PICK s \in Elems(f.steps) : s.op = "link"
  BY <1>0
<1>a. /\ f.steps # <<>> /\ Elems(f.steps) = {Head(f.steps)} \cup Elems(Tail(f.steps))
  <2>1. FrameOK(f) /\ f.steps # <<>>
    BY <1>0, <1>f, NoneIn DEF Frames
  <2> QED BY <2>1, StepsLeft DEF FrameOK
<1>h. CASE i = n /\ Head(f.steps).op = "link"
  BY <1>0, <1>a, <1>f, <1>h, <1>n, LinkIsMade
<1>t. CASE ~(i = n /\ Head(f.steps).op = "link")
  <2>s. i = n => s \in Elems(Tail(f.steps))
    BY <1>a, <1>s, <1>t
  <2>9. CASE i \in DOMAIN stack' /\ stack'[i] = f
    BY <1>0, <2>9, LinkingTop
  <2>1. CASE \E g \in FrameType : Moves(g)
    <3>1. PICK g \in FrameType : Moves(g)
      BY <2>1
    <3>2. DOMAIN stack' = DOMAIN stack /\ stack'[n] = g /\ (i \in 1 .. n - 1 => stack'[i] = f)
      BY <1>f, <1>n, <3>1 DEF Moves, Retop
    <3>3. CASE i = n
      <4>1. f = Top
        BY <1>f, <1>n, <3>3 DEF Top
      <4>2. Goes(g)
        BY <1>0, <1>a, <1>t, <3>1, <3>3, <4>1 DEF Moves, Skips, Begins, Ends, Fails
      <4>3. g.on = c /\ g.pass = "BaseTypes" /\ s \in Elems(g.steps)
        BY <1>0, <2>s, <3>3, <4>1, <4>2 DEF Goes, Same
      <4> QED BY <1>0, <1>s, <3>2, <3>3, <4>3, LinkingTop
    <3> QED BY <1>0, <2>9, <3>2, <3>3
  <2>2. CASE \E u, g \in FrameType : Pushed(u, g) /\ Calls(u, g)
    <3>1. PICK u, g \in FrameType : Pushed(u, g) /\ Calls(u, g)
      BY <2>2
    <3>2. /\ stack'[n] = u /\ DOMAIN stack' = 1 .. n + 1
          /\ i \in 1 .. n - 1 => stack'[i] = f
      BY <1>f, <1>n, <3>1 DEF Pushed
    <3>4. i \in DOMAIN stack'
      BY <1>0, <3>2, WithinMore
    <3>3. CASE i = n
      <4>1. f = Top
        BY <1>f, <1>n, <3>3 DEF Top
      <4>2. u.on = c /\ u.pass = "BaseTypes" /\ u.steps = Tail(f.steps)
        BY <1>0, <3>1, <4>1 DEF Calls, Same
      <4> QED BY <1>s, <2>s, <3>2, <3>3, <3>4, <4>2, LinkingTop
    <3> QED BY <1>0, <2>9, <3>2, <3>3, <3>4
  <2>3. CASE \E g : Dropped(g) /\ ((g = Caller /\ ReturnsOk) \/ ReturnsFailed(g))
    <3>1. PICK g : Dropped(g) /\ ((g = Caller /\ ReturnsOk) \/ ReturnsFailed(g))
      BY <2>3
    <3>2. i # n
      <4>1. Top.pass = ""
        BY <3>1 DEF ReturnsOk, ReturnsFailed
      <4> QED BY <1>0, <1>f, <1>n, <4>1 DEF Top
    <3>3. DOMAIN stack' = 1 .. n - 1 /\ stack'[n - 1] = g /\ \A j \in 1 .. n - 2 : stack'[j] = stack[j]
      BY <1>n, <3>1 DEF Dropped
    <3>4. n > 1
      BY <1>n, <3>1 DEF Dropped
    <3>5. i = n - 1 \/ i \in 1 .. n - 2
      BY <1>0, <3>2, <3>4, LastButOne
    <3>6. CASE i = n - 1
      <4>1. f = Caller
        BY <1>f, <1>n, <3>6 DEF Caller
      <4>2. CASE ReturnsOk /\ g = Caller
        BY <1>0, <2>9, <3>2, <3>3, <3>6, <4>1, <4>2
      <4>3. CASE ReturnsFailed(g)
        <5>1. flagged' = flagged \cup {Caller.on}
          BY <1>0, <4>1, <4>3 DEF ReturnsFailed
        <5> QED BY <5>1
      <4> QED BY <3>1, <4>2, <4>3
    <3>7. CASE i # n - 1
      BY <1>0, <1>f, <2>9, <3>2, <3>3, <3>5, <3>7
    <3> QED BY <3>6, <3>7
  <2>4. CASE \E g \in FrameType : Entered(g)
    BY <1>0, <2>4, NothingIn DEF Entered
  <2>5. CASE Left
    <3>1. n = 1 /\ Top.pass = ""
      BY <1>n, <2>5 DEF Left
    <3>2. \A j \in 1 .. 1 - 1 : FALSE
      OBVIOUS
    <3>3. i = n
      BY <1>0, <3>1, <3>2
    <3> QED BY <1>0, <1>f, <1>n, <3>1, <3>3 DEF Top
  <2>6. CASE UNCHANGED <<stack, running, finished, flagged>>
    BY <1>0, <1>f, <2>6, <2>9
  <2> QED BY <2>1, <2>2, <2>3, <2>4, <2>5, <2>6 DEF StackStep
<1> QED BY <1>h, <1>t

(* The base types of a class are marked as finished when their pass        *)
(* begins.                                                                 *)
LEMMA MarkedEarly ==
  ASSUME TypedState, Frames, Callers, RunningIs, Alone, Reported, StackStep, NEW c \in Class,
         "BaseTypes" \in finished'[c], "BaseTypes" \notin finished[c]
  PROVE  \E g \in FrameType : Moves(g) /\ Begins(g) /\ Top.on = c /\ g.pass = "BaseTypes"
<1>m. MarksTyped
  BY DEF TypedState, MarksTyped
<1>0. ~(UNCHANGED <<running, finished>>)
  OBVIOUS
<1>b. \A d, p : Finish(d, p) => d = c /\ p = "BaseTypes"
  <2> SUFFICES ASSUME NEW d, NEW p, Finish(d, p) PROVE d = c /\ p = "BaseTypes"
    OBVIOUS
  <2>1. finished' = [finished EXCEPT ![d] = @ \cup {p}] /\ c \in DOMAIN finished
    BY <1>m, OwnerOfClass DEF Finish, MarksTyped
  <2> QED BY <2>1
<1>1. CASE \E g \in FrameType : Moves(g)
  <2>1. PICK g \in FrameType : Moves(g)
    BY <1>1
  <2>2. FrameOK(Top)
    BY <2>1, TopOfMove DEF Moves
  <2>3. CASE Begins(g)
    <3>1. Finish(Top.on, g.pass)
      BY <2>3 DEF Begins
    <3> QED BY <1>b, <2>1, <2>3, <3>1
  <2>4. CASE Ends(g)
    <3>1. Finish(Top.on, Top.pass)
      BY <1>0, <2>4 DEF Ends
    <3>2. Top.on = c /\ Top.pass = "BaseTypes"
      BY <1>b, <3>1
    <3> QED BY <2>2, <3>2 DEF FrameOK
  <2> QED BY <1>0, <2>1, <2>3, <2>4 DEF Moves, Skips, Goes, Fails
<1>2. CASE \E g \in FrameType : Dropped(g) /\ ReturnsFailed(g)
  <2>1. PICK g \in FrameType : Dropped(g) /\ ReturnsFailed(g)
    BY <1>2
  <2>2. FrameOK(Caller)
    BY <2>1, CallerFrame
  <2>3. Finish(Caller.on, Caller.pass)
    BY <1>0, <2>1, FailingCaller
  <2>4. Caller.on = c /\ Caller.pass = "BaseTypes"
    BY <1>b, <2>3
  <2> QED BY <2>2, <2>4 DEF FrameOK
<1> QED BY <1>0, <1>1, <1>2 DEF StackStep, Calls, ReturnsOk, Entered, Left

(* Base types are resolved, or still to be, after every step.              *)
LEMMA ResolvedKept ==
  ASSUME TypedState, Frames, Callers, RunningIs, Alone, Reported, Resolved, StackStep,
         LayoutStep, Next
  PROVE  Resolved'
<1>0. Grows /\ prog' = prog /\ flagged \subseteq flagged'
  BY StepGrows DEF LayoutStep, Grows, MarksGrow
<1> SUFFICES ASSUME NEW c \in Class, "BaseTypes" \in finished'[c], flagged' = {}
             PROVE  super'[c] = prog.base[c] \/ \E i : LinkingAt(i, c)'
  BY <1>0 DEF Resolved
<1>1. CASE "BaseTypes" \in finished[c] /\ super[c] = prog.base[c]
  <2>1. super \in [Class -> Class \cup {NoClass}]
    BY DEF TypedState, Steady
  <2>2. super' = super \/ \E e \in Class : super' = [super EXCEPT ![e] = prog.base[e]]
    BY DEF LayoutStep, LinkStep, PlaceStep
  <2> QED BY <1>1, <2>1, <2>2
<1>2. CASE \E i : LinkingAt(i, c)
  <2>1. PICK i : LinkingAt(i, c)
    BY <1>2
  <2>2. super'[c] = prog.base[c] \/ flagged' # {} \/ LinkingAt(i, c)'
    BY <2>1, LinkingKept
  <2> QED BY <2>2
<1>3. CASE "BaseTypes" \notin finished[c]
  <2>1. PICK g \in FrameType : Moves(g) /\ Begins(g) /\ Top.on = c /\ g.pass = "BaseTypes"
    BY <1>3, MarkedEarly
  <2>2. CASE prog.base[c] = NoClass
    <3>1. Links'
      BY LinksKept
    <3> QED BY <1>0, <2>2, <3>1 DEF Links
  <2>3. CASE prog.base[c] # NoClass
    <3>1. g.on = c /\ \E s \in Elems(g.steps) : s.op = "link"
      BY <2>1, <2>3 DEF Begins, Meets, Same
    <3>n. PICK n : n = Len(stack) OBVIOUS
    <3>2. n \in DOMAIN stack' /\ stack'[n] = g
      <4>1. DOMAIN stack' = 1 .. n /\ n \in Nat \ {0} /\ stack'[n] = g
        BY <2>1, <3>n DEF Moves, Retop
      <4> QED BY <4>1
    <3>3. LinkingAt(n, c)'
      BY <2>1, <3>1, <3>2, LinkingTop
    <3> QED BY <3>3
  <2> QED BY <2>2, <2>3
<1> QED BY <1>0, <1>1, <1>2, <1>3 DEF Resolved

-----------------------------------------------------------------------------
(* The end.                                                                *)

(* When the module is done, no analyzer runs and no symbol waits.          *)
Ended == done => stack = <<>> /\ next > Len(prog.order) /\ queue = <<>>

(* That stays so.                                                          *)
LEMMA EndedKept == ModuleTyped /\ Ended /\ [Next]_vars => Ended'
<1> SUFFICES ASSUME ModuleTyped, Ended, [Next]_vars PROVE Ended'
  OBVIOUS
<1>1. CASE UNCHANGED vars
  BY <1>1 DEF Ended, vars, analysis
<1>2. CASE Complete
  BY <1>2 DEF Complete, Ended, Idle, analysis
<1>3. CASE Next /\ ~Complete
  <2>1. done' = done
    BY <1>3 DEF Next, Analyzer, Effects, ModuleSteps, SkipPass, BeginPass, FinishPass, Call, Return, LinkBase,
         ReserveSuper, VisitField, PlaceField, BuildTable, EvaluateAttribute, Symbol, AnalyzeMember,
         EndMember, AnalyzeQueued, EndQueued, layout
  <2>2. ~Idle \/ AnalyzeMember \/ AnalyzeQueued \/ Len(stack) > 1 \/ Len(stack) = 1
      BY <1>3 DEF Next, Analyzer, Effects, ModuleSteps, SkipPass, BeginPass, FinishPass, Call, Return, LinkBase,
         ReserveSuper, VisitField, PlaceField, BuildTable, EvaluateAttribute, Symbol, CanStep,
         EndMember, EndQueued
  <2>3. ASSUME done PROVE FALSE
    <3>1. stack = <<>> /\ next > Len(prog.order) /\ queue = <<>>
      BY <2>3 DEF Ended
    <3>2. Idle /\ Len(stack) = 0
      BY <3>1 DEF Idle
    <3>3. AnalyzeMember \/ AnalyzeQueued
      BY <2>2, <3>2
    <3>4. ~AnalyzeQueued
      BY <3>1 DEF AnalyzeQueued
    <3>5. next <= Len(prog.order)
      BY <3>3, <3>4 DEF AnalyzeMember
    <3>6. next \in Nat
      BY DEF ModuleTyped
    <3> QED BY <3>1, <3>5, <3>6
  <2> QED BY <2>1, <2>3 DEF Ended
<1> QED BY <1>1, <1>2, <1>3

-----------------------------------------------------------------------------
(* Circular bases.                                                         *)

(* The invariant for the bases.                                            *)
Inheritance == Core /\ NoLoop(super) /\ FlaggedForCause /\ Resolved /\ Ended

(* It holds after every step.                                              *)
LEMMA InheritanceKept == Inheritance /\ [Next]_vars => Inheritance'
<1> SUFFICES ASSUME Inheritance, [Next]_vars PROVE Inheritance'
  OBVIOUS
<1>0. /\ Core' /\ StackStep /\ LayoutStep /\ TypedState /\ ModuleTyped /\ Frames /\ Callers
      /\ RunningIs /\ Alone /\ Reported /\ NoLoop(super) /\ FlaggedForCause /\ Resolved /\ Ended
  BY NextCore DEF Inheritance, Core
<1>1. NoLoop(super)' /\ FlaggedForCause' /\ Ended'
  BY <1>0, AcyclicKept, CauseKept, EndedKept
<1>2. Resolved'
  <2>1. CASE Next
    BY <1>0, <2>1, ResolvedKept
  <2>2. CASE UNCHANGED vars
    <3>1. stack' = stack /\ finished' = finished /\ super' = super /\ flagged' = flagged /\ prog' = prog
      BY <2>2 DEF vars, analysis, layout
    <3> QED BY <1>0, <3>1 DEF Resolved, LinkingAt, At
  <2> QED BY <2>1, <2>2
<1> QED BY <1>0, <1>1, <1>2 DEF Inheritance

(* It holds at the start.                                                  *)
LEMMA InitInheritance == Init => Inheritance
<1> SUFFICES ASSUME Init PROVE Inheritance
  OBVIOUS
<1>1. Core
  BY InitCore
<1>2. NoLoop(super)
  BY DEF Init, NoLoop
<1>3. FlaggedForCause /\ Ended
  BY DEF Init, FlaggedForCause, Ended
<1>4. Resolved
  BY OwnerOfClass DEF Init, Resolved
<1> QED BY <1>1, <1>2, <1>3, <1>4 DEF Inheritance

(* Every class whose base types were looked at has its declared base as    *)
(* its superclass in the end, unless some class is flagged.                *)
LEMMA AllLinked ==
  ASSUME Inheritance, done, flagged = {}, NEW c \in Class, "BaseTypes" \in finished[c]
  PROVE  super[c] = prog.base[c]
<1>1. stack = <<>>
  BY DEF Inheritance, Ended
<1>2. \A i : ~LinkingAt(i, c)
  BY <1>1, NothingIn DEF LinkingAt, At
<1> QED BY <1>2 DEF Inheritance, Resolved

(* Without a flag there was no loop in the declarations: it would be one   *)
(* of the links.                                                           *)
LEMMA LoopsAreFlagged ==
  ASSUME Inheritance, done, flagged = {}
  PROVE  ~Circular
<1> SUFFICES ASSUME NEW c \in Class, "BaseTypes" \in finished[c], c \in Declared(c) PROVE FALSE
  BY DEF Circular
<1>u. PICK up : up = super OBVIOUS
<1>v. PICK base : base = prog.base OBVIOUS
<1>b. PICK b : b = base[c] OBVIOUS
<1>0. up \in [Class -> Class \cup {NoClass}] /\ base \in [Class -> Class \cup {NoClass}] /\ NoLoop(up)
  BY <1>u, <1>v, ProgramAssumption DEF Inheritance, Core, TypedState, Steady
<1>1. b # NoClass /\ c \in Above(b, base) /\ b \in Class
  BY <1>0, <1>b, <1>v, DeclaredIs
<1>2. \A a \in Class : "BaseTypes" \in finished[a] => up[a] = base[a]
  BY <1>u, <1>v, AllLinked
<1>3. \A a \in Class : up[a] # NoClass => "BaseTypes" \in finished[up[a]]
  BY <1>u DEF Inheritance, Core, TypedState, Steady, Links
<1>4. up[c] = b
  BY <1>2, <1>b
<1>S. PICK S : S = {a \in Above(b, up) : "BaseTypes" \in finished[a]} OBVIOUS
<1>5. b \in Above(b, up) /\ Above(b, up) \subseteq Class /\ Highest(Above(b, up), up)
  BY <1>0, <1>1, AboveIs DEF IsAbove
<1>6. b \in S /\ S \in SUBSET Class
  BY <1>1, <1>3, <1>4, <1>5, <1>S
<1>7. Highest(S, base)
  BY <1>2, <1>3, <1>5, <1>6, <1>S DEF Highest
<1>8. IsAbove(Above(b, base), b, base)
  BY <1>0, <1>1, AboveIs
<1>9. c \in Above(b, up)
  BY <1>1, <1>6, <1>7, <1>8, <1>S DEF IsAbove
<1> QED BY <1>0, <1>1, <1>4, <1>9 DEF NoLoop

(* The invariant says what was to be shown.                                *)
LEMMA InheritanceImplies == Inheritance => CircularBasesAreRejected
<1> SUFFICES ASSUME Inheritance PROVE CircularBasesAreRejected
  OBVIOUS
<1>1. \A c \in Class : super[c] # NoClass => c \notin Chain(super[c])
  BY ChainIs DEF Inheritance, NoLoop
<1>2. done => (flagged # {} <=> Circular)
  BY LoopsAreFlagged DEF Inheritance, FlaggedForCause
<1> QED BY <1>1, <1>2 DEF CircularBasesAreRejected, Circular

(* In a module that is analyzed to the end, a program whose bases form a   *)
(* loop is rejected, and a program that is rejected for its bases has such *)
(* a loop; superclasses never form a loop (addBaseClass).                  *)
THEOREM CircularInheritanceIsFound == Spec => []CircularBasesAreRejected
<1>1. Init => Inheritance
  BY InitInheritance
<1>2. Inheritance /\ [Next]_vars => Inheritance'
  BY InheritanceKept
<1>3. Inheritance => CircularBasesAreRejected
  BY InheritanceImplies
<1> QED BY <1>1, <1>2, <1>3, PTL DEF Spec

-----------------------------------------------------------------------------
(* What the analyzers on the stack reach.                                  *)

(* Every frame is of a class that the classes of the frames below it reach *)
(* by what they mention.                                                   *)
Connected == \A i, j \in DOMAIN stack : i <= j => Owner(stack[j].on) \in Reached(Owner(stack[i].on))

(* R has c and all that its classes mention.                               *)
IsReached(R, c) == c \in R /\ R \subseteq Class /\ \A a \in R : Mentions(a) \subseteq R

(* What a class reaches does.                                              *)
LEMMA ReachedIs ==
  ASSUME prog \in Programs, NEW c \in Class
  PROVE  IsReached(Reached(c), c)
<1>t. PICK to : to = [a \in Class |-> Mentions(a)] OBVIOUS
<1>1. \A a \in Class : to[a] = Mentions(a) /\ to[a] \subseteq Class
  BY <1>t, Named
<1>2. Least(Reach(c, to), c, to)
  BY <1>1, ReachIsLeast
<1>R. PICK R : R = Reach(c, to) OBVIOUS
<1>3. c \in R /\ R \subseteq Class /\ ClosedUnder(R, to)
  BY <1>2, <1>R DEF Least
<1>4. IsReached(R, c)
  BY <1>1, <1>3 DEF IsReached, ClosedUnder
<1> QED BY <1>4, <1>R, <1>t DEF Reached

(* The frame at i is still of the same definition.                         *)
Kept(i) == i \in DOMAIN stack /\ stack'[i].on = stack[i].on

(* A place in a longer stack is the new one or an old one.                 *)
LEMMA LastPushed ==
  ASSUME NEW n \in Nat, NEW i \in 1 .. n + 1
  PROVE  i = n + 1 \/ i \in 1 .. n
OBVIOUS

(* The definitions of the frames after a step are those before, that of    *)
(* the analysis that was called, or the one the module entered.            *)
LEMMA StackOn ==
  ASSUME TypedState, Frames, StackStep, NEW i \in DOMAIN stack'
  PROVE  \/ Kept(i)
         \/ \E f, g \in FrameType : Pushed(f, g) /\ Calls(f, g) /\ i = Len(stack) + 1 /\ stack'[i] = g
         \/ \E g \in FrameType : Entered(g) /\ i = 1 /\ stack'[i] = g
<1>n. PICK n : n = Len(stack) OBVIOUS
<1>0. DOMAIN stack = 1 .. n /\ n \in Nat
  BY <1>n, LenProperties DEF TypedState
<1>1. CASE \E g \in FrameType : Moves(g)
  <2>1. PICK g \in FrameType : Moves(g)
    BY <1>1
  <2>2. \/ i = n /\ stack'[i] = g /\ i \in DOMAIN stack
        \/ i \in DOMAIN stack /\ stack'[i] = stack[i]
    BY <1>n, <2>1, RetopAt DEF Moves
  <2>3. CASE i = n /\ stack'[i] = g /\ i \in DOMAIN stack
    <3>1. g.on = Top.on /\ Top = stack[i]
      BY <1>n, <2>1, <2>3 DEF Moves, Skips, Begins, Ends, Goes, Fails, Same, Top
    <3> QED BY <2>3, <3>1 DEF Kept
  <2> QED BY <2>2, <2>3 DEF Kept
<1>2. CASE \E f, g \in FrameType : Pushed(f, g) /\ Calls(f, g)
  <2>1. PICK f, g \in FrameType : Pushed(f, g) /\ Calls(f, g)
    BY <1>2
  <2>2. DOMAIN stack' = 1 .. n + 1 /\ stack'[n] = f /\ stack'[n + 1] = g /\ \A j \in 1 .. n - 1 : stack'[j] = stack[j]
    BY <1>n, <2>1 DEF Pushed
  <2>3. i = n + 1 \/ i \in 1 .. n
    BY <1>0, <2>2, LastPushed
  <2>4. CASE i = n + 1
    BY <1>n, <2>1, <2>2, <2>4
  <2>5. CASE i \in 1 .. n
    <3>1. i = n \/ i \in 1 .. n - 1
      BY <1>0, <2>5, LastOrBefore
    <3>2. CASE i = n
      <4>1. f.on = Top.on /\ Top = stack[i] /\ stack'[i] = f
        BY <1>n, <2>1, <2>2, <3>2 DEF Calls, Same, Top
      <4> QED BY <1>0, <2>5, <4>1 DEF Kept
    <3>3. CASE i \in 1 .. n - 1
      BY <1>0, <2>2, <2>5, <3>3 DEF Kept
    <3> QED BY <3>1, <3>2, <3>3
  <2> QED BY <2>3, <2>4, <2>5
<1>3. CASE \E g : Dropped(g) /\ g.on = Caller.on
  <2>1. PICK g : Dropped(g) /\ g.on = Caller.on
    BY <1>3
  <2>2. i \in DOMAIN stack /\ ((i = n - 1 /\ stack'[i] = g) \/ stack'[i] = stack[i])
    BY <1>n, <2>1, DroppedAt
  <2>3. CASE i = n - 1 /\ stack'[i] = g
    <3>1. Caller = stack[i]
      BY <1>n, <2>3 DEF Caller
    <3> QED BY <2>1, <2>2, <2>3, <3>1 DEF Kept
  <2> QED BY <2>2, <2>3 DEF Kept
<1>4. CASE \E g \in FrameType : Entered(g)
  <2>1. PICK g \in FrameType : Entered(g)
    BY <1>4
  <2>2. DOMAIN stack' = {1} /\ stack' = <<g>>
    BY <2>1 DEF Entered
  <2> QED BY <2>1, <2>2, OneElement
<1>5. CASE Left
  BY <1>5 DEF Left
<1>6. CASE stack' = stack
  BY <1>6 DEF Kept
<1> QED BY <1>1, <1>2, <1>3, <1>4, <1>5, <1>6 DEF StackStep, ReturnsFailed, Same

(* What a definition asks for belongs to a class that its own class        *)
(* mentions.                                                               *)
LEMMA CalledIsReached ==
  ASSUME TypedState, Frames, NEW f \in FrameType, NEW g \in FrameType, Pushed(f, g), Calls(f, g)
  PROVE  Owner(g.on) \in Mentions(Owner(Top.on)) \cup {Owner(Top.on)} /\ g.on \in Defn /\ Len(stack) \in DOMAIN stack
<1>1. ~Idle /\ Top.steps # <<>> /\ Len(stack) \in DOMAIN stack
  <2>1. Len(stack) \in Nat \ {0}
    BY DEF Pushed
  <2>2. ~Idle
    BY <2>1 DEF Idle
  <2> QED BY <2>2, TopFrame DEF Calls
<1>s. PICK s : s = Head(Top.steps) OBVIOUS
<1>2. StepOK(Top.on, Top.pass, s)
  BY <1>1, <1>s, TopStep
<1>3. s.op = "analyze" /\ g.on = s.on /\ s.on \in Defn
  BY <1>s DEF Calls, Fresh
<1> QED BY <1>1, <1>2, <1>3 DEF StepOK

(* The frames are connected after every step.                              *)
LEMMA ConnectedKept ==
  ASSUME TypedState, Frames, Connected, StackStep, prog' = prog
  PROVE  Connected'
<1>p. prog \in Programs /\ \A c : Reached(c)' = Reached(c)
  BY DEF TypedState, Steady, Reached, Mentions, Reach
<1>n. PICK n : n = Len(stack) OBVIOUS
<1>0. DOMAIN stack = 1 .. n /\ n \in Nat
  BY <1>n, LenProperties DEF TypedState
<1>d. \A i \in DOMAIN stack : stack[i].on \in Defn
  <2> SUFFICES ASSUME NEW i \in DOMAIN stack PROVE stack[i].on \in Defn
    OBVIOUS
  <2>1. stack[i] \in FrameType
    BY DEF TypedState
  <2> QED BY <2>1, FrameFields
<1> SUFFICES ASSUME NEW i \in DOMAIN stack', NEW j \in DOMAIN stack', i <= j
             PROVE  Owner(stack'[j].on) \in Reached(Owner(stack'[i].on))
  BY <1>p DEF Connected
<1>1. CASE Kept(i) /\ Kept(j)
  BY <1>1 DEF Kept, Connected
<1>2. CASE \E f, g \in FrameType : Pushed(f, g) /\ Calls(f, g) /\ j = Len(stack) + 1 /\ stack'[j] = g
  <2>1. PICK f, g \in FrameType : Pushed(f, g) /\ Calls(f, g) /\ j = Len(stack) + 1 /\ stack'[j] = g
    BY <1>2
  <2>2. Owner(g.on) \in Mentions(Owner(Top.on)) \cup {Owner(Top.on)} /\ g.on \in Defn /\ n \in DOMAIN stack
    BY <2>1, <1>n, CalledIsReached
  <2>3. CASE Kept(i)
    <3>1. i \in DOMAIN stack /\ stack'[i].on = stack[i].on
      BY <2>3 DEF Kept
    <3>c. PICK c : c = Owner(stack[i].on) OBVIOUS
    <3>2. c \in Class
      BY <1>d, <3>1, <3>c, OwnerIsClass
    <3>3. IsReached(Reached(c), c)
      BY <1>p, <3>2, ReachedIs
    <3>4. Owner(Top.on) \in Reached(c)
      <4>1. i \in 1 .. n => i <= n
        BY <1>0
      <4>2. i <= n
        BY <1>0, <3>1, <4>1
      <4> QED BY <1>n, <2>2, <3>1, <3>c, <4>2 DEF Connected, Top
    <3> QED BY <2>1, <2>2, <3>1, <3>3, <3>4, <3>c DEF IsReached
  <2>4. CASE ~Kept(i)
    <3>1. stack'[i] = g
      <4>1. i = n + 1
        <5>1. ~(\E h \in FrameType : Entered(h))
          <6>1. stack # <<>>
            BY <2>1 DEF Pushed
          <6> QED BY <6>1 DEF Entered
        <5> QED BY <1>n, <2>4, <5>1, StackOn
      <4> QED BY <1>n, <2>1, <4>1
    <3>2. Owner(g.on) \in Class
      BY <2>2, OwnerIsClass
    <3>3. IsReached(Reached(Owner(g.on)), Owner(g.on))
      BY <1>p, <3>2, ReachedIs
    <3> QED BY <2>1, <3>1, <3>3 DEF IsReached
  <2> QED BY <2>3, <2>4
<1>3. CASE \E g \in FrameType : Entered(g)
  <2>1. PICK g \in FrameType : Entered(g)
    BY <1>3
  <2>2. i = 1 /\ j = 1 /\ stack'[1] = g
    BY <2>1, OneElement DEF Entered
  <2>3. g.on \in Defn /\ Owner(g.on) \in Class
    BY <2>1, FrameFields, OwnerIsClass
  <2>4. IsReached(Reached(Owner(g.on)), Owner(g.on))
    BY <1>p, <2>3, ReachedIs
  <2> QED BY <2>2, <2>4 DEF IsReached
<1>4. CASE ~Kept(i) /\ Kept(j) /\ ~(\E g \in FrameType : Entered(g))
  <2>1. i = n + 1
    BY <1>4, <1>n, StackOn
  <2>2. j \in 1 .. n
    BY <1>0, <1>4 DEF Kept
  <2>3. \A x, y : (x = n + 1 /\ y \in 1 .. n) => ~(x <= y)
    BY <1>0
  <2> QED BY <2>1, <2>2, <2>3
<1>5. Kept(j) \/ (\E g \in FrameType : Entered(g))
        \/ \E f, g \in FrameType : Pushed(f, g) /\ Calls(f, g) /\ j = Len(stack) + 1 /\ stack'[j] = g
  BY StackOn
<1> QED BY <1>1, <1>2, <1>3, <1>4, <1>5

-----------------------------------------------------------------------------
(* The attributes.                                                         *)

(* What the pass for the attribute depends on, that the fields of the      *)
(* attribute's class are looked at, is seen to.                            *)
Prepared == \A i : \A c \in Class \cup Var :
              (At(i, c, "Attribute") /\ prog.attr[c] # NoClass) => Covers(i, prog.attr[c], {"Field"})

(* That stays so.                                                          *)
LEMMA PreparedKept ==
  ASSUME TypedState, Frames, Callers, RunningIs, Alone, Reported, Prepared, StackStep, LayoutStep
  PROVE  Prepared'
<1>0. Grows /\ prog' = prog
  BY StepGrows DEF LayoutStep
<1> SUFFICES ASSUME NEW i, NEW c \in Class \cup Var, At(i, c, "Attribute")', prog.attr[c] # NoClass
             PROVE  Covers(i, prog.attr[c], {"Field"})'
  BY <1>0 DEF Prepared
<1>b. PICK b : b = prog.attr[c] OBVIOUS
<1>1. b \in Class /\ prog'.attr[c] = b
  BY <1>0, <1>b, Named DEF TypedState, Steady
<1>2. Covers(i, b, {"Field"})'
  <2>1. CASE At(i, c, "Attribute")
    <3>1. Covers(i, b, {"Field"})
      BY <1>b, <2>1 DEF Prepared
    <3>2. "Attribute" # ""
      OBVIOUS
    <3> QED BY <1>1, <2>1, <3>1, <3>2, CoversKept
  <2>2. CASE \E g \in FrameType : /\ Moves(g) /\ Begins(g) /\ stack'[i] = g
                                  /\ g.on = c /\ g.pass = "Attribute" /\ Top.on = c
    <3>1. PICK g \in FrameType : /\ Moves(g) /\ Begins(g) /\ stack'[i] = g
                                 /\ g.on = c /\ g.pass = "Attribute" /\ Top.on = c
      BY <2>2
    <3>2. Asking(g.steps, b, "Construction")
      BY <1>b, <3>1 DEF Begins, Meets
    <3>3. Asks(g, b, {"Field"})
      <4>1. {"Field"} \subseteq TaskPasses(b, "Construction")
        BY <1>1, LookupTasks
      <4> QED BY <3>2, <4>1 DEF Asking, Asks
    <3> QED BY <3>1, <3>3, CoverAsks
  <2>3. "Attribute" # ""
    OBVIOUS
  <2>4. \/ At(i, c, "Attribute")
        \/ \E g \in FrameType : /\ Moves(g) /\ Begins(g) /\ i = Len(stack) /\ stack'[i] = g
                                /\ g.on = c /\ g.pass = "Attribute" /\ Top.on = c
    BY <2>3, PassesBegin
  <2> QED BY <2>1, <2>2, <2>4
<1> QED BY <1>1, <1>2 DEF Covers

(* No class is annotated, nor a field of it, by an attribute whose         *)
(* analysis reaches that class.                                            *)
Untangled == \A d \in Class \cup Var : \A a \in Class : prog.attr[d] = a => Owner(d) \notin Reached(a)

(* Then objects are built early only of attributes that have failed.       *)
Built == Untangled => evaluated \subseteq Failing

(* The fields of an attribute are known when an object of it is built: the *)
(* pass that finds them was asked for, and it is not running.              *)
LEMMA FieldsAreKnown ==
  ASSUME TypedState, Frames, Connected, Prepared, Untangled, EvaluateAttribute
  PROVE  LET a == Head(Top.steps).on IN a \in Failing \/ "Field" \in finished[a]
<1>f. PICK f : f = Top OBVIOUS
<1>n. PICK n : n = Len(stack) OBVIOUS
<1>s. PICK s : s = Head(f.steps) OBVIOUS
<1>a. PICK a : a = s.on OBVIOUS
<1>c. PICK c : c = f.on OBVIOUS
<1>0. ~Idle /\ f.pass # "" /\ f.steps # <<>> /\ s.op = "evaluate"
  BY <1>f, <1>s DEF EvaluateAttribute, CanStep
<1>1. f = stack[n] /\ FrameOK(f) /\ n \in DOMAIN stack /\ n \in Nat \ {0} /\ DOMAIN stack = 1 .. n
  BY <1>0, <1>f, <1>n, TopFrame
<1>2. StepOK(f.on, f.pass, s) /\ s \in StepType
  BY <1>0, <1>f, <1>s, TopStep
<1>3. c \in Class \cup Var /\ f.pass = "Attribute" /\ a = prog.attr[c] /\ a \in Defn
  BY <1>0, <1>2, <1>a, <1>c DEF StepOK, StepType
<1>4. a \in Class /\ a # NoClass
  <2>1. a \in Class \cup {NoClass}
    BY <1>3, Named DEF TypedState, Steady
  <2>2. NoClass \notin Defn
    BY ProgramAssumption
  <2> QED BY <1>3, <2>1, <2>2
<1>5. Covers(n, a, {"Field"})
  <2>1. At(n, c, "Attribute")
    BY <1>1, <1>3, <1>c DEF At
  <2> QED BY <1>3, <1>4, <2>1 DEF Prepared
<1>6. ~Asks(f, a, {"Field"})
  <2>1. Elems(f.steps) = {s} \cup Elems(Tail(f.steps)) /\ NoAnalyze(Tail(f.steps))
    <3>1. s.op \in Late
      BY <1>0 DEF Late
    <3> QED BY <1>0, <1>1, <1>s, <3>1, StepsLeft DEF FrameOK
  <2> QED BY <1>0, <2>1 DEF Asks, NoAnalyze
<1>7. n + 1 \notin DOMAIN stack
  BY <1>1, PastLast
<1>8. "Field" \in Begun(a) \/ a \in Failing
  BY <1>1, <1>5, <1>6, <1>7 DEF Covers
<1>9. "Field" \in running[a] => a \in Failing
  <2> SUFFICES ASSUME "Field" \in running[a], a \notin Failing PROVE FALSE
    OBVIOUS
  <2>2. PICK j : At(j, a, "Field")
    BY <1>3 DEF Failing, Stale
  <2>3. j \in DOMAIN stack /\ stack[j].on = a /\ j <= n
    <3>1. j \in 1 .. n => j <= n
      BY <1>1
    <3> QED BY <1>1, <2>2, <3>1 DEF At
  <2>4. Owner(c) \in Reached(Owner(a))
    BY <1>1, <1>c, <2>3 DEF Connected
  <2>5. Owner(a) = a
    BY <1>4, OwnerOfClass
  <2> QED BY <1>3, <1>4, <2>4, <2>5 DEF Untangled
<1> QED BY <1>8, <1>9, <1>a, <1>s, <1>f DEF Begun

(* No object of an attribute is built before, after any step.              *)
LEMMA EvaluatedKept ==
  ASSUME TypedState, Frames, Connected, Prepared, Built, Grows, [Next]_vars
  PROVE  Built'
<1>1. CASE EvaluateAttribute
  <2>1. prog' = prog
    BY <1>1 DEF EvaluateAttribute
  <2>2. Untangled' <=> Untangled
    BY <2>1 DEF Untangled, Reached, Mentions, Reach
  <2>3. Untangled => evaluated' \subseteq evaluated \cup Failing
    <3>a. PICK a : a = Head(Top.steps).on OBVIOUS
    <3>1. evaluated' = evaluated \/ (evaluated' = evaluated \cup {a} /\ "Field" \notin finished[a])
      BY <1>1, <3>a DEF EvaluateAttribute
    <3>2. Untangled => a \in Failing \/ "Field" \in finished[a]
      BY <1>1, <3>a, FieldsAreKnown
    <3> QED BY <3>1, <3>2
  <2> QED BY <2>2, <2>3 DEF Built, Grows
<1>2. CASE ~EvaluateAttribute
  <2>1. prog' = prog /\ evaluated' = evaluated
    BY <1>2 DEF Next, Analyzer, Effects, ModuleSteps, SkipPass, BeginPass, FinishPass, Call, Return, LinkBase,
         ReserveSuper, VisitField, PlaceField, BuildTable, Symbol, AnalyzeMember,
         EndMember, AnalyzeQueued, EndQueued, Complete, vars, layout
  <2>2. Untangled' <=> Untangled
    BY <2>1 DEF Untangled, Reached, Mentions, Reach
  <2> QED BY <2>1, <2>2 DEF Built, Grows
<1> QED BY <1>1, <1>2

(* The invariant for the attributes.                                       *)
Annotations == Core /\ Connected /\ Prepared /\ Built

(* It holds after every step.                                              *)
LEMMA AnnotationsKept == Annotations /\ [Next]_vars => Annotations'
<1> SUFFICES ASSUME Annotations, [Next]_vars PROVE Annotations'
  OBVIOUS
<1>0. /\ Core' /\ StackStep /\ LayoutStep /\ TypedState /\ Frames /\ Callers /\ RunningIs
      /\ Alone /\ Reported /\ Connected /\ Prepared /\ Built
  BY NextCore DEF Annotations, Core
<1>1. Connected'
  BY <1>0, ConnectedKept DEF LayoutStep
<1>2. Prepared' /\ Built'
  BY <1>0, PreparedKept, StepGrows, EvaluatedKept
<1> QED BY <1>0, <1>1, <1>2 DEF Annotations

(* It holds at the start.                                                  *)
LEMMA InitAnnotations == Init => Annotations
<1> SUFFICES ASSUME Init PROVE Annotations
  OBVIOUS
<1>0. DOMAIN stack = {}
  BY NothingIn DEF Init
<1>1. Connected /\ Prepared
  BY <1>0 DEF Connected, Prepared, At
<1>2. Built
  BY DEF Init, Built
<1> QED BY <1>1, <1>2, InitCore DEF Annotations

(* An object of an attribute is built at compile time only from a class    *)
(* whose fields are known, unless that class is in error or the program    *)
(* annotates a class with an attribute whose analysis leads back to it.    *)
THEOREM AttributesAreComplete == Spec => []AttributeFieldsAreKnown
<1>1. Init => Annotations
  BY InitAnnotations
<1>2. Annotations /\ [Next]_vars => Annotations'
  BY AnnotationsKept
<1>3. Annotations => AttributeFieldsAreKnown
  <2> SUFFICES ASSUME Annotations, Untangled, NEW a \in evaluated
               PROVE  a \in flagged \/ Abandoned(a) # {}
    BY DEF AttributeFieldsAreKnown, Untangled
  <2>1. a \in Failing /\ RunningIs
    BY DEF Annotations, Core, Built
  <2> QED BY <2>1, AbandonedIs DEF Failing
<1> QED BY <1>1, <1>2, <1>3, PTL DEF Spec

-----------------------------------------------------------------------------
(* Thorough passes.                                                        *)

(* The frame is in no thorough pass and has none to run.                   *)
Calm(f) == f.pass \notin Thorough /\ f.todo \cap Thorough = {}

(* A frame that is in no thorough pass calls only analyses without         *)
(* thorough passes.                                                        *)
Quiet == \A i, j \in DOMAIN stack : (i < j /\ stack[i].pass \notin Thorough) => Calm(stack[j])

(* A place below another is below the last.                                *)
LEMMA BelowOf ==
  ASSUME NEW n \in Nat, NEW i \in 1 .. n, NEW j \in 1 .. n, i < j
  PROVE  i \in 1 .. n - 1 /\ (j = n \/ j \in 1 .. n - 1) /\ i # n
OBVIOUS

(* A place before the last is below it.                                    *)
LEMMA BelowTop ==
  ASSUME NEW n \in Nat, NEW i \in 1 .. n - 1
  PROVE  i < n /\ i \in 1 .. n /\ n \in 1 .. n
OBVIOUS

(* A frame without thorough passes does not get one.                       *)
LEMMA CalmMove ==
  ASSUME NEW g, Moves(g), NEW h, h = Top, Calm(h)
  PROVE  Calm(g)
<1>1. "" \notin Thorough
  BY DEF Thorough
<1> QED BY <1>1 DEF Moves, Skips, Begins, Ends, Goes, Fails, Calm

(* Thorough passes come from thorough passes only, after every step.       *)
LEMMA QuietKept ==
  ASSUME TypedState, Frames, Quiet, StackStep
  PROVE  Quiet'
<1>n. PICK n : n = Len(stack) OBVIOUS
<1>h. PICK h : h = Top OBVIOUS
<1>0. DOMAIN stack = 1 .. n /\ n \in Nat /\ h = stack[n]
  BY <1>n, <1>h, LenProperties DEF TypedState, Top
<1>q. \A i \in 1 .. n - 1 : stack[i].pass \notin Thorough =>
        Calm(h) /\ \A j \in 1 .. n : i < j => Calm(stack[j])
  <2> SUFFICES ASSUME NEW i \in 1 .. n - 1, stack[i].pass \notin Thorough
               PROVE  Calm(h) /\ \A j \in 1 .. n : i < j => Calm(stack[j])
    OBVIOUS
  <2>1. i < n /\ i \in 1 .. n /\ n \in 1 .. n
    BY <1>0, BelowTop
  <2> QED BY <1>0, <2>1 DEF Quiet
<1>b. "" \notin Thorough
  BY DEF Thorough
<1> SUFFICES ASSUME NEW i \in DOMAIN stack', NEW j \in DOMAIN stack', i < j, stack'[i].pass \notin Thorough
             PROVE  Calm(stack'[j])
  BY DEF Quiet, Calm
<1>1. CASE \E g \in FrameType : Moves(g)
  <2>1. PICK g \in FrameType : Moves(g)
    BY <1>1
  <2>2. DOMAIN stack' = 1 .. n /\ stack'[n] = g /\ \A x \in 1 .. n - 1 : stack'[x] = stack[x]
    BY <1>n, <2>1 DEF Moves, Retop
  <2>3. i \in 1 .. n - 1 /\ (j = n \/ j \in 1 .. n - 1) /\ j \in 1 .. n
    BY <1>0, <2>2, BelowOf
  <2>4. Calm(h) => Calm(g)
    BY <1>h, <2>1, CalmMove
  <2> QED BY <1>q, <2>2, <2>3, <2>4
<1>2. CASE \E f, g \in FrameType : Pushed(f, g) /\ Calls(f, g)
  <2>1. PICK f, g \in FrameType : Pushed(f, g) /\ Calls(f, g)
    BY <1>2
  <2>2. /\ DOMAIN stack' = 1 .. n + 1 /\ stack'[n] = f /\ stack'[n + 1] = g
        /\ \A x \in 1 .. n - 1 : stack'[x] = stack[x]
    BY <1>n, <2>1 DEF Pushed
  <2>3. f.pass = h.pass /\ f.todo = h.todo
    BY <1>h, <2>1 DEF Calls
  <2>4. h.pass \notin Thorough => Calm(g)
    <3>s. PICK s : s = Head(h.steps) OBVIOUS
    <3>1. ~Idle /\ h.steps # <<>>
      <4>1. Len(stack) \in Nat \ {0}
        BY <2>1 DEF Pushed
      <4>2. ~Idle
        BY <4>1 DEF Idle
      <4> QED BY <1>h, <2>1, <4>2 DEF Calls
    <3>2. StepOK(h.on, h.pass, s)
      BY <1>h, <3>1, <3>s, TopStep
    <3>3. s.op = "analyze" /\ s.task \in Task /\ s.on \in Defn /\ g.pass = "" /\ g.todo \subseteq TaskPasses(s.on, s.task)
      BY <1>h, <2>1, <3>s DEF Calls, Fresh
    <3>4. h.pass \notin Thorough => TaskPasses(s.on, s.task) \cap Thorough = {}
      BY <3>2, <3>3, TasksInOrder DEF StepOK
    <3> QED BY <1>b, <3>3, <3>4 DEF Calm
  <2>5. CASE j = n + 1
    <3>1. i = n \/ i \in 1 .. n - 1
      <4>1. \A x \in 1 .. n + 1 : x < n + 1 => x \in 1 .. n
        BY <1>0
      <4>2. i \in 1 .. n
        BY <2>2, <2>5, <4>1
      <4> QED BY <1>0, <4>2, LastOrBefore
    <3>2. CASE i = n
      BY <2>2, <2>3, <2>4, <2>5, <3>2
    <3>3. CASE i \in 1 .. n - 1
      BY <1>q, <2>2, <2>4, <2>5, <3>3 DEF Calm
    <3> QED BY <3>1, <3>2, <3>3
  <2>6. CASE j # n + 1
    <3>1. j \in 1 .. n
      BY <1>0, <2>2, <2>6, LastPushed
    <3>2. i \in 1 .. n
      <4>1. \A x \in 1 .. n + 1 : \A y \in 1 .. n : x < y => x \in 1 .. n
        BY <1>0
      <4> QED BY <2>2, <3>1, <4>1
    <3>3. i \in 1 .. n - 1 /\ (j = n \/ j \in 1 .. n - 1)
      BY <1>0, <3>1, <3>2, BelowOf
    <3> QED BY <1>q, <2>2, <2>3, <3>1, <3>3 DEF Calm
  <2> QED BY <2>5, <2>6
<1>3. CASE \E g : Dropped(g) /\ (g = Caller \/ ReturnsFailed(g))
  <2>1. PICK g : Dropped(g) /\ (g = Caller \/ ReturnsFailed(g))
    BY <1>3
  <2>2. DOMAIN stack' = 1 .. n - 1 /\ stack'[n - 1] = g /\ n > 1
        /\ \A x \in 1 .. n - 2 : stack'[x] = stack[x]
    BY <1>n, <2>1 DEF Dropped
  <2>3. i \in 1 .. n - 2 /\ (j = n - 1 \/ j \in 1 .. n - 2)
    <3>1. \A x, y \in 1 .. n - 1 : x < y => x \in 1 .. n - 2 /\ (y = n - 1 \/ y \in 1 .. n - 2)
      BY <1>0, <2>2
    <3> QED BY <2>2, <3>1
  <2>4. i \in 1 .. n - 1 /\ j \in 1 .. n
    <3>1. \A x \in 1 .. n - 2 : x \in 1 .. n - 1
      BY <1>0
    <3>2. \A x \in 1 .. n - 1 : x \in 1 .. n
      BY <1>0
    <3> QED BY <2>2, <2>3, <3>1, <3>2
  <2>5. Calm(stack[j])
    BY <1>q, <2>2, <2>3, <2>4
  <2>6. CASE j = n - 1 /\ ReturnsFailed(g)
    BY <1>b, <2>2, <2>6 DEF ReturnsFailed, Calm
  <2>7. CASE j = n - 1 /\ g = Caller
    BY <1>n, <2>2, <2>5, <2>7 DEF Caller
  <2>8. CASE j \in 1 .. n - 2
    BY <2>2, <2>5, <2>8
  <2> QED BY <2>1, <2>3, <2>6, <2>7, <2>8
<1>4. CASE \E g \in FrameType : Entered(g)
  <2>1. i = 1 /\ j = 1
    BY <1>4 DEF Entered
  <2> QED BY <2>1
<1>5. CASE Left
  BY <1>5 DEF Left
<1>6. CASE stack' = stack
  BY <1>6 DEF Quiet
<1> QED BY <1>1, <1>2, <1>3, <1>4, <1>5, <1>6 DEF StackStep

-----------------------------------------------------------------------------
(* Passes that begin.                                                      *)

(* Finishing a pass begins that pass at most.                              *)
LEMMA FinishBegins ==
  ASSUME MarksTyped, NEW d, NEW p, Finish(d, p), NEW e \in Defn, NEW q \in Begun(e)', q \notin Begun(e)
  PROVE  e = d /\ q = p
<1>1. running' = [running EXCEPT ![d] = @ \ {p}] /\ finished' = [finished EXCEPT ![d] = @ \cup {p}]
  BY DEF Finish
<1>2. CASE e = d
  <2>1. running'[e] = running[e] \ {p} /\ finished'[e] = finished[e] \cup {p}
    BY <1>1, <1>2 DEF MarksTyped
  <2> QED BY <1>2, <2>1 DEF Begun
<1>3. CASE e # d
  <2>1. running'[e] = running[e] /\ finished'[e] = finished[e]
    BY <1>1, <1>3 DEF MarksTyped
  <2> QED BY <2>1 DEF Begun
<1> QED BY <1>2, <1>3

(* Every pass of a class is marked when it begins, and one that is left is *)
(* one that may require analyses.                                          *)
LEMMA ClassMarks ==
  ASSUME NEW c \in Class
  PROVE  /\ \A p : Guarded(c, p)
         /\ RunningIs /\ Reported => \A p : Stale(c, p) => flagged # {} /\ p \in {"Attribute", "Constructor"}
<1>1. c \in Defn /\ \A p : Guarded(c, p)
  BY OwnerOfClass, ProgramAssumption DEF Guarded, Marked
<1>2. RunningIs /\ Reported => \A p : Stale(c, p) => flagged # {} /\ Demanding(c, p) /\ p # "BaseTypes"
  BY <1>1 DEF RunningIs, Reported, Stale, Counted, Early
<1> QED BY <1>1, <1>2 DEF Demanding

(* The pass of a frame has begun, if it is one that is marked when it      *)
(* begins.                                                                 *)
LEMMA PassHasBegun ==
  ASSUME TypedState, Frames, RunningIs, NEW i \in DOMAIN stack, NEW d \in Defn, NEW p,
         stack[i].on = d, stack[i].pass = p, p # "", Guarded(d, p)
  PROVE  p \in Begun(d)
<1>1. CASE Early(d, p)
  <2>1. FrameOK(stack[i])
    BY DEF Frames
  <2> QED BY <1>1, <2>1 DEF Early, FrameOK, Begun
<1>2. CASE ~Early(d, p)
  <2>1. At(i, d, p) /\ Counted(d, p)
    BY <1>2 DEF At, Counted
  <2>2. p \in running[d]
    BY <2>1 DEF RunningIs
  <2> QED BY <2>2 DEF Begun
<1> QED BY <1>1, <1>2

(* Such a pass is marked first when it begins.                             *)
LEMMA BegunByBegins ==
  ASSUME TypedState, Frames, Callers, RunningIs, Alone, Reported, StackStep,
         NEW d \in Defn, NEW p \in Begun(d)', p \notin Begun(d), Guarded(d, p)
  PROVE  \E g \in FrameType : Moves(g) /\ Begins(g) /\ Top.on = d /\ g.pass = p
<1>m. MarksTyped
  BY DEF TypedState, MarksTyped
<1>0. ~(UNCHANGED <<running, finished>>)
  BY DEF Begun
<1>b. \A e, q : Finish(e, q) => d = e /\ p = q
  BY <1>m, FinishBegins
<1>1. CASE \E g \in FrameType : Moves(g)
  <2>1. PICK g \in FrameType : Moves(g)
    BY <1>1
  <2>2. Top \in FrameType /\ Top = stack[Len(stack)] /\ Len(stack) \in DOMAIN stack /\ Top.on \in Defn
    BY <2>1, TopOfMove DEF Moves
  <2>3. CASE Begins(g)
    <3>1. CASE Early(Top.on, g.pass)
      BY <1>b, <2>1, <2>3, <3>1 DEF Begins
    <3>2. CASE ~Early(Top.on, g.pass)
      <4>e. PICK e : e = Top.on OBVIOUS
      <4>q. PICK q : q = g.pass OBVIOUS
      <4>1. finished' = finished /\ (running' = running \/ running' = [running EXCEPT ![e] = @ \cup {q}])
        BY <2>3, <3>2, <4>e, <4>q DEF Begins
      <4>2. running' = [running EXCEPT ![e] = @ \cup {q}]
        BY <1>0, <4>1
      <4>3. d = e
        <5>1. d # e => running'[d] = running[d]
          BY <1>m, <4>2 DEF MarksTyped
        <5> QED BY <4>1, <5>1 DEF Begun
      <4>4. running'[d] = running[d] \cup {q}
        BY <1>m, <4>2, <4>3 DEF MarksTyped
      <4>5. p = q
        BY <4>1, <4>4 DEF Begun
      <4> QED BY <2>1, <2>3, <4>3, <4>5, <4>e, <4>q
    <3> QED BY <3>1, <3>2
  <2>4. CASE Ends(g)
    <3>1. Finish(Top.on, Top.pass) /\ Marked(Top.on, Top.pass) /\ Top.pass # ""
      BY <1>0, <2>4 DEF Ends
    <3>2. d = Top.on /\ p = Top.pass
      BY <1>b, <3>1
    <3>3. p \in Begun(d)
      BY <2>2, <3>1, <3>2, PassHasBegun
    <3> QED BY <3>3
  <2> QED BY <1>0, <2>1, <2>3, <2>4 DEF Moves, Skips, Goes, Fails
<1>2. CASE \E g \in FrameType : Dropped(g) /\ ReturnsFailed(g)
  <2>1. PICK g \in FrameType : Dropped(g) /\ ReturnsFailed(g)
    BY <1>2
  <2>2. Caller = stack[Len(stack) - 1] /\ Len(stack) - 1 \in DOMAIN stack /\ Caller.on \in Defn
    BY <2>1, CallerFrame
  <2>3. Caller.pass \in PassName /\ Finish(Caller.on, Caller.pass)
    BY <1>0, <2>1, FailingCaller
  <2>4. d = Caller.on /\ p = Caller.pass
    BY <1>b, <2>3
  <2>5. p # ""
    BY <2>3, <2>4 DEF PassName
  <2>6. p \in Begun(d)
    BY <2>2, <2>3, <2>4, <2>5, PassHasBegun
  <2> QED BY <2>6
<1> QED BY <1>0, <1>1, <1>2 DEF StackStep, Calls, ReturnsOk, Entered, Left

-----------------------------------------------------------------------------
(* The classes that are laid out.                                          *)

(* The passes that the recursive field types rest on.                      *)
Foundation == {"BaseTypes", "Field"}

(* When a class comes to its recursive field types, its base types and its *)
(* fields are finished and no longer looked at.                            *)
LaidOut == \A c \in Class : "RecursiveFieldType" \in Begun(c) =>
             /\ Foundation \subseteq finished[c]
             /\ \A i : \A p \in Foundation : ~At(i, c, p)

(* Where a pass is left to run, so are those that it rests on, unless they *)
(* have begun.                                                             *)
Planned(f) == f.on \in Class => \A p \in f.todo : Rests(p) \subseteq f.todo \cup Begun(f.on)

(* All frames plan so.                                                     *)
Plans == \A i \in DOMAIN stack : Planned(stack[i])

(* A frame goes on planning so when it leaves out what has begun.          *)
LEMMA PlannedKept ==
  ASSUME Grows, NEW f, NEW g, g.on = f.on, g.todo \subseteq f.todo, Planned(f),
         \A p \in f.todo : p \in g.todo \/ g.todo = {} \/ p \in Begun(f.on) \/ p \in Begun(f.on)'
  PROVE  Planned(g)'
<1> SUFFICES ASSUME g.on \in Class, NEW p \in g.todo PROVE Rests(p) \subseteq g.todo \cup Begun(g.on)'
  BY DEF Planned, Begun, Rests
<1>1. Rests(p) \subseteq f.todo \cup Begun(f.on)
  BY DEF Planned
<1>2. Begun(g.on) \subseteq Begun(g.on)'
  BY OwnerOfClass DEF Grows, MarksGrow, Begun
<1> QED BY <1>1, <1>2

(* The plan of a frame, by its place.                                      *)
LEMMA PlannedAt ==
  ASSUME NEW i, NEW g, stack'[i] = g, Planned(g)'
  PROVE  Planned(stack[i])'
BY DEF Planned, Begun, Rests

(* A new frame plans so.                                                   *)
LEMMA PlannedFresh ==
  ASSUME TypedState, Grows, NEW g \in FrameType, NEW d \in Defn, NEW task \in Task, Fresh(g, d, task)
  PROVE  Planned(g)'
<1> SUFFICES ASSUME g.on \in Class, NEW p \in g.todo PROVE Rests(p) \subseteq g.todo \cup Begun(g.on)'
  BY DEF Planned, Begun, Rests
<1>1. g.on = d /\ g.todo = TaskPasses(d, task) \ finished[d]
  BY DEF Fresh
<1>2. Rests(p) \subseteq TaskPasses(d, task)
  BY <1>1, TasksInOrder
<1>3. Begun(d) \subseteq Begun(d)'
  BY DEF Grows, MarksGrow, Begun
<1> QED BY <1>1, <1>2, <1>3 DEF Begun

(* All frames plan so after every step.                                    *)
LEMMA PlansKept ==
  ASSUME TypedState, Frames, Callers, RunningIs, Alone, Reported, Plans, StackStep
  PROVE  Plans'
<1>0. Grows
  BY StepGrows
<1>h. PICK h : h = Top OBVIOUS
<1> SUFFICES ASSUME NEW i \in DOMAIN stack' PROVE Planned(stack[i])'
  BY DEF Plans
<1>9. CASE i \in DOMAIN stack /\ stack'[i] = stack[i]
  <2>f. PICK f : f = stack[i] OBVIOUS
  <2>1. Planned(f)'
    <3>1. Planned(f)
      BY <1>9, <2>f DEF Plans
    <3> QED BY <1>0, <3>1, PlannedKept
  <2> QED BY <1>9, <2>1, <2>f, PlannedAt
<1>1. CASE \E g \in FrameType : Moves(g)
  <2>1. PICK g \in FrameType : Moves(g)
    BY <1>1
  <2>2. CASE stack'[i] = g
    <3>1. Planned(h) /\ h \in FrameType /\ h.on \in Defn /\ FrameOK(h)
      BY <1>h, <2>1, TopOfMove DEF Moves, Plans
    <3>2. CASE Skips(g)
      <4>1. PICK p \in h.todo : p \in Begun(h.on) /\ g.todo = h.todo \ {p}
        BY <1>h, <3>2 DEF Skips
      <4>2. g.on = h.on
        BY <1>h, <3>2 DEF Skips, Same
      <4>3. Planned(g)'
        BY <1>0, <3>1, <4>1, <4>2, PlannedKept
      <4> QED BY <2>2, <4>3, PlannedAt
    <3>3. CASE Begins(g)
      <4>1. g.on = h.on /\ g.pass \in h.todo /\ g.todo = h.todo \ {g.pass}
        BY <1>h, <3>3 DEF Begins, Same
      <4>2. h.on \in Class => g.pass \in Begun(h.on)'
        <5> SUFFICES ASSUME h.on \in Class PROVE g.pass \in Begun(h.on)'
          OBVIOUS
        <5>p. PICK p : p = g.pass OBVIOUS
        <5>d. PICK d : d = h.on OBVIOUS
        <5>0. d \in Defn /\ p \in PassName /\ MarksTyped /\ d \notin Var
          <6>1. p \in PassName
            BY <3>1, <4>1, <5>p, FrameFields
          <6>2. d \notin Var
            BY <5>d, ProgramAssumption
          <6> QED BY <3>1, <5>d, <6>1, <6>2 DEF TypedState, MarksTyped
        <5>1. Guarded(d, p)
          BY <5>d, ClassMarks
        <5>2. CASE Early(d, p)
          <6>1. Finish(d, p)
            BY <1>h, <3>3, <5>2, <5>p, <5>d DEF Begins
          <6>2. flagged \subseteq flagged'
            BY <1>0 DEF Grows, MarksGrow
          <6>3. p \in finished'[d]
            BY <5>0, <6>1, <6>2, FinishGrows
          <6> QED BY <5>p, <5>d, <6>3 DEF Begun
        <5>3. CASE ~Early(d, p)
          <6>1. running' = [running EXCEPT ![d] = @ \cup {p}]
            BY <1>h, <3>3, <5>1, <5>3, <5>p, <5>d DEF Begins
          <6>2. p \in running'[d]
            BY <5>0, <6>1 DEF MarksTyped
          <6> QED BY <5>p, <5>d, <6>2 DEF Begun
        <5> QED BY <5>2, <5>3
      <4>3. CASE h.on \in Class
        <5>1. Planned(g)'
          BY <1>0, <3>1, <4>1, <4>2, <4>3, PlannedKept
        <5> QED BY <2>2, <5>1, PlannedAt
      <4>4. CASE h.on \notin Class
        BY <2>2, <4>1, <4>4 DEF Planned
      <4> QED BY <4>3, <4>4
    <3>4. CASE ~Skips(g) /\ ~Begins(g)
      <4>1. g.on = h.on /\ (g.todo = h.todo \/ g.todo = {})
        BY <1>h, <2>1, <3>4 DEF Moves, Ends, Goes, Fails, Same
      <4>2. Planned(g)'
        BY <1>0, <3>1, <4>1, PlannedKept
      <4> QED BY <2>2, <4>2, PlannedAt
    <3> QED BY <3>2, <3>3, <3>4
  <2>3. (i \in DOMAIN stack /\ stack'[i] = stack[i]) \/ stack'[i] = g
    BY <2>1, RetopAt DEF Moves
  <2> QED BY <1>9, <2>2, <2>3
<1>2. CASE \E f, g \in FrameType : Pushed(f, g) /\ Calls(f, g)
  <2>1. PICK f, g \in FrameType : Pushed(f, g) /\ Calls(f, g)
    BY <1>2
  <2>n. PICK n : n = Len(stack) OBVIOUS
  <2>2. /\ DOMAIN stack' = 1 .. n + 1 /\ stack'[n] = f /\ stack'[n + 1] = g /\ n \in Nat \ {0}
        /\ DOMAIN stack = 1 .. n /\ \A x \in 1 .. n - 1 : stack'[x] = stack[x]
    BY <2>n, <2>1 DEF Pushed
  <2>3. i = n + 1 \/ i = n \/ (i \in 1 .. n - 1 /\ i \in 1 .. n)
    <3>1. i = n + 1 \/ i \in 1 .. n
      BY <2>2, LastPushed
    <3>2. i \in 1 .. n => (i = n \/ i \in 1 .. n - 1)
      BY <2>2, LastOrBefore
    <3> QED BY <3>1, <3>2
  <2>4. Planned(g)'
    <3>s. PICK s : s = Head(h.steps) OBVIOUS
    <3>1. s.task \in Task /\ s.on \in Defn /\ Fresh(g, s.on, s.task)
      BY <1>h, <2>1, <3>s DEF Calls
    <3> QED BY <1>0, <3>1, PlannedFresh
  <2>5. Planned(f)'
    <3>1. f.on = h.on /\ f.todo = h.todo
      BY <1>h, <2>1 DEF Calls, Same
    <3>2. Planned(h)
      <4>1. n \in DOMAIN stack
        BY <2>2
      <4> QED BY <1>h, <2>n, <4>1 DEF Plans, Top
    <3> QED BY <1>0, <3>1, <3>2, PlannedKept
  <2> QED BY <1>9, <2>2, <2>3, <2>4, <2>5, PlannedAt
<1>3. CASE \E g : Dropped(g) /\ (g = Caller \/ ReturnsFailed(g))
  <2>1. PICK g : Dropped(g) /\ (g = Caller \/ ReturnsFailed(g))
    BY <1>3
  <2>2. i \in DOMAIN stack /\ ((i = Len(stack) - 1 /\ stack'[i] = g) \/ stack'[i] = stack[i])
    BY <2>1, DroppedAt
  <2>3. CASE i = Len(stack) - 1 /\ stack'[i] = g /\ g = Caller
    BY <1>9, <2>2, <2>3 DEF Caller
  <2>4. CASE stack'[i] = g /\ ReturnsFailed(g)
    <3>1. g.todo = {}
      BY <2>4 DEF ReturnsFailed
    <3> QED BY <2>4, <3>1 DEF Planned
  <2> QED BY <1>9, <2>1, <2>2, <2>3, <2>4
<1>4. CASE \E g \in FrameType : Entered(g)
  <2>1. PICK g \in FrameType : Entered(g)
    BY <1>4
  <2>2. stack'[i] = g
    <3>1. DOMAIN stack' = {1} /\ stack' = <<g>>
      BY <2>1 DEF Entered
    <3> QED BY <3>1, OneElement
  <2>3. PICK task \in Generation : Fresh(g, g.on, task)
    BY <2>1 DEF Entered
  <2>4. task \in Task /\ g.on \in Defn
    BY <2>3, FrameFields DEF Generation, Task
  <2>5. Planned(g)'
    BY <1>0, <2>3, <2>4, PlannedFresh
  <2> QED BY <2>2, <2>5, PlannedAt
<1>5. CASE Left
  BY <1>5 DEF Left
<1>6. CASE stack' = stack
  BY <1>6, <1>9
<1> QED BY <1>1, <1>2, <1>3, <1>4, <1>5, <1>6 DEF StackStep

(* The classes are laid out so after every step.                           *)
LEMMA LaidOutKept ==
  ASSUME TypedState, Frames, Callers, RunningIs, Alone, Reported, Quiet, Plans, LaidOut, StackStep
  PROVE  LaidOut'
<1>0. Grows
  BY StepGrows
<1> SUFFICES ASSUME NEW c \in Class, "RecursiveFieldType" \in Begun(c)'
             PROVE  /\ Foundation \subseteq finished'[c]
                    /\ \A i : \A p \in Foundation : ~At(i, c, p)'
  BY DEF LaidOut
<1>c. c \in Defn /\ finished[c] \subseteq finished'[c]
  BY <1>0, OwnerOfClass DEF Grows, MarksGrow
<1>p. \A p \in Foundation : p # "" /\ p \notin Thorough /\ p # "RecursiveFieldType"
  BY DEF Foundation, Thorough
<1>1. CASE "RecursiveFieldType" \in Begun(c)
  <2>1. Foundation \subseteq finished[c] /\ \A i : \A p \in Foundation : ~At(i, c, p)
    BY <1>1 DEF LaidOut
  <2>2. ASSUME NEW i, NEW p \in Foundation, At(i, c, p)' PROVE FALSE
    <3>0. \/ At(i, c, p)
          \/ \E g2 \in FrameType : /\ Moves(g2) /\ Begins(g2) /\ i = Len(stack) /\ stack'[i] = g2
                                   /\ g2.on = c /\ g2.pass = p /\ Top.on = c
      <4>1. p # ""
        BY <1>p
      <4> QED BY <2>2, <4>1, PassesBegin
    <3>1. PICK g \in FrameType : Begins(g) /\ g.pass = p /\ Top.on = c
      BY <2>1, <3>0
    <3>2. p \notin finished[c]
      BY <3>1 DEF Begins, Begun
    <3> QED BY <2>1, <3>2
  <2> QED BY <1>c, <2>1, <2>2
<1>2. CASE "RecursiveFieldType" \notin Begun(c)
  <2>r. PICK r : r = "RecursiveFieldType" OBVIOUS
  <2>1. PICK g \in FrameType : Moves(g) /\ Begins(g) /\ Top.on = c /\ g.pass = r
    BY <1>c, <1>2, <2>r, BegunByBegins, ClassMarks
  <2>h. PICK h : h = Top OBVIOUS
  <2>n. PICK n : n = Len(stack) OBVIOUS
  <2>2. h = stack[n] /\ n \in DOMAIN stack /\ DOMAIN stack = 1 .. n /\ n \in Nat /\ stack'[n] = g
    BY <2>1, <2>h, <2>n, TopOfMove DEF Moves, Retop
  <2>3. h.pass = "" /\ r \in h.todo /\ h.on = c /\ Rests(r) \cap h.todo = {}
    BY <2>1, <2>h, <2>r DEF Begins
  <2>4. Foundation \subseteq Begun(c)
    <3>1. Rests(r) \subseteq h.todo \cup Begun(c)
      BY <2>2, <2>3 DEF Plans, Planned
    <3>2. Rests(r) = Foundation
      BY <2>r DEF Rests, Foundation
    <3> QED BY <2>3, <3>1, <3>2
  <2>5. ASSUME NEW i, NEW p \in Foundation, At(i, c, p) PROVE FALSE
    <3>1. i \in 1 .. n /\ stack[i].pass = p
      BY <2>2, <2>5 DEF At
    <3>2. i = n \/ i \in 1 .. n - 1
      BY <2>2, <3>1, LastOrBefore
    <3>3. CASE i = n
      BY <1>p, <2>2, <2>3, <3>1, <3>3
    <3>4. CASE i \in 1 .. n - 1
      <4>1. i < n
        BY <2>2, <3>4, BelowTop
      <4>2. Calm(h)
        BY <1>p, <2>2, <3>1, <4>1 DEF Quiet
      <4> QED BY <2>3, <2>r, <4>2 DEF Calm, Thorough
    <3> QED BY <3>2, <3>3, <3>4
  <2>6. Foundation \subseteq finished[c]
    <3>1. \A p \in Foundation : p \notin running[c]
      BY <1>c, <2>5, ClassMarks DEF Stale, Foundation
    <3> QED BY <2>4, <3>1 DEF Begun
  <2>7. ASSUME NEW i, NEW p \in Foundation, At(i, c, p)' PROVE FALSE
    <3>0. \/ At(i, c, p)
          \/ \E g2 \in FrameType : /\ Moves(g2) /\ Begins(g2) /\ i = Len(stack) /\ stack'[i] = g2
                                   /\ g2.on = c /\ g2.pass = p /\ Top.on = c
      <4>1. p # ""
        BY <1>p
      <4> QED BY <2>7, <4>1, PassesBegin
    <3>1. PICK k \in FrameType : i = Len(stack) /\ stack'[i] = k /\ k.pass = p
      BY <2>5, <3>0
    <3> QED BY <1>p, <2>1, <2>2, <2>n, <2>r, <3>1
  <2> QED BY <1>c, <2>6, <2>7
<1> QED BY <1>1, <1>2

(* What the field types of a class are does not change once they are       *)
(* looked at.                                                              *)
LEMMA TargetsStay ==
  ASSUME TypedState, Frames, LaidOut, LayoutStep, NEW c \in Class, "RecursiveFieldType" \in Begun(c)
  PROVE  Targets(c)' = Targets(c)
<1>0. \A p \in Foundation : ~At(Len(stack), c, p)
  BY DEF LaidOut
<1>1. \A e : \A p \in Foundation : (~Idle /\ Top.on = e /\ Top.pass = p) => e # c
  <2> SUFFICES ASSUME NEW p \in Foundation, ~Idle, Top.on = c, Top.pass = p PROVE FALSE
    OBVIOUS
  <2>1. At(Len(stack), c, p)
    BY TopFrame DEF At
  <2> QED BY <1>0, <2>1
<1>2. super \in [Class -> Class \cup {NoClass}] /\ placed \in [Class -> Seq(Var)]
  BY DEF TypedState, Steady
<1>3. super'[c] = super[c] /\ placed'[c] = placed[c] /\ prog' = prog
  <2>1. CASE UNCHANGED <<super, placed>>
    BY <2>1 DEF LayoutStep
  <2>2. CASE \E e, b \in Class : LinkStep(e, b)
    <3>1. PICK e, b \in Class : LinkStep(e, b)
      BY <2>2
    <3>2. e # c
      BY <1>1, <3>1 DEF LinkStep, Foundation
    <3> QED BY <1>2, <3>1, <3>2 DEF LinkStep, LayoutStep
  <2>3. CASE \E e \in Class : \E v \in Elems(FieldsOf[e]) : PlaceStep(e, v)
    <3>1. PICK e \in Class : \E v \in Elems(FieldsOf[e]) : PlaceStep(e, v)
      BY <2>3
    <3>2. PICK v \in Elems(FieldsOf[e]) : PlaceStep(e, v)
      BY <3>1
    <3>3. e # c
      BY <1>1, <3>2 DEF PlaceStep, Foundation
    <3> QED BY <1>2, <3>2, <3>3 DEF PlaceStep, LayoutStep
  <2> QED BY <2>1, <2>2, <2>3 DEF LayoutStep
<1> QED BY <1>3 DEF Targets

(* They are classes.                                                       *)
LEMMA TargetIsClass ==
  ASSUME TypedState, NEW c \in Class, NEW a \in Targets(c)
  PROVE  a \in Class
<1>1. super[c] \in Class \cup {NoClass} /\ Elems(placed[c]) \subseteq Var
  <2>1. super \in [Class -> Class \cup {NoClass}]
    BY DEF TypedState, Steady
  <2>2. Elems(placed[c]) \subseteq Elems(FieldsOf[c])
    BY DEF TypedState, Steady, PlacedOwn
  <2> QED BY <2>1, <2>2, OwnerOfField
<1>2. \A v \in Var : prog.type[v] \in Class \cup {NoClass}
  BY Named DEF TypedState, Steady
<1> QED BY <1>1, <1>2 DEF Targets

(* What the pass for the recursive field types depends on, that those      *)
(* classes get ready for generation, is seen to.                           *)
Gathered == \A i : \A c \in Class : At(i, c, "RecursiveFieldType") => \A a \in Targets(c) : Covers(i, a, TG)

(* The class whose field types are looked at has begun to.                 *)
LEMMA RecursiveHasBegun ==
  ASSUME TypedState, Frames, RunningIs, NEW i, NEW c \in Class, At(i, c, "RecursiveFieldType")
  PROVE  "RecursiveFieldType" \in Begun(c)
<1>1. c \in Defn
  BY OwnerOfClass
<1>p. PICK p : p = "RecursiveFieldType" OBVIOUS
<1>2. Guarded(c, p) /\ p # "" /\ i \in DOMAIN stack /\ stack[i].on = c /\ stack[i].pass = p
  BY <1>p, ClassMarks DEF At
<1>3. p \in Begun(c)
  BY <1>1, <1>2, PassHasBegun
<1> QED BY <1>3, <1>p

(* That stays so.                                                          *)
LEMMA GatheredKept ==
  ASSUME TypedState, TypedState', Frames, Callers, RunningIs, Alone, Reported, LaidOut,
         Gathered, StackStep, LayoutStep
  PROVE  Gathered'
<1> SUFFICES ASSUME NEW i, NEW c \in Class, At(i, c, "RecursiveFieldType")', NEW a \in Targets(c)'
             PROVE  Covers(i, a, TG)'
  BY DEF Gathered
<1>r. PICK r : r = "RecursiveFieldType" OBVIOUS
<1>t. PICK t : t = TG OBVIOUS
<1>1. CASE At(i, c, "RecursiveFieldType")
  <2>1. a \in Targets(c)
    BY <1>1, RecursiveHasBegun, TargetsStay
  <2>2. a \in Class /\ Covers(i, a, t)
    BY <1>1, <1>t, <2>1, TargetIsClass DEF Gathered
  <2>3. At(i, c, r) /\ At(i, c, r)' /\ r # ""
    BY <1>1, <1>r
  <2>4. Covers(i, a, t)'
    BY <2>2, <2>3, CoversKept
  <2> QED BY <1>t, <2>4 DEF Covers, TG, ClassTask
<1>2. CASE \E g \in FrameType : /\ Moves(g) /\ Begins(g) /\ stack'[i] = g
                                /\ g.on = c /\ g.pass = "RecursiveFieldType" /\ Top.on = c
  <2>1. PICK g \in FrameType : /\ Moves(g) /\ Begins(g) /\ stack'[i] = g
                               /\ g.on = c /\ g.pass = "RecursiveFieldType" /\ Top.on = c
    BY <1>2
  <2>2. Targets(c)' = Targets(c)
    <3>1. Top.pass = ""
      BY <2>1 DEF Begins
    <3>2. UNCHANGED <<prog, super, placed>>
      BY <3>1 DEF LayoutStep, LinkStep, PlaceStep
    <3> QED BY <3>2 DEF Targets
  <2>3. a \in Targets(c) /\ a \in Class
    BY <2>2, TargetIsClass
  <2>4. Asking(g.steps, a, "TypeGeneration")
    BY <2>1, <2>3 DEF Begins, Meets
  <2>5. TaskPasses(a, "TypeGeneration") = t
    BY <1>t, <2>3, LookupTasks
  <2>6. Asks(g, a, t)
    BY <2>4, <2>5 DEF Asking, Asks
  <2>7. Covers(i, a, t)'
    BY <2>1, <2>6, CoverAsks
  <2> QED BY <1>t, <2>7 DEF Covers, TG, ClassTask
<1>3. At(i, c, r)' /\ r # ""
  BY <1>r
<1>4. \/ At(i, c, r)
      \/ \E g \in FrameType : /\ Moves(g) /\ Begins(g) /\ i = Len(stack) /\ stack'[i] = g
                              /\ g.on = c /\ g.pass = r /\ Top.on = c
  BY <1>3, PassesBegin
<1> QED BY <1>1, <1>2, <1>4, <1>r

(* Once a class has its recursive field types, those classes have all the  *)
(* passes for generation, or are having them, or have failed.              *)
FieldsReady == \A c \in Class : "RecursiveFieldType" \in finished[c] =>
                 \A a \in Targets(c) : TG \subseteq Begun(a) \/ a \in Failing

(* Any pass of a class but the base types is finished when it ends.        *)
LEMMA FinishedByEnds ==
  ASSUME TypedState, Frames, Callers, StackStep, NEW c \in Class, NEW p, p # "BaseTypes",
         p \in finished'[c], p \notin finished[c]
  PROVE  \E g \in FrameType : Moves(g) /\ Ends(g) /\ Top.on = c /\ Top.pass = p
<1>m. MarksTyped
  BY DEF TypedState, MarksTyped
<1>0. finished' # finished
  OBVIOUS
<1>b. \A d, q : Finish(d, q) => d = c /\ q = p
  <2> SUFFICES ASSUME NEW d, NEW q, Finish(d, q) PROVE d = c /\ q = p
    OBVIOUS
  <2>1. finished' = [finished EXCEPT ![d] = @ \cup {q}] /\ c \in DOMAIN finished
    BY <1>m, OwnerOfClass DEF Finish, MarksTyped
  <2> QED BY <2>1
<1>1. CASE \E g \in FrameType : Moves(g)
  <2>1. PICK g \in FrameType : Moves(g)
    BY <1>1
  <2>3. ~Begins(g)
    <3> SUFFICES ASSUME Begins(g) PROVE FALSE
      OBVIOUS
    <3>1. Early(Top.on, g.pass) /\ Finish(Top.on, g.pass)
      BY <1>0 DEF Begins
    <3>2. g.pass = p
      BY <1>b, <3>1
    <3> QED BY <3>1, <3>2 DEF Early
  <2>4. CASE Ends(g)
    <3>1. Finish(Top.on, Top.pass)
      BY <1>0, <2>4 DEF Ends
    <3> QED BY <1>b, <2>1, <2>4, <3>1
  <2> QED BY <1>0, <2>1, <2>3, <2>4 DEF Moves, Skips, Goes, Fails
<1>2. CASE \E g \in FrameType : Dropped(g) /\ ReturnsFailed(g)
  <2>1. PICK g \in FrameType : Dropped(g) /\ ReturnsFailed(g)
    BY <1>2
  <2>2. Finish(Caller.on, Caller.pass) /\ (Caller.on \in Class => Caller.pass = "BaseTypes")
    BY <1>0, <2>1, FailingCaller
  <2>3. Caller.on = c /\ Caller.pass = p
    BY <1>b, <2>2
  <2> QED BY <2>2, <2>3
<1> QED BY <1>0, <1>1, <1>2 DEF StackStep, Calls, ReturnsOk, Entered, Left

(* The field types are ready after every step.                             *)
LEMMA FieldsReadyKept ==
  ASSUME TypedState, Frames, Callers, RunningIs, Alone, Reported, LaidOut, Gathered,
         FieldsReady, StackStep, LayoutStep
  PROVE  FieldsReady'
<1>0. Grows
  BY StepGrows
<1> SUFFICES ASSUME NEW c \in Class, "RecursiveFieldType" \in finished'[c], NEW a \in Targets(c)'
             PROVE  TG \subseteq Begun(a)' \/ a \in Failing'
  BY DEF FieldsReady, TG, ClassTask
<1>g. a \in Class => Begun(a) \subseteq Begun(a)' /\ Failing \subseteq Failing'
  BY <1>0, OwnerOfClass DEF Grows, MarksGrow, Begun
<1>1. CASE "RecursiveFieldType" \in finished[c]
  <2>1. a \in Targets(c) /\ a \in Class
    <3>1. a \in Targets(c)
      BY <1>1, TargetsStay DEF Begun
    <3> QED BY <3>1, TargetIsClass
  <2> QED BY <1>1, <1>g, <2>1 DEF FieldsReady
<1>2. CASE "RecursiveFieldType" \notin finished[c]
  <2>r. PICK r : r = "RecursiveFieldType" OBVIOUS
  <2>1. PICK g \in FrameType : Moves(g) /\ Ends(g) /\ Top.on = c /\ Top.pass = "RecursiveFieldType"
    <3>1. r # "BaseTypes" /\ r \in finished'[c] /\ r \notin finished[c]
      BY <1>2, <2>r
    <3>2. \E g \in FrameType : Moves(g) /\ Ends(g) /\ Top.on = c /\ Top.pass = r
      BY <3>1, FinishedByEnds
    <3> QED BY <2>r, <3>2
  <2>n. PICK n : n = Len(stack) OBVIOUS
  <2>h. PICK h : h = Top OBVIOUS
  <2>2. n \in DOMAIN stack /\ DOMAIN stack = 1 .. n /\ n \in Nat /\ h = stack[n]
    BY <2>1, <2>n, <2>h, TopOfMove DEF Moves, Retop
  <2>3. At(n, c, "RecursiveFieldType") /\ h.steps = <<>>
    BY <2>1, <2>2, <2>h DEF At, Ends
  <2>4. a \in Targets(c) /\ a \in Class
    <3>1. a \in Targets(c)
      BY <2>3, RecursiveHasBegun, TargetsStay
    <3> QED BY <3>1, TargetIsClass
  <2>5. Covers(n, a, TG)
    BY <2>3, <2>4 DEF Gathered
  <2>6. ~Asks(h, a, TG)
    BY <2>3, NoneIn DEF Asks
  <2>7. n + 1 \notin DOMAIN stack
    BY <2>2, PastLast
  <2> QED BY <1>g, <2>2, <2>4, <2>5, <2>6, <2>7 DEF Covers
<1> QED BY <1>1, <1>2

-----------------------------------------------------------------------------
(* The definitions that the module collected.                              *)

(* The task of a symbol from the module's queue (Module::analyze).         *)
SymbolTask(d) == IF Export(d) THEN "CodeGeneration" ELSE "TypeGeneration"

(* The passes that the symbol must have in the end.                        *)
SymbolPasses(d) == {p \in TaskPasses(d, SymbolTask(d)) : Marked(d, p)}

(* The frame is of d, and all of T is finished, running or left.           *)
Works(f, d, T) == f.on = d /\ T \subseteq finished[d] \cup f.todo \cup {f.pass}

(* So is the first frame.                                                  *)
Working(d, T) == 1 \in DOMAIN stack /\ Works(stack[1], d, T)

(* The passes of a symbol are finished, or it waits in the queue, or the   *)
(* module is having it analyzed.                                           *)
Pending(d) ==
  \/ SymbolPasses(d) \subseteq finished[d]
  \/ d \in Elems(queue)
  \/ next > Len(prog.order) /\ Working(d, SymbolPasses(d))

(* So are all symbols, without an error.                                   *)
SymbolsReady == flagged = {} => \A d \in symbols : Pending(d)

(* All that a step can do to the module's queue.                           *)
QueueStep ==
  /\ prog' = prog /\ (next' = next \/ next' = next + 1)
  /\ \/ UNCHANGED <<queue, symbols>>
     \/ \E d \in Defn : symbols' = symbols \cup {d} /\ queue' = Append(queue, d)
     \/ /\ queue # <<>> /\ queue' = Tail(queue) /\ symbols' = symbols
        /\ stack = <<>> /\ next > Len(prog.order) /\ UNCHANGED <<running, finished>>
        /\ stack' = <<Frame(Head(queue), SymbolTask(Head(queue)), FALSE)>>

(* A symbol that is added is queued.                                       *)
LEMMA AddQueues ==
  ASSUME NEW e, NEW d \in Defn, AddSymbol(e, d)
  PROVE  \/ UNCHANGED <<queue, symbols>>
         \/ \E x \in Defn : symbols' = symbols \cup {x} /\ queue' = Append(queue, x)
BY DEF AddSymbol

(* Every step of the model does no more than that to the queue.            *)
LEMMA NextQueues ==
  ASSUME TypedState, ModuleTyped, Frames, [Next]_vars
  PROVE  QueueStep
<1>1. CASE Symbol
  <2>1. /\ ~Idle /\ Top.steps # <<>> /\ AddSymbol(Top.on, Head(Top.steps).on)
        /\ next' = next /\ prog' = prog
    BY <1>1 DEF Symbol, CanStep
  <2>2. Head(Top.steps).on \in Defn
    BY <2>1, TopStep DEF StepType
  <2>3. \/ UNCHANGED <<queue, symbols>>
        \/ \E x \in Defn : symbols' = symbols \cup {x} /\ queue' = Append(queue, x)
    BY <2>1, <2>2, AddQueues
  <2>4. next' = next
    BY <2>1
  <2> QED BY <2>1, <2>3, <2>4 DEF QueueStep
<1>2. CASE EndMember
  <2>1. /\ Len(stack) = 1 /\ next' = next + 1 /\ prog' = prog
        /\ (AddSymbol(Top.on, Top.on) \/ UNCHANGED <<symbols, queue>>)
    BY <1>2 DEF EndMember
  <2>2. \/ UNCHANGED <<queue, symbols>>
        \/ \E x \in Defn : symbols' = symbols \cup {x} /\ queue' = Append(queue, x)
    BY <2>1, LastTop, AddQueues
  <2>3. next' = next + 1
    BY <2>1
  <2> QED BY <2>1, <2>2, <2>3 DEF QueueStep
<1>3. CASE AnalyzeQueued
  BY <1>3 DEF AnalyzeQueued, QueueStep, SymbolTask, Idle
<1>4. CASE ~Symbol /\ ~EndMember /\ ~AnalyzeQueued
  <2>1. UNCHANGED <<prog, next, queue, symbols>>
    BY <1>4 DEF Next, Analyzer, Effects, ModuleSteps, SkipPass, BeginPass, FinishPass, Call, Return, LinkBase,
         ReserveSuper, VisitField, PlaceField, BuildTable, EvaluateAttribute, AnalyzeMember,
         EndQueued, Complete, vars
  <2> QED BY <2>1 DEF QueueStep
<1> QED BY <1>1, <1>2, <1>3, <1>4

(* The first frame's work, by its place.                                   *)
LEMMA WorkingAt ==
  ASSUME NEW d, NEW T, NEW g, 1 \in DOMAIN stack', stack'[1] = g, Works(g, d, T)'
  PROVE  Working(d, T)'
BY DEF Working, Works

(* A frame that does not change goes on with its work.                     *)
LEMMA WorksOn ==
  ASSUME Grows, NEW d \in Defn, NEW T, NEW f, NEW g, Works(f, d, T), g.on = f.on,
         g.todo = f.todo, g.pass = f.pass
  PROVE  Works(g, d, T)'
BY DEF Works, Grows, MarksGrow

(* The first place is the last or before it.                               *)
LEMMA FirstOrLast ==
  ASSUME NEW n \in Nat \ {0}
  PROVE  1 \in 1 .. n /\ 1 \in 1 .. n + 1 /\ (n = 1 \/ 1 \in 1 .. n - 1)
OBVIOUS

(* An interval of one number, and one that has the number one.             *)
LEMMA OnlyOne ==
  /\ \A x \in 1 .. 1 : x = 1
  /\ \A x \in Nat : 1 \in 1 .. x => x \in Nat \ {0}
OBVIOUS

(* The first place when the last is taken away.                            *)
LEMMA FirstLeft ==
  ASSUME NEW n \in Nat, n > 1
  PROVE  1 \in 1 .. n - 1 /\ (n - 1 = 1 \/ 1 \in 1 .. n - 2)
OBVIOUS

(* The definition that is analyzed first has, at any time, the passes it   *)
(* was to run, or it runs them, or they are left to run.                   *)
LEMMA MoveWorks ==
  ASSUME TypedState, Frames, Reported, Grows, NEW g \in FrameType, Moves(g), flagged' = {},
         Len(stack) = 1, NEW d \in Defn, NEW T, \A p \in T : p # "" /\ Marked(d, p), Working(d, T)
  PROVE  Works(g, d, T)'
<1>h. PICK h : h = Top OBVIOUS
<1>0. Works(h, d, T) /\ h = stack[1] /\ DOMAIN stack = 1 .. 1 /\ h.on = d
  BY <1>h DEF Working, Works, Top, Moves, Retop
<1>m. MarksTyped /\ finished[d] \subseteq finished'[d] /\ h.pass \in PassName \cup {""}
  BY <1>h, TopOfMove DEF Grows, MarksGrow, Moves
<1>1. CASE Skips(g)
  <2>1. PICK p \in h.todo : p \in Begun(d) /\ g.todo = h.todo \ {p}
    BY <1>0, <1>1, <1>h DEF Skips
  <2>2. h.pass = "" /\ g.on = d
    BY <1>0, <1>1, <1>h DEF Skips, Same
  <2>3. p \in T => p \in finished[d]
    <3> SUFFICES ASSUME p \in T, p \in running[d] PROVE FALSE
      BY <2>1 DEF Begun
    <3>1. PICK j : At(j, d, p)
      BY DEF Reported, Stale, Grows, MarksGrow
    <3>b. j \in 1 .. 1
      BY <1>0, <3>1 DEF At
    <3>2. j = 1
      BY <3>b, OnlyOne
    <3> QED BY <1>0, <2>2, <3>1, <3>2 DEF At
  <2> QED BY <1>0, <1>m, <2>1, <2>2, <2>3 DEF Works
<1>2. CASE Begins(g)
  <2>1. g.on = d /\ h.pass = "" /\ g.todo = h.todo \ {g.pass}
    BY <1>0, <1>2, <1>h DEF Begins, Same
  <2> QED BY <1>0, <1>m, <2>1 DEF Works
<1>3. CASE Ends(g)
  <2>1. g.on = d /\ g.todo = h.todo /\ h.pass # ""
    BY <1>0, <1>3, <1>h DEF Ends, Same
  <2>2. h.pass \in T => h.pass \in finished'[d]
    <3> SUFFICES ASSUME h.pass \in T PROVE h.pass \in finished'[d]
      OBVIOUS
    <3>p. PICK p : p = h.pass OBVIOUS
    <3>1. Finish(d, p) /\ p \in PassName
      BY <1>0, <1>3, <1>h, <1>m, <2>1, <3>p DEF Ends
    <3>2. flagged \subseteq flagged'
      BY DEF Grows, MarksGrow
    <3> QED BY <1>m, <3>1, <3>2, <3>p, FinishGrows
  <2> QED BY <1>0, <1>m, <2>1, <2>2 DEF Works
<1>4. CASE Goes(g)
  <2>1. g.on = h.on /\ g.todo = h.todo /\ g.pass = h.pass
    BY <1>4, <1>h DEF Goes, Same
  <2> QED BY <1>0, <2>1, WorksOn
<1>5. CASE Fails(g)
  BY <1>5 DEF Fails
<1> QED BY <1>1, <1>2, <1>3, <1>4, <1>5 DEF Moves

(* Its work goes on, or it is finished, after every step.                  *)
LEMMA WorkingKept ==
  ASSUME TypedState, Frames, Callers, RunningIs, Alone, Reported, StackStep, flagged' = {},
         NEW d \in Defn, NEW T, \A p \in T : p # "" /\ Marked(d, p), Working(d, T)
  PROVE  T \subseteq finished'[d] \/ Working(d, T)'
<1>0. Grows /\ finished[d] \subseteq finished'[d] /\ flagged = {}
  BY StepGrows DEF Grows, MarksGrow
<1>n. PICK n : n = Len(stack) OBVIOUS
<1>f. PICK f : f = stack[1] OBVIOUS
<1>1. Works(f, d, T) /\ n \in Nat \ {0} /\ 1 \in 1 .. n
  <2>1. 1 \in DOMAIN stack /\ DOMAIN stack = 1 .. n /\ n \in Nat
    BY <1>n, LenProperties DEF Working, TypedState
  <2>2. Works(f, d, T)
    BY <1>f DEF Working
  <2>3. 1 \in 1 .. n
    BY <2>1
  <2> QED BY <2>1, <2>2, <2>3, OnlyOne
<1>9. CASE 1 \in DOMAIN stack' /\ stack'[1] = f
  BY <1>0, <1>1, <1>9, WorksOn, WorkingAt
<1>2. CASE \E g \in FrameType : Moves(g)
  <2>1. PICK g \in FrameType : Moves(g)
    BY <1>2
  <2>2. DOMAIN stack' = 1 .. n /\ stack'[n] = g /\ \A x \in 1 .. n - 1 : stack'[x] = stack[x]
    BY <1>n, <2>1 DEF Moves, Retop
  <2>3. CASE n = 1
    <3>1. Works(g, d, T)'
      BY <1>0, <1>n, <2>1, <2>3, MoveWorks
    <3> QED BY <1>1, <2>2, <2>3, <3>1, WorkingAt
  <2>4. CASE n # 1
    <3>1. 1 \in 1 .. n - 1
      BY <1>1, <2>4, FirstOrLast
    <3> QED BY <1>1, <1>9, <1>f, <2>2, <3>1
  <2> QED BY <2>3, <2>4
<1>3. CASE \E u, g \in FrameType : Pushed(u, g) /\ Calls(u, g)
  <2>1. PICK u, g \in FrameType : Pushed(u, g) /\ Calls(u, g)
    BY <1>3
  <2>2. DOMAIN stack' = 1 .. n + 1 /\ stack'[n] = u /\ \A x \in 1 .. n - 1 : stack'[x] = stack[x]
    BY <1>n, <2>1 DEF Pushed
  <2>5. 1 \in DOMAIN stack'
    BY <1>1, <2>2, FirstOrLast
  <2>3. CASE n = 1
    <3>1. u.on = f.on /\ u.todo = f.todo /\ u.pass = f.pass
      BY <1>f, <1>n, <2>1, <2>3 DEF Calls, Same, Top
    <3>2. Works(u, d, T)'
      BY <1>0, <1>1, <3>1, WorksOn
    <3> QED BY <2>2, <2>3, <2>5, <3>2, WorkingAt
  <2>4. CASE n # 1
    <3>1. 1 \in 1 .. n - 1
      BY <1>1, <2>4, FirstOrLast
    <3> QED BY <1>9, <1>f, <2>2, <2>5, <3>1
  <2> QED BY <2>3, <2>4
<1>4. CASE Dropped(Caller) /\ ReturnsOk
  <2>c. PICK g : g = Caller OBVIOUS
  <2>1. DOMAIN stack' = 1 .. n - 1 /\ stack'[n - 1] = g /\ n > 1 /\ \A x \in 1 .. n - 2 : stack'[x] = stack[x]
    BY <1>4, <1>n, <2>c DEF Dropped
  <2>2. 1 \in 1 .. n - 1 /\ (n - 1 = 1 \/ 1 \in 1 .. n - 2)
    BY <1>1, <2>1, FirstLeft
  <2>3. n - 1 = 1 => g = f
    BY <1>f, <1>n, <2>c DEF Caller
  <2> QED BY <1>9, <1>f, <2>1, <2>2, <2>3
<1>5. CASE \E g \in FrameType : Dropped(g) /\ ReturnsFailed(g)
  BY <1>0, <1>5, FailureIsFlagged
<1>6. CASE \E g \in FrameType : Entered(g)
  <2>1. DOMAIN stack = {}
    BY <1>6, NothingIn DEF Entered
  <2> QED BY <2>1 DEF Working
<1>7. CASE Left
  <2>1. f.pass = "" /\ f.todo = {}
    BY <1>7, <1>f DEF Left, Top
  <2> QED BY <1>0, <1>1, <2>1 DEF Works
<1>8. CASE stack' = stack
  <2>1. 1 \in DOMAIN stack'
    BY <1>8 DEF Working
  <2> QED BY <1>8, <1>9, <1>f, <2>1
<1> QED BY <1>2, <1>3, <1>4, <1>5, <1>6, <1>7, <1>8 DEF StackStep

(* The elements of a sequence are its first and those of the rest.         *)
LEMMA HeadAndTail ==
  ASSUME NEW S, NEW s \in Seq(S), s # <<>>
  PROVE  Head(s) \in S /\ \A x \in Elems(s) : x = Head(s) \/ x \in Elems(Tail(s))
<1>1. /\ Len(s) \in Nat /\ Len(s) >= 1 /\ DOMAIN s = 1 .. Len(s) /\ Head(s) = s[1] /\ s[1] \in S
      /\ DOMAIN Tail(s) = 1 .. Len(s) - 1
      /\ \A i \in 1 .. Len(s) - 1 : Tail(s)[i] = s[i + 1]
  OBVIOUS
<1>2. \A i \in 1 .. Len(s) : i = 1 \/ (i - 1 \in 1 .. Len(s) - 1 /\ i = (i - 1) + 1)
  BY <1>1
<1>u. PICK u : u = Tail(s) OBVIOUS
<1>h. PICK h : h = Head(s) OBVIOUS
<1>3. \A i \in 1 .. Len(s) : s[i] = h \/ (i - 1 \in DOMAIN u /\ s[i] = u[i - 1])
  BY <1>1, <1>2, <1>u, <1>h
<1>4. \A x \in Elems(s) : x = h \/ x \in Elems(u)
  BY <1>1, <1>3 DEF Elems
<1> QED BY <1>1, <1>4, <1>u, <1>h

(* The passes of a symbol are named, and marked.                           *)
LEMMA SymbolPassesAre ==
  ASSUME NEW d \in Defn
  PROVE  /\ SymbolTask(d) \in Generation /\ SymbolTask(d) \in Task
         /\ SymbolPasses(d) \subseteq TaskPasses(d, SymbolTask(d))
         /\ \A p \in SymbolPasses(d) : p # "" /\ Marked(d, p)
<1>1. SymbolTask(d) \in Generation /\ SymbolTask(d) \in Task
  BY DEF SymbolTask, Generation, Task
<1>2. TaskPasses(d, SymbolTask(d)) \subseteq Elems(PassOrder(d))
  BY <1>1, TasksInOrder
<1>3. Elems(PassOrder(d)) \subseteq PassName /\ "" \notin PassName
  BY OrderNames
<1> QED BY <1>1, <1>2, <1>3 DEF SymbolPasses

(* The frame of a symbol from the queue is to run what that must have.     *)
LEMMA QueuedWorks ==
  ASSUME MarksTyped, NEW d \in Defn, NEW task \in Task, NEW T, T \subseteq TaskPasses(d, task),
         UNCHANGED <<running, finished>>, stack' = <<Frame(d, task, FALSE)>>
  PROVE  Working(d, T)'
<1>g. PICK g : g = Frame(d, task, FALSE) OBVIOUS
<1>1. IsFrame(g, d, FALSE, TaskPasses(d, task) \ finished[d])
  <2>1. FALSE \in BOOLEAN
    OBVIOUS
  <2> QED BY <1>g, <2>1, NewFrame, Zenon
<1>2. 1 \in DOMAIN stack' /\ stack'[1] = g
  BY <1>1, <1>g, SingletonIs, OneElement
<1>3. Works(g, d, T)'
  BY <1>1 DEF IsFrame, Works
<1> QED BY <1>2, <1>3, WorkingAt

(* Symbols have their passes, or will, after every step.                   *)
LEMMA SymbolsReadyKept ==
  ASSUME TypedState, ModuleTyped, Frames, Callers, RunningIs, Alone, Reported, SymbolsReady,
         StackStep, QueueStep
  PROVE  SymbolsReady'
<1>0. Grows /\ prog' = prog
  BY StepGrows DEF QueueStep
<1>q. queue \in Seq(Defn) /\ symbols \subseteq Defn /\ next \in Nat
  BY DEF ModuleTyped
<1> SUFFICES ASSUME flagged' = {}, NEW d \in symbols' PROVE Pending(d)'
  BY DEF SymbolsReady
<1>1. CASE d \notin symbols
  <2>1. queue' = Append(queue, d) /\ d \in Defn
    BY <1>1 DEF QueueStep
  <2>q. PICK q : q = queue OBVIOUS
  <2>w. PICK w : w = queue' OBVIOUS
  <2>S. PICK S : S = Defn OBVIOUS
  <2>2. Longer(S, q, d, w)
    BY <1>q, <2>1, <2>q, <2>w, <2>S, AppendedElems
  <2> QED BY <2>2, <2>w DEF Longer, Pending
<1>2. CASE d \in symbols
  <2>T. PICK T : T = SymbolPasses(d) OBVIOUS
  <2>1. d \in Defn /\ finished[d] \subseteq finished'[d] /\ flagged = {} /\ T = SymbolPasses(d)'
    BY <1>0, <1>q, <1>2, <2>T DEF Grows, MarksGrow, SymbolPasses, SymbolTask, Export
  <2>2. /\ SymbolTask(d) \in Task /\ T \subseteq TaskPasses(d, SymbolTask(d))
        /\ \A p \in T : p # "" /\ Marked(d, p)
    BY <2>1, <2>T, SymbolPassesAre
  <2>n. next > Len(prog.order) => next' > Len(prog'.order)
    <3>1. Len(prog.order) \in Nat
      BY Named, LenProperties DEF TypedState, Steady
    <3>2. next' = next \/ next' = next + 1
      BY DEF QueueStep
    <3> QED BY <1>0, <1>q, <3>1, <3>2
  <2>9. (T \subseteq finished'[d] \/ d \in Elems(queue') \/ (next' > Len(prog'.order) /\ Working(d, T)')) => Pending(d)'
    BY <2>1 DEF Pending
  <2>3. CASE T \subseteq finished[d]
    BY <2>1, <2>3, <2>9
  <2>4. CASE next > Len(prog.order) /\ Working(d, T)
    <3>1. T \subseteq finished'[d] \/ Working(d, T)'
      BY <2>1, <2>2, <2>4, WorkingKept
    <3> QED BY <2>4, <2>9, <2>n, <3>1
  <2>5. CASE d \in Elems(queue)
    <3>1. CASE UNCHANGED <<queue, symbols>>
      BY <2>5, <2>9, <3>1
    <3>2. CASE \E x \in Defn : queue' = Append(queue, x)
      <4>x. PICK x \in Defn : queue' = Append(queue, x)
        BY <3>2
      <4>q. PICK q : q = queue OBVIOUS
      <4>w. PICK w : w = queue' OBVIOUS
      <4>S. PICK S : S = Defn OBVIOUS
      <4>2. Longer(S, q, x, w)
        BY <1>q, <4>x, <4>q, <4>w, <4>S, AppendedElems
      <4> QED BY <2>5, <2>9, <4>2, <4>q, <4>w DEF Longer
    <3>3. CASE /\ queue # <<>> /\ queue' = Tail(queue)
               /\ next > Len(prog.order) /\ UNCHANGED <<running, finished>>
               /\ stack' = <<Frame(Head(queue), SymbolTask(Head(queue)), FALSE)>>
      <4>1. d = Head(queue) \/ d \in Elems(queue')
        BY <1>q, <2>5, <3>3, HeadAndTail
      <4>2. CASE d = Head(queue)
        <5>t. PICK task : task = SymbolTask(d) OBVIOUS
        <5>1. stack' = <<Frame(d, task, FALSE)>> /\ task \in Task /\ T \subseteq TaskPasses(d, task)
          BY <2>2, <3>3, <4>2, <5>t
        <5>m. MarksTyped
          BY DEF TypedState, MarksTyped
        <5>2. Working(d, T)'
          BY <2>1, <3>3, <5>1, <5>m, QueuedWorks
        <5> QED BY <2>9, <2>n, <3>3, <5>2
      <4> QED BY <2>9, <4>1, <4>2
    <3> QED BY <3>1, <3>2, <3>3 DEF QueueStep
  <2> QED BY <1>2, <2>1, <2>T, <2>3, <2>4, <2>5 DEF SymbolsReady, Pending
<1> QED BY <1>1, <1>2

-----------------------------------------------------------------------------
(* What a completed module has.                                            *)

(* The invariant for the symbols of a module.                              *)
Completing == Core /\ Quiet /\ Plans /\ LaidOut /\ Gathered /\ FieldsReady /\ SymbolsReady /\ Ended

(* It holds after every step.                                              *)
LEMMA CompletingKept == Completing /\ [Next]_vars => Completing'
<1> SUFFICES ASSUME Completing, [Next]_vars PROVE Completing'
  OBVIOUS
<1>0. /\ Core' /\ StackStep /\ LayoutStep /\ TypedState /\ ModuleTyped /\ Frames /\ Callers /\ RunningIs
      /\ Alone /\ Reported /\ Quiet /\ Plans /\ LaidOut /\ Gathered /\ FieldsReady /\ SymbolsReady /\ Ended
  BY NextCore DEF Completing, Core
<1>1. QueueStep /\ TypedState'
  BY <1>0, NextQueues DEF Core
<1>2. Quiet' /\ Plans' /\ LaidOut'
  BY <1>0, QuietKept, PlansKept, LaidOutKept
<1>3. Gathered' /\ FieldsReady'
  BY <1>0, <1>1, GatheredKept, FieldsReadyKept
<1>4. SymbolsReady' /\ Ended'
  BY <1>0, <1>1, SymbolsReadyKept, EndedKept
<1> QED BY <1>0, <1>2, <1>3, <1>4 DEF Completing

(* It holds at the start.                                                  *)
LEMMA InitCompleting == Init => Completing
<1> SUFFICES ASSUME Init PROVE Completing
  OBVIOUS
<1>0. DOMAIN stack = {} /\ symbols = {} /\ ~done
  BY NothingIn DEF Init
<1>1. Quiet /\ Plans /\ Gathered /\ SymbolsReady /\ Ended
  BY <1>0 DEF Quiet, Plans, Gathered, SymbolsReady, Ended, At
<1>2. LaidOut /\ FieldsReady
  <2>1. \A c \in Class : running[c] = {} /\ finished[c] = {}
    BY OwnerOfClass DEF Init
  <2> QED BY <2>1 DEF LaidOut, FieldsReady, Begun
<1> QED BY <1>1, <1>2, InitCore DEF Completing

(* The invariant says what was to be shown.                                *)
LEMMA CompletingImplies == Completing => CompletionIsTransitive
<1> SUFFICES ASSUME Completing, done, flagged = {}
             PROVE  /\ \A d \in symbols : SymbolPasses(d) \subseteq finished[d]
                    /\ \A c \in Class : "RecursiveFieldType" \in finished[c] =>
                         \A a \in Targets(c) : TG \subseteq finished[a]
  BY DEF CompletionIsTransitive, SymbolPasses, SymbolTask, Targets, TG
<1>0. DOMAIN stack = {} /\ queue = <<>> /\ Elems(queue) = {}
  BY NothingIn, NoneIn DEF Completing, Ended
<1>1. \A d \in symbols : SymbolPasses(d) \subseteq finished[d]
  BY <1>0 DEF Completing, SymbolsReady, Pending, Working
<1>2. \A c \in Class : "RecursiveFieldType" \in finished[c] => \A a \in Targets(c) : TG \subseteq finished[a]
  <2> SUFFICES ASSUME NEW c \in Class, "RecursiveFieldType" \in finished[c], NEW a \in Targets(c)
               PROVE  TG \subseteq finished[a]
    OBVIOUS
  <2>1. a \in Class /\ a \in Defn
    BY TargetIsClass, OwnerOfClass DEF Completing, Core
  <2>2. TG \subseteq Begun(a)
    BY FailuresAreFlagged DEF Completing, Core, FieldsReady
  <2>3. \A p : p \notin running[a]
    BY <1>0, <2>1 DEF Completing, Core, Reported, Stale, At
  <2> QED BY <2>2, <2>3 DEF Begun
<1> QED BY <1>1, <1>2

(* A module that is analyzed without error has, for every symbol that it   *)
(* collected, all the passes that code generation needs, and for every     *)
(* class whose type is generated those of its superclass and of the types  *)
(* of its fields.                                                          *)
THEOREM CompletionIsComplete == Spec => []CompletionIsTransitive
<1>1. Init => Completing
  BY InitCompleting
<1>2. Completing /\ [Next]_vars => Completing'
  BY CompletingKept
<1>3. Completing => CompletionIsTransitive
  BY CompletingImplies
<1> QED BY <1>1, <1>2, <1>3, PTL DEF Spec

-----------------------------------------------------------------------------
(* Classes in programs that are not tangled.                               *)

(* No class is flagged in a program that is not tangled.                   *)
LEMMA NothingFlagged ==
  ASSUME TypedState, FlaggedForCause, ~Tangled
  PROVE  flagged = {}
<1> SUFFICES ASSUME flagged # {} PROVE FALSE
  OBVIOUS
<1>1. PICK c \in Class : "BaseTypes" \in finished[c] /\ c \in Declared(c)
  BY DEF FlaggedForCause, Circular
<1>2. c \in Reached(c)
  BY ReachedIs DEF IsReached, TypedState, Steady
<1> QED BY <1>1, <1>2 DEF Tangled

(* Whether a program is tangled does not change.                           *)
LEMMA TangledStays ==
  ASSUME prog' = prog
  PROVE  Tangled' <=> Tangled
BY DEF Tangled, Declared, Reached, Reach, Mentions

(* A frame that stays in a pass has the steps that it had, or it is the    *)
(* top and takes the first of them.                                        *)
LEMMA StepsLater ==
  ASSUME TypedState, Frames, Callers, StackStep, NEW i, NEW d, NEW p, p # "",
         At(i, d, p), At(i, d, p)'
  PROVE  \/ stack'[i].steps = stack[i].steps
         \/ /\ i = Len(stack) /\ stack[i].steps # <<>>
            /\ \/ Head(stack[i].steps).op = "analyze" /\ stack'[i].steps = Tail(stack[i].steps)
               \/ \E g \in FrameType : Retop(g) /\ Goes(g) /\ stack'[i] = g
<1>f. PICK f : f = stack[i] OBVIOUS
<1>n. PICK n : n = Len(stack) OBVIOUS
<1>0. /\ i \in DOMAIN stack /\ f.on = d /\ f.pass = p
      /\ i \in DOMAIN stack' /\ stack'[i].on = d /\ stack'[i].pass = p
      /\ DOMAIN stack = 1 .. n /\ n \in Nat /\ (i = n \/ i \in 1 .. n - 1)
  <2>1. /\ i \in DOMAIN stack /\ f.on = d /\ f.pass = p
        /\ i \in DOMAIN stack' /\ stack'[i].on = d /\ stack'[i].pass = p
    BY <1>f DEF At
  <2>2. DOMAIN stack = 1 .. n /\ n \in Nat
    BY <1>n, LenProperties DEF TypedState
  <2>3. i \in 1 .. n => (i = n \/ i \in 1 .. n - 1)
    BY <2>2, LastOrBefore
  <2> QED BY <2>1, <2>2, <2>3
<1>9. CASE stack'[i] = f
  BY <1>9, <1>f
<1>1. CASE \E g \in FrameType : Moves(g)
  <2>1. PICK g \in FrameType : Moves(g)
    BY <1>1
  <2>2. stack'[n] = g /\ (i \in 1 .. n - 1 => stack'[i] = f)
    BY <1>f, <1>n, <2>1 DEF Moves, Retop
  <2>3. CASE i = n
    <3>1. f = Top /\ g.pass = p
      BY <1>0, <1>f, <1>n, <2>2, <2>3 DEF Top
    <3>2. Goes(g)
      BY <1>0, <2>1, <3>1 DEF Moves, Skips, Begins, Ends, Fails
    <3>3. f.steps # <<>> /\ Retop(g)
      BY <2>1, <3>1, <3>2 DEF Goes, Moves
    <3> QED BY <1>f, <1>n, <2>2, <2>3, <3>2, <3>3
  <2> QED BY <1>0, <1>9, <2>2, <2>3
<1>2. CASE \E u, g \in FrameType : Pushed(u, g) /\ Calls(u, g)
  <2>1. PICK u, g \in FrameType : Pushed(u, g) /\ Calls(u, g)
    BY <1>2
  <2>2. stack'[n] = u /\ (i \in 1 .. n - 1 => stack'[i] = f)
    BY <1>f, <1>n, <2>1 DEF Pushed
  <2>3. CASE i = n
    <3>1. f = Top
      BY <1>f, <1>n, <2>3 DEF Top
    <3>2. f.steps # <<>> /\ u.steps = Tail(f.steps) /\ Head(f.steps).op = "analyze"
      BY <2>1, <3>1 DEF Calls
    <3> QED BY <1>f, <1>n, <2>2, <2>3, <3>2
  <2> QED BY <1>0, <1>9, <2>2, <2>3
<1>3. CASE Dropped(Caller) /\ ReturnsOk
  <2>c. PICK c : c = Caller OBVIOUS
  <2>1. (i = Len(stack) - 1 /\ stack'[i] = c) \/ stack'[i] = stack[i]
    BY <1>0, <1>3, <2>c, DroppedAt
  <2>2. stack'[i] = stack[i]
    BY <2>1, <2>c DEF Caller
  <2> QED BY <1>9, <1>f, <2>2
<1>4. CASE \E g \in FrameType : Dropped(g) /\ ReturnsFailed(g)
  <2>1. PICK g \in FrameType : Dropped(g) /\ ReturnsFailed(g)
    BY <1>4
  <2>2. stack'[i] = g \/ stack'[i] = stack[i]
    BY <1>0, <2>1, DroppedAt
  <2>3. g.pass = ""
    BY <2>1 DEF ReturnsFailed
  <2> QED BY <1>0, <1>9, <1>f, <2>2, <2>3
<1>5. CASE \E g \in FrameType : Entered(g)
  BY <1>0, <1>5, NothingIn DEF Entered
<1>6. CASE Left
  BY <1>0, <1>6 DEF Left
<1>7. CASE UNCHANGED <<stack, running, finished, flagged>>
  BY <1>7, <1>9, <1>f
<1> QED BY <1>1, <1>2, <1>3, <1>4, <1>5, <1>6, <1>7 DEF StackStep

(* A class that looks at its base types asks for its base only, and waits  *)
(* for that only.                                                          *)
BaseCalled ==
  \A i : \A c \in Class : At(i, c, "BaseTypes") =>
    /\ \A s \in Elems(stack[i].steps) : s.op = "analyze" => s.on = prog.base[c]
    /\ i + 1 \in DOMAIN stack => stack[i + 1].on = prog.base[c]

(* The steps that are left ask for the base only, after every step.        *)
LEMMA BaseStepsKept ==
  ASSUME TypedState, Frames, Callers, BaseCalled, StackStep, prog' = prog,
         NEW i, NEW c \in Class, At(i, c, "BaseTypes")'
  PROVE  \A s \in Elems(stack'[i].steps) : s.op = "analyze" => s.on = prog.base[c]
<1>0. "BaseTypes" # ""
  OBVIOUS
<1>1. CASE \E g \in FrameType : /\ Begins(g) /\ stack'[i] = g /\ g.pass = "BaseTypes" /\ Top.on = c
  <2>1. PICK g \in FrameType : /\ Begins(g) /\ stack'[i] = g /\ g.pass = "BaseTypes" /\ Top.on = c
    BY <1>1
  <2>2. Meets(c, "BaseTypes", g.steps)
    BY <2>1 DEF Begins
  <2> QED BY <2>1, <2>2 DEF Meets
<1>2. CASE At(i, c, "BaseTypes")
  <2>1. \A s \in Elems(stack[i].steps) : s.op = "analyze" => s.on = prog.base[c]
    BY <1>2 DEF BaseCalled
  <2>2. \/ stack'[i].steps = stack[i].steps
        \/ /\ i = Len(stack) /\ stack[i].steps # <<>>
           /\ \/ Head(stack[i].steps).op = "analyze" /\ stack'[i].steps = Tail(stack[i].steps)
              \/ \E g \in FrameType : Retop(g) /\ Goes(g) /\ stack'[i] = g
    BY <1>0, <1>2, StepsLater
  <2>3. CASE i = Len(stack) /\ stack[i].steps # <<>> /\ stack'[i].steps = Tail(stack[i].steps)
    <3>1. FrameOK(stack[i])
      BY <1>2 DEF Frames, At
    <3>t. PICK t : t = stack[i].steps OBVIOUS
    <3>2. StepsAre(stack[i].on, stack[i].pass, t) /\ InOrder(t) /\ t # <<>>
      BY <2>3, <3>1, <3>t DEF FrameOK
    <3>3. Elems(t) = {Head(t)} \cup Elems(Tail(t))
      BY <3>2, StepsLeft
    <3> QED BY <2>1, <2>3, <3>t, <3>3
  <2>4. CASE i = Len(stack) /\ stack[i].steps # <<>> /\ \E g \in FrameType : Retop(g) /\ Goes(g) /\ stack'[i] = g
    <3>1. PICK g \in FrameType : Goes(g) /\ stack'[i] = g
      BY <2>4
    <3>2. Top = stack[i] /\ Top.pass = "BaseTypes"
      BY <1>2, <2>4 DEF Top, At
    <3>3. stack'[i].steps = Tail(stack[i].steps)
      BY <3>1, <3>2 DEF Goes
    <3> QED BY <2>3, <2>4, <3>3
  <2> QED BY <2>1, <2>2, <2>3, <2>4
<1>3. \/ At(i, c, "BaseTypes")
      \/ \E g \in FrameType : /\ Moves(g) /\ Begins(g) /\ i = Len(stack) /\ stack'[i] = g
                              /\ g.on = c /\ g.pass = "BaseTypes" /\ Top.on = c
  BY <1>0, PassesBegin
<1> QED BY <1>1, <1>2, <1>3

(* What follows the last place is outside.                                 *)
LEMMA AfterLast ==
  ASSUME NEW n \in Nat, NEW i \in 1 .. n
  PROVE  /\ i + 1 \in 1 .. n + 1 => (i + 1 \in 1 .. n \/ i = n)
         /\ i + 1 # 1 /\ (i + 1 = n + 1 => i = n) /\ (i = n => i + 1 \notin 1 .. n)
OBVIOUS

(* It waits for its base only, after every step.                           *)
LEMMA BaseCalleeKept ==
  ASSUME TypedState, Frames, Callers, BaseCalled, StackStep, prog' = prog,
         NEW i, NEW c \in Class, At(i, c, "BaseTypes")', i + 1 \in DOMAIN stack'
  PROVE  stack'[i + 1].on = prog.base[c]
<1>0. "BaseTypes" # ""
  OBVIOUS
<1>n. PICK n : n = Len(stack) OBVIOUS
<1>j. PICK j : j = i + 1 OBVIOUS
<1>d. DOMAIN stack = 1 .. n /\ n \in Nat
  BY <1>n, LenProperties DEF TypedState
<1>1. CASE \E g \in FrameType : Moves(g) /\ i = Len(stack)
  <2>1. DOMAIN stack' = 1 .. n /\ i = n /\ n \in 1 .. n
    BY <1>1, <1>n DEF Moves, Retop
  <2> QED BY <1>d, <2>1, AfterLast
<1>2. CASE At(i, c, "BaseTypes")
  <2>0. i \in 1 .. n /\ stack[i].pass = "BaseTypes" /\ stack[i].on = c
    BY <1>2, <1>d DEF At
  <2>1. \/ Kept(j)
        \/ \E f, g \in FrameType : Pushed(f, g) /\ Calls(f, g) /\ j = Len(stack) + 1 /\ stack'[j] = g
        \/ \E g \in FrameType : Entered(g) /\ j = 1 /\ stack'[j] = g
    BY <1>j, StackOn
  <2>2. CASE Kept(j)
    BY <1>2, <1>j, <2>2 DEF Kept, BaseCalled
  <2>3. CASE \E f, g \in FrameType : Pushed(f, g) /\ Calls(f, g) /\ j = Len(stack) + 1 /\ stack'[j] = g
    <3>1. PICK f, g \in FrameType : Pushed(f, g) /\ Calls(f, g) /\ j = Len(stack) + 1 /\ stack'[j] = g
      BY <2>3
    <3>2. i = n
      BY <1>d, <1>n, <1>j, <2>0, <3>1, AfterLast
    <3>3. Top = stack[i]
      BY <1>n, <3>2 DEF Top
    <3>t. PICK t : t = stack[i].steps OBVIOUS
    <3>4. t # <<>> /\ Head(t).op = "analyze" /\ g.on = Head(t).on
      BY <3>1, <3>3, <3>t DEF Calls, Fresh
    <3>5. FrameOK(stack[i])
      BY <1>2 DEF Frames, At
    <3>6. StepsAre(stack[i].on, stack[i].pass, t) /\ InOrder(t)
      BY <3>5, <3>t DEF FrameOK
    <3>7. Head(t) \in Elems(t)
      BY <3>4, <3>6, StepsLeft
    <3> QED BY <1>2, <1>j, <3>1, <3>4, <3>7, <3>t DEF BaseCalled
  <2>4. CASE \E g \in FrameType : Entered(g) /\ j = 1 /\ stack'[j] = g
    BY <1>d, <1>j, <2>0, <2>4, AfterLast
  <2> QED BY <2>1, <2>2, <2>3, <2>4
<1>3. \/ At(i, c, "BaseTypes")
      \/ \E g \in FrameType : /\ Moves(g) /\ Begins(g) /\ i = Len(stack) /\ stack'[i] = g
                              /\ g.on = c /\ g.pass = "BaseTypes" /\ Top.on = c
  BY <1>0, PassesBegin
<1> QED BY <1>1, <1>2, <1>3

(* So it is after every step.                                              *)
LEMMA BaseCalledKept ==
  ASSUME TypedState, Frames, Callers, BaseCalled, StackStep, prog' = prog
  PROVE  BaseCalled'
BY BaseStepsKept, BaseCalleeKept DEF BaseCalled

(* The base of a class does not lead back to it.                           *)
LEMMA NoWayBack ==
  ASSUME TypedState, Connected, ~Tangled, NEW c \in Class, prog.base[c] # NoClass,
         NEW i \in DOMAIN stack, NEW j \in DOMAIN stack, i <= j, stack[i].on = prog.base[c]
  PROVE  stack[j].on # c
<1> SUFFICES ASSUME stack[j].on = c PROVE FALSE
  OBVIOUS
<1>b. PICK b : b = prog.base[c] OBVIOUS
<1>1. b \in Class /\ prog.base \in [Class -> Class \cup {NoClass}]
  BY <1>b, Named, ProgramAssumption DEF TypedState, Steady
<1>2. Owner(c) = c /\ Owner(b) = b
  BY <1>1, OwnerOfClass
<1>3. c \in Reached(b)
  BY <1>2, <1>b DEF Connected
<1>4. b \in Declared(c)
  <2>1. IsAbove(Above(b, prog.base), b, prog.base)
    BY <1>1, AboveIs
  <2> QED BY <1>b, <2>1, DeclaredIs DEF IsAbove
<1> QED BY <1>3, <1>4 DEF Tangled

(* The passes of a class that use what its superclass has: the positions   *)
(* of its fields and the slots of its methods.                             *)
Slots == {"Field", "Overloading"}

(* The operations that use it.                                             *)
SlotOp(p) == IF p = "Field" THEN "reserve" ELSE "table"

(* They are passes of the classes, which are marked.                       *)
LEMMA SlotsAre ==
  ASSUME NEW c \in Class, NEW p \in Slots
  PROVE  /\ p # "" /\ p # "BaseTypes" /\ p # "RecursiveFieldType" /\ c \in Defn
         /\ Counted(c, p) /\ Guarded(c, p) /\ Rests(p) = {"BaseTypes"} /\ p \in PassName
         /\ SlotOp(p) \in Late
BY OwnerOfClass, ProgramAssumption DEF Slots, Counted, Guarded, Marked, Early, Rests, PassName, SlotOp, Late

(* No frame is in such a pass of a class once it is finished.              *)
Once == \A c \in Class : \A p \in Slots : p \in finished[c] => \A i : ~At(i, c, p)

(* That stays so.                                                          *)
LEMMA OnceKept ==
  ASSUME TypedState, Frames, Callers, RunningIs, Alone, Reported, Once, StackStep
  PROVE  Once'
<1> SUFFICES ASSUME NEW c \in Class, NEW p \in Slots, p \in finished'[c], NEW i, At(i, c, p)'
             PROVE  FALSE
  BY DEF Once
<1>0. p # "" /\ p # "BaseTypes" /\ Counted(c, p)
  BY SlotsAre
<1>1. \/ At(i, c, p)
      \/ \E g \in FrameType : /\ Moves(g) /\ Begins(g) /\ i = Len(stack) /\ stack'[i] = g
                              /\ g.on = c /\ g.pass = p /\ Top.on = c
  BY <1>0, PassesBegin
<1>2. CASE p \in finished[c]
  <2>1. ~At(i, c, p)
    BY <1>2 DEF Once
  <2>2. PICK g \in FrameType : Begins(g) /\ g.pass = p /\ Top.on = c
    BY <1>1, <2>1
  <2> QED BY <1>2, <2>2 DEF Begins, Begun
<1>3. CASE p \notin finished[c]
  <2>1. PICK g \in FrameType : Moves(g) /\ Ends(g) /\ Top.on = c /\ Top.pass = p
    BY <1>0, <1>3, FinishedByEnds
  <2>n. PICK n : n = Len(stack) OBVIOUS
  <2>2. n \in DOMAIN stack /\ stack'[n] = g /\ Top = stack[n]
    BY <2>1, <2>n, TopOfMove DEF Moves, Retop
  <2>3. At(n, c, p)
    BY <2>1, <2>2 DEF At
  <2>4. At(i, c, p)
    <3>1. ASSUME NEW k, Begins(k) PROVE FALSE
      BY <1>0, <2>1, <3>1 DEF Begins
    <3> QED BY <1>1, <3>1
  <2>5. i = n
    BY <1>0, <2>3, <2>4 DEF Alone
  <2>6. g.pass = ""
    BY <2>1 DEF Ends
  <2> QED BY <1>0, <2>2, <2>5, <2>6 DEF At
<1> QED BY <1>2, <1>3

(* The base types of a class are settled when such a pass begins.          *)
Settled == \A c \in Class : \A p \in Slots : p \in Begun(c) =>
             "BaseTypes" \in finished[c] /\ \A i : ~At(i, c, "BaseTypes")

(* That stays so.                                                          *)
LEMMA SettledKept ==
  ASSUME TypedState, Frames, Callers, RunningIs, Alone, Reported, Connected, Plans,
         BaseCalled, ~Tangled, Settled, StackStep
  PROVE  Settled'
<1>0. Grows
  BY StepGrows
<1> SUFFICES ASSUME NEW c \in Class, NEW p \in Slots, p \in Begun(c)'
             PROVE  "BaseTypes" \in finished'[c] /\ \A i : ~At(i, c, "BaseTypes")'
  BY DEF Settled
<1>c. c \in Defn /\ finished[c] \subseteq finished'[c]
  BY <1>0, OwnerOfClass DEF Grows, MarksGrow
<1>p. p # "" /\ p # "BaseTypes" /\ Rests(p) = {"BaseTypes"}
  BY SlotsAre
<1>9. "BaseTypes" # ""
  OBVIOUS
<1>1. CASE p \in Begun(c)
  <2>1. "BaseTypes" \in finished[c] /\ \A i : ~At(i, c, "BaseTypes")
    BY <1>1 DEF Settled
  <2>2. ASSUME NEW i, At(i, c, "BaseTypes")' PROVE FALSE
    <3>0. \/ At(i, c, "BaseTypes")
          \/ \E g2 \in FrameType : /\ Moves(g2) /\ Begins(g2) /\ i = Len(stack) /\ stack'[i] = g2
                                   /\ g2.on = c /\ g2.pass = "BaseTypes" /\ Top.on = c
      BY <1>9, <2>2, PassesBegin
    <3>1. PICK g \in FrameType : Begins(g) /\ g.pass = "BaseTypes" /\ Top.on = c
      BY <2>1, <3>0
    <3> QED BY <2>1, <3>1 DEF Begins, Begun
  <2> QED BY <1>c, <2>1, <2>2
<1>2. CASE p \notin Begun(c)
  <2>1. PICK g \in FrameType : Moves(g) /\ Begins(g) /\ Top.on = c /\ g.pass = p
    BY <1>c, <1>2, BegunByBegins, ClassMarks
  <2>h. PICK h : h = Top OBVIOUS
  <2>n. PICK n : n = Len(stack) OBVIOUS
  <2>2. h = stack[n] /\ n \in DOMAIN stack /\ DOMAIN stack = 1 .. n /\ n \in Nat /\ stack'[n] = g
    BY <2>1, <2>h, <2>n, TopOfMove DEF Moves, Retop
  <2>3. h.pass = "" /\ p \in h.todo /\ h.on = c /\ Rests(p) \cap h.todo = {}
    BY <2>1, <2>h DEF Begins
  <2>4. "BaseTypes" \in Begun(c)
    <3>1. Rests(p) \subseteq h.todo \cup Begun(c)
      BY <2>2, <2>3 DEF Plans, Planned
    <3> QED BY <1>p, <2>3, <3>1
  <2>5. ASSUME NEW i, At(i, c, "BaseTypes") PROVE FALSE
    <3>1. i \in 1 .. n /\ stack[i].pass = "BaseTypes"
      BY <2>2, <2>5 DEF At
    <3>2. i = n \/ i \in 1 .. n - 1
      BY <2>2, <3>1, LastOrBefore
    <3>3. CASE i = n
      BY <1>9, <2>2, <2>3, <3>1, <3>3
    <3>4. CASE i \in 1 .. n - 1
      <4>1. i + 1 \in 1 .. n /\ i + 1 <= n
        BY <2>2, <3>4
      <4>2. stack[i + 1].on = prog.base[c]
        BY <2>2, <2>5, <4>1 DEF BaseCalled
      <4>3. prog.base[c] # NoClass
        <5>j. PICK j : j = i + 1 OBVIOUS
        <5>2. j \in 1 .. Len(stack) /\ stack \in Seq(FrameType)
          BY <2>2, <2>n, <4>1, <5>j DEF TypedState
        <5>3. stack[j] \in FrameType
          BY <5>2, ElementOfSeq
        <5>1. stack[i + 1].on \in Defn
          BY <5>3, <5>j DEF FrameType
        <5> QED BY <4>2, <5>1, ProgramAssumption
      <4>j. PICK j : j = i + 1 OBVIOUS
      <4>4. j \in DOMAIN stack /\ n \in DOMAIN stack /\ j <= n /\ stack[j].on = prog.base[c]
        BY <2>2, <4>1, <4>2, <4>j
      <4>5. stack[n].on # c
        BY <4>3, <4>4, NoWayBack
      <4> QED BY <2>2, <2>3, <4>5
    <3> QED BY <3>2, <3>3, <3>4
  <2>6. "BaseTypes" \in finished[c]
    <3>1. ~Counted(c, "BaseTypes")
      BY DEF Counted, Early
    <3> QED BY <1>c, <2>4, <3>1 DEF RunningIs, Begun
  <2>7. ASSUME NEW i, At(i, c, "BaseTypes")' PROVE FALSE
    <3>0. \/ At(i, c, "BaseTypes")
          \/ \E g2 \in FrameType : /\ Moves(g2) /\ Begins(g2) /\ i = Len(stack) /\ stack'[i] = g2
                                   /\ g2.on = c /\ g2.pass = "BaseTypes" /\ Top.on = c
      BY <1>9, <2>7, PassesBegin
    <3>1. PICK k \in FrameType : i = Len(stack) /\ stack'[i] = k /\ k.pass = "BaseTypes"
      BY <2>5, <3>0
    <3> QED BY <1>p, <2>1, <2>2, <2>n, <3>1
  <2> QED BY <1>c, <2>6, <2>7
<1> QED BY <1>1, <1>2

(* Such a pass of the superclass is one of those asked for.                *)
LEMMA EvaluationTable ==
  ASSUME NEW c \in Class
  PROVE  "Overloading" \in TaskPasses(c, "Evaluation")
BY DEF TaskPasses, ClassTask

(* The superclass of a class does not change once such a pass has begun.   *)
LEMMA SuperStays ==
  ASSUME TypedState, Frames, Settled, LayoutStep, NEW c \in Class, NEW p \in Slots,
         p \in Begun(c)
  PROVE  super'[c] = super[c]
<1>0. super \in [Class -> Class \cup {NoClass}]
  BY DEF TypedState, Steady
<1>1. CASE UNCHANGED <<super, placed>>
  BY <1>1
<1>2. CASE \E e, b \in Class : LinkStep(e, b)
  <2>1. PICK e, b \in Class : LinkStep(e, b)
    BY <1>2
  <2>2. CASE e = c
    <3>1. At(Len(stack), c, "BaseTypes")
      BY <2>1, <2>2, TopFrame DEF At, LinkStep
    <3> QED BY <3>1 DEF Settled
  <2> QED BY <1>0, <2>1, <2>2 DEF LinkStep
<1>3. CASE \E e \in Class : \E v \in Elems(FieldsOf[e]) : PlaceStep(e, v)
  BY <1>3 DEF PlaceStep
<1> QED BY <1>1, <1>2, <1>3 DEF LayoutStep

(* What such a pass depends on, that its superclass had the same pass, is  *)
(* seen to.                                                                *)
Tabled == \A i : \A c \in Class : \A p \in Slots :
            (At(i, c, p) /\ super[c] # NoClass) => Covers(i, super[c], {p})

(* That stays so.                                                          *)
LEMMA TabledKept ==
  ASSUME TypedState, Frames, Callers, RunningIs, Alone, Reported, Settled, Tabled, StackStep,
         LayoutStep
  PROVE  Tabled'
<1>0. Grows
  BY StepGrows
<1> SUFFICES ASSUME NEW i, NEW c \in Class, NEW p \in Slots, At(i, c, p)', super'[c] # NoClass
             PROVE  Covers(i, super[c], {p})'
  BY DEF Tabled
<1>b. PICK b : b = super[c] OBVIOUS
<1>p. p # "" /\ p # "BaseTypes" /\ c \in Defn /\ Guarded(c, p)
  BY SlotsAre
<1>s. b \in Class \cup {NoClass}
  BY <1>b DEF TypedState, Steady
<1>1. CASE At(i, c, p)
  <2>1. p \in Begun(c)
    BY <1>1, <1>p, PassHasBegun DEF At
  <2>2. super'[c] = b
    BY <1>b, <2>1, SuperStays
  <2>3. b \in Class /\ Covers(i, b, {p})
    BY <1>1, <1>b, <1>s, <2>2 DEF Tabled
  <2>4. Covers(i, b, {p})'
    BY <1>1, <1>p, <2>3, CoversKept
  <2> QED BY <2>2, <2>4 DEF Covers
<1>2. CASE \E g \in FrameType : /\ Moves(g) /\ Begins(g) /\ stack'[i] = g
                                /\ g.on = c /\ g.pass = p /\ Top.on = c
  <2>1. PICK g \in FrameType : /\ Moves(g) /\ Begins(g) /\ stack'[i] = g
                               /\ g.on = c /\ g.pass = p /\ Top.on = c
    BY <1>2
  <2>2. super' = super
    <3>1. Top.pass = ""
      BY <2>1 DEF Begins
    <3> QED BY <3>1 DEF LayoutStep, LinkStep, PlaceStep
  <2>3. b \in Class /\ b # NoClass
    BY <1>b, <1>s, <2>2
  <2>4. Meets(c, p, g.steps)
    BY <2>1 DEF Begins
  <2>5. CASE p = "Overloading"
    <3>1. Asking(g.steps, b, "Evaluation")
      BY <1>b, <2>3, <2>4, <2>5 DEF Meets
    <3>2. Asks(g, b, {p})
      <4>1. {p} \subseteq TaskPasses(b, "Evaluation")
        BY <2>3, <2>5, EvaluationTable
      <4> QED BY <3>1, <4>1 DEF Asking, Asks
    <3>3. Covers(i, b, {p})'
      BY <2>1, <3>2, CoverAsks
    <3> QED BY <1>b, <2>2, <3>3 DEF Covers
  <2>6. CASE p = "Field"
    <3>1. CASE p \in finished[b]
      <4>1. {p} \subseteq Begun(b)
        BY <3>1 DEF Begun
      <4>2. Covers(i, b, {p})'
        BY <1>0, <2>3, <4>1, CoverBegun
      <4> QED BY <1>b, <2>2, <4>2 DEF Covers
    <3>2. CASE p \notin finished[b]
      <4>1. Asking(g.steps, b, "Construction")
        BY <1>b, <2>3, <2>4, <2>6, <3>2 DEF Meets
      <4>2. Asks(g, b, {p})
        <5>1. {p} \subseteq TaskPasses(b, "Construction")
          BY <2>3, <2>6, LookupTasks
        <5> QED BY <4>1, <5>1 DEF Asking, Asks
      <4>3. Covers(i, b, {p})'
        BY <2>1, <4>2, CoverAsks
      <4> QED BY <1>b, <2>2, <4>3 DEF Covers
    <3> QED BY <3>1, <3>2
  <2> QED BY <2>5, <2>6 DEF Slots
<1>3. \/ At(i, c, p)
      \/ \E g \in FrameType : /\ Moves(g) /\ Begins(g) /\ i = Len(stack) /\ stack'[i] = g
                              /\ g.on = c /\ g.pass = p /\ Top.on = c
  BY <1>p, PassesBegin
<1> QED BY <1>1, <1>2, <1>3

(* When a class comes to use what its superclass has, that is finished.    *)
LEMMA SuperIsReady ==
  ASSUME TypedState, Frames, Reported, Connected, Tabled, flagged = {}, ~Tangled,
         NEW c \in Class, NEW p \in Slots, ~Idle, Top.on = c, Top.pass = p, Top.steps # <<>>,
         Head(Top.steps).op = SlotOp(p), super[c] # NoClass
  PROVE  p \in finished[super[c]]
<1>f. PICK f : f = Top OBVIOUS
<1>n. PICK n : n = Len(stack) OBVIOUS
<1>s. PICK s : s = Head(f.steps) OBVIOUS
<1>a. PICK a : a = super[c] OBVIOUS
<1>1. f = stack[n] /\ FrameOK(f) /\ n \in DOMAIN stack /\ n \in Nat \ {0} /\ DOMAIN stack = 1 .. n
  BY <1>f, <1>n, TopFrame
<1>4. a \in Class /\ a # NoClass /\ a = prog.base[c]
  BY <1>a DEF TypedState, Steady, Links
<1>5. Covers(n, a, {p})
  <2>1. At(n, c, p)
    BY <1>1, <1>f DEF At
  <2> QED BY <1>a, <1>4, <2>1 DEF Tabled
<1>6. ~Asks(f, a, {p})
  <2>1. Elems(f.steps) = {s} \cup Elems(Tail(f.steps)) /\ NoAnalyze(Tail(f.steps)) /\ s.op \in Late
    <3>1. s.op \in Late
      BY <1>f, <1>s, SlotsAre
    <3>2. f.steps # <<>> /\ StepsAre(f.on, f.pass, f.steps) /\ InOrder(f.steps)
      BY <1>1, <1>f DEF FrameOK
    <3> QED BY <1>s, <3>1, <3>2, StepsLeft
  <2>2. "analyze" \notin Late
    BY DEF Late
  <2> QED BY <2>1, <2>2 DEF Asks, NoAnalyze
<1>7. n + 1 \notin DOMAIN stack
  BY <1>1, PastLast
<1>8. p \in Begun(a)
  BY <1>1, <1>5, <1>6, <1>7, FailuresAreFlagged DEF Covers
<1>9. p \notin running[a]
  <2> SUFFICES ASSUME p \in running[a] PROVE FALSE
    OBVIOUS
  <2>1. a \in Defn
    BY <1>4, OwnerOfClass
  <2>2. PICK j : At(j, a, p)
    BY <2>1 DEF Reported, Stale
  <2>3. j \in DOMAIN stack /\ stack[j].on = a /\ j <= n
    <3>1. j \in 1 .. n => j <= n
      BY <1>1
    <3> QED BY <1>1, <2>2, <3>1 DEF At
  <2>4. stack[n].on # c
    BY <1>1, <1>4, <2>3, NoWayBack
  <2> QED BY <1>1, <1>f, <2>4
<1> QED BY <1>8, <1>9, <1>a DEF Begun

(* A class has what it needs of its superclass: the pass is finished, or   *)
(* it is past the operation that uses it.                                  *)
Ready(c, p) ==
  \/ p \in finished[c]
  \/ \E i : At(i, c, p) /\ \A s \in Elems(stack[i].steps) : s.op # SlotOp(p)

(* The step of the top is the operation of that pass.                      *)
Slotting(c, p) ==
  ~Idle /\ Top.on = c /\ Top.pass = p /\ Top.steps # <<>> /\ Head(Top.steps).op = SlotOp(p)

(* Such a class has begun the pass.                                        *)
LEMMA ReadyHasBegun ==
  ASSUME TypedState, Frames, RunningIs, NEW c \in Class, NEW p \in Slots, Ready(c, p)
  PROVE  p \in Begun(c)
<1>1. p # "" /\ c \in Defn /\ Guarded(c, p)
  BY SlotsAre
<1>2. CASE p \in finished[c]
  BY <1>2 DEF Begun
<1>3. CASE \E i : At(i, c, p)
  BY <1>1, <1>3, PassHasBegun DEF At
<1> QED BY <1>2, <1>3 DEF Ready

(* Steps that are taken from the front.                                    *)
LEMMA StepsOf ==
  ASSUME TypedState, Frames, NEW i \in DOMAIN stack, NEW t, t = stack[i].steps, t # <<>>
  PROVE  /\ Elems(t) = {Head(t)} \cup Elems(Tail(t))
         /\ Head(t).op \in Late => NoAnalyze(Tail(t))
         /\ Head(t).op # "analyze" => NoReserve(Tail(t))
<1>1. FrameOK(stack[i])
  BY DEF Frames
<1>2. StepsAre(stack[i].on, stack[i].pass, t) /\ InOrder(t)
  BY <1>1 DEF FrameOK
<1> QED BY <1>2, StepsLeft

(* The names of those operations.                                          *)
LEMMA SlotOps ==
  ASSUME NEW p \in Slots
  PROVE  SlotOp(p) \in {"link", "reserve", "table"} /\ SlotOp(p) # "analyze"
BY DEF Slots, SlotOp

(* A class that is ready stays so.                                         *)
LEMMA ReadyStays ==
  ASSUME TypedState, Frames, Callers, RunningIs, Alone, Reported, StackStep,
         NEW c \in Class, NEW p \in Slots, Ready(c, p)
  PROVE  Ready(c, p)'
<1>0. Grows
  BY StepGrows
<1>c. c \in Defn /\ finished[c] \subseteq finished'[c] /\ Begun(c) \subseteq Begun(c)'
  BY <1>0, OwnerOfClass DEF Grows, MarksGrow, Begun
<1>p. p # "" /\ Counted(c, p)
  BY SlotsAre
<1>1. CASE p \in finished'[c]
  BY <1>1 DEF Ready
<1>2. CASE p \notin finished'[c]
  <2>1. PICK i : At(i, c, p) /\ \A s \in Elems(stack[i].steps) : s.op # SlotOp(p)
    BY <1>2, <1>c DEF Ready
  <2>2. p \in Begun(c) /\ p \in running'[c]
    <3>1. p \in Begun(c)
      BY ReadyHasBegun
    <3> QED BY <1>2, <1>c, <3>1 DEF Begun
  <2>3. PICK k : At(k, c, p)'
    BY <1>c, <2>2, StepReports, SlotsAre DEF Reported, Stale, Demanding, Slots
  <2>4. \/ At(k, c, p)
        \/ \E g \in FrameType : /\ Moves(g) /\ Begins(g) /\ k = Len(stack) /\ stack'[k] = g
                                /\ g.on = c /\ g.pass = p /\ Top.on = c
    BY <1>p, <2>3, PassesBegin
  <2>5. At(k, c, p)
    <3>1. ASSUME NEW g, Begins(g), g.pass = p, Top.on = c PROVE FALSE
      BY <2>2, <3>1 DEF Begins
    <3> QED BY <2>4, <3>1
  <2>6. k = i
    BY <1>p, <2>1, <2>5 DEF Alone
  <2>7. At(i, c, p)'
    BY <2>3, <2>6
  <2>t. PICK t : t = stack[i].steps OBVIOUS
  <2>8. \/ stack'[i].steps = stack[i].steps
        \/ /\ i = Len(stack) /\ stack[i].steps # <<>>
           /\ \/ Head(stack[i].steps).op = "analyze" /\ stack'[i].steps = Tail(stack[i].steps)
              \/ \E g \in FrameType : Retop(g) /\ Goes(g) /\ stack'[i] = g
    BY <1>p, <2>1, <2>7, StepsLater
  <2>9. \A s \in Elems(stack'[i].steps) : s.op # SlotOp(p)
    <3>1. t # <<>> => Elems(t) = {Head(t)} \cup Elems(Tail(t))
      BY <2>1, <2>t, StepsOf DEF At
    <3>2. CASE stack'[i].steps = t
      BY <2>1, <2>t, <3>2
    <3>3. CASE t # <<>> /\ stack'[i].steps = Tail(t)
      BY <2>1, <2>t, <3>1, <3>3
    <3>4. CASE i = Len(stack) /\ t # <<>> /\ \E g \in FrameType : Goes(g) /\ stack'[i] = g
      <4>1. PICK g \in FrameType : Goes(g) /\ stack'[i] = g
        BY <3>4
      <4>2. Top.steps = t
        BY <3>4, <2>t DEF Top
      <4>3. \A s \in Elems(g.steps) : s.op = SlotOp(p) => s \in Elems(t)
        BY <3>1, <3>4, <4>1, <4>2, SlotOps DEF Goes
      <4> QED BY <2>1, <2>t, <4>1, <4>3
    <3> QED BY <2>8, <2>t, <3>2, <3>3, <3>4
  <2> QED BY <2>7, <2>9 DEF Ready
<1> QED BY <1>1, <1>2

(* A class gets ready by that operation only.                              *)
LEMMA ReadyBefore ==
  ASSUME TypedState, Frames, Callers, StackStep, NEW c \in Class, NEW p \in Slots, Ready(c, p)'
  PROVE  Ready(c, p) \/ Slotting(c, p)
<1>p. p # "" /\ p # "BaseTypes"
  BY SlotsAre
<1>1. CASE p \in finished'[c]
  <2>1. CASE p \in finished[c]
    BY <2>1 DEF Ready
  <2>2. CASE p \notin finished[c]
    <3>1. PICK g \in FrameType : Moves(g) /\ Ends(g) /\ Top.on = c /\ Top.pass = p
      BY <1>1, <1>p, <2>2, FinishedByEnds
    <3>n. PICK n : n = Len(stack) OBVIOUS
    <3>2. n \in DOMAIN stack /\ Top = stack[n]
      BY <3>1, <3>n, TopOfMove DEF Moves
    <3>3. At(n, c, p) /\ stack[n].steps = <<>>
      BY <3>1, <3>2 DEF At, Ends
    <3>4. \A s \in Elems(stack[n].steps) : s.op # SlotOp(p)
      BY <3>3, NoneIn
    <3> QED BY <3>3, <3>4 DEF Ready
  <2> QED BY <2>1, <2>2
<1>2. CASE \E i : At(i, c, p)' /\ \A s \in Elems(stack'[i].steps) : s.op # SlotOp(p)
  <2>1. PICK i : At(i, c, p)' /\ \A s \in Elems(stack'[i].steps) : s.op # SlotOp(p)
    BY <1>2
  <2>2. \/ At(i, c, p)
        \/ \E g \in FrameType : /\ Moves(g) /\ Begins(g) /\ i = Len(stack) /\ stack'[i] = g
                                /\ g.on = c /\ g.pass = p /\ Top.on = c
    BY <1>p, <2>1, PassesBegin
  <2>3. At(i, c, p)
    <3>1. ASSUME NEW g, Begins(g), g.pass = p, Top.on = c, stack'[i] = g PROVE FALSE
      <4>1. Meets(c, p, g.steps)
        BY <3>1 DEF Begins
      <4>2. \E s \in Elems(g.steps) : s.op = SlotOp(p)
        BY <4>1 DEF Meets, Slots, SlotOp
      <4> QED BY <2>1, <3>1, <4>2
    <3> QED BY <2>2, <3>1
  <2>t. PICK t : t = stack[i].steps OBVIOUS
  <2>8. \/ stack'[i].steps = stack[i].steps
        \/ /\ i = Len(stack) /\ stack[i].steps # <<>>
           /\ \/ Head(stack[i].steps).op = "analyze" /\ stack'[i].steps = Tail(stack[i].steps)
              \/ \E g \in FrameType : Retop(g) /\ Goes(g) /\ stack'[i] = g
    BY <1>p, <2>1, <2>3, StepsLater
  <2>9. i \in DOMAIN stack /\ (t # <<>> => Elems(t) = {Head(t)} \cup Elems(Tail(t)))
    BY <2>3, <2>t, StepsOf DEF At
  <2>4. CASE stack'[i].steps = t
    BY <2>1, <2>t, <2>3, <2>4 DEF Ready
  <2>5. CASE t # <<>> /\ Head(t).op = "analyze" /\ stack'[i].steps = Tail(t)
    <3>1. \A s \in Elems(t) : s.op # SlotOp(p)
      BY <2>1, <2>5, <2>9, SlotOps
    <3> QED BY <2>3, <2>t, <3>1 DEF Ready
  <2>6. CASE i = Len(stack) /\ t # <<>> /\ \E g \in FrameType : Goes(g) /\ stack'[i] = g
    <3>1. PICK g \in FrameType : Goes(g) /\ stack'[i] = g
      BY <2>6
    <3>2. Top.steps = t /\ Top.on = c /\ Top.pass = p
      BY <2>3, <2>6, <2>t DEF Top, At
    <3>3. Elems(Tail(t)) \subseteq Elems(g.steps)
      BY <3>1, <3>2 DEF Goes
    <3>4. CASE Head(t).op = SlotOp(p)
      <4>1. ~Idle
        BY <2>9, NothingIn DEF Idle
      <4> QED BY <2>6, <3>2, <3>4, <4>1 DEF Slotting
    <3>5. CASE Head(t).op # SlotOp(p)
      <4>1. \A s \in Elems(t) : s.op # SlotOp(p)
        BY <2>1, <2>6, <2>9, <3>1, <3>3, <3>5
      <4> QED BY <2>3, <2>t, <4>1 DEF Ready
    <3> QED BY <3>4, <3>5
  <2> QED BY <2>8, <2>t, <2>4, <2>5, <2>6
<1> QED BY <1>1, <1>2 DEF Ready

(* A class that comes to that operation is not ready.                      *)
LEMMA NotYetReady ==
  ASSUME TypedState, Frames, RunningIs, Alone, Once, NEW c \in Class, NEW p \in Slots, Slotting(c, p)
  PROVE  ~Ready(c, p) /\ At(Len(stack), c, p) /\ p \in Begun(c)
<1>n. PICK n : n = Len(stack) OBVIOUS
<1>p. p # "" /\ Counted(c, p) /\ c \in Defn /\ Guarded(c, p)
  BY SlotsAre
<1>1. n \in DOMAIN stack /\ Top = stack[n]
  BY <1>n, TopFrame DEF Slotting
<1>2. At(n, c, p)
  BY <1>1 DEF At, Slotting
<1>t. PICK t : t = stack[n].steps OBVIOUS
<1>3. t # <<>> /\ Head(t).op = SlotOp(p)
  BY <1>1, <1>t DEF Slotting
<1>4. Head(t) \in Elems(t)
  BY <1>1, <1>3, <1>t, StepsOf
<1>5. \A i : At(i, c, p) => i = n
  BY <1>2, <1>p DEF Alone
<1>6. p \notin finished[c]
  BY <1>2 DEF Once
<1>7. p \in Begun(c)
  BY <1>1, <1>2, <1>p, PassHasBegun DEF At
<1> QED BY <1>2, <1>3, <1>4, <1>5, <1>6, <1>7, <1>n, <1>t DEF Ready

(* The superclass of a class that is ready has finished the pass.          *)
Grounded == \A c \in Class : \A p \in Slots :
              Ready(c, p) /\ super[c] # NoClass => p \in finished[super[c]]

(* It has so after every step.                                             *)
LEMMA GroundedKept ==
  ASSUME TypedState, Frames, Callers, RunningIs, Alone, Reported, Connected, Once, Settled, Tabled, Grounded,
         flagged = {}, ~Tangled, StackStep, LayoutStep
  PROVE  Grounded'
<1>0. Grows
  BY StepGrows
<1> SUFFICES ASSUME NEW c \in Class, NEW p \in Slots, Ready(c, p)', super'[c] # NoClass
             PROVE  p \in finished'[super'[c]]
  BY DEF Grounded
<1>b. PICK b : b = super[c] OBVIOUS
<1>1. Ready(c, p) \/ Slotting(c, p)
  BY ReadyBefore
<1>2. p \in Begun(c)
  BY <1>1, ReadyHasBegun, NotYetReady
<1>3. super'[c] = b
  BY <1>2, <1>b, SuperStays
<1>4. b \in Class /\ b # NoClass /\ b \in Defn
  BY <1>b, <1>3, OwnerOfClass DEF TypedState, Steady
<1>5. p \in finished[b]
  <2>1. CASE Ready(c, p)
    BY <1>b, <1>4, <2>1 DEF Grounded
  <2>2. CASE Slotting(c, p)
    <3>1. ~Idle /\ Top.on = c /\ Top.pass = p /\ Top.steps # <<>> /\ Head(Top.steps).op = SlotOp(p)
      BY <2>2 DEF Slotting
    <3> QED BY <1>b, <1>4, <3>1, SuperIsReady
  <2> QED BY <1>1, <2>1, <2>2
<1> QED BY <1>0, <1>3, <1>4, <1>5 DEF Grows, MarksGrow

(* So have all the classes above it.                                       *)
LEMMA AllGrounded ==
  ASSUME TypedState, Grounded, NEW c \in Class, NEW p \in Slots, p \in finished[c]
  PROVE  \A a \in Chain(c) : a \in Class /\ p \in finished[a] /\ Ready(a, p)
<1>1. super \in [Class -> Class \cup {NoClass}]
  BY DEF TypedState, Steady
<1> DEFINE S == {a \in Class : p \in finished[a]}
<1>2. S \in SUBSET Class /\ c \in S
  OBVIOUS
<1>3. Highest(S, super)
  <2> SUFFICES ASSUME NEW a \in S, super[a] # NoClass PROVE super[a] \in S
    BY DEF Highest
  <2>1. Ready(a, p)
    BY DEF Ready
  <2> QED BY <1>1, <2>1 DEF Grounded
<1>4. IsAbove(Above(c, super), c, super)
  BY <1>1, AboveIs
<1>5. Chain(c) \subseteq S
  BY <1>2, <1>3, <1>4, ChainIs DEF IsAbove
<1> QED BY <1>5 DEF Ready

-----------------------------------------------------------------------------
(* What a step does to the slots.                                          *)

(* The step counts the fields that c inherits.                             *)
Reserves(c) ==
  IF super[c] = NoClass THEN UNCHANGED <<first, reserved>>
  ELSE reserved' = reserved \cup {c} /\ first' = [first EXCEPT ![c] = FieldCount(super[c])]

(* The table that c starts from.                                           *)
Inherited(c) == IF super[c] = NoClass THEN <<>> ELSE table[super[c]]

(* The methods that c puts into it in the place of others.                 *)
Overridden(c, inherited) ==
  [i \in DOMAIN inherited |->
     IF inherited[i][2] \in Elems(MethodsOf[c]) THEN <<c, inherited[i][2]>> ELSE inherited[i]]

(* The step builds the method table of c.                                  *)
Builds(c) ==
  table' = [table EXCEPT ![c] = Overridden(c, Inherited(c)) \o NewSlots(c, Inherited(c))]

(* A class that comes to the operation that uses what its superclass has   *)
(* takes that step, and nothing else changes the slots.                    *)
SlotStep ==
  /\ \/ UNCHANGED <<first, reserved>>
     \/ \E c \in Class : Slotting(c, "Field") /\ Reserves(c)
  /\ \/ table' = table
     \/ \E c \in Class : Slotting(c, "Overloading") /\ Builds(c)

(* The class of such an operation.                                         *)
LEMMA SlottingTop ==
  ASSUME TypedState, Frames
  PROVE  /\ CanStep("reserve") => Top.on \in Class /\ Slotting(Top.on, "Field")
         /\ CanStep("table") => Top.on \in Class /\ Slotting(Top.on, "Overloading")
<1>f. PICK f : f = Top OBVIOUS
<1>1. ~Idle /\ f.steps # <<>> => StepOK(f.on, f.pass, Head(f.steps))
  BY <1>f, TopStep
<1> QED BY <1>1, <1>f DEF CanStep, StepOK, Slotting, SlotOp

(* Every step of the model does no more than that to the slots.            *)
LEMMA NextSlots ==
  ASSUME TypedState, Frames, [Next]_vars
  PROVE  SlotStep
<1>1. CASE ReserveSuper
  <2>1. CanStep("reserve") /\ Reserves(Top.on) /\ table' = table
    BY <1>1 DEF ReserveSuper, Reserves
  <2> QED BY <2>1, SlottingTop DEF SlotStep
<1>2. CASE BuildTable
  <2>1. CanStep("table") /\ Builds(Top.on) /\ UNCHANGED <<first, reserved>>
    BY <1>2 DEF BuildTable, Builds, Overridden, Inherited
  <2> QED BY <2>1, SlottingTop DEF SlotStep
<1>3. CASE ~ReserveSuper /\ ~BuildTable
  <2>1. UNCHANGED <<first, reserved, table>>
    BY <1>3 DEF Next, Analyzer, Effects, ModuleSteps, SkipPass, BeginPass, FinishPass, Call, Return,
         LinkBase, PlaceField, VisitField, EvaluateAttribute, Symbol, AnalyzeMember,
         EndMember, AnalyzeQueued, EndQueued, Complete, vars, layout
  <2> QED BY <2>1 DEF SlotStep
<1> QED BY <1>1, <1>2, <1>3

(* That operation is the only step that such a class can take.             *)
LEMMA OnlySlots ==
  ASSUME TypedState, Frames, Next, NEW c \in Class
  PROVE  /\ Slotting(c, "Field") => Reserves(c) /\ Popping
         /\ Slotting(c, "Overloading") => Builds(c)
<1>0. ~Idle => Len(stack) \in Nat \ {0}
  BY TopFrame
<1>1. CASE Slotting(c, "Field")
  <2>1. ~Idle /\ Top.on = c /\ Top.pass # "" /\ Top.steps # <<>> /\ Head(Top.steps).op = "reserve"
    BY <1>1 DEF Slotting, SlotOp
  <2>2. Next => ReserveSuper \/ \E op \in {"analyze", "link", "field", "place", "table", "evaluate", "symbol"} : CanStep(op)
              \/ Top.pass = "" \/ Top.steps = <<>> \/ Idle
    BY <1>0 DEF Next, Analyzer, Effects, ModuleSteps, SkipPass, BeginPass, FinishPass, Call, Return,
         LinkBase, VisitField, PlaceField, BuildTable, EvaluateAttribute, Symbol, AnalyzeMember,
         EndMember, AnalyzeQueued, EndQueued, Complete
  <2>3. ReserveSuper
    BY <2>1, <2>2 DEF CanStep
  <2>4. Popping
    BY <2>1, <2>3 DEF ReserveSuper, Popping
  <2> QED BY <1>1, <2>1, <2>3, <2>4 DEF ReserveSuper, Reserves, Slotting
<1>2. CASE Slotting(c, "Overloading")
  <2>1. ~Idle /\ Top.on = c /\ Top.pass # "" /\ Top.steps # <<>> /\ Head(Top.steps).op = "table"
    BY <1>2 DEF Slotting, SlotOp
  <2>2. Next => BuildTable \/ \E op \in {"analyze", "link", "field", "place", "reserve", "evaluate", "symbol"} : CanStep(op)
              \/ Top.pass = "" \/ Top.steps = <<>> \/ Idle
    BY <1>0 DEF Next, Analyzer, Effects, ModuleSteps, SkipPass, BeginPass, FinishPass, Call, Return,
         LinkBase, VisitField, PlaceField, ReserveSuper, EvaluateAttribute, Symbol, AnalyzeMember,
         EndMember, AnalyzeQueued, EndQueued, Complete
  <2>3. BuildTable
    BY <2>1, <2>2 DEF CanStep
  <2> QED BY <1>2, <2>1, <2>3 DEF BuildTable, Builds, Overridden, Inherited, Slotting, SlotOp
<1>3. ~(Slotting(c, "Field") /\ Slotting(c, "Overloading"))
  BY DEF Slotting
<1> QED BY <1>1, <1>2, <1>3

(* A class that has reserved the slot is ready.                            *)
LEMMA ReadyOnceReserved ==
  ASSUME TypedState, Frames, Popping, NEW c \in Class, Slotting(c, "Field")
  PROVE  Ready(c, "Field")'
<1>f. PICK f : f = Top OBVIOUS
<1>n. PICK n : n = Len(stack) OBVIOUS
<1>g. PICK g \in FrameType : Retop(g) /\ Goes(g) /\ g.steps = Tail(f.steps)
  BY <1>f, PopsIs
<1>0. f = stack[n] /\ n \in DOMAIN stack /\ n \in Nat \ {0}
  BY <1>f, <1>n, TopFrame DEF Slotting
<1>1. f.on = c /\ f.pass = "Field" /\ f.steps # <<>> /\ Head(f.steps).op = "reserve"
  BY <1>f DEF Slotting, SlotOp
<1>2. NoReserve(g.steps)
  BY <1>0, <1>1, <1>g, StepsOf
<1>3. g.on = c /\ g.pass = "Field"
  BY <1>1, <1>f, <1>g DEF Goes, Same
<1>4. n \in DOMAIN stack' /\ stack'[n] = g
  BY <1>0, <1>g, <1>n DEF Retop
<1> QED BY <1>2, <1>3, <1>4 DEF Ready, At, NoReserve, SlotOp

-----------------------------------------------------------------------------
(* What is counted along the superclasses.                                 *)

(* h gets smaller from each class to the one above it.                     *)
Descends(h, up, K) ==
  /\ h \in [Class -> Nat] /\ \A a \in Class : h[a] <= K
  /\ \A a \in Class : up[a] # NoClass => up[a] \in Class /\ h[up[a]] < h[a]

(* Without a loop there is such a height: the number of classes above.     *)
LEMMA Heights ==
  ASSUME NEW up \in [Class -> Class \cup {NoClass}], NoLoop(up)
  PROVE  \E h, K : K \in Nat /\ Descends(h, up, K)
<1> DEFINE h == [a \in Class |-> Cardinality(Above(a, up))]
           K == Cardinality(Class)
<1>0. IsFiniteSet(Class)
  BY DeclarationAssumption
<1>1. K \in Nat
  BY <1>0, FS_CardinalityType
<1>2. \A a \in Class : IsAbove(Above(a, up), a, up)
  BY AboveIs
<1>3. \A a \in Class : IsFiniteSet(Above(a, up)) /\ Cardinality(Above(a, up)) \in Nat
                       /\ Cardinality(Above(a, up)) <= K
  <2> SUFFICES ASSUME NEW a \in Class
               PROVE  IsFiniteSet(Above(a, up)) /\ Cardinality(Above(a, up)) \in Nat
                      /\ Cardinality(Above(a, up)) <= K
    OBVIOUS
  <2>1. Above(a, up) \in SUBSET Class
    BY <1>2 DEF IsAbove
  <2> QED BY <1>0, <2>1, FS_Subset, FS_CardinalityType
<1>4. ASSUME NEW a \in Class, up[a] # NoClass
      PROVE  up[a] \in Class /\ h[up[a]] < h[a]
  <2>b. PICK b : b = up[a] OBVIOUS
  <2>1. b \in Class /\ a \notin Above(b, up)
    BY <1>4, <2>b DEF NoLoop
  <2>2. a \in Above(a, up) /\ b \in Above(a, up)
    BY <1>2, <1>4, <2>b DEF IsAbove, Highest
  <2>3. Above(b, up) \in SUBSET Above(a, up)
    BY <2>2, AboveAbove
  <2>4. Cardinality(Above(b, up)) <= Cardinality(Above(a, up))
        /\ (Cardinality(Above(a, up)) = Cardinality(Above(b, up)) => Above(a, up) = Above(b, up))
    BY <1>3, <2>3, FS_Subset
  <2>5. Cardinality(Above(b, up)) < Cardinality(Above(a, up))
    BY <1>3, <2>1, <2>2, <2>4
  <2> QED BY <2>1, <2>5, <2>b
<1>5. h \in [Class -> Nat] /\ \A a \in Class : h[a] <= K
  BY <1>3
<1>6. Descends(h, up, K)
  BY <1>4, <1>5 DEF Descends
<1> QED BY <1>1, <1>6

(* What a class has of its own, and what is counted for the one above it.  *)
Summed(own, up, f) ==
  [a \in Class |-> own[a] + (IF up[a] = NoClass THEN 0 ELSE f[up[a]])]

(* Counting along the superclasses is a function.                          *)
LEMMA SumExists ==
  ASSUME NEW up \in [Class -> Class \cup {NoClass}], NoLoop(up), NEW own \in [Class -> Int]
  PROVE  \E f \in [Class -> Int] : f = Summed(own, up, f)
<1> DEFINE S == [Class -> Int]
           start == [a \in Class |-> 0]
           step == [q \in Nat \X S |-> Summed(own, up, q[2])]
<1>1. \A f \in S : Summed(own, up, f) \in S
  <2> SUFFICES ASSUME NEW f \in S, NEW a \in Class
               PROVE  own[a] + (IF up[a] = NoClass THEN 0 ELSE f[up[a]]) \in Int
    BY DEF Summed
  <2> QED BY NoClassIsNone
<1>2. start \in S
  OBVIOUS
<1>3. step \in [Nat \X S -> S]
  <2> SUFFICES ASSUME NEW q \in Nat \X S PROVE Summed(own, up, q[2]) \in S
    OBVIOUS
  <2> HIDE DEF S
  <2>1. q[2] \in S
    OBVIOUS
  <2> QED BY <1>1, <2>1
<1>4. PICK F \in [Nat -> S] : F[0] = start /\ \A n \in Nat : F[n + 1] = step[<<n, F[n]>>]
  <2> HIDE DEF S, start, step
  <2>1. Iterates(S, start, step)
    BY <1>2, <1>3, Recursion
  <2> QED BY <2>1 DEF Iterates
<1>5. \A n \in Nat : F[n + 1] = Summed(own, up, F[n])
  <2> SUFFICES ASSUME NEW n \in Nat PROVE F[n + 1] = Summed(own, up, F[n])
    OBVIOUS
  <2> HIDE DEF S
  <2>1. <<n, F[n]>> \in Nat \X S /\ <<n, F[n]>>[2] = F[n]
    BY <1>4
  <2>2. step[<<n, F[n]>>] = Summed(own, up, F[n])
    BY <2>1
  <2> QED BY <1>4, <2>2
<1>h. PICK h, K : K \in Nat /\ Descends(h, up, K)
  BY Heights
<1> DEFINE T == {n \in Nat : \A a \in Class : h[a] < n => F[n + 1][a] = F[n][a]}
<1>6. 0 \in T
  BY <1>h DEF Descends
<1>7. ASSUME NEW n \in Nat, n \in T PROVE n + 1 \in T
  <2> SUFFICES ASSUME NEW a \in Class, h[a] < n + 1 PROVE F[n + 1 + 1][a] = F[n + 1][a]
    OBVIOUS
  <2>0. n + 1 \in Nat
    OBVIOUS
  <2> DEFINE G == F[n]
             H == F[n + 1]
             J == F[n + 1 + 1]
  <2>1. H = Summed(own, up, G) /\ J = Summed(own, up, H)
    BY <1>5, <2>0
  <2>2. H[a] = own[a] + (IF up[a] = NoClass THEN 0 ELSE G[up[a]])
        /\ J[a] = own[a] + (IF up[a] = NoClass THEN 0 ELSE H[up[a]])
    <3> HIDE DEF G, H, J
    <3> QED BY <2>1 DEF Summed
  <2>3. up[a] # NoClass => H[up[a]] = G[up[a]]
    <3> SUFFICES ASSUME up[a] # NoClass PROVE H[up[a]] = G[up[a]]
      OBVIOUS
    <3>1. up[a] \in Class /\ h[up[a]] < h[a] /\ h[a] \in Nat /\ h[up[a]] \in Nat
      BY <1>h DEF Descends
    <3>2. h[up[a]] < n
      BY <3>1
    <3> QED BY <1>7, <3>1, <3>2
  <2>4. J[a] = H[a]
    <3> HIDE DEF G, H, J
    <3> QED BY <2>2, <2>3
  <2> QED BY <2>4
<1>8. Nat \subseteq T
  <2> HIDE DEF T
  <2> QED BY <1>6, <1>7, Induction
<1>9. PICK n : n = K + 1 OBVIOUS
<1>10. n \in Nat /\ \A a \in Class : h[a] < n
  BY <1>h, <1>9 DEF Descends
<1> DEFINE f == F[n]
           g == F[n + 1]
<1>11. \A a \in Class : g[a] = f[a]
  BY <1>8, <1>10
<1>12. f \in S /\ g \in S /\ g = Summed(own, up, f)
  BY <1>4, <1>5, <1>10
<1>13. g = f
  <2> HIDE DEF f, g
  <2> QED BY <1>11, <1>12
<1> HIDE DEF f, g
<1> QED BY <1>12, <1>13

(* e is such a count for the classes of S.                                 *)
SumsOn(S, own, up, e) ==
  \A a \in S : e[a] = own[a] + (IF up[a] = NoClass THEN 0 ELSE e[up[a]])

(* f and e are the same on S.                                              *)
SameOn(S, f, e) == \A a \in S : f[a] = e[a]

(* It is what any count along the superclasses of a set of classes is.     *)
LEMMA SumIs ==
  ASSUME NEW up \in [Class -> Class \cup {NoClass}], NoLoop(up), NEW own,
         NEW f, f = Summed(own, up, f), NEW S \in SUBSET Class, Highest(S, up), NEW e,
         SumsOn(S, own, up, e)
  PROVE  SameOn(S, f, e)
<1> SUFFICES \A a \in S : f[a] = e[a]
  BY DEF SameOn
<1> USE DEF SumsOn
<1>h. PICK h, K : K \in Nat /\ Descends(h, up, K)
  BY Heights
<1> DEFINE T == {h[a] : a \in {b \in S : f[b] # e[b]}}
<1>0. \A a \in S : h[a] \in Nat
  BY <1>h DEF Descends
<1>1. T \in SUBSET Nat
  BY <1>0
<1> SUFFICES ASSUME T # {} PROVE FALSE
  OBVIOUS
<1>2. PICK k \in T : \A m \in T : k <= m
  <2> HIDE DEF T
  <2> QED BY <1>1, LeastElement
<1>3. PICK a \in S : f[a] # e[a] /\ k = h[a]
  BY <1>2
<1>4. f[a] = own[a] + (IF up[a] = NoClass THEN 0 ELSE f[up[a]])
  <2>1. Summed(own, up, f)[a] = own[a] + (IF up[a] = NoClass THEN 0 ELSE f[up[a]])
    BY DEF Summed
  <2> QED BY <2>1
<1>5. up[a] # NoClass /\ f[up[a]] # e[up[a]]
  BY <1>3, <1>4
<1>6. up[a] \in S /\ h[up[a]] < h[a]
  BY <1>h, <1>5 DEF Descends, Highest
<1>7. h[up[a]] \in T
  BY <1>5, <1>6
<1> QED BY <1>0, <1>2, <1>3, <1>6, <1>7

-----------------------------------------------------------------------------
(* The positions of fields.                                                *)

(* Where the fields of c start: after those of its superclass.             *)
Start(c) == IF super[c] = NoClass THEN 0 ELSE first[super[c]] + Len(placed[super[c]])

(* c has the slot for its superclass, and counted what it inherits.        *)
Laid(c) == (c \in reserved <=> super[c] # NoClass) /\ first[c] = Start(c)

(* A class that is past the count of its inherited fields has counted      *)
(* right; any other has counted nothing.                                   *)
FieldsLaid ==
  /\ first \in [Class -> Nat]
  /\ \A c \in Class : /\ Ready(c, "Field") => Laid(c)
                      /\ c \in reserved \/ first[c] # 0 => Ready(c, "Field")

(* All slots of such a class are those of its fields.                      *)
LEMMA OwnOfLaid ==
  ASSUME NEW a, Laid(a), Len(placed[a]) \in Nat
  PROVE  OwnSlots(a) = Len(placed[a])
<1>1. a \in reserved <=> super[a] # NoClass
  BY DEF Laid
<1>2. CASE super[a] = NoClass
  BY <1>1, <1>2 DEF OwnSlots
<1>3. CASE super[a] # NoClass
  <2>1. a \in reserved
    BY <1>1, <1>3
  <2>2. OwnSlots(a) = Len(placed[a]) + 1 - 1
    BY <1>3, <2>1, Zenon DEF OwnSlots
  <2>n. PICK n : n = Len(placed[a]) OBVIOUS
  <2>3. n + 1 - 1 = n
    BY <2>n
  <2> QED BY <2>2, <2>3, <2>n
<1> QED BY <1>2, <1>3

(* The count for a class whose fields are known is where they end.         *)
LEMMA CountIs ==
  ASSUME TypedState, NoLoop(super), Grounded, FieldsLaid, NEW s \in Class, "Field" \in finished[s]
  PROVE  FieldCount(s) = first[s] + Len(placed[s])
<1>u. PICK up : up = super OBVIOUS
<1>0. up \in [Class -> Class \cup {NoClass}] /\ NoLoop(up) /\ placed \in [Class -> Seq(Var)]
  BY <1>u DEF TypedState, Steady
<1>1. \A a \in Class : Len(placed[a]) \in Nat
  BY <1>0, LenProperties
<1>2. "Field" \in Slots
  BY DEF Slots
<1> DEFINE own == [a \in Class |-> OwnSlots(a)]
           e == [a \in Class |-> first[a] + Len(placed[a])]
           G(h) == [a \in Class |-> OwnSlots(a) + (IF super[a] = NoClass THEN 0 ELSE h[super[a]])]
           count == CHOOSE h : h = G(h)
           S == {a \in Class : "Field" \in finished[a]}
<1>3. own \in [Class -> Int]
  <2> SUFFICES ASSUME NEW a \in Class PROVE OwnSlots(a) \in Int
    OBVIOUS
  <2> QED BY <1>1 DEF OwnSlots
<1>4. \A h : G(h) = Summed(own, up, h)
  BY <1>u DEF Summed
<1>5. FieldCount(s) = count[s]
  BY DEF FieldCount
<1>6. count = Summed(own, up, count)
  <2>1. PICK f \in [Class -> Int] : f = Summed(own, up, f)
    <3> HIDE DEF own
    <3> QED BY <1>0, <1>3, SumExists
  <2>2. f = G(f)
    BY <1>4, <2>1
  <2>3. count = G(count)
    <3> HIDE DEF G
    <3> QED BY <2>2
  <2> HIDE DEF G, count, own
  <2> QED BY <1>4, <2>3
<1>7. S \in SUBSET Class /\ s \in S
  OBVIOUS
<1>8. \A a \in S : Laid(a) /\ (super[a] # NoClass => super[a] \in S)
  <2> SUFFICES ASSUME NEW a \in S PROVE Laid(a) /\ (super[a] # NoClass => super[a] \in S)
    OBVIOUS
  <2>1. Ready(a, "Field")
    BY DEF Ready
  <2> QED BY <1>0, <1>2, <1>u, <2>1 DEF FieldsLaid, Grounded
<1>9. Highest(S, up)
  BY <1>8, <1>u DEF Highest
<1>10. \A a \in S : e[a] = own[a] + (IF up[a] = NoClass THEN 0 ELSE e[up[a]])
  <2> SUFFICES ASSUME NEW a \in S
               PROVE  e[a] = own[a] + (IF up[a] = NoClass THEN 0 ELSE e[up[a]])
    OBVIOUS
  <2>1. a \in Class /\ Laid(a) /\ (super[a] # NoClass => super[a] \in Class)
    BY <1>8
  <2>2. own[a] = Len(placed[a])
    <3>1. OwnSlots(a) = Len(placed[a])
      BY <1>1, <2>1, OwnOfLaid
    <3> QED BY <2>1, <3>1
  <2>3. e[a] = Start(a) + Len(placed[a])
    BY <2>1 DEF Laid
  <2>4. Start(a) = IF up[a] = NoClass THEN 0 ELSE e[up[a]]
    BY <1>u, <2>1 DEF Start
  <2>5. Start(a) \in Int /\ Len(placed[a]) \in Int
    BY <1>1, <2>1 DEF Laid, FieldsLaid
  <2> HIDE DEF e, own
  <2> QED BY <2>2, <2>3, <2>4, <2>5
<1>11. count[s] = e[s]
  <2>f. PICK f : f = count OBVIOUS
  <2>1. f = Summed(own, up, f)
    BY <1>6, <2>f
  <2>2. \A a \in S : f[a] = e[a]
    <3> HIDE DEF own, e, S, count
    <3>1. SumsOn(S, own, up, e)
      BY <1>10 DEF SumsOn
    <3>2. SameOn(S, f, e)
      BY <1>0, <1>7, <1>9, <2>1, <3>1, SumIs
    <3> QED BY <3>2 DEF SameOn
  <2> QED BY <1>7, <2>2, <2>f
<1> QED BY <1>5, <1>11

(* Only a class that counts changes its count.                             *)
LEMMA CountStays ==
  ASSUME SlotStep, first \in [Class -> Nat], NEW c \in Class, ~Slotting(c, "Field")
  PROVE  first'[c] = first[c] /\ (c \in reserved' <=> c \in reserved)
<1>1. CASE UNCHANGED <<first, reserved>>
  BY <1>1
<1>2. CASE \E d \in Class : Slotting(d, "Field") /\ Reserves(d)
  <2>1. PICK d \in Class : Slotting(d, "Field") /\ Reserves(d)
    BY <1>2
  <2> QED BY <2>1 DEF Reserves
<1> QED BY <1>1, <1>2 DEF SlotStep

(* The fields of a class whose fields are known do not change.             *)
LEMMA PlacedStays ==
  ASSUME TypedState, Frames, Once, LayoutStep, NEW c \in Class, "Field" \in finished[c]
  PROVE  placed'[c] = placed[c]
<1>0. placed \in [Class -> Seq(Var)]
  BY DEF TypedState, Steady
<1>1. CASE placed' = placed
  BY <1>1
<1>2. CASE \E d \in Class : \E v \in Elems(FieldsOf[d]) : PlaceStep(d, v)
  <2>d. PICK d \in Class : \E v \in Elems(FieldsOf[d]) : PlaceStep(d, v)
    BY <1>2
  <2>1. PICK v \in Elems(FieldsOf[d]) : PlaceStep(d, v)
    BY <2>d
  <2>n. PICK n : n = Len(stack) OBVIOUS
  <2>2. n \in DOMAIN stack /\ stack[n].on = d /\ stack[n].pass = "Field"
    BY <2>1, <2>n, TopFrame DEF PlaceStep
  <2>3. At(n, d, "Field")
    BY <2>2 DEF At
  <2>4. d # c
    BY <2>3 DEF Once, Slots
  <2> QED BY <1>0, <2>1, <2>4 DEF PlaceStep
<1> QED BY <1>1, <1>2 DEF LayoutStep, LinkStep

(* The superclass of a class that is ready then has finished the pass.     *)
LEMMA SuperFinished ==
  ASSUME TypedState, Frames, Callers, RunningIs, Alone, Reported, Connected, Once, Settled, Tabled, Grounded,
         flagged = {}, ~Tangled, StackStep, LayoutStep, NEW c \in Class, NEW p \in Slots, Ready(c, p)'
  PROVE  /\ super'[c] = super[c]
         /\ super[c] # NoClass => /\ super[c] \in Class /\ p \in finished[super[c]]
                                  /\ ~Slotting(super[c], p)
<1>1. Ready(c, p) \/ Slotting(c, p)
  BY ReadyBefore
<1>2. p \in Begun(c)
  BY <1>1, ReadyHasBegun, NotYetReady
<1>3. super'[c] = super[c]
  BY <1>2, SuperStays
<1> SUFFICES ASSUME super[c] # NoClass
             PROVE  super[c] \in Class /\ p \in finished[super[c]] /\ ~Slotting(super[c], p)
  BY <1>3
<1>4. super[c] \in Class
  BY DEF TypedState, Steady
<1>5. p \in finished[super[c]]
  <2>1. CASE Ready(c, p)
    BY <2>1 DEF Grounded
  <2>2. CASE Slotting(c, p)
    <3>1. ~Idle /\ Top.on = c /\ Top.pass = p /\ Top.steps # <<>> /\ Head(Top.steps).op = SlotOp(p)
      BY <2>2 DEF Slotting
    <3> QED BY <3>1, SuperIsReady
  <2> QED BY <1>1, <2>1, <2>2
<1>6. ~Slotting(super[c], p)
  BY <1>4, <1>5, NotYetReady DEF Ready
<1> QED BY <1>4, <1>5, <1>6

(* So they are after every step.                                           *)
LEMMA FieldsKept ==
  ASSUME TypedState, Frames, Callers, RunningIs, Alone, Reported, Connected, Once, Settled, Tabled,
         Grounded, NoLoop(super), FieldsLaid, flagged = {}, ~Tangled, StackStep, LayoutStep, SlotStep,
         Next
  PROVE  FieldsLaid'
<1>0. "Field" \in Slots /\ first \in [Class -> Nat] /\ placed \in [Class -> Seq(Var)]
  BY DEF Slots, FieldsLaid, TypedState, Steady
<1>1. \A b \in Class : "Field" \in finished[b] => first[b] + Len(placed[b]) \in Nat
  BY <1>0, LenProperties
<1>2. first' \in [Class -> Nat]
  <2>1. CASE first' = first
    BY <1>0, <2>1
  <2>2. CASE \E c \in Class : Slotting(c, "Field") /\ Reserves(c)
    <3>1. PICK c \in Class : Slotting(c, "Field") /\ Reserves(c)
      BY <2>2
    <3>2. CASE super[c] = NoClass
      BY <1>0, <3>1, <3>2 DEF Reserves
    <3>3. CASE super[c] # NoClass
      <4>b. PICK b : b = super[c] OBVIOUS
      <4>1. b \in Class
        BY <3>3, <4>b DEF TypedState, Steady
      <4>2. "Field" \in finished[b]
        <5>1. ~Idle /\ Top.on = c /\ Top.pass = "Field" /\ Top.steps # <<>>
              /\ Head(Top.steps).op = SlotOp("Field")
          BY <3>1 DEF Slotting
        <5> QED BY <1>0, <3>3, <4>b, <5>1, SuperIsReady
      <4>3. FieldCount(b) \in Nat
        BY <1>1, <4>1, <4>2, CountIs
      <4>4. first' = [first EXCEPT ![c] = FieldCount(b)]
        BY <3>1, <3>3, <4>b DEF Reserves
      <4> QED BY <1>0, <4>3, <4>4
    <3> QED BY <3>2, <3>3
  <2> QED BY <2>1, <2>2 DEF SlotStep
<1>3. ASSUME NEW c \in Class, Ready(c, "Field")'
      PROVE  (c \in reserved' <=> super'[c] # NoClass)
             /\ first'[c] = IF super'[c] = NoClass THEN 0 ELSE first'[super'[c]] + Len(placed'[super'[c]])
  <2>b. PICK b : b = super[c] OBVIOUS
  <2>1. /\ super'[c] = b
        /\ b # NoClass => b \in Class /\ "Field" \in finished[b] /\ ~Slotting(b, "Field")
    BY <1>0, <1>3, <2>b, SuperFinished
  <2>2. b # NoClass => first'[b] = first[b] /\ placed'[b] = placed[b]
    BY <1>0, <2>1, CountStays, PlacedStays
  <2>s. PICK e : e = IF b = NoClass THEN 0 ELSE first[b] + Len(placed[b]) OBVIOUS
  <2>3. (c \in reserved' <=> b # NoClass) /\ first'[c] = e
    <3>1. CASE Ready(c, "Field")
      <4>1. ~Slotting(c, "Field")
        BY <1>0, <3>1, NotYetReady
      <4>2. first'[c] = first[c] /\ (c \in reserved' <=> c \in reserved)
        BY <1>0, <4>1, CountStays
      <4>3. Laid(c)
        BY <3>1 DEF FieldsLaid
      <4> QED BY <2>b, <2>s, <4>2, <4>3 DEF Laid, Start
    <3>2. CASE Slotting(c, "Field")
      <4>1. ~Ready(c, "Field")
        BY <1>0, <3>2, NotYetReady
      <4>2. c \notin reserved /\ first[c] = 0
        BY <4>1 DEF FieldsLaid
      <4>3. Reserves(c)
        BY <3>2, OnlySlots
      <4>4. CASE b = NoClass
        BY <2>b, <2>s, <4>2, <4>3, <4>4 DEF Reserves
      <4>5. CASE b # NoClass
        <5>1. FieldCount(b) = first[b] + Len(placed[b])
          BY <2>1, <4>5, CountIs
        <5>2. c \in reserved' /\ first' = [first EXCEPT ![c] = FieldCount(b)]
          BY <2>b, <4>3, <4>5 DEF Reserves
        <5> QED BY <1>0, <2>s, <4>5, <5>1, <5>2
      <4> QED BY <4>4, <4>5
    <3> QED BY <1>0, <1>3, <3>1, <3>2, ReadyBefore
  <2> QED BY <2>1, <2>2, <2>3, <2>s
<1>4. ASSUME NEW c \in Class, c \in reserved' \/ first'[c] # 0
      PROVE  Ready(c, "Field")'
  <2>1. CASE c \in reserved \/ first[c] # 0
    <3>1. Ready(c, "Field")
      BY <2>1 DEF FieldsLaid
    <3> QED BY <1>0, <3>1, ReadyStays
  <2>2. CASE c \notin reserved /\ first[c] = 0
    <3>1. Slotting(c, "Field")
      BY <1>0, <1>4, <2>2, CountStays
    <3> QED BY <3>1, OnlySlots, ReadyOnceReserved
  <2> QED BY <2>1, <2>2
<1>5. \A c \in Class : Ready(c, "Field")' => Laid(c)'
  BY <1>3 DEF Laid, Start
<1> QED BY <1>2, <1>4, <1>5 DEF FieldsLaid

-----------------------------------------------------------------------------
(* The slots that a class adds.                                            *)

(* What is above a class is the same by links that agree on it.            *)
LEMMA AboveStays ==
  ASSUME NEW up \in [Class -> Class \cup {NoClass}], NEW new \in [Class -> Class \cup {NoClass}],
         NEW c \in Class, \A a \in Above(c, up) : new[a] = up[a]
  PROVE  Above(c, new) = Above(c, up)
<1>R. PICK R : R = Above(c, up) OBVIOUS
<1>Q. PICK Q : Q = Above(c, new) OBVIOUS
<1>1. IsAbove(R, c, up) /\ IsAbove(Q, c, new)
  BY <1>R, <1>Q, AboveIs
<1>2. Highest(R, new)
  BY <1>1, <1>R DEF IsAbove, Highest
<1>3. Q \subseteq R
  BY <1>1, <1>2 DEF IsAbove
<1>P. PICK P : P = Q \cap R OBVIOUS
<1>4. P \in SUBSET Class /\ c \in P
  BY <1>1, <1>P DEF IsAbove
<1>5. Highest(P, up)
  BY <1>1, <1>P, <1>R DEF IsAbove, Highest
<1>6. R \subseteq P
  BY <1>1, <1>4, <1>5 DEF IsAbove
<1> QED BY <1>3, <1>6, <1>P, <1>R, <1>Q

(* The chain of a class: the class, and the chain of its superclass, which *)
(* does not have it.                                                       *)
LEMMA AboveSuper ==
  ASSUME NEW up \in [Class -> Class \cup {NoClass}], NoLoop(up), NEW c \in Class
  PROVE  /\ c \in Above(c, up)
         /\ up[c] = NoClass => Above(c, up) = {c}
         /\ up[c] # NoClass => /\ up[c] \in Class /\ c \notin Above(up[c], up)
                               /\ Above(c, up) = {c} \cup Above(up[c], up)
<1>1. IsAbove(Above(c, up), c, up)
  BY AboveIs
<1>2. CASE up[c] = NoClass
  <2>1. Highest({c}, up)
    BY <1>2 DEF Highest
  <2> QED BY <1>1, <1>2, <2>1 DEF IsAbove
<1>3. CASE up[c] # NoClass
  <2>b. PICK b : b = up[c] OBVIOUS
  <2>1. b \in Class /\ c \notin Above(b, up)
    BY <1>3, <2>b DEF NoLoop
  <2>2. IsAbove(Above(b, up), b, up)
    BY <2>1, AboveIs
  <2>3. b \in Above(c, up)
    BY <1>1, <1>3, <2>b DEF IsAbove, Highest
  <2>4. Above(b, up) \subseteq Above(c, up)
    BY <2>3, AboveAbove
  <2>S. PICK S : S = {c} \cup Above(b, up) OBVIOUS
  <2>5. S \in SUBSET Class /\ c \in S
    BY <2>2, <2>S DEF IsAbove
  <2>6. Highest(S, up)
    BY <2>2, <2>S, <2>b DEF IsAbove, Highest
  <2>7. Above(c, up) \subseteq S
    BY <1>1, <2>5, <2>6 DEF IsAbove
  <2>8. S \subseteq Above(c, up)
    BY <1>1, <2>4, <2>S DEF IsAbove
  <2> QED BY <1>1, <1>3, <2>1, <2>7, <2>8, <2>S, <2>b DEF IsAbove
<1> QED BY <1>2, <1>3

(* No element of the sequence occurs twice.                                *)
Distinct(t) == \A i, j \in DOMAIN t : t[i] = t[j] => i = j

(* A sequence of distinct elements of S that has exactly those of E.       *)
Lists(t, S, E) == t \in Seq(S) /\ Distinct(t) /\ Elems(t) = E

(* A sequence with one more element that it did not have.                  *)
LEMMA ListsOneMore ==
  ASSUME NEW S, NEW t, NEW E, Lists(t, S, E), NEW x \in S, x \notin E
  PROVE  Lists(t \o <<x>>, S, E \cup {x})
<1>0. t \in Seq(S) /\ Distinct(t) /\ Elems(t) = E
  BY DEF Lists
<1>x. PICK u : u = <<x>> OBVIOUS
<1>1. u \in Seq(S) /\ Len(u) = 1 /\ u[1] = x /\ DOMAIN u = 1 .. 1
  BY <1>x
<1>2. Elems(u) = {x}
  BY <1>1 DEF Elems
<1>s. PICK s : s = t \o u OBVIOUS
<1>3. s \in Seq(S) /\ Elems(s) = E \cup {x}
  BY <1>0, <1>1, <1>2, <1>s, ElemsConcat
<1>n. PICK n : n = Len(t) OBVIOUS
<1>4. /\ n \in Nat /\ DOMAIN t = 1 .. n /\ DOMAIN s = 1 .. n + 1
      /\ \A i \in 1 .. n : s[i] = t[i] /\ t[i] \in E
      /\ s[n + 1] = x
  <2>1. n \in Nat /\ DOMAIN t = 1 .. n
    BY <1>0, <1>n, LenProperties
  <2>2. Len(s) = n + 1 /\ DOMAIN s = 1 .. Len(s)
    <3>1. Len(s) = n + 1
      BY <1>0, <1>1, <1>n, <1>s, ConcatProperties
    <3>2. DOMAIN s = 1 .. Len(s)
      BY <1>3, LenProperties
    <3> QED BY <3>1, <3>2
  <2>3. \A i \in 1 .. n + 1 : s[i] = IF i <= n THEN t[i] ELSE u[i - n]
    BY <1>0, <1>1, <1>n, <1>s, ConcatProperties
  <2>4. \A i \in 1 .. n : t[i] \in E
    BY <1>0, <2>1 DEF Elems
  <2>5. \A i \in 1 .. n : s[i] = t[i]
    <3> SUFFICES ASSUME NEW i \in 1 .. n PROVE s[i] = t[i]
      OBVIOUS
    <3>1. i \in 1 .. n + 1 /\ i <= n
      BY <2>1
    <3> QED BY <2>3, <3>1
  <2>6. s[n + 1] = x
    <3>1. n + 1 \in 1 .. n + 1 /\ ~(n + 1 <= n) /\ (n + 1) - n = 1
      BY <2>1
    <3> QED BY <1>1, <2>3, <3>1
  <2> QED BY <2>1, <2>2, <2>4, <2>5, <2>6
<1>5. Distinct(s)
  <2> SUFFICES ASSUME NEW i \in 1 .. n + 1, NEW j \in 1 .. n + 1, s[i] = s[j] PROVE i = j
    BY <1>4 DEF Distinct
  <2>1. CASE i \in 1 .. n /\ j \in 1 .. n
    BY <1>0, <1>4, <2>1 DEF Distinct
  <2>2. CASE i = n + 1 \/ j = n + 1
    BY <1>4, <2>2
  <2> QED BY <1>4, <2>1, <2>2
<1> QED BY <1>3, <1>5, <1>s, <1>x DEF Lists

(* The names that are in the table that a class starts from.               *)
Names(inherited) == {inherited[i][2] : i \in DOMAIN inherited}

(* addNewMethods() adds each method of the class that has no slot yet,     *)
(* once.                                                                   *)
LEMMA NewSlotsAre ==
  ASSUME NEW c \in Class, NEW inherited
  PROVE  Lists(NewSlots(c, inherited), Method,
               {<<c, n>> : n \in Elems(MethodsOf[c]) \ Names(inherited)})
<1>M. PICK M : M = MethodsOf[c] OBVIOUS
<1>N. PICK N : N = Names(inherited) OBVIOUS
<1>n. PICK n : n = Len(M) OBVIOUS
<1>1. n \in Nat /\ DOMAIN M = 1 .. n
  BY <1>M, <1>n, MethodSeq
<1>2. \A i, j \in 1 .. n : M[i] = M[j] => i = j
  BY <1>1, <1>M, DeclarationAssumption
<1>3. \A i \in 1 .. n : <<c, M[i]>> \in Method
  BY <1>1, <1>M DEF Method, Elems
<1> DEFINE one(i) == IF M[i] \in N THEN <<>> ELSE << <<c, M[i]>> >>
           ss == [i \in DOMAIN M |-> one(i)]
           E(i) == {<<c, M[k]>> : k \in {m \in 1 .. i : M[m] \notin N}}
<1>4. ss \in Seq(Sequences(Method)) /\ Len(ss) = n
  <2>1. \A i \in 1 .. n : ss[i] \in Sequences(Method)
    BY <1>1, <1>3 DEF Sequences
  <2>2. DOMAIN ss = 1 .. n
    BY <1>1
  <2> DEFINE X == Sequences(Method)
             sf == ss
  <2>3. sf = [i \in 1 .. n |-> sf[i]] /\ \A i \in 1 .. n : sf[i] \in X
    BY <2>1, <2>2
  <2> HIDE DEF X, sf
  <2>4. sf \in [1 .. n -> X]
    BY <2>3
  <2>5. sf \in Seq(X) /\ Len(sf) = n
    BY <1>1, <2>4, SeqDef, LenProperties
  <2> QED BY <2>5 DEF X, sf
<1>5. NewSlots(c, inherited) = Concat(ss)
  BY <1>M, <1>N DEF NewSlots, EachOf, Names
<1>6. PICK all : /\ Concat(ss) = all[n] /\ all[0] = <<>>
                 /\ \A i \in 0 .. n - 1 : all[i + 1] = all[i] \o ss[i + 1]
  <2> HIDE DEF ss
  <2> QED BY <1>4, ConcatUnfolds
<1> DEFINE T == {i \in 0 .. n : Lists(all[i], Method, E(i))}
<1>7. 0 \in T
  <2>1. E(0) = {}
    OBVIOUS
  <2>2. Lists(<<>>, Method, {})
    BY DEF Lists, Distinct, Elems
  <2>3. Lists(all[0], Method, E(0))
    BY <1>6, <2>1, <2>2
  <2> HIDE DEF E
  <2> QED BY <1>1, <2>3
<1>8. ASSUME NEW i \in 0 .. n - 1, i \in T PROVE i + 1 \in T
  <2>0. i + 1 \in 1 .. n /\ i + 1 \in 0 .. n /\ i \in Nat /\ 1 .. i + 1 = (1 .. i) \cup {i + 1}
    BY <1>1
  <2>1. all[i + 1] = all[i] \o one(i + 1)
    BY <1>1, <1>6, <2>0
  <2>2. Lists(all[i], Method, E(i))
    BY <1>8
  <2>3. CASE M[i + 1] \in N
    <3>1. E(i + 1) = E(i)
      BY <2>0, <2>3
    <3>2. all[i + 1] = all[i]
      BY <2>1, <2>2, <2>3, ConcatEmptySeq DEF Lists
    <3> QED BY <2>0, <2>2, <3>1, <3>2
  <2>4. CASE M[i + 1] \notin N
    <3>x. PICK x : x = <<c, M[i + 1]>> OBVIOUS
    <3>1. E(i + 1) = E(i) \cup {x}
      BY <2>0, <2>4, <3>x
    <3>2. x \notin E(i)
      <4> SUFFICES ASSUME NEW k \in 1 .. i, <<c, M[k]>> = x PROVE FALSE
        OBVIOUS
      <4>1. M[k] = M[i + 1] /\ k \in 1 .. n /\ k # i + 1
        BY <1>1, <2>0, <3>x
      <4> QED BY <1>2, <2>0, <4>1
    <3>3. x \in Method
      BY <1>3, <2>0, <3>x
    <3>4. Lists(all[i] \o <<x>>, Method, E(i) \cup {x})
      <4> HIDE DEF E
      <4> QED BY <2>2, <3>2, <3>3, ListsOneMore
    <3>5. all[i + 1] = all[i] \o <<x>>
      BY <2>1, <2>4, <3>x
    <3> QED BY <2>0, <3>1, <3>4, <3>5
  <2> QED BY <2>3, <2>4
<1>9. n \in T
  <2> HIDE DEF T
  <2>1. 0 .. n \subseteq T
    BY <1>1, <1>7, <1>8, InductionTo
  <2> QED BY <1>1, <2>1
<1>10. E(n) = {<<c, m>> : m \in Elems(MethodsOf[c]) \ Names(inherited)}
  BY <1>1, <1>M, <1>N DEF Elems
<1> QED BY <1>5, <1>6, <1>9, <1>10

-----------------------------------------------------------------------------
(* Method tables.                                                          *)

(* m is the nearest implementation of its name above c.                    *)
Implements(m, c, up) ==
  /\ m[1] \in Above(c, up) /\ m[2] \in Elems(MethodsOf[m[1]])
  /\ \A a \in Above(c, up) : m[2] \in Elems(MethodsOf[a]) => m[1] \notin Above(a, up) \ {a}

(* t has a slot for each name of c and the classes above it, one slot,     *)
(* with its nearest implementation.                                        *)
Whole(t, c, up) ==
  /\ t \in Seq(Method)
  /\ \A i \in DOMAIN t : Implements(t[i], c, up)
  /\ \A a \in Above(c, up) : \A n \in Elems(MethodsOf[a]) : \E i \in DOMAIN t : t[i][2] = n
  /\ \A i, j \in DOMAIN t : t[i][2] = t[j][2] => i = j

(* t has the slots of u first.                                             *)
Extends(t, u) == Len(u) <= Len(t) /\ \A i \in DOMAIN u : u[i][2] = t[i][2]

(* A method of the class is the nearest implementation of its name.        *)
LEMMA ImplementsOwn ==
  ASSUME NEW up \in [Class -> Class \cup {NoClass}], NoLoop(up), NEW c \in Class,
         NEW n \in Elems(MethodsOf[c])
  PROVE  Implements(<<c, n>>, c, up)
<1>m. PICK m : m = <<c, n>> OBVIOUS
<1>1. m[1] = c /\ m[2] = n
  BY <1>m
<1>2. ASSUME NEW a \in Above(c, up) PROVE c \notin Above(a, up) \ {a}
  <2>1. CASE a = c
    BY <2>1
  <2>2. CASE a # c
    <3>b. PICK b : b = up[c] OBVIOUS
    <3>1. b # NoClass /\ b \in Class /\ c \notin Above(b, up) /\ a \in Above(b, up)
      BY <2>2, <3>b, AboveSuper
    <3>2. Above(a, up) \subseteq Above(b, up)
      BY <3>1, AboveAbove
    <3> QED BY <3>1, <3>2
  <2> QED BY <2>1, <2>2
<1>3. c \in Above(c, up)
  BY AboveSuper
<1>4. Implements(m, c, up)
  BY <1>1, <1>2, <1>3 DEF Implements
<1> QED BY <1>4, <1>m

(* The slots of t: those of u, with what c overrides, then new ones.       *)
Stacked(t, u, c, k, w) ==
  /\ k \in Nat /\ DOMAIN u = 1 .. k /\ Len(t) \in Nat /\ k <= Len(t) /\ DOMAIN t = 1 .. Len(t)
  /\ t \in Seq(Method) /\ k = Len(u)
  /\ \A i \in 1 .. k : /\ t[i][2] = u[i][2]
                       /\ \/ t[i] = <<c, u[i][2]>> /\ u[i][2] \in Elems(MethodsOf[c])
                          \/ t[i] = u[i] /\ u[i][2] \notin Elems(MethodsOf[c])
  /\ \A i \in 1 .. Len(t) : i \notin 1 .. k => i - k \in DOMAIN w /\ t[i] = w[i - k]
  /\ \A j \in DOMAIN w : j + k \in 1 .. Len(t) /\ t[j + k] = w[j] /\ j + k \notin 1 .. k

(* So it is in the table that a class builds.                              *)
LEMMA TableStacked ==
  ASSUME NEW c \in Class, NEW u \in Seq(Method), NEW w \in Seq(Method), NEW t,
         t = Overridden(c, u) \o w
  PROVE  Stacked(t, u, c, Len(u), w)
<1>o. PICK o : o = Overridden(c, u) OBVIOUS
<1>k. PICK k : k = Len(u) OBVIOUS
<1>l. PICK l : l = Len(w) OBVIOUS
<1>1. k \in Nat /\ l \in Nat /\ DOMAIN u = 1 .. k /\ DOMAIN w = 1 .. l
  BY <1>k, <1>l, LenProperties
<1>2. \A i \in 1 .. k : u[i] \in Method
  BY <1>1, ElementOfSeq
<1>3. \A i \in 1 .. k : o[i] = IF u[i][2] \in Elems(MethodsOf[c]) THEN <<c, u[i][2]>> ELSE u[i]
  BY <1>1, <1>o DEF Overridden
<1>4. \A i \in 1 .. k : o[i] \in Method
  <2> SUFFICES ASSUME NEW i \in 1 .. k PROVE o[i] \in Method
    OBVIOUS
  <2>1. CASE u[i][2] \in Elems(MethodsOf[c])
    <3>1. <<c, u[i][2]>> \in Method
      BY <2>1 DEF Method
    <3> QED BY <1>3, <2>1, <3>1
  <2>2. CASE u[i][2] \notin Elems(MethodsOf[c])
    BY <1>2, <1>3, <2>2
  <2> QED BY <2>1, <2>2
<1>5. o \in Seq(Method) /\ Len(o) = k
  <2>1. o = [i \in 1 .. k |-> o[i]]
    BY <1>1, <1>o DEF Overridden
  <2>2. o \in [1 .. k -> Method]
    BY <1>4, <2>1
  <2> QED BY <1>1, <2>2, SeqDef, LenProperties
<1>6. t \in Seq(Method) /\ Len(t) = k + l
  BY <1>5, <1>l, <1>o, ConcatProperties
<1>7. \A i \in 1 .. k + l : t[i] = IF i <= k THEN o[i] ELSE w[i - k]
  BY <1>5, <1>l, <1>o, ConcatProperties
<1>8. DOMAIN t = 1 .. Len(t)
  BY <1>6, LenProperties
<1>9. \A i \in 1 .. k : t[i] = o[i]
  <2> SUFFICES ASSUME NEW i \in 1 .. k PROVE t[i] = o[i]
    OBVIOUS
  <2>1. i \in 1 .. k + l /\ i <= k
    BY <1>1
  <2> QED BY <1>7, <2>1
<1>10. \A i \in 1 .. k : /\ t[i][2] = u[i][2]
                         /\ \/ t[i] = <<c, u[i][2]>> /\ u[i][2] \in Elems(MethodsOf[c])
                            \/ t[i] = u[i] /\ u[i][2] \notin Elems(MethodsOf[c])
  <2> SUFFICES ASSUME NEW i \in 1 .. k
               PROVE  /\ t[i][2] = u[i][2]
                      /\ \/ t[i] = <<c, u[i][2]>> /\ u[i][2] \in Elems(MethodsOf[c])
                         \/ t[i] = u[i] /\ u[i][2] \notin Elems(MethodsOf[c])
    OBVIOUS
  <2>m. PICK m : m = u[i] OBVIOUS
  <2>1. t[i] = IF m[2] \in Elems(MethodsOf[c]) THEN <<c, m[2]>> ELSE m
    BY <1>3, <1>9, <2>m
  <2>2. <<c, m[2]>>[2] = m[2]
    OBVIOUS
  <2>3. CASE m[2] \in Elems(MethodsOf[c])
    <3>1. t[i] = <<c, m[2]>>
      BY <2>1, <2>3
    <3> QED BY <2>2, <2>3, <2>m, <3>1
  <2>4. CASE m[2] \notin Elems(MethodsOf[c])
    <3>1. t[i] = m
      BY <2>1, <2>4
    <3> QED BY <2>4, <2>m, <3>1
  <2> QED BY <2>3, <2>4
<1>11. \A i \in 1 .. Len(t) : i \notin 1 .. k => i - k \in DOMAIN w /\ t[i] = w[i - k]
  BY <1>1, <1>6, <1>7
<1>12. \A j \in DOMAIN w : j + k \in 1 .. Len(t) /\ t[j + k] = w[j] /\ j + k \notin 1 .. k
  <2> SUFFICES ASSUME NEW j \in 1 .. l
               PROVE  j + k \in 1 .. Len(t) /\ t[j + k] = w[j] /\ j + k \notin 1 .. k
    BY <1>1
  <2>1. j + k \in 1 .. k + l /\ ~(j + k <= k) /\ (j + k) - k = j
    BY <1>1
  <2> QED BY <1>6, <1>7, <2>1
<1> QED BY <1>1, <1>6, <1>8, <1>10, <1>11, <1>12, <1>k DEF Stacked

(* The table that a class builds from a whole one of its superclass is     *)
(* whole, and extends it.                                                  *)
LEMMA TableIsWhole ==
  ASSUME NEW up \in [Class -> Class \cup {NoClass}], NoLoop(up), NEW c \in Class, NEW u,
         (up[c] = NoClass /\ u = <<>>) \/ (up[c] # NoClass /\ Whole(u, up[c], up)),
         NEW t, t = Overridden(c, u) \o NewSlots(c, u)
  PROVE  Whole(t, c, up) /\ Extends(t, u)
<1>b. PICK b : b = up[c] OBVIOUS
<1>w. PICK w : w = NewSlots(c, u) OBVIOUS
<1>k. PICK k : k = Len(u) OBVIOUS
<1>o. PICK own : own = Elems(MethodsOf[c]) OBVIOUS
<1>0. u \in Seq(Method)
  <2>1. CASE u = <<>>
    BY <2>1
  <2> QED BY <2>1 DEF Whole
<1>1. w \in Seq(Method) /\ Distinct(w) /\ Elems(w) = {<<c, n>> : n \in own \ Names(u)}
  BY <1>o, <1>w, NewSlotsAre DEF Lists
<1>2. Stacked(t, u, c, k, w)
  BY <1>0, <1>1, <1>k, <1>w, TableStacked
<1>3. /\ k \in Nat /\ DOMAIN u = 1 .. k /\ DOMAIN t = 1 .. Len(t) /\ k <= Len(t) /\ Len(t) \in Nat
      /\ t \in Seq(Method)
      /\ \A i \in 1 .. k : /\ t[i][2] = u[i][2] /\ i \in DOMAIN t
                           /\ \/ t[i] = <<c, u[i][2]>> /\ u[i][2] \in own
                              \/ t[i] = u[i] /\ u[i][2] \notin own
      /\ \A i \in 1 .. Len(t) : i \notin 1 .. k => i - k \in DOMAIN w /\ t[i] = w[i - k]
      /\ \A j \in DOMAIN w : j + k \in 1 .. Len(t) /\ t[j + k] = w[j]
  <2>1. k \in Nat /\ Len(t) \in Nat /\ k <= Len(t) /\ DOMAIN t = 1 .. Len(t)
    BY <1>2 DEF Stacked
  <2>2. \A i \in 1 .. k : i \in DOMAIN t
    BY <2>1
  <2> QED BY <1>2, <1>o, <2>1, <2>2, Zenon DEF Stacked
<1>4. \A j \in DOMAIN w : \E n \in own \ Names(u) : w[j] = <<c, n>>
  BY <1>1 DEF Elems
<1>5. u # <<>> => b # NoClass
  BY <1>b
<1>6. b # NoClass => Whole(u, b, up) /\ b \in Class /\ c \notin Above(b, up)
                     /\ Above(c, up) = {c} \cup Above(b, up)
  BY <1>b, AboveSuper
<1>7. b = NoClass => Above(c, up) = {c} /\ k = 0
  <2>1. b = NoClass => u = <<>>
    BY <1>b
  <2>2. Len(<<>>) = 0
    OBVIOUS
  <2> QED BY <1>b, <1>k, <2>1, <2>2, AboveSuper
<1>8. \A i \in 1 .. k : b # NoClass
  BY <1>7
<1>9. ASSUME NEW i \in DOMAIN t PROVE Implements(t[i], c, up)
  <2>1. CASE i \in 1 .. k /\ u[i][2] \in own
    <3>1. t[i] = <<c, u[i][2]>>
      BY <1>3, <2>1
    <3> QED BY <1>o, <2>1, <3>1, ImplementsOwn
  <2>2. CASE i \in 1 .. k /\ u[i][2] \notin own
    <3>m. PICK m : m = u[i] OBVIOUS
    <3>1. t[i] = m /\ m[2] \notin own
      BY <1>3, <2>2, <3>m
    <3>2. b # NoClass
      BY <1>8, <2>2
    <3>3. Implements(m, b, up)
      BY <1>3, <1>6, <2>2, <3>2, <3>m DEF Whole
    <3>4. Implements(m, c, up)
      BY <1>6, <1>o, <3>1, <3>2, <3>3 DEF Implements
    <3> QED BY <3>1, <3>4
  <2>3. CASE i \notin 1 .. k
    <3>1. i - k \in DOMAIN w /\ t[i] = w[i - k]
      BY <1>3, <1>9, <2>3
    <3>2. PICK n \in own : t[i] = <<c, n>>
      BY <1>4, <3>1
    <3> QED BY <1>o, <3>2, ImplementsOwn
  <2> QED BY <2>1, <2>2, <2>3
<1>10. ASSUME NEW a \in Above(c, up), NEW n \in Elems(MethodsOf[a]) PROVE \E i \in DOMAIN t : t[i][2] = n
  <2>1. CASE n \in Names(u)
    <3>1. PICK i \in 1 .. k : u[i][2] = n
      BY <1>3, <2>1 DEF Names
    <3> QED BY <1>3, <3>1
  <2>2. CASE n \notin Names(u) /\ a = c
    <3>1. <<c, n>> \in Elems(w)
      BY <1>1, <1>o, <2>2
    <3>2. PICK j \in DOMAIN w : w[j] = <<c, n>>
      BY <3>1 DEF Elems
    <3>3. j + k \in DOMAIN t /\ t[j + k] = <<c, n>>
      BY <1>3, <3>2
    <3> QED BY <3>3
  <2>3. CASE n \notin Names(u) /\ a # c
    <3>1. b # NoClass /\ a \in Above(b, up)
      BY <1>6, <1>7, <2>3
    <3>2. \E i \in DOMAIN u : u[i][2] = n
      BY <1>6, <3>1 DEF Whole
    <3> QED BY <2>3, <3>2 DEF Names
  <2> QED BY <2>1, <2>2, <2>3
<1>11. ASSUME NEW i \in DOMAIN t, NEW j \in DOMAIN t, t[i][2] = t[j][2] PROVE i = j
  <2>1. \A x \in 1 .. k : t[x][2] \in Names(u)
    BY <1>3 DEF Names
  <2>2. \A x \in DOMAIN t : x \notin 1 .. k => /\ x - k \in DOMAIN w /\ t[x] = w[x - k]
                                               /\ t[x][2] \notin Names(u) /\ t[x] = <<c, t[x][2]>>
    <3> SUFFICES ASSUME NEW x \in DOMAIN t, x \notin 1 .. k
                 PROVE  /\ x - k \in DOMAIN w /\ t[x] = w[x - k]
                        /\ t[x][2] \notin Names(u) /\ t[x] = <<c, t[x][2]>>
      OBVIOUS
    <3>1. x - k \in DOMAIN w /\ t[x] = w[x - k]
      BY <1>3
    <3>2. PICK n \in own \ Names(u) : t[x] = <<c, n>>
      BY <1>4, <3>1
    <3> QED BY <3>1, <3>2
  <2>3. CASE i \in 1 .. k /\ j \in 1 .. k
    <3>1. u[i][2] = u[j][2] /\ b # NoClass
      BY <1>3, <1>8, <1>11, <2>3
    <3> QED BY <1>3, <1>6, <2>3, <3>1 DEF Whole
  <2>4. CASE i \in 1 .. k /\ j \notin 1 .. k
    BY <1>11, <2>1, <2>2, <2>4
  <2>5. CASE i \notin 1 .. k /\ j \in 1 .. k
    BY <1>11, <2>1, <2>2, <2>5
  <2>6. CASE i \notin 1 .. k /\ j \notin 1 .. k
    <3>1. w[i - k] = w[j - k] /\ i - k \in DOMAIN w /\ j - k \in DOMAIN w
      BY <1>11, <2>2, <2>6
    <3>2. i - k = j - k
      BY <1>1, <3>1 DEF Distinct
    <3> QED BY <1>3, <3>2
  <2> QED BY <2>3, <2>4, <2>5, <2>6
<1>12. Extends(t, u)
  BY <1>3, <1>k DEF Extends
<1> QED BY <1>3, <1>9, <1>10, <1>11, <1>12 DEF Whole

(* A table that is whole stays so while the links above the class do.      *)
LEMMA WholeStays ==
  ASSUME NEW up \in [Class -> Class \cup {NoClass}], NEW new \in [Class -> Class \cup {NoClass}],
         NEW c \in Class, \A a \in Above(c, up) : new[a] = up[a], NEW t, Whole(t, c, up)
  PROVE  Whole(t, c, new)
<1>1. Above(c, new) = Above(c, up)
  BY AboveStays
<1>2. \A a \in Above(c, up) : Above(a, new) = Above(a, up)
  <2> SUFFICES ASSUME NEW a \in Above(c, up) PROVE Above(a, new) = Above(a, up)
    OBVIOUS
  <2>1. a \in Class /\ \A e \in Above(a, up) : new[e] = up[e]
    BY AboveAbove
  <2> QED BY <2>1, AboveStays
<1>3. \A m : Implements(m, c, up) => Implements(m, c, new)
  BY <1>1, <1>2 DEF Implements
<1> QED BY <1>1, <1>3 DEF Whole

(* The links above a class that is ready then do not change.               *)
LEMMA ChainStays ==
  ASSUME TypedState, Frames, Callers, RunningIs, Alone, Reported, Connected, Once, Settled, Tabled, Grounded,
         NoLoop(super), flagged = {}, ~Tangled, StackStep, LayoutStep, NEW c \in Class, NEW p \in Slots,
         Ready(c, p)'
  PROVE  \A a \in Above(c, super) : super'[a] = super[a]
<1>u. PICK up : up = super OBVIOUS
<1>0. up \in [Class -> Class \cup {NoClass}] /\ NoLoop(up)
  BY <1>u DEF TypedState, Steady
<1>b. PICK b : b = up[c] OBVIOUS
<1>1. super'[c] = b /\ (b # NoClass => b \in Class /\ p \in finished[b])
  BY <1>b, <1>u, SuperFinished
<1>2. ASSUME b # NoClass, NEW a \in Above(b, up) PROVE super'[a] = super[a]
  <2>1. a \in Class /\ Ready(a, p)
    BY <1>1, <1>2, <1>u, AllGrounded, ChainIs
  <2>2. p \in Begun(a)
    BY <2>1, ReadyHasBegun
  <2> QED BY <2>1, <2>2, SuperStays
<1>3. \A a \in Above(c, up) : a = c \/ (b # NoClass /\ a \in Above(b, up))
  BY <1>0, <1>b, AboveSuper
<1> QED BY <1>1, <1>2, <1>3, <1>b, <1>u

(* Only a class that builds its method table changes it.                   *)
LEMMA TableStays ==
  ASSUME SlotStep, table \in [Class -> Seq(Method)], NEW c \in Class, ~Slotting(c, "Overloading")
  PROVE  table'[c] = table[c]
<1>1. CASE table' = table
  BY <1>1
<1>2. CASE \E d \in Class : Slotting(d, "Overloading") /\ Builds(d)
  <2>1. PICK d \in Class : Slotting(d, "Overloading") /\ Builds(d)
    BY <1>2
  <2> QED BY <2>1 DEF Builds
<1> QED BY <1>1, <1>2 DEF SlotStep

(* A class that is past the construction of its method table has a whole   *)
(* one, which extends that of its superclass.                              *)
TablesBuilt ==
  /\ table \in [Class -> Seq(Method)]
  /\ \A c \in Class : Ready(c, "Overloading") =>
       Whole(table[c], c, super) /\ (super[c] # NoClass => Extends(table[c], table[super[c]]))

(* What a class that builds its method table makes.                        *)
LEMMA TableMade ==
  ASSUME TypedState, Frames, Callers, RunningIs, Alone, Reported, Connected, Tabled,
         NoLoop(super), TablesBuilt, flagged = {}, ~Tangled, Next,
         NEW c \in Class, Slotting(c, "Overloading")
  PROVE  /\ table' = [table EXCEPT ![c] = table'[c]]
         /\ Whole(table'[c], c, super)
         /\ super[c] # NoClass => Extends(table'[c], table[super[c]])
<1>u. PICK up : up = super OBVIOUS
<1>0. up \in [Class -> Class \cup {NoClass}] /\ NoLoop(up) /\ "Overloading" \in Slots
      /\ table \in [Class -> Seq(Method)]
  BY <1>u DEF TypedState, Steady, Slots, TablesBuilt
<1>b. PICK b : b = up[c] OBVIOUS
<1>v. PICK v : v = Inherited(c) OBVIOUS
<1>t. PICK t : t = Overridden(c, v) \o NewSlots(c, v) OBVIOUS
<1>1. Builds(c)
  BY OnlySlots
<1>2. table' = [table EXCEPT ![c] = t]
  BY <1>1, <1>t, <1>v DEF Builds
<1>3. table'[c] = t
  BY <1>0, <1>2
<1>4. (up[c] = NoClass /\ v = <<>>) \/ (up[c] # NoClass /\ Whole(v, up[c], up))
  <2>1. CASE b = NoClass
    BY <1>b, <1>u, <1>v, <2>1 DEF Inherited
  <2>2. CASE b # NoClass
    <3>1. b \in Class
      BY <1>0, <1>b, <2>2
    <3>2. ~Idle /\ Top.on = c /\ Top.pass = "Overloading" /\ Top.steps # <<>>
          /\ Head(Top.steps).op = SlotOp("Overloading")
      BY DEF Slotting
    <3>3. "Overloading" \in finished[b]
      BY <1>0, <1>b, <1>u, <2>2, <3>2, SuperIsReady
    <3>4. Whole(table[b], b, up)
      BY <1>u, <3>1, <3>3 DEF TablesBuilt, Ready
    <3> QED BY <1>b, <1>u, <1>v, <2>2, <3>4 DEF Inherited
  <2> QED BY <2>1, <2>2
<1>5. Whole(t, c, up) /\ Extends(t, v)
  BY <1>0, <1>4, <1>t, TableIsWhole
<1>6. super[c] # NoClass => v = table[super[c]]
  BY <1>v DEF Inherited
<1> QED BY <1>2, <1>3, <1>5, <1>6, <1>u

(* So it is after every step.                                              *)
LEMMA TablesKept ==
  ASSUME TypedState, TypedState', Frames, Callers, RunningIs, Alone, Reported, Connected, Once, Settled, Tabled,
         Grounded, NoLoop(super), TablesBuilt, flagged = {}, ~Tangled, StackStep, LayoutStep, SlotStep,
         Next
  PROVE  TablesBuilt'
<1>u. PICK up : up = super OBVIOUS
<1>n. PICK new : new = super' OBVIOUS
<1>0. /\ up \in [Class -> Class \cup {NoClass}] /\ new \in [Class -> Class \cup {NoClass}]
      /\ "Overloading" \in Slots /\ table \in [Class -> Seq(Method)]
  BY <1>u, <1>n DEF TypedState, Steady, Slots, TablesBuilt
<1>1. table' \in [Class -> Seq(Method)]
  <2>1. CASE table' = table
    BY <1>0, <2>1
  <2>2. CASE \E c \in Class : Slotting(c, "Overloading") /\ Builds(c)
    <3>1. PICK c \in Class : Slotting(c, "Overloading")
      BY <2>2
    <3>2. table' = [table EXCEPT ![c] = table'[c]] /\ Whole(table'[c], c, super)
      BY <3>1, TableMade
    <3>3. table'[c] \in Seq(Method)
      BY <3>2 DEF Whole
    <3> QED BY <1>0, <3>2, <3>3
  <2> QED BY <2>1, <2>2 DEF SlotStep
<1>2. ASSUME NEW c \in Class, Ready(c, "Overloading")'
      PROVE  Whole(table'[c], c, new) /\ (new[c] # NoClass => Extends(table'[c], table'[new[c]]))
  <2>b. PICK b : b = up[c] OBVIOUS
  <2>1. /\ new[c] = b
        /\ b # NoClass => b \in Class /\ ~Slotting(b, "Overloading")
    BY <1>0, <1>2, <1>n, <1>u, <2>b, SuperFinished
  <2>2. b # NoClass => table'[b] = table[b]
    BY <1>0, <2>1, TableStays
  <2>3. Whole(table'[c], c, up) /\ (b # NoClass => Extends(table'[c], table[b]))
    <3>1. CASE Ready(c, "Overloading")
      <4>1. table'[c] = table[c]
        BY <1>0, <3>1, NotYetReady, TableStays
      <4> QED BY <1>u, <2>b, <3>1, <4>1 DEF TablesBuilt
    <3>2. CASE Slotting(c, "Overloading")
      BY <1>u, <2>b, <3>2, TableMade
    <3> QED BY <1>0, <1>2, <3>1, <3>2, ReadyBefore
  <2>4. \A a \in Above(c, up) : new[a] = up[a]
    BY <1>0, <1>2, <1>n, <1>u, ChainStays
  <2>t. PICK t : t = table'[c] OBVIOUS
  <2>5. Whole(t, c, new)
    BY <1>0, <2>3, <2>4, <2>t, WholeStays
  <2> QED BY <2>1, <2>2, <2>3, <2>5, <2>t
<1>3. \A c \in Class : Ready(c, "Overloading")' =>
        Whole(table'[c], c, super') /\ (super'[c] # NoClass => Extends(table'[c], table'[super'[c]]))
  BY <1>2, <1>n
<1> QED BY <1>1, <1>3 DEF TablesBuilt, Whole, Implements, Above, Up, Extends

-----------------------------------------------------------------------------
(* The layout of classes.                                                  *)

(* What holds of the classes in a program that is not tangled.             *)
Ordered == Settled /\ Tabled /\ Grounded /\ FieldsLaid /\ TablesBuilt

(* The invariant for the layout of classes.                                *)
Layouts ==
  /\ Core /\ NoLoop(super) /\ FlaggedForCause /\ Connected /\ Plans /\ BaseCalled /\ Once
  /\ ~Tangled => Ordered

(* It holds after every step.                                              *)
LEMMA LayoutsKept == Layouts /\ [Next]_vars => Layouts'
<1> SUFFICES ASSUME Layouts, [Next]_vars PROVE Layouts'
  OBVIOUS
<1>0. /\ Core' /\ StackStep /\ LayoutStep /\ TypedState /\ TypedState' /\ Frames /\ Callers
      /\ RunningIs /\ Alone /\ Reported /\ NoLoop(super) /\ FlaggedForCause /\ Connected /\ Plans
      /\ BaseCalled /\ Once
  BY NextCore DEF Layouts, Core
<1>1. prog' = prog /\ SlotStep
  BY <1>0, NextSlots DEF LayoutStep
<1>2. NoLoop(super)' /\ FlaggedForCause' /\ Connected' /\ Plans'
  BY <1>0, <1>1, AcyclicKept, CauseKept, ConnectedKept, PlansKept
<1>3. BaseCalled' /\ Once'
  BY <1>0, <1>1, BaseCalledKept, OnceKept
<1>4. ASSUME ~Tangled' PROVE Ordered'
  <2>1. ~Tangled
    BY <1>1, <1>4, TangledStays
  <2>2. Settled /\ Tabled /\ Grounded /\ FieldsLaid /\ TablesBuilt /\ flagged = {}
    BY <1>0, <2>1, NothingFlagged DEF Layouts, Ordered
  <2>3. Settled' /\ Tabled' /\ Grounded'
    BY <1>0, <2>1, <2>2, SettledKept, TabledKept, GroundedKept
  <2>4. FieldsLaid' /\ TablesBuilt'
    <3>1. CASE Next
      BY <1>0, <1>1, <2>1, <2>2, <3>1, FieldsKept, TablesKept
    <3>2. CASE UNCHANGED vars
      <4>1. /\ stack' = stack /\ finished' = finished /\ super' = super /\ first' = first
            /\ reserved' = reserved /\ placed' = placed /\ table' = table
        BY <3>2 DEF vars, analysis, layout
      <4>2. \A c : \A p : Ready(c, p)' <=> Ready(c, p)
        BY <4>1 DEF Ready, At
      <4>3. FieldsLaid'
        BY <2>2, <4>1, <4>2 DEF FieldsLaid, Laid, Start
      <4>4. /\ table' \in [Class -> Seq(Method)]
            /\ \A c \in Class : Ready(c, "Overloading")' =>
                 /\ Whole(table'[c], c, super')
                 /\ super'[c] # NoClass => Extends(table'[c], table'[super'[c]])
        BY <2>2, <4>1, <4>2 DEF TablesBuilt
      <4>5. TablesBuilt'
        BY <4>4 DEF TablesBuilt, Whole, Implements, Above, Up, Extends
      <4> QED BY <4>3, <4>5
    <3> QED BY <3>1, <3>2
  <2> QED BY <2>3, <2>4 DEF Ordered
<1> QED BY <1>0, <1>2, <1>3, <1>4 DEF Layouts

(* It holds at the start.                                                  *)
LEMMA InitLayouts == Init => Layouts
<1> SUFFICES ASSUME Init PROVE Layouts
  OBVIOUS
<1>0. /\ DOMAIN stack = {} /\ \A i, d, p : ~At(i, d, p)
      /\ \A c \in Class : running[c] = {} /\ finished[c] = {} /\ super[c] = NoClass
  BY NothingIn, OwnerOfClass DEF Init, At
<1>1. NoLoop(super) /\ FlaggedForCause
  BY DEF Init, NoLoop, FlaggedForCause
<1>2. Connected /\ Plans /\ BaseCalled /\ Once
  BY <1>0 DEF Connected, Plans, BaseCalled, Once
<1>3. \A c \in Class : \A p : ~Ready(c, p) /\ p \notin Begun(c)
  BY <1>0 DEF Ready, Begun
<1>4. Settled /\ Tabled /\ Grounded
  BY <1>0, <1>3 DEF Settled, Tabled, Grounded
<1>5. FieldsLaid /\ TablesBuilt
  BY <1>3 DEF Init, FieldsLaid, TablesBuilt
<1> QED BY <1>1, <1>2, <1>4, <1>5, InitCore DEF Layouts, Ordered

(* The fields of a superclass end before those of a class start.           *)
LEMMA FieldsAbove ==
  ASSUME TypedState, NoLoop(super), Grounded, FieldsLaid, NEW c \in Class, "Field" \in finished[c],
         NEW a \in Chain(c) \ {c}
  PROVE  a \in Class /\ first[a] + Len(placed[a]) <= first[c]
<1>u. PICK up : up = super OBVIOUS
<1>0. /\ up \in [Class -> Class \cup {NoClass}] /\ NoLoop(up) /\ "Field" \in Slots
      /\ placed \in [Class -> Seq(Var)] /\ first \in [Class -> Nat]
  BY <1>u DEF TypedState, Steady, Slots, FieldsLaid
<1>b. PICK b : b = up[c] OBVIOUS
<1>1. \A x \in Class : "Field" \in finished[x] =>
        /\ first[x] \in Nat /\ Len(placed[x]) \in Nat
        /\ up[x] # NoClass => /\ up[x] \in Class /\ "Field" \in finished[up[x]]
                              /\ first[x] = first[up[x]] + Len(placed[up[x]])
  <2> SUFFICES ASSUME NEW x \in Class, "Field" \in finished[x]
               PROVE  /\ first[x] \in Nat /\ Len(placed[x]) \in Nat
                      /\ up[x] # NoClass => /\ up[x] \in Class /\ "Field" \in finished[up[x]]
                                            /\ first[x] = first[up[x]] + Len(placed[up[x]])
    OBVIOUS
  <2>1. Ready(x, "Field") /\ Laid(x)
    BY DEF Ready, FieldsLaid
  <2>2. up[x] # NoClass => up[x] \in Class /\ "Field" \in finished[up[x]]
    BY <1>0, <1>u, <2>1 DEF Grounded
  <2>3. Len(placed[x]) \in Nat
    BY <1>0, LenProperties
  <2> QED BY <1>0, <1>u, <2>1, <2>2, <2>3 DEF Laid, Start
<1>2. b # NoClass /\ b \in Class /\ a \in Above(b, up)
  BY <1>0, <1>b, <1>u, ChainIs, AboveSuper
<1> DEFINE S == {x \in Class : "Field" \in finished[x] /\ first[x] + Len(placed[x]) <= first[c]}
<1>3. b \in S
  BY <1>1, <1>2, <1>b
<1>4. Highest(S, up)
  <2> SUFFICES ASSUME NEW x \in S, up[x] # NoClass PROVE up[x] \in S
    BY DEF Highest
  <2>y. PICK y : y = up[x] OBVIOUS
  <2>1. /\ y \in Class /\ "Field" \in finished[y] /\ first[x] = first[y] + Len(placed[y])
        /\ first[x] \in Nat /\ Len(placed[x]) \in Nat /\ first[x] + Len(placed[x]) <= first[c]
        /\ first[y] \in Nat /\ Len(placed[y]) \in Nat /\ first[c] \in Nat
    BY <1>1, <2>y
  <2>2. first[y] + Len(placed[y]) <= first[c]
    BY <2>1
  <2> QED BY <2>1, <2>2, <2>y
<1>5. Above(b, up) \subseteq S
  <2> S \in SUBSET Class OBVIOUS
  <2> HIDE DEF S
  <2> QED BY <1>0, <1>2, <1>3, <1>4, AboveIs DEF IsAbove
<1> QED BY <1>2, <1>5

(* A position that is looked up is one of the class.                       *)
LEMMA IndexIs ==
  ASSUME TypedState, NEW c \in Class, NEW v \in Elems(placed[c]), first[c] \in Nat
  PROVE  \E i \in Nat : 1 <= i /\ i <= Len(placed[c]) /\ Index(c, v) = first[c] + i
<1> DEFINE i == CHOOSE j \in DOMAIN placed[c] : placed[c][j] = v
<1>1. DOMAIN placed[c] = 1 .. Len(placed[c]) /\ Len(placed[c]) \in Nat
  BY LenProperties DEF TypedState, Steady
<1>2. i \in DOMAIN placed[c]
  BY DEF Elems
<1>3. Index(c, v) = first[c] + i
  BY DEF Index
<1> HIDE DEF i
<1> QED BY <1>1, <1>2, <1>3

(* The invariant says what was to be shown of the fields.                  *)
LEMMA LayoutsImplyFields == Layouts => FieldsDoNotOverlap
<1> SUFFICES ASSUME Layouts, ~Tangled, NEW c \in Class, "Field" \in finished[c]
             PROVE  /\ first[c] >= 0
                    /\ c \in reserved <=> super[c] # NoClass
                    /\ \A a \in Chain(c) \ {c} :
                         \A v \in Elems(placed[c]), w \in Elems(placed[a]) : Index(c, v) # Index(a, w)
  BY DEF FieldsDoNotOverlap
<1>0. TypedState /\ NoLoop(super) /\ Grounded /\ FieldsLaid
  BY DEF Layouts, Core, Ordered
<1>1. Laid(c) /\ first \in [Class -> Nat]
  BY <1>0 DEF FieldsLaid, Ready
<1>2. ASSUME NEW a \in Chain(c) \ {c}, NEW v \in Elems(placed[c]), NEW w \in Elems(placed[a])
      PROVE  Index(c, v) # Index(a, w)
  <2>1. a \in Class /\ first[a] + Len(placed[a]) <= first[c]
    BY <1>0, FieldsAbove
  <2>2. first[c] \in Nat /\ first[a] \in Nat /\ Len(placed[a]) \in Nat
    BY <1>0, <1>1, <2>1, LenProperties DEF TypedState, Steady
  <2>3. PICK i \in Nat : 1 <= i /\ Index(c, v) = first[c] + i
    BY <1>0, <2>2, IndexIs
  <2>4. PICK j \in Nat : j <= Len(placed[a]) /\ Index(a, w) = first[a] + j
    BY <1>0, <2>1, <2>2, IndexIs
  <2> QED BY <2>1, <2>2, <2>3, <2>4
<1> QED BY <1>1, <1>2 DEF Laid

(* The invariant says what was to be shown of the method tables.           *)
LEMMA LayoutsImplyTables == Layouts => MethodTablesExtend
<1> SUFFICES ASSUME Layouts, ~Tangled, NEW c \in Class, "Overloading" \in finished[c]
             PROVE  /\ \A i \in DOMAIN table[c] :
                         LET m == table[c][i]
                         IN /\ m[1] \in Chain(c)
                            /\ \A a \in Chain(c) :
                                 m[2] \in Elems(MethodsOf[a]) => m[1] \notin Chain(a) \ {a}
                    /\ super[c] # NoClass =>
                         /\ Len(table[super[c]]) <= Len(table[c])
                         /\ \A i \in DOMAIN table[super[c]] : table[super[c]][i][2] = table[c][i][2]
                    /\ \A a \in Chain(c) : \A n \in Elems(MethodsOf[a]) :
                         Cardinality({i \in DOMAIN table[c] : table[c][i][2] = n}) = 1
  BY DEF MethodTablesExtend
<1>0. \A a : Chain(a) = Above(a, super)
  BY ChainIs
<1>1. Whole(table[c], c, super) /\ (super[c] # NoClass => Extends(table[c], table[super[c]]))
  BY DEF Layouts, Ordered, TablesBuilt, Ready
<1>2. ASSUME NEW a \in Chain(c), NEW n \in Elems(MethodsOf[a])
      PROVE  Cardinality({i \in DOMAIN table[c] : table[c][i][2] = n}) = 1
  <2>1. PICK i \in DOMAIN table[c] : table[c][i][2] = n
    BY <1>0, <1>1 DEF Whole
  <2>2. {j \in DOMAIN table[c] : table[c][j][2] = n} = {i}
    BY <1>1, <2>1 DEF Whole
  <2> QED BY <2>2, FS_Singleton
<1>3. \A i \in DOMAIN table[c] : Implements(table[c][i], c, super)
  BY <1>1 DEF Whole
<1> QED BY <1>0, <1>1, <1>2, <1>3 DEF Implements, Extends

(* In a program that is not tangled no field has the position of an        *)
(* inherited one, and every class with a superclass has the slot for it,   *)
(* once its fields are known: the count of the inherited fields is made    *)
(* when the superclass has all of its own (analyzeFields).                 *)
THEOREM FieldsAreApart == Spec => []FieldsDoNotOverlap
<1>1. Init => Layouts
  BY InitLayouts
<1>2. Layouts /\ [Next]_vars => Layouts'
  BY LayoutsKept
<1>3. Layouts => FieldsDoNotOverlap
  BY LayoutsImplyFields
<1> QED BY <1>1, <1>2, <1>3, PTL DEF Spec

(* In a program that is not tangled a finished method table extends that   *)
(* of the superclass slot by slot and has one slot for every name, with    *)
(* its nearest implementation: the table that is copied is never one that  *)
(* is still being built (copyBaseClassMethods, overrideMembers).           *)
THEOREM TablesAreWhole == Spec => []MethodTablesExtend
<1>1. Init => Layouts
  BY InitLayouts
<1>2. Layouts /\ [Next]_vars => Layouts'
  BY LayoutsKept
<1>3. Layouts => MethodTablesExtend
  BY LayoutsImplyTables
<1> QED BY <1>1, <1>2, <1>3, PTL DEF Spec
=============================================================================

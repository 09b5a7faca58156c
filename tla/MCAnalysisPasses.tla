-------------------------- MODULE MCAnalysisPasses --------------------------
(* One or two classes of a module and an attribute class that it imports.  *)
EXTENDS AnalysisPasses, TLC

CONSTANTS B, C, T, b1, b2, c1, cs, t1

MCClass == {B, C, T}
MCFieldsOf == (B :> <<b1, b2>>) @@ (C :> <<cs, c1>>) @@ (T :> <<t1>>)
MCMethodsOf == (B :> <<"m">>) @@ (C :> <<"n", "m">>) @@ (T :> <<"n">>)

None(S) == [d \in S |-> NoClass]
Fields0 == {b1, b2, c1, cs, t1}
Members0 == Fields0 \cup {<<B, "m">>, <<C, "n">>, <<C, "m">>, <<T, "n">>}

Prog(order, base, ab, ac, tb, it, im, is) ==
  [order |-> order,
   base |-> base,
   compiled |-> {},
   attr |-> [None(MCClass \cup Fields0) EXCEPT ![B] = ab, ![C] = ac],
   type |-> [None(Members0) EXCEPT ![b1] = tb, ![cs] = is, ![t1] = it,
                                     ![<<C, "n">>] = B],
   init |-> [None(Members0) EXCEPT ![cs] = is, ![t1] = it, ![<<B, "m">>] = im]]

(* C and T are compiled, or one of them: C has an attribute, or its field. *)
Import(base, compiled, ac, it) ==
  [Prog(<<B>>, base, NoClass, ac, C, it, T, C) EXCEPT
     !.compiled = compiled,
     !.attr[c1] = IF ac = NoClass THEN T ELSE NoClass,
     !.init[cs] = IF C \in compiled THEN NoClass ELSE C,
     !.init[t1] = IF T \in compiled THEN NoClass ELSE it]

(* Every way the three classes can inherit from each other, with an        *)
(* attribute, the type of a field and an initializer; for two chains of    *)
(* inheritance everything that a program can mention; and again every      *)
(* inheritance, with attributes of compiled classes and of a field.  cs is *)
(* a static variable of C, here a C().                                     *)
Bases == [MCClass -> MCClass \cup {NoClass}]
Chains == {[c \in MCClass |-> IF c = C THEN B ELSE NoClass],
           [c \in MCClass |-> IF c = B THEN T ELSE IF c = C THEN B ELSE NoClass]}
MCPrograms ==
  {Prog(<<B, C>>, base, ab, NoClass, tb, it, im, C) :
     base \in Bases, ab \in {T, NoClass}, tb \in {C, NoClass}, it \in {B, NoClass},
     im \in {cs, T}}
  \cup
  {Prog(order, base, ab, ac, tb, it, im, C) :
     order \in {<<B>>, <<B, C>>}, base \in Chains,
     ab \in {T, NoClass}, ac \in {T, NoClass},
     tb \in {B, C, T, NoClass}, it \in {B, C, NoClass}, im \in {cs, T, NoClass}}
  \cup
  {Import(base, compiled, ac, it) :
     base \in Bases, compiled \in {{C}, {T}, {C, T}}, ac \in {T, NoClass}, it \in {B, NoClass}}
=============================================================================

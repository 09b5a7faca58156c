--------------------------- MODULE MCModuleImport ---------------------------
(* Three modules of a package, and one of the core with a name of theirs.  *)
EXTENDS ModuleImport

MCNames == {"p", "core", "A", "B", "C", "x"}
A == <<"p", "A">>
B == <<"p", "B">>
C == <<"p", "C">>
CoreC == <<"core", "C">>
MCCore == <<"core">>

Plain(path) == [path |-> path, unpack |-> FALSE]
Whole(path) == [path |-> path, unpack |-> TRUE]
Kinds == {"class", "namespace"}

World(files, path, kindB, kindC, base, ia, ib, ic, inner) ==
  [input |-> files, path |-> path,
   kind |-> A :> "class" @@ B :> kindB @@ C :> kindC @@ CoreC :> "class",
   members |-> A :> {"x"} @@ B :> {"x"} @@ C :> {"x"} @@ CoreC :> {},
   base |-> A :> base[1] @@ B :> base[2] @@ C :> "" @@ CoreC :> "",
   imports |-> A :> ia @@ B :> ib @@ C :> ic @@ CoreC :> <<>>,
   inner |-> A :> <<>> @@ B :> inner[1] @@ C :> inner[2] @@ CoreC :> <<>>]

Statement == {<<Whole(B)>>, <<Plain(B \o <<"x">>), Whole(<<"C">>)>>,
              <<Plain(B \o <<"x">>), Plain(CoreC)>>, <<Whole(C), Plain(<<"C">>)>>}
OnPath == A :> <<"none", "file">> @@ B :> <<"file", "none">>
            @@ C :> <<"file", "none">> @@ CoreC :> <<"none", "archive">>
Paths == {OnPath, [OnPath EXCEPT ![C] = <<"none", "none">>], [OnPath EXCEPT ![C] = <<"file", "broken">>]}

MCWorlds ==
  {World(<<A, C>>, path, kindB, kindC, base, ia, ib, <<>>, inner) :
     path \in Paths, kindB \in Kinds, kindC \in Kinds,
     base \in {<<"B", "C">>, <<"C", "A">>}, ia \in Statement,
     ib \in {<<Plain(A \o <<"x">>)>>, <<Plain(C)>>},
     inner \in {<< <<Whole(C)>>, <<>> >>, << <<Whole(C)>>, <<Whole(B)>> >>}}
  \cup
  {World(<<A>>, [OnPath EXCEPT ![B] = path], "namespace", kindC, <<"C", "">>, ia, <<>>, <<Whole(B)>>,
         << <<Plain(C)>>, <<>> >>) :
     path \in {<<"file", "file">>, <<"archive", "file">>}, kindC \in Kinds, ia \in Statement}
=============================================================================

----------------------------- MODULE ObjectHeap -----------------------------
(***************************************************************************)
(* What a program may rely on whatever collector is linked in (the GC      *)
(* namespace of lib/std/tart/gc/GC.tart): objects have an identity, a      *)
(* reference leads to the object that was stored, and an object a root can *)
(* reach is never lost.  Objects that nothing reaches are forgotten at     *)
(* once, so a collection is a step that changes nothing here.              *)
(***************************************************************************)
EXTENDS Naturals

CONSTANTS
    Root,         \* the variables that are GC roots
    Id,           \* object identities
    NoId,         \* the null reference
    FieldCounts   \* how many reference fields an object may have

VARIABLES
    held,         \* root -> the object it refers to
    fields        \* object -> the objects its fields refer to

heapVars == <<held, fields>>

(* The objects in reach, for given roots and fields: those of every set    *)
(* that holds what the roots lead to and is closed under fields            *)
Closed(S, h, f) == /\ \A r \in Root : h[r] \in {NoId} \cup S
                   /\ \A i \in S : \A k \in DOMAIN f[i] : f[i][k] \in {NoId} \cup S

InReach(h, f) == {i \in DOMAIN f : \A S \in SUBSET DOMAIN f : Closed(S, h, f) => i \in S}

(* The roots become h, the fields f, and what is out of reach is forgotten *)
Become(h, f) == /\ held' = h
                /\ fields' = [i \in InReach(h, f) |-> f[i]]

HeapInit == held = [r \in Root |-> NoId] /\ fields = << >>

Allocate(r, n) ==
    \E i \in Id \ DOMAIN fields :
        Become([held EXCEPT ![r] = i],
               [j \in DOMAIN fields \cup {i} |-> IF j = i THEN [k \in 1..n |-> NoId]
                                                 ELSE fields[j]])

StoreField(r, k, v) ==
    /\ held[r] # NoId /\ k \in DOMAIN fields[held[r]]
    /\ Become(held, [fields EXCEPT ![held[r]][k] = v])

LoadField(r, s, k) ==
    /\ held[s] # NoId /\ k \in DOMAIN fields[held[s]]
    /\ Become([held EXCEPT ![r] = fields[held[s]][k]], fields)

Assign(r, v) == Become([held EXCEPT ![r] = v], fields)

HeapNext ==
    \/ \E r \in Root, n \in FieldCounts : Allocate(r, n)
    \/ \E r \in Root, v \in {NoId} \cup {held[s] : s \in Root} :
          \/ Assign(r, v)
          \/ held[r] # NoId /\ \E k \in DOMAIN fields[held[r]] : StoreField(r, k, v)
    \/ \E r, s \in Root :
          held[s] # NoId /\ \E k \in DOMAIN fields[held[s]] : LoadField(r, s, k)

HeapSpec == HeapInit /\ [][HeapNext]_heapVars
=============================================================================

------------------------------ MODULE HashTable -----------------------------
(***************************************************************************)
(* The hash collections of the Tart library (lib/std/tart/collections/     *)
(* HashMap.tart and HashSet.tart).  Up to Small items are kept in an array *)
(* in the order they came; beyond that the array is a table that is probed *)
(* at four places per key and grows until every key has one.  One iterator *)
(* may be open over the array of the time it was made, while the program   *)
(* goes on to change the collection.                                       *)
(***************************************************************************)
EXTENDS Integers, Sequences, FiniteSets

CONSTANTS
  Key, Value,
  Small,      \* the length of the first array
  Hashes,     \* the hash functions to choose from: [Key -> Nat]
  Absent,     \* no value
  Given,      \* bound: the values a key is given, [Key -> SUBSET Value]
  MaxLength,  \* bound: the length at which a growth is given up
  MaxIterated, \* bound: items when an iterator is made
  MaxChanges  \* bound: operations while an iterator is open

ASSUME TableAssumption ==
  /\ Small \in Nat \ {0} /\ MaxLength \in Nat /\ MaxChanges \in Nat
  /\ MaxIterated \in Nat
  /\ \A h \in Hashes : h \in [Key -> Nat]
  /\ Given \in [Key -> SUBSET Value]
  /\ Absent \notin Value \cup Key

VARIABLES
  kind, hash,    \* "map" or "set"; the hash function
  data, length,  \* _data: [0 .. length - 1 -> entry]
  size,          \* _size
  growing,       \* the rehash() in progress, or NotGrowing
  asked, result, \* history: the last operation and its key, and its answer
  iterator,      \* the open iterator
  seen           \* history: the keys it returned, and if one came again

tableVars == <<data, length, size>>
iterVars == <<iterator, seen>>
answerVars == <<asked, result>>
vars == <<kind, hash, tableVars, growing, answerVars, iterVars>>

Empty == [key |-> Absent, value |-> Absent]   \* EntryState.EMPTY
Entry(k, v) == [key |-> k, value |-> v]
NoData == [i \in {} |-> Empty]
Blank(n) == [i \in 0 .. n - 1 |-> Empty]
NoIterator == [open |-> FALSE, old |-> NoData, live |-> FALSE, index |-> 0, max |-> 0,
               first |-> {}, known |-> {}, disturbed |-> FALSE, changes |-> 0]
NoneSeen == [keys |-> {}, again |-> FALSE]
NoRequest == <<"none", Absent>>
NotGrowing == [on |-> FALSE, key |-> Absent, value |-> Absent,
               table |-> NoData, length |-> 0, next |-> 0]

-----------------------------------------------------------------------------
(* Probing.  The steps from place to place are 1, 2, 3.                    *)

Place(k, n, len) == (hash[k] + (n * (n - 1)) \div 2) % len
Probes == 1 .. 4

(* The first place of the probe sequence of k that is empty or holds k.    *)
Stops(t, len, k) ==
  {n \in Probes : t[Place(k, n, len)].key \in {Absent, k}}
FirstOf(S) == CHOOSE n \in S : \A m \in S : n <= m

Find(k) ==  \* findEntry(): the index of k, or -1
  IF length > Small
    THEN LET S == Stops(data, length, k)
             at == Place(k, FirstOf(S), length)
         IN IF S # {} /\ data[at].key = k THEN at ELSE -1
    ELSE LET S == {i \in 0 .. size - 1 : length > 0 /\ data[i].key = k}
         IN IF S = {} THEN -1 ELSE FirstOf(S)

Lookup(k) == LET at == Find(k) IN IF at < 0 THEN Absent ELSE data[at].value
Contains(k) == Find(k) >= 0

-----------------------------------------------------------------------------
Init ==
  /\ kind \in {"map", "set"} /\ hash \in Hashes
  /\ data = NoData /\ length = 0 /\ size = 0
  /\ growing = NotGrowing
  /\ asked = NoRequest /\ result = Absent
  /\ iterator = NoIterator /\ seen = NoneSeen

Ready == ~growing.on /\ iterator.changes < MaxChanges

Counted(it) == IF it.open THEN [it EXCEPT !.changes = @ + 1] ELSE it

(* An array that is replaced stays with the iterator that was made over it.*)
Replace(newData, newLength) ==
  /\ data' = newData /\ length' = newLength
  /\ iterator' = Counted(IF iterator.live
                           THEN [iterator EXCEPT !.live = FALSE, !.old = data]
                           ELSE iterator)

Learn(k) == iterator' = Counted(IF iterator.open
                                  THEN [iterator EXCEPT !.known = @ \cup {k}]
                                  ELSE iterator)

Answer(op, k, r) == asked' = <<op, k>> /\ result' = r

(* An operation that is in progress and one of an iterator answer nothing. *)
Unanswered == asked' = NoRequest /\ result' = Absent

Added(k) == Answer("put", k, IF kind = "set" THEN TRUE ELSE Absent)

(* setValue() and add() of a key that is there: a set keeps its item.      *)
Overwrite(k, v) ==
  /\ Ready /\ Contains(k)
  /\ data' = IF kind = "map" THEN [data EXCEPT ![Find(k)] = Entry(k, v)] ELSE data
  /\ Answer("put", k, IF kind = "set" THEN FALSE ELSE Absent)
  /\ iterator' = Counted(iterator)
  /\ UNCHANGED <<kind, hash, length, size, growing, seen>>

(* The first item makes the array.                                         *)
InsertFirst(k, v) ==
  /\ Ready /\ length = 0
  /\ Replace([Blank(Small) EXCEPT ![0] = Entry(k, v)], Small)
  /\ size' = 1 /\ Added(k)
  /\ UNCHANGED <<kind, hash, growing, seen>>

InsertLast(k, v) ==
  /\ Ready /\ length = Small /\ ~Contains(k) /\ size < Small
  /\ data' = [data EXCEPT ![size] = Entry(k, v)]
  /\ size' = size + 1 /\ Added(k)
  /\ Learn(k)
  /\ UNCHANGED <<kind, hash, length, growing, seen>>

InsertProbed(k, v) ==
  /\ Ready /\ length > Small /\ ~Contains(k) /\ Stops(data, length, k) # {}
  /\ data' = [data EXCEPT ![Place(k, FirstOf(Stops(data, length, k)), length)]
                = Entry(k, v)]
  /\ size' = size + 1 /\ Added(k)
  /\ Learn(k)
  /\ UNCHANGED <<kind, hash, length, growing, seen>>

(* No place for a new key: rehash, then try again.  growing.table is the   *)
(* array that rehash() fills with the items of the old one, in their order.*)
NewArray(len) == [growing EXCEPT !.table = Blank(len), !.length = len, !.next = 0]

BeginGrowth(k, v) ==
  /\ Ready /\ length > 0 /\ ~Contains(k)
  /\ IF length = Small THEN size = Small ELSE Stops(data, length, k) = {}
  /\ LET len == IF kind = "set" /\ length = Small THEN 4 * length ELSE 2 * length
     IN growing' = [NewArray(len) EXCEPT !.on = TRUE, !.key = k, !.value = v]
  /\ Unanswered
  /\ UNCHANGED <<kind, hash, tableVars, iterVars>>

Free(k) == {n \in Probes : growing.table[Place(k, n, growing.length)] = Empty}

(* Mutant: the items keep their index.                                     *)
CopyItem ==
  /\ growing.on /\ growing.next < length
  /\ growing' = [growing EXCEPT !.table[growing.next] = data[growing.next],
                                 !.next = @ + 1]
  /\ UNCHANGED <<kind, hash, tableVars, answerVars, iterVars>>

RehashItem ==
  /\ growing.on /\ growing.next < length
  /\ LET e == data[growing.next]
     IN \/ e = Empty /\ growing' = [growing EXCEPT !.next = @ + 1]
        \/ /\ e # Empty /\ Free(e.key) # {}
           /\ LET at == Place(e.key, FirstOf(Free(e.key)), growing.length)
              IN growing' = [growing EXCEPT !.table[at] = e, !.next = @ + 1]
  /\ UNCHANGED <<kind, hash, tableVars, answerVars, iterVars>>

(* Mutant: the same length is tried again.                                 *)
GrowAgain ==
  /\ growing.on /\ growing.next < length /\ data[growing.next] # Empty
  /\ Free(data[growing.next].key) = {}
  /\ growing' = NewArray(growing.length)
  /\ UNCHANGED <<kind, hash, tableVars, answerVars, iterVars>>

(* Four places are taken: a table twice as long is started over.           *)
GrowFurther ==
  /\ growing.on /\ growing.next < length /\ data[growing.next] # Empty
  /\ Free(data[growing.next].key) = {}
  /\ 2 * growing.length <= MaxLength
  /\ growing' = NewArray(2 * growing.length)
  /\ UNCHANGED <<kind, hash, tableVars, answerVars, iterVars>>

(* Every item has a place: the new array is in use, and the key that asked *)
(* for it is placed, or makes it grow again.                               *)
EndGrowth ==
  /\ growing.on /\ growing.next = length
  /\ LET t == growing.table
         len == growing.length
         S == Stops(t, len, growing.key)
     IN IF S = {}
          THEN /\ 2 * len <= MaxLength
               /\ Replace(t, len) /\ growing' = NewArray(2 * len)
               /\ UNCHANGED <<size, answerVars>>
          ELSE /\ Replace([t EXCEPT ![Place(growing.key, FirstOf(S), len)]
                             = Entry(growing.key, growing.value)], len)
               /\ growing' = NotGrowing
               /\ size' = size + 1 /\ Added(growing.key)
  /\ UNCHANGED <<kind, hash, seen>>

(* Mutant: nothing is removed.                                             *)
RemoveNothing(k) ==
  /\ Ready /\ Answer("remove", k, FALSE)
  /\ iterator' = Counted(iterator)
  /\ UNCHANGED <<kind, hash, tableVars, growing, seen>>

(* remove() closes the gap in the first array and leaves what was in the   *)
(* last place; on a grown table it does nothing.                           *)
Remove(k) ==
  /\ Ready
  /\ IF length = Small /\ Contains(k)
       THEN /\ data' = [i \in DOMAIN data |->
                          IF i \in Find(k) .. size - 2 THEN data[i + 1] ELSE data[i]]
            /\ size' = size - 1 /\ Answer("remove", k, TRUE)
            /\ iterator' = Counted([iterator EXCEPT !.disturbed = @ \/ iterator.live])
       ELSE /\ UNCHANGED <<data, size>> /\ Answer("remove", k, FALSE)
            /\ iterator' = Counted(iterator)
  /\ UNCHANGED <<kind, hash, length, growing, seen>>

Get(k) ==
  /\ Ready /\ ~iterator.open /\ Answer("get", k, Lookup(k))
  /\ UNCHANGED <<kind, hash, tableVars, growing, iterVars>>

Clear ==
  /\ Ready
  /\ Replace(NoData, 0) /\ size' = 0 /\ Answer("clear", Absent, Absent)
  /\ UNCHANGED <<kind, hash, growing, seen>>

-----------------------------------------------------------------------------
(* Iterators.                                                              *)

Keys == {k \in Key : Contains(k)}

(* Mutant: the iterator of a map stops at the number of items.             *)
IterateSize ==
  /\ ~growing.on /\ ~iterator.open /\ size <= MaxIterated
  /\ iterator' = [NoIterator EXCEPT
                    !.open = TRUE, !.live = TRUE, !.first = Keys, !.known = Keys,
                    !.max = IF kind = "map" THEN size ELSE length,
                    !.disturbed = kind = "set" /\ length = Small
                                  /\ \E i \in size .. length - 1 : data[i] # Empty]
  /\ Unanswered
  /\ UNCHANGED <<kind, hash, tableVars, growing, seen>>

(* The iterator of a map stops at the items of a first array, the iterator *)
(* of a set goes through the whole array, with what removals left in it.   *)
Iterate ==
  /\ ~growing.on /\ ~iterator.open /\ size <= MaxIterated
  /\ iterator' = [NoIterator EXCEPT
                    !.open = TRUE, !.live = TRUE, !.first = Keys, !.known = Keys,
                    !.max = IF kind = "map" /\ length <= Small THEN size ELSE length,
                    !.disturbed = kind = "set" /\ length = Small
                                  /\ \E i \in size .. length - 1 : data[i] # Empty]
  /\ Unanswered
  /\ UNCHANGED <<kind, hash, tableVars, growing, seen>>

Entries == IF iterator.live THEN data ELSE iterator.old
Ahead == {i \in iterator.index .. iterator.max - 1 : Entries[i] # Empty}

NextItem ==
  /\ ~growing.on /\ iterator.open
  /\ IF Ahead = {}
       THEN iterator' = NoIterator /\ seen' = NoneSeen
       ELSE LET i == FirstOf(Ahead)
                k == Entries[i].key
            IN /\ iterator' = [iterator EXCEPT !.index = i + 1]
               /\ seen' = [keys |-> seen.keys \cup {k},
                           again |-> seen.again \/ k \in seen.keys]
  /\ Unanswered
  /\ UNCHANGED <<kind, hash, tableVars, growing>>

Change ==
  \/ \E k \in Key : \E v \in Given[k] :
       \/ Overwrite(k, v) \/ InsertFirst(k, v) \/ InsertLast(k, v)
       \/ InsertProbed(k, v) \/ BeginGrowth(k, v)
  \/ \E k \in Key : Remove(k) \/ Get(k)
  \/ Clear
Growth == RehashItem \/ GrowFurther \/ EndGrowth

Next == Change \/ Growth \/ Iterate \/ NextItem
Spec == Init /\ [][Next]_vars /\ WF_vars(Growth)

-----------------------------------------------------------------------------
(* Properties.                                                             *)

(* Every item is where its own probe sequence stops first: whatever was    *)
(* inserted, moved, overwritten and rehashed before, no item is behind an  *)
(* empty place or a second item of its key.                                *)
ItemsAreFound ==
  \A i \in DOMAIN data :
    data[i] # Empty /\ (length > Small \/ i < size) => Find(data[i].key) = i

(* An iterator that no removal disturbed returns no key twice, none that   *)
(* was never in the collection, and all that were there when it was made,  *)
(* although the array may grow, be replaced or be cleared meanwhile: each  *)
(* of those is returned already or still ahead.                            *)
IterationIsFaithful ==
  ~iterator.disturbed =>
    /\ ~seen.again /\ seen.keys \subseteq iterator.known
    /\ iterator.first \subseteq seen.keys \cup {Entries[i].key : i \in Ahead}

Distinct == \A j, k \in Key : hash[j] = hash[k] => j = k

(* A rehash ends if no two keys have the same hash: the doubling of the    *)
(* table leads to a length at which every item finds one of four places.   *)
GrowthEnds == (growing.on /\ Distinct) ~> ~growing.on

(* Seen through its operations the collection is a partial function: each  *)
(* answer is that of the key asked for, a removal removes and says so      *)
(* until the table has grown, and a set answers whether it changed.        *)
Map == INSTANCE AbstractMap WITH
         map <- [k \in Key |-> Lookup(k)], count <- size,
         First <- Small, grown <- length > Small \/ growing.on
ImplementsMap == Map!MapSpec
=============================================================================

----------------------------- MODULE AbstractMap ----------------------------
(***************************************************************************)
(* What the hash collections of the Tart library do for a caller: a        *)
(* HashMap is a partial function from keys to values, a HashSet the same   *)
(* with one value.  A collection that needed a place for more items than   *)
(* its first array has, since it was made or cleared, has grown; then it   *)
(* removes nothing, and until then it removes what it is asked to.         *)
(***************************************************************************)
EXTENDS Integers, FiniteSets

CONSTANTS Key, Value, Absent, First

VARIABLES
  kind,          \* "map" or "set"
  map,           \* [Key -> Value \cup {Absent}]
  count,         \* the size property
  grown,         \* it has more than the first array
  asked, result  \* the last operation and its key, and its answer

mapVars == <<kind, map, count, grown, asked, result>>

NoRequest == <<"none", Absent>>

MapInit ==
  /\ kind \in {"map", "set"} /\ map = [k \in Key |-> Absent]
  /\ count = 0 /\ grown = FALSE /\ asked = NoRequest /\ result = Absent

Answers(m, r) ==
  /\ result' = r
  /\ map' = m /\ count' = Cardinality({q \in Key : m[q] # Absent})
  /\ kind' = kind

Put(k, v) ==
  /\ asked' = <<"put", k>> /\ grown' = grown
  /\ LET m == map
     IN /\ m[k] # Absent \/ grown \/ count < First
        /\ \/ kind = "map" /\ Answers([m EXCEPT ![k] = v], Absent)
           \/ kind = "set" /\ m[k] = Absent /\ Answers([m EXCEPT ![k] = v], TRUE)
           \/ kind = "set" /\ m[k] # Absent /\ Answers(m, FALSE)

Remove(k) ==
  /\ asked' = <<"remove", k>> /\ grown' = grown
  /\ LET m == map
     IN IF m[k] # Absent /\ ~grown
          THEN Answers([m EXCEPT ![k] = Absent], TRUE)
          ELSE Answers(m, FALSE)

Get(k) == asked' = <<"get", k>> /\ grown' = grown /\ Answers(map, map[k])

Clear ==
  /\ asked' = <<"clear", Absent>> /\ grown' = FALSE
  /\ Answers([k \in Key |-> Absent], Absent)

(* The first array is full and a key asks for another place, or the        *)
(* program goes on with something that answers nothing.                    *)
Work ==
  /\ asked' = NoRequest /\ result' = Absent
  /\ grown' = grown \/ (count = First /\ grown' = TRUE)
  /\ UNCHANGED <<kind, map, count>>

MapNext ==
  \/ \E k \in Key, v \in Value : Put(k, v)
  \/ \E k \in Key : Remove(k) \/ Get(k)
  \/ Clear \/ Work

MapSpec == MapInit /\ [][MapNext]_mapVars
=============================================================================

--------------------------- MODULE HashTableProofs ---------------------------
(***************************************************************************)
(* For every hash function, every set of keys and every length of the      *)
(* first array: every item of a hash collection is where a search for its  *)
(* key ends, through insertions, removals and growth; lookups see a        *)
(* partial function (AbstractMap); and iterators return what they should.  *)
(***************************************************************************)
EXTENDS HashTable, NaturalRecursion

(* The places of a key under a hash function *)
At(h, k, n, len) == (h[k] + (n * (n - 1)) \div 2) % len

EntrySet == {Empty} \cup [key : Key, value : Value]

(* A table in which every item is at one of the places of its key, and the *)
(* places before that hold other items.                                    *)
Placed(h, t, len, i) ==
  \E n \in Probes :
    /\ At(h, t[i].key, n, len) = i
    /\ \A m \in Probes : m < n => t[At(h, t[i].key, m, len)].key \notin {Absent, t[i].key}
Good(h, t, len) == \A i \in 0 .. len - 1 : t[i] # Empty => Placed(h, t, len, i)

-----------------------------------------------------------------------------
(* Tables.                                                                 *)

LEMMA AtRange ==
  ASSUME NEW h \in [Key -> Nat], NEW k \in Key, NEW n \in Probes, NEW len \in Nat \ {0}
  PROVE  At(h, k, n, len) \in 0 .. len - 1
<1>1. n = 1 \/ n = 2 \/ n = 3 \/ n = 4
  BY DEF Probes
<1>2. (n * (n - 1)) \div 2 \in Nat
  BY <1>1
<1> DEFINE x == h[k] + (n * (n - 1)) \div 2
<1>3. x \in Nat
  BY <1>2
<1> HIDE DEF x
<1>4. x % len \in 0 .. len - 1
  BY <1>3
<1> QED BY <1>4 DEF At, x

LEMMA EntryFacts ==
  ASSUME NEW e \in EntrySet
  PROVE  /\ e # Empty => e.key \in Key /\ e.value \in Value /\ e.key # Absent
         /\ e = Empty => e.key = Absent
<1>1. Absent \notin Key
  BY TableAssumption
<1> QED BY <1>1 DEF EntrySet, Empty

LEMMA EntryTyped ==
  ASSUME NEW k \in Key, NEW v \in Value
  PROVE  /\ Entry(k, v) \in EntrySet /\ Entry(k, v) # Empty
         /\ Entry(k, v).key = k
<1>1. Entry(k, v) \in EntrySet /\ Entry(k, v).key = k
  BY DEF Entry, EntrySet
<1>2. k # Absent
  BY TableAssumption
<1> QED BY <1>1, <1>2, EntryFacts

(* The first of some numbers *)
LEMMA FirstIs ==
  ASSUME NEW S \in SUBSET Int, NEW x \in S, \A m \in S : x <= m
  PROVE  FirstOf(S) = x
<1>1. \E n \in S : \A m \in S : n <= m
  OBVIOUS
<1>2. FirstOf(S) \in S /\ \A m \in S : FirstOf(S) <= m
  BY <1>1 DEF FirstOf
<1>3. FirstOf(S) <= x /\ x <= FirstOf(S) /\ FirstOf(S) \in Int /\ x \in Int
  BY <1>2
<1> QED BY <1>3

LEMMA FirstProbe ==
  ASSUME NEW S \in SUBSET Probes, S # {}
  PROVE  FirstOf(S) \in S /\ \A m \in S : FirstOf(S) <= m
<1>1. \A n \in Probes : n = 1 \/ n = 2 \/ n = 3 \/ n = 4
  BY DEF Probes
<1>2. \E n \in S : \A m \in S : n <= m
  <2>1. CASE 1 \in S
    BY <2>1, <1>1
  <2>2. CASE 1 \notin S /\ 2 \in S
    BY <2>2, <1>1
  <2>3. CASE 1 \notin S /\ 2 \notin S /\ 3 \in S
    BY <2>3, <1>1
  <2>4. CASE 1 \notin S /\ 2 \notin S /\ 3 \notin S
    BY <2>4, <1>1
  <2> QED BY <2>1, <2>2, <2>3, <2>4
<1> QED BY <1>2 DEF FirstOf

(* An empty table *)
LEMMA BlankFacts ==
  ASSUME NEW h, NEW len \in Nat
  PROVE  Blank(len) \in [0 .. len - 1 -> EntrySet] /\ Good(h, Blank(len), len)
BY DEF Blank, EntrySet, Good

(* A search for an item that is placed ends at it *)
StopsAt(h, t, len, k) == {n \in Probes : t[At(h, k, n, len)].key \in {Absent, k}}

LEMMA PlacedIsFirst ==
  ASSUME NEW h, NEW len \in Nat, NEW t, Good(h, t, len),
         NEW i \in 0 .. len - 1, t[i] # Empty
  PROVE  /\ StopsAt(h, t, len, t[i].key) # {}
         /\ At(h, t[i].key, FirstOf(StopsAt(h, t, len, t[i].key)), len) = i
<1> DEFINE k == t[i].key
           S == StopsAt(h, t, len, k)
<1>1. PICK n \in Probes : /\ At(h, k, n, len) = i
                          /\ \A m \in Probes : m < n =>
                               t[At(h, k, m, len)].key \notin {Absent, k}
  BY DEF Good, Placed
<1>2. n \in S
  BY <1>1 DEF StopsAt
<1>3. S \in SUBSET Int /\ n \in Int /\ S \subseteq Probes
  BY DEF Probes, StopsAt
<1>4. ASSUME NEW m \in S PROVE n <= m
  <2>1. ~(m < n)
    BY <1>1 DEF StopsAt
  <2>2. m \in Int
    BY <1>3
  <2> QED BY <2>1, <2>2, <1>3
<1> HIDE DEF S
<1>5. FirstOf(S) = n
  BY <1>2, <1>3, <1>4, FirstIs
<1> QED BY <1>1, <1>2, <1>5 DEF S

(* No two items have one key *)
LEMMA GoodDistinct ==
  ASSUME NEW h, NEW len \in Nat, NEW t, Good(h, t, len),
         NEW i \in 0 .. len - 1, NEW j \in 0 .. len - 1,
         t[i] # Empty, t[j] # Empty, t[i].key = t[j].key
  PROVE  i = j
<1>1. At(h, t[i].key, FirstOf(StopsAt(h, t, len, t[i].key)), len) = i
  BY PlacedIsFirst
<1>2. At(h, t[j].key, FirstOf(StopsAt(h, t, len, t[j].key)), len) = j
  BY PlacedIsFirst
<1> QED BY <1>1, <1>2, Zenon

(* An item is put at the first of its places that is empty or its own *)
LEMMA GoodPut ==
  ASSUME NEW h \in [Key -> Nat], NEW len \in Nat \ {0},
         NEW t \in [0 .. len - 1 -> EntrySet], Good(h, t, len),
         NEW k \in Key, NEW v \in Value, NEW n \in Probes,
         t[At(h, k, n, len)].key \in {Absent, k},
         \A m \in Probes : m < n => t[At(h, k, m, len)].key \notin {Absent, k}
  PROVE  LET t2 == [t EXCEPT ![At(h, k, n, len)] = Entry(k, v)]
         IN t2 \in [0 .. len - 1 -> EntrySet] /\ Good(h, t2, len)
<1> DEFINE at == At(h, k, n, len)
           t2 == [t EXCEPT ![at] = Entry(k, v)]
<1>1. at \in 0 .. len - 1
  BY AtRange
<1>2. Entry(k, v) \in EntrySet /\ Entry(k, v).key = k
  BY EntryTyped
<1>3. /\ t2 \in [0 .. len - 1 -> EntrySet] /\ t2[at].key = k
      /\ \A i \in 0 .. len - 1 : i # at => t2[i] = t[i]
  BY <1>1, <1>2
<1>0. t[at].key \in {Absent, k}
  OBVIOUS
<1>00. \A m \in Probes : m < n => t[At(h, k, m, len)].key \notin {Absent, k}
  OBVIOUS
<1> HIDE DEF t2, at
<1>4. ASSUME NEW i \in 0 .. len - 1, t2[i] # Empty PROVE Placed(h, t2, len, i)
  <2>1. CASE i = at
    <3>1. \A m \in Probes : m < n => t2[At(h, k, m, len)].key \notin {Absent, k}
      <4> TAKE m \in Probes
      <4> HAVE m < n
      <4>1. At(h, k, m, len) \in 0 .. len - 1
        BY AtRange
      <4>2. t[At(h, k, m, len)].key \notin {Absent, k}
        BY <1>00
      <4>3. At(h, k, m, len) # at
        BY <1>0, <4>2
      <4> QED BY <4>1, <4>2, <4>3, <1>3
    <3>2. At(h, k, n, len) = i
      BY <2>1 DEF at
    <3> QED BY <2>1, <3>1, <3>2, <1>3 DEF Placed
  <2>2. CASE i # at
    <3> DEFINE q == t[i].key
    <3>1. t2[i] = t[i] /\ t[i] # Empty /\ t[i] \in EntrySet
      BY <2>2, <1>3, <1>4
    <3>2. q \in Key
      BY <3>1, EntryFacts
    <3>3. PICK o \in Probes : /\ At(h, q, o, len) = i
                              /\ \A m \in Probes : m < o => t[At(h, q, m, len)].key \notin {Absent, q}
      BY <3>1 DEF Good, Placed
    <3>4. \A m \in Probes : m < o => t2[At(h, q, m, len)].key \notin {Absent, q}
      <4> TAKE m \in Probes
      <4> HAVE m < o
      <4>1. At(h, q, m, len) \in 0 .. len - 1
        BY <3>2, AtRange
      <4>2. t[At(h, q, m, len)].key \notin {Absent, q}
        BY <3>3
      <4>3. CASE At(h, q, m, len) # at
        BY <4>1, <4>2, <4>3, <1>3
      <4>4. CASE At(h, q, m, len) = at
        <5>1. t[at].key = k
          BY <1>0, <4>2, <4>4
        <5> QED BY <5>1, <4>2, <4>4, <1>3
      <4> QED BY <4>3, <4>4
    <3>5. t2[i].key = q
      BY <3>1
    <3> QED BY <3>3, <3>4, <3>5 DEF Placed
  <2> QED BY <2>1, <2>2
<1>5. Good(h, t2, len)
  BY <1>4 DEF Good
<1> QED BY <1>3, <1>5 DEF t2, at

(* ... or, in a rehash, at the first that is free, of items with other keys *)
LEMMA GoodAdd ==
  ASSUME NEW h \in [Key -> Nat], NEW len \in Nat \ {0},
         NEW t \in [0 .. len - 1 -> EntrySet], Good(h, t, len),
         NEW k \in Key, NEW v \in Value,
         \A i \in 0 .. len - 1 : t[i].key # k,
         NEW n \in Probes, t[At(h, k, n, len)] = Empty,
         \A m \in Probes : m < n => t[At(h, k, m, len)] # Empty
  PROVE  LET t2 == [t EXCEPT ![At(h, k, n, len)] = Entry(k, v)]
         IN t2 \in [0 .. len - 1 -> EntrySet] /\ Good(h, t2, len)
<1>1. t[At(h, k, n, len)].key \in {Absent, k}
  BY DEF Empty
<1>2. ASSUME NEW m \in Probes, m < n PROVE t[At(h, k, m, len)].key \notin {Absent, k}
  <2>1. At(h, k, m, len) \in 0 .. len - 1
    BY AtRange
  <2>2. t[At(h, k, m, len)] \in EntrySet /\ t[At(h, k, m, len)] # Empty
    BY <2>1, <1>2
  <2>3. t[At(h, k, m, len)].key # Absent
    BY <2>2, EntryFacts
  <2> QED BY <2>1, <2>3
<1> QED BY <1>1, <1>2, GoodPut

-----------------------------------------------------------------------------
(* The invariant.                                                          *)

Shape ==
  /\ kind \in {"map", "set"} /\ hash \in [Key -> Nat]
  /\ length \in Nat /\ size \in Nat
  /\ length = 0 \/ length = Small \/ length > Small
  /\ length = 0 => size = 0
  /\ length <= Small => size <= length
  /\ data \in [0 .. length - 1 -> EntrySet]

(* The items of the first array come first and have different keys *)
Listed ==
  length = Small =>
    /\ \A i \in 0 .. size - 1 : data[i].key \in Key
    /\ \A i, j \in 0 .. size - 1 : data[i].key = data[j].key => i = j
Tabled == length > Small => Good(hash, data, length)

(* The new array of a rehash has items of the old one, up to the next *)
Rehashing ==
  growing.on =>
    /\ length >= Small /\ (length = Small => size = Small)
    /\ growing.length \in Nat /\ growing.length > Small
    /\ growing.next \in 0 .. length
    /\ growing.key \in Key /\ growing.value \in Value
    /\ growing.table \in [0 .. growing.length - 1 -> EntrySet]
    /\ Good(hash, growing.table, growing.length)
    /\ \A i \in 0 .. growing.length - 1 : growing.table[i] # Empty =>
         \E j \in 0 .. growing.next - 1 : data[j] # Empty /\ data[j].key = growing.table[i].key

TableInv == Shape /\ Listed /\ Tabled /\ Rehashing

LEMMA PlaceIsAt ==
  ASSUME NEW k, NEW n, NEW len
  PROVE  Place(k, n, len) = At(hash, k, n, len)
BY DEF Place, At

LEMMA StopsIs ==
  ASSUME NEW t, NEW len, NEW k
  PROVE  Stops(t, len, k) = StopsAt(hash, t, len, k)
BY PlaceIsAt DEF Stops, StopsAt

(* What findEntry() returns *)
LEMMA FindTable ==
  ASSUME TableInv, length > Small, NEW k \in Key
  PROVE  /\ Find(k) # -1 => Find(k) \in 0 .. length - 1 /\ data[Find(k)].key = k
         /\ Find(k) = -1 \/ Find(k) \in 0 .. length - 1
<1> DEFINE S == Stops(data, length, k)
           at == Place(k, FirstOf(S), length)
<1>1. Find(k) = IF S # {} /\ data[at].key = k THEN at ELSE -1
  BY DEF Find
<1>2. CASE S = {}
  BY <1>1, <1>2
<1>3. CASE S # {}
  <2>1. FirstOf(S) \in Probes
    BY <1>3, FirstProbe DEF Stops
  <2>2. hash \in [Key -> Nat] /\ length \in Nat \ {0}
    BY TableAssumption DEF TableInv, Shape
  <2> HIDE DEF S
  <2>3. at \in 0 .. length - 1
    BY <2>1, <2>2, PlaceIsAt, AtRange
  <2> QED BY <1>1, <2>3
<1> QED BY <1>2, <1>3

LEMMA FindList ==
  ASSUME TableInv, length = Small, NEW k \in Key
  PROVE  /\ Find(k) # -1 => Find(k) \in 0 .. size - 1 /\ data[Find(k)].key = k
         /\ Find(k) = -1 => \A i \in 0 .. size - 1 : data[i].key # k
         /\ \A i \in 0 .. size - 1 : data[i].key = k => Find(k) = i
<1> DEFINE S == {i \in 0 .. size - 1 : length > 0 /\ data[i].key = k}
<1>1. Find(k) = IF S = {} THEN -1 ELSE FirstOf(S)
  BY TableAssumption DEF Find
<1>2. length > 0 /\ size \in Nat
  BY TableAssumption DEF TableInv, Shape
<1>3. ASSUME NEW i \in S PROVE FirstOf(S) = i
  <2>1. \A j \in S : j = i
    BY DEF TableInv, Listed
  <2>2. S \in SUBSET Int /\ \A j \in S : i <= j
    BY <2>1, <1>2
  <2> QED BY <2>2, FirstIs
<1>4. \A i \in 0 .. size - 1 : i \in S <=> data[i].key = k
  BY <1>2
<1>5. S \subseteq 0 .. size - 1 /\ -1 \notin 0 .. size - 1
  BY <1>2
<1> HIDE DEF S
<1>6. CASE S = {}
  BY <1>1, <1>4, <1>6
<1>7. CASE S # {}
  <2>1. PICK i \in S : TRUE
    BY <1>7
  <2>2. Find(k) = i
    BY <1>1, <1>3, <1>7
  <2> QED BY <2>2, <1>1, <1>3, <1>4, <1>5, <1>7
<1> QED BY <1>6, <1>7

LEMMA FindNone ==
  ASSUME TableInv, length = 0, NEW k \in Key
  PROVE  Find(k) = -1
<1>1. {i \in 0 .. size - 1 : length > 0 /\ data[i].key = k} = {} /\ ~(length > Small)
  BY TableAssumption
<1> QED BY <1>1 DEF Find

LEMMA FindFacts ==
  ASSUME TableInv, NEW k \in Key
  PROVE  /\ Contains(k) <=> Find(k) # -1
         /\ Contains(k) => Find(k) \in 0 .. length - 1 /\ data[Find(k)].key = k /\ length > 0
         /\ Find(k) \in Int
<1>1. /\ length \in Nat /\ size \in Nat /\ (length <= Small => size <= length)
      /\ length = 0 \/ length = Small \/ length > Small
  BY DEF TableInv, Shape
<1>2. CASE length > Small
  BY <1>1, <1>2, FindTable, TableAssumption DEF Contains
<1>3. CASE length = Small
  <2>1. Find(k) = -1 \/ (Find(k) \in 0 .. size - 1 /\ data[Find(k)].key = k)
    BY <1>3, FindList
  <2> QED BY <1>1, <1>3, <2>1, TableAssumption DEF Contains
<1>4. CASE length = 0
  BY <1>1, <1>4, FindNone DEF Contains
<1> QED BY <1>1, <1>2, <1>3, <1>4

(* What the invariant says is what is wanted of every item *)
LEMMA FoundByInv == ASSUME TableInv PROVE ItemsAreFound
<1> SUFFICES ASSUME NEW i \in DOMAIN data, data[i] # Empty, length > Small \/ i < size
             PROVE  Find(data[i].key) = i
  BY DEF ItemsAreFound
<1>1. /\ DOMAIN data = 0 .. length - 1 /\ data[i] \in EntrySet /\ length \in Nat
      /\ size \in Nat
      /\ length = 0 \/ length = Small \/ length > Small
  BY DEF TableInv, Shape
<1>2. data[i].key \in Key /\ data[i].key # Absent
  BY <1>1, EntryFacts
<1>3. CASE length > Small
  <2> DEFINE k == data[i].key
             S == Stops(data, length, k)
  <2>1. Good(hash, data, length)
    BY <1>3 DEF TableInv, Tabled
  <2>2. /\ StopsAt(hash, data, length, k) # {}
        /\ At(hash, k, FirstOf(StopsAt(hash, data, length, k)), length) = i
    BY <1>1, <2>1, PlacedIsFirst
  <2>3. S # {} /\ Place(k, FirstOf(S), length) = i
    BY <2>2, StopsIs, PlaceIsAt, Zenon
  <2>4. Find(k) = IF S # {} /\ data[Place(k, FirstOf(S), length)].key = k
                    THEN Place(k, FirstOf(S), length) ELSE -1
    BY <1>3 DEF Find
  <2> HIDE DEF S
  <2> QED BY <2>3, <2>4
<1>4. CASE length = Small
  <2>1. i < size /\ i \in 0 .. length - 1
    BY <1>1, <1>4, TableAssumption
  <2>2. i \in Int /\ 0 <= i /\ size \in Int
    BY <1>1, <2>1
  <2>3. i \in 0 .. size - 1
    BY <2>1, <2>2
  <2> QED BY <1>2, <1>4, <2>3, FindList
<1>5. CASE length = 0
  BY <1>1, <1>5
<1> QED BY <1>1, <1>3, <1>4, <1>5

(* Only the keys of a table matter *)
LEMMA GoodSameKeys ==
  ASSUME NEW h \in [Key -> Nat], NEW len \in Nat \ {0},
         NEW t \in [0 .. len - 1 -> EntrySet], NEW t2 \in [0 .. len - 1 -> EntrySet],
         Good(h, t, len), \A i \in 0 .. len - 1 : t2[i].key = t[i].key
  PROVE  Good(h, t2, len)
<1> SUFFICES ASSUME NEW i \in 0 .. len - 1, t2[i] # Empty PROVE Placed(h, t2, len, i)
  BY DEF Good
<1>1. t[i] # Empty /\ t[i].key \in Key
  <2>1. t2[i].key # Absent /\ t2[i].key \in Key
    BY EntryFacts
  <2> QED BY <2>1, EntryFacts
<1>2. PICK n \in Probes : /\ At(h, t[i].key, n, len) = i
                          /\ \A m \in Probes : m < n =>
                               t[At(h, t[i].key, m, len)].key \notin {Absent, t[i].key}
  BY <1>1 DEF Good, Placed
<1>3. \A m \in Probes : At(h, t[i].key, m, len) \in 0 .. len - 1
  BY <1>1, AtRange
<1>4. \A m \in Probes : m < n => t2[At(h, t[i].key, m, len)].key \notin {Absent, t[i].key}
  BY <1>2, <1>3
<1>5. t2[i].key = t[i].key
  OBVIOUS
<1> QED BY <1>2, <1>4, <1>5 DEF Placed

(* A step that ends without a growth, and leaves no table behind *)
LEMMA QuietStep ==
  ASSUME Shape', Listed', Tabled', growing' = NotGrowing \/ ~growing'.on
  PROVE  TableInv'
BY DEF TableInv, Rehashing, NotGrowing

LEMMA NoTableStep == ASSUME length' = 0 PROVE Listed' /\ Tabled'
BY TableAssumption DEF Listed, Tabled

-----------------------------------------------------------------------------
(* Insertions.                                                             *)

LEMMA GivenValue == ASSUME NEW k \in Key, NEW v \in Given[k] PROVE v \in Value
BY TableAssumption

LEMMA OverwriteStep ==
  ASSUME TableInv, NEW k \in Key, NEW v \in Given[k], Overwrite(k, v)
  PROVE  TableInv'
<1> DEFINE f == Find(k)
<1>1. /\ kind' = kind /\ hash' = hash /\ length' = length /\ size' = size
      /\ growing' = growing /\ ~growing.on
      /\ data' = data \/ data' = [data EXCEPT ![f] = Entry(k, v)]
  BY DEF Overwrite, Ready
<1>2. f \in 0 .. length - 1 /\ data[f].key = k /\ length > 0
  BY FindFacts DEF Overwrite
<1> HIDE DEF f
<1>3. Entry(k, v) \in EntrySet /\ Entry(k, v).key = k
  BY EntryTyped, GivenValue
<1>4. /\ data \in [0 .. length - 1 -> EntrySet] /\ data' \in [0 .. length - 1 -> EntrySet]
      /\ \A i \in 0 .. length - 1 : data'[i].key = data[i].key
  <2>1. data \in [0 .. length - 1 -> EntrySet]
    BY DEF TableInv, Shape
  <2> QED BY <1>1, <1>2, <1>3, <2>1
<1>5. Shape'
  BY <1>1, <1>4 DEF TableInv, Shape
<1>6. /\ length \in Nat \ {0} /\ hash \in [Key -> Nat] /\ size \in Nat
      /\ length <= Small => size <= length
  BY <1>2 DEF TableInv, Shape
<1>7. Tabled'
  <2>1. CASE length > Small
    <3>1. Good(hash, data', length)
      BY <1>4, <1>6, <2>1, GoodSameKeys DEF TableInv, Tabled
    <3> QED BY <3>1, <1>1 DEF Tabled
  <2>2. CASE ~(length > Small)
    BY <1>1, <2>2 DEF Tabled
  <2> QED BY <2>1, <2>2
<1>8. Listed'
  <2> SUFFICES ASSUME length = Small
               PROVE  /\ \A i \in 0 .. size - 1 : data'[i].key \in Key
                      /\ \A i, j \in 0 .. size - 1 : data'[i].key = data'[j].key => i = j
    BY <1>1 DEF Listed
  <2>1. \A i \in 0 .. size - 1 : data'[i].key = data[i].key
    BY <1>4, <1>6
  <2> QED BY <2>1 DEF TableInv, Listed
<1> QED BY <1>1, <1>5, <1>7, <1>8, QuietStep

LEMMA InsertFirstStep ==
  ASSUME TableInv, NEW k \in Key, NEW v \in Given[k], InsertFirst(k, v)
  PROVE  TableInv'
<1>1. /\ kind' = kind /\ hash' = hash /\ length' = Small /\ size' = 1
      /\ growing' = growing /\ ~growing.on
      /\ data' = [Blank(Small) EXCEPT ![0] = Entry(k, v)]
  BY DEF InsertFirst, Ready, Replace
<1>2. Entry(k, v) \in EntrySet /\ Entry(k, v).key = k
  BY EntryTyped, GivenValue
<1>3. Blank(Small) \in [0 .. Small - 1 -> EntrySet] /\ 0 \in 0 .. Small - 1 /\ Small \in Nat \ {0}
  <2>1. Small \in Nat \ {0}
    BY TableAssumption
  <2>2. Blank(Small) \in [0 .. Small - 1 -> EntrySet]
    BY <2>1, BlankFacts
  <2> QED BY <2>1, <2>2
<1>4. data' \in [0 .. Small - 1 -> EntrySet] /\ data'[0].key = k
  BY <1>1, <1>2, <1>3
<1>5. Shape'
  BY <1>1, <1>3, <1>4 DEF TableInv, Shape
<1>6. 0 .. size' - 1 = {0}
  BY <1>1
<1>7. Listed'
  BY <1>4, <1>6 DEF Listed
<1>8. Tabled'
  BY <1>1, <1>3 DEF Tabled
<1> QED BY <1>1, <1>5, <1>7, <1>8, QuietStep

LEMMA InsertLastStep ==
  ASSUME TableInv, NEW k \in Key, NEW v \in Given[k], InsertLast(k, v)
  PROVE  TableInv'
<1>1. /\ kind' = kind /\ hash' = hash /\ length' = length /\ size' = size + 1
      /\ growing' = growing /\ ~growing.on /\ length = Small /\ size < Small
      /\ data' = [data EXCEPT ![size] = Entry(k, v)] /\ ~Contains(k)
  BY DEF InsertLast, Ready
<1>2. Entry(k, v) \in EntrySet /\ Entry(k, v).key = k
  BY EntryTyped, GivenValue
<1>3. data \in [0 .. length - 1 -> EntrySet] /\ size \in Nat /\ Small \in Nat \ {0}
  BY TableAssumption DEF TableInv, Shape
<1>4. size \in 0 .. length - 1
  BY <1>1, <1>3
<1>5. /\ data' \in [0 .. length - 1 -> EntrySet] /\ data'[size].key = k
      /\ \A i \in 0 .. size - 1 : data'[i] = data[i]
  BY <1>1, <1>2, <1>3, <1>4
<1>6. Shape'
  BY <1>1, <1>3, <1>5 DEF TableInv, Shape
<1>7. \A i \in 0 .. size - 1 : data[i].key # k
  <2>1. Find(k) = -1
    BY <1>1, FindFacts
  <2> QED BY <2>1, <1>1, FindList
<1>8. \A i \in 0 .. size' - 1 : i \in 0 .. size - 1 \/ i = size
  BY <1>1, <1>3
<1>9. Listed'
  <2>1. ASSUME NEW i \in 0 .. size' - 1 PROVE data'[i].key \in Key
    BY <1>1, <1>5, <1>8 DEF TableInv, Listed
  <2>2. ASSUME NEW i \in 0 .. size' - 1, NEW j \in 0 .. size' - 1, data'[i].key = data'[j].key
        PROVE  i = j
    BY <1>1, <1>5, <1>7, <1>8, <2>2 DEF TableInv, Listed
  <2> QED BY <2>1, <2>2 DEF Listed
<1>10. Tabled'
  BY <1>1, <1>3 DEF Tabled
<1> QED BY <1>1, <1>6, <1>9, <1>10, QuietStep

(* The place where a search for a key stops is one to put it *)
LEMMA PutAtStop ==
  ASSUME NEW h \in [Key -> Nat], NEW len \in Nat \ {0},
         NEW t \in [0 .. len - 1 -> EntrySet], Good(h, t, len),
         NEW k \in Key, NEW v \in Value, StopsAt(h, t, len, k) # {}
  PROVE  LET t2 == [t EXCEPT ![At(h, k, FirstOf(StopsAt(h, t, len, k)), len)] = Entry(k, v)]
         IN t2 \in [0 .. len - 1 -> EntrySet] /\ Good(h, t2, len)
<1> DEFINE S == StopsAt(h, t, len, k)
           n == FirstOf(S)
<1>1. S \subseteq Probes /\ \A m \in Probes : m \in S <=> t[At(h, k, m, len)].key \in {Absent, k}
  BY DEF StopsAt
<1>2. n \in S /\ \A m \in S : n <= m
  BY <1>1, FirstProbe
<1> HIDE DEF S, n
<1>3. n \in Probes /\ t[At(h, k, n, len)].key \in {Absent, k}
  BY <1>1, <1>2
<1>4. ASSUME NEW m \in Probes, m < n PROVE t[At(h, k, m, len)].key \notin {Absent, k}
  <2>1. m \notin S
    <3>1. ~(n <= m)
      BY <1>3, <1>4 DEF Probes
    <3> QED BY <1>2, <3>1
  <2> QED BY <2>1, <1>1
<1>5. /\ [t EXCEPT ![At(h, k, n, len)] = Entry(k, v)] \in [0 .. len - 1 -> EntrySet]
      /\ Good(h, [t EXCEPT ![At(h, k, n, len)] = Entry(k, v)], len)
  BY <1>3, <1>4, GoodPut
<1> QED BY <1>5 DEF S, n

LEMMA InsertProbedStep ==
  ASSUME TableInv, NEW k \in Key, NEW v \in Given[k], InsertProbed(k, v)
  PROVE  TableInv'
<1> DEFINE S == StopsAt(hash, data, length, k)
           at == At(hash, k, FirstOf(S), length)
<1>1. /\ kind' = kind /\ hash' = hash /\ length' = length /\ size' = size + 1
      /\ growing' = growing /\ ~growing.on /\ length > Small
      /\ S # {} /\ data' = [data EXCEPT ![at] = Entry(k, v)]
  BY StopsIs, PlaceIsAt DEF InsertProbed, Ready
<1>2. /\ data \in [0 .. length - 1 -> EntrySet] /\ size \in Nat /\ length \in Nat \ {0}
      /\ hash \in [Key -> Nat] /\ Good(hash, data, length) /\ v \in Value
      /\ Small \in Nat
  BY <1>1, TableAssumption, GivenValue DEF TableInv, Shape, Tabled
<1>3. data' \in [0 .. length - 1 -> EntrySet] /\ Good(hash, data', length)
  BY <1>1, <1>2, PutAtStop
<1> HIDE DEF S, at
<1>4. Shape'
  BY <1>1, <1>2, <1>3 DEF TableInv, Shape
<1>5. Tabled' /\ Listed'
  BY <1>1, <1>2, <1>3 DEF Tabled, Listed
<1> QED BY <1>1, <1>4, <1>5, QuietStep

-----------------------------------------------------------------------------
(* Growth.                                                                 *)

(* A new array that nothing is in yet *)
LEMMA NewArrayInv ==
  ASSUME NEW len \in Nat, len > Small, Shape', (length >= Small)',
         (length = Small => size = Small)',
         growing'.on, growing'.length = len, growing'.next = 0, growing'.table = Blank(len),
         growing'.key \in Key, growing'.value \in Value
  PROVE  Rehashing'
<1>1. Blank(len) \in [0 .. len - 1 -> EntrySet] /\ Good(hash', Blank(len), len)
  BY BlankFacts
<1>2. 0 \in 0 .. length'
  BY DEF Shape
<1>3. \A i \in 0 .. len - 1 : Blank(len)[i] = Empty
  BY DEF Blank
<1> QED BY <1>1, <1>2, <1>3 DEF Rehashing

LEMMA BeginGrowthStep ==
  ASSUME TableInv, growing = NotGrowing \/ growing.on, NEW k \in Key, NEW v \in Given[k],
         BeginGrowth(k, v)
  PROVE  TableInv'
<1> DEFINE len == IF kind = "set" /\ length = Small THEN 4 * length ELSE 2 * length
<1>1. /\ kind' = kind /\ hash' = hash /\ length' = length /\ size' = size /\ data' = data
      /\ length > 0 /\ (length = Small => size = Small) /\ growing = NotGrowing
      /\ growing' = [NewArray(len) EXCEPT !.on = TRUE, !.key = k, !.value = v]
  BY DEF BeginGrowth, Ready, tableVars
<1>2. len \in Nat /\ len > Small /\ length >= Small
  BY <1>1, TableAssumption DEF TableInv, Shape
<1> HIDE DEF len
<1>3. /\ growing'.on /\ growing'.length = len /\ growing'.next = 0
      /\ growing'.table = Blank(len) /\ growing'.key = k /\ growing'.value = v
  BY <1>1 DEF NewArray, NotGrowing
<1>4. Shape' /\ Listed' /\ Tabled'
  BY <1>1 DEF TableInv, Shape, Listed, Tabled
<1>5. Rehashing'
  BY <1>1, <1>2, <1>3, <1>4, GivenValue, NewArrayInv
<1> QED BY <1>4, <1>5 DEF TableInv

(* The keys of the items of the old array differ *)
LEMMA OldKeysDiffer ==
  ASSUME TableInv, growing.on, NEW i \in 0 .. length - 1, NEW j \in 0 .. length - 1,
         data[i] # Empty, data[j] # Empty, data[i].key = data[j].key
  PROVE  i = j
<1>1. /\ length \in Nat /\ size \in Nat /\ length >= Small /\ (length = Small => size = Small)
      /\ Small \in Nat
  BY TableAssumption DEF TableInv, Shape, Rehashing
<1>2. CASE length > Small
  BY <1>1, <1>2, GoodDistinct DEF TableInv, Tabled
<1>3. CASE length = Small
  <2>1. i \in 0 .. size - 1 /\ j \in 0 .. size - 1
    BY <1>1, <1>3
  <2> QED BY <1>3, <2>1 DEF TableInv, Listed
<1> QED BY <1>1, <1>2, <1>3

GrowSet ==
  [on : BOOLEAN, key : Key \cup {Absent}, value : Value \cup {Absent},
   table : UNION {[0 .. n - 1 -> EntrySet] : n \in Nat}, length : Nat, next : Nat]

NewArrayOf(g, g2, len) ==
  /\ g2.on = g.on /\ g2.key = g.key /\ g2.value = g.value
  /\ g2.table = Blank(len) /\ g2.length = len /\ g2.next = 0

LEMMA NewArrayIs ==
  ASSUME growing \in GrowSet, NEW len, growing' = NewArray(len)
  PROVE  NewArrayOf(growing, growing', len)
BY DEF GrowSet, NewArray, NewArrayOf

LEMMA NewArraySet ==
  ASSUME growing \in GrowSet, NEW len \in Nat, growing' = NewArray(len)
  PROVE  growing' \in GrowSet
<1>1. Blank(len) \in UNION {[0 .. n - 1 -> EntrySet] : n \in Nat}
  BY BlankFacts
<1> QED BY <1>1 DEF GrowSet, NewArray

LEMMA NotGrowingSet == NotGrowing \in GrowSet
<1>1. NoData \in [0 .. 0 - 1 -> EntrySet]
  BY DEF NoData
<1>2. NoData \in UNION {[0 .. n - 1 -> EntrySet] : n \in Nat}
  BY <1>1
<1> QED BY <1>2 DEF GrowSet, NotGrowing

LEMMA BeginGrowthSet ==
  ASSUME TableInv, growing = NotGrowing \/ growing.on, NEW k \in Key, NEW v \in Given[k],
         BeginGrowth(k, v)
  PROVE  growing' \in GrowSet /\ growing'.on
<1> DEFINE len == IF kind = "set" /\ length = Small THEN 4 * length ELSE 2 * length
<1>1. growing = NotGrowing /\ growing' = [NewArray(len) EXCEPT !.on = TRUE, !.key = k, !.value = v]
  BY DEF BeginGrowth, Ready
<1>2. len \in Nat
  BY DEF TableInv, Shape
<1> HIDE DEF len
<1>3. Blank(len) \in UNION {[0 .. n - 1 -> EntrySet] : n \in Nat}
  BY <1>2, BlankFacts
<1>4. growing' = [on |-> TRUE, key |-> k, value |-> v, table |-> Blank(len), length |-> len,
                   next |-> 0]
  BY <1>1 DEF NewArray, NotGrowing
<1>5. v \in Value
  BY GivenValue
<1> QED BY <1>2, <1>3, <1>4, <1>5 DEF GrowSet

LEMMA RehashItemOn == ASSUME growing \in GrowSet, RehashItem PROVE growing'.on
BY DEF GrowSet, RehashItem

LEMMA RehashItemStep ==
  ASSUME TableInv, growing \in GrowSet, RehashItem
  PROVE  TableInv' /\ growing' \in GrowSet
<1> DEFINE e == data[growing.next]
           g == growing
<1>1. /\ kind' = kind /\ hash' = hash /\ length' = length /\ size' = size /\ data' = data
      /\ growing.on /\ growing.next < length
      /\ \/ e = Empty /\ growing' = [growing EXCEPT !.next = @ + 1]
         \/ /\ e # Empty /\ Free(e.key) # {}
            /\ LET at == Place(e.key, FirstOf(Free(e.key)), growing.length)
               IN growing' = [growing EXCEPT !.table[at] = e, !.next = @ + 1]
  BY DEF RehashItem, tableVars
<1>2. /\ length \in Nat /\ growing.length \in Nat \ {0} /\ growing.next \in 0 .. length - 1
      /\ growing.table \in [0 .. growing.length - 1 -> EntrySet]
      /\ Good(hash, growing.table, growing.length)
      /\ hash \in [Key -> Nat] /\ data \in [0 .. length - 1 -> EntrySet]
      /\ length >= Small /\ (length = Small => size = Small) /\ growing.length > Small
      /\ growing.key \in Key /\ growing.value \in Value
  BY <1>1, TableAssumption DEF TableInv, Shape, Rehashing
<1>3. \A i \in 0 .. growing.length - 1 : growing.table[i] # Empty =>
        \E j \in 0 .. growing.next - 1 : data[j] # Empty /\ data[j].key = growing.table[i].key
  BY <1>1 DEF TableInv, Rehashing
<1>4. Shape' /\ Listed' /\ Tabled'
  BY <1>1 DEF TableInv, Shape, Listed, Tabled
<1>5. \A j \in 0 .. growing.next - 1 : j \in 0 .. growing.next /\ j \in 0 .. length - 1
                                        /\ j # growing.next
  BY <1>2
<1>6. growing.next + 1 \in 0 .. length /\ (growing.next + 1) - 1 = growing.next
      /\ growing.next \in 0 .. growing.next /\ growing.next + 1 \in Nat
  BY <1>2
<1> HIDE DEF e
<1>7. CASE e = Empty
  <2>1. growing' = [growing EXCEPT !.next = growing.next + 1]
    BY <1>1, <1>7
  <2>2. /\ growing' \in GrowSet /\ growing'.on /\ growing'.next = growing.next + 1
        /\ growing'.length = growing.length /\ growing'.table = growing.table
        /\ growing'.key = growing.key /\ growing'.value = growing.value
    BY <1>1, <1>6, <2>1 DEF GrowSet
  <2>3. \A i \in 0 .. growing.length - 1 : growing.table[i] # Empty =>
          \E j \in 0 .. growing'.next - 1 :
             data[j] # Empty /\ data[j].key = growing.table[i].key
    BY <1>3, <1>5, <1>6, <2>2
  <2>4. Rehashing'
    BY <1>1, <1>2, <1>6, <2>2, <2>3 DEF Rehashing
  <2> QED BY <1>4, <2>2, <2>4 DEF TableInv
<1>8. CASE e # Empty
  <2> DEFINE k == e.key
             S == Free(k)
             n == FirstOf(S)
             at == At(hash, k, n, growing.length)
             t2 == [growing.table EXCEPT ![at] = e]
  <2>1. e \in EntrySet /\ k \in Key /\ e.value \in Value
    BY <1>2, <1>8, EntryFacts DEF e
  <2>2. e = Entry(k, e.value)
    BY <2>1, <1>8 DEF EntrySet, Entry
  <2>3. \A i \in 0 .. growing.length - 1 : growing.table[i].key # k
    <3> SUFFICES ASSUME NEW i \in 0 .. growing.length - 1, growing.table[i].key = k
                 PROVE  FALSE
      OBVIOUS
    <3>1. k # Absent
      BY <2>1, TableAssumption
    <3>2. growing.table[i] # Empty
      BY <3>1 DEF Empty
    <3>3. PICK j \in 0 .. growing.next - 1 : data[j] # Empty /\ data[j].key = k
      BY <3>2, <1>3
    <3>4. j \in 0 .. length - 1 /\ j # growing.next
      BY <1>5
    <3>5. data[growing.next] # Empty /\ data[growing.next].key = k
      BY <1>8 DEF e
    <3> QED BY <3>3, <3>4, <3>5, <1>1, <1>2, OldKeysDiffer
  <2>4. S # {} /\ S \subseteq Probes
        /\ \A m \in Probes : m \in S <=> growing.table[At(hash, k, m, growing.length)] = Empty
    BY <1>1, <1>8, PlaceIsAt DEF Free
  <2>5. n \in S /\ \A m \in S : n <= m
    BY <2>4, FirstProbe
  <2> HIDE DEF k, S, n
  <2>6. n \in Probes /\ growing.table[at] = Empty
    BY <2>4, <2>5
  <2>7. ASSUME NEW m \in Probes, m < n
        PROVE  growing.table[At(hash, k, m, growing.length)] # Empty
    <3>1. ~(n <= m)
      BY <2>6, <2>7 DEF Probes
    <3> QED BY <2>4, <2>5, <3>1
  <2>8. t2 \in [0 .. growing.length - 1 -> EntrySet] /\ Good(hash, t2, growing.length)
    BY <1>2, <2>1, <2>2, <2>3, <2>6, <2>7, GoodAdd
  <2>9. at \in 0 .. growing.length - 1
    BY <1>2, <2>1, <2>6, AtRange
  <2>10. growing' = [growing EXCEPT !.table = t2, !.next = growing.next + 1]
    <3>1. growing' = [growing EXCEPT !.table[at] = e, !.next = growing.next + 1]
      BY <1>1, <1>8, PlaceIsAt DEF k, S, n
    <3> QED BY <3>1 DEF GrowSet
  <2>11. t2[at].key = k /\ \A i \in 0 .. growing.length - 1 : i # at => t2[i] = growing.table[i]
    BY <1>2, <2>9 DEF k
  <2> HIDE DEF at, t2
  <2>12. /\ growing' \in GrowSet /\ growing'.on /\ growing'.next = growing.next + 1
         /\ growing'.length = growing.length /\ growing'.table = t2
         /\ growing'.key = growing.key /\ growing'.value = growing.value
    <3>1. t2 \in UNION {[0 .. m - 1 -> EntrySet] : m \in Nat}
      BY <1>2, <2>8
    <3> QED BY <1>1, <1>6, <2>10, <3>1 DEF GrowSet
  <2>13. ASSUME NEW i \in 0 .. growing.length - 1, t2[i] # Empty
         PROVE  \E j \in 0 .. growing'.next - 1 : data[j] # Empty /\ data[j].key = t2[i].key
    <3>1. CASE i = at
      <4>1. growing.next \in 0 .. growing'.next - 1
        BY <1>6, <2>12
      <4>2. data[growing.next] # Empty /\ data[growing.next].key = t2[i].key
        BY <1>8, <2>11, <3>1 DEF e, k
      <4> QED BY <4>1, <4>2
    <3>2. CASE i # at
      <4>1. t2[i] = growing.table[i]
        BY <2>11, <3>2
      <4>2. PICK j \in 0 .. growing.next - 1 :
               data[j] # Empty /\ data[j].key = growing.table[i].key
        BY <1>3, <2>13, <4>1
      <4>3. j \in 0 .. growing'.next - 1
        BY <1>5, <1>6, <2>12
      <4> QED BY <4>1, <4>2, <4>3
    <3> QED BY <3>1, <3>2
  <2>14. Rehashing'
    BY <1>1, <1>2, <1>6, <2>8, <2>12, <2>13 DEF Rehashing
  <2> QED BY <1>4, <2>12, <2>14 DEF TableInv
<1> QED BY <1>7, <1>8
LEMMA GrowFurtherStep ==
  ASSUME TableInv, growing \in GrowSet, GrowFurther
  PROVE  TableInv' /\ growing' \in GrowSet
<1> DEFINE len == 2 * growing.length
<1>1. /\ kind' = kind /\ hash' = hash /\ length' = length /\ size' = size /\ data' = data
      /\ growing.on /\ growing' = NewArray(len)
  BY DEF GrowFurther, tableVars
<1>2. growing.length \in Nat /\ growing.length > Small /\ Small \in Nat
  BY <1>1, TableAssumption DEF TableInv, Rehashing
<1>3. len \in Nat /\ len > Small
  BY <1>2
<1> HIDE DEF len
<1>4. Shape' /\ Listed' /\ Tabled' /\ (length >= Small)' /\ (length = Small => size = Small)'
  BY <1>1 DEF TableInv, Shape, Listed, Tabled, Rehashing
<1>5. NewArrayOf(growing, growing', len) /\ growing.key \in Key /\ growing.value \in Value
  BY <1>1, NewArrayIs DEF TableInv, Rehashing
<1>6. Rehashing'
  BY <1>1, <1>3, <1>4, <1>5, NewArrayInv DEF NewArrayOf
<1>7. growing' \in GrowSet
  BY <1>1, <1>3, <1>5, NewArraySet
<1> QED BY <1>4, <1>6, <1>7 DEF TableInv

LEMMA EndGrowthStep ==
  ASSUME TableInv, growing \in GrowSet, EndGrowth
  PROVE  TableInv' /\ growing' \in GrowSet /\ (growing' = NotGrowing \/ growing'.on)
<1> DEFINE t == growing.table
           len == growing.length
           S == StopsAt(hash, t, len, growing.key)
           at == At(hash, growing.key, FirstOf(S), len)
           t2 == [t EXCEPT ![at] = Entry(growing.key, growing.value)]
<1>1. /\ kind' = kind /\ hash' = hash /\ growing.on
      /\ \/ /\ S = {} /\ data' = t /\ length' = len /\ size' = size
            /\ growing' = NewArray(2 * len)
         \/ /\ S # {} /\ data' = t2 /\ length' = len /\ size' = size + 1
            /\ growing' = NotGrowing
  BY StopsIs, PlaceIsAt DEF EndGrowth, Replace
<1>2. /\ len \in Nat \ {0} /\ len > Small /\ Small \in Nat /\ size \in Nat
      /\ t \in [0 .. len - 1 -> EntrySet] /\ Good(hash, t, len)
      /\ growing.key \in Key /\ growing.value \in Value
      /\ kind \in {"map", "set"} /\ hash \in [Key -> Nat]
  BY <1>1, TableAssumption DEF TableInv, Shape, Rehashing
<1>3. CASE S = {}
  <2>1. data' = t /\ length' = len /\ size' = size /\ growing' = NewArray(2 * len)
    BY <1>1, <1>3
  <2> HIDE DEF S
  <2>2. Shape' /\ Listed' /\ Tabled' /\ (length >= Small)' /\ (length = Small => size = Small)'
    BY <1>1, <1>2, <2>1 DEF Shape, Listed, Tabled
  <2>3. 2 * len \in Nat /\ 2 * len > Small
    BY <1>2
  <2>4. NewArrayOf(growing, growing', 2 * len)
    BY <2>1, NewArrayIs
  <2>5. Rehashing'
    BY <1>1, <1>2, <2>2, <2>3, <2>4, NewArrayInv DEF NewArrayOf
  <2>6. growing' \in GrowSet
    BY <1>1, <1>2, <2>3, <2>4, <2>1, NewArraySet
  <2> QED BY <1>1, <2>2, <2>4, <2>5, <2>6 DEF TableInv, NewArrayOf
<1>4. CASE S # {}
  <2>1. data' = t2 /\ length' = len /\ size' = size + 1 /\ growing' = NotGrowing
    BY <1>1, <1>4
  <2>2. t2 \in [0 .. len - 1 -> EntrySet] /\ Good(hash, t2, len)
    BY <1>2, <1>4, PutAtStop
  <2> HIDE DEF S, t2
  <2>3. Shape' /\ Listed' /\ Tabled'
    BY <1>1, <1>2, <2>1, <2>2 DEF Shape, Listed, Tabled
  <2>4. ~growing'.on
    BY <2>1 DEF NotGrowing
  <2>5. growing' \in GrowSet
    BY <2>1, NotGrowingSet
  <2> QED BY <2>1, <2>3, <2>4, <2>5 DEF TableInv, Rehashing
<1> QED BY <1>3, <1>4

-----------------------------------------------------------------------------
(* Removals and the rest.                                                  *)

LEMMA RemoveStep ==
  ASSUME TableInv, NEW k \in Key, Remove(k)
  PROVE  TableInv'
<1> DEFINE f == Find(k)
<1>1. kind' = kind /\ hash' = hash /\ length' = length /\ growing' = growing /\ ~growing.on
  BY DEF Remove, Ready
<1>2. CASE ~(length = Small /\ Contains(k))
  <2>1. data' = data /\ size' = size
    BY <1>2 DEF Remove
  <2>2. Shape' /\ Listed' /\ Tabled'
    BY <1>1, <2>1 DEF TableInv, Shape, Listed, Tabled
  <2> QED BY <1>1, <2>2, QuietStep
<1>3. CASE length = Small /\ Contains(k)
  <2>1. /\ data' = [i \in DOMAIN data |-> IF i \in f .. size - 2 THEN data[i + 1] ELSE data[i]]
        /\ size' = size - 1
    BY <1>3 DEF Remove
  <2>2. f \in 0 .. size - 1 /\ length = Small /\ Small \in Nat \ {0}
    BY <1>3, FindFacts, FindList, TableAssumption
  <2>3. /\ kind \in {"map", "set"} /\ hash \in [Key -> Nat] /\ size \in Nat /\ size <= length
        /\ data \in [0 .. length - 1 -> EntrySet]
    BY <2>2 DEF TableInv, Shape
  <2>4. /\ \A i \in 0 .. size - 1 : data[i].key \in Key
        /\ \A i, j \in 0 .. size - 1 : data[i].key = data[j].key => i = j
    BY <2>2 DEF TableInv, Listed
  <2> HIDE DEF f
  <2>5. /\ \A i \in 0 .. length - 1 : i \in f .. size - 2 => i + 1 \in 0 .. length - 1
        /\ \A i \in 0 .. size - 2 : i \in 0 .. length - 1 /\ i \in 0 .. size - 1
                                     /\ i + 1 \in 0 .. size - 1
                                     /\ (i \notin f .. size - 2 => i < f)
    BY <2>2, <2>3
  <2>6. data' \in [0 .. length - 1 -> EntrySet]
    BY <2>1, <2>3, <2>5
  <2>7. size' \in Nat /\ size' <= length' /\ size' - 1 = size - 2
    BY <1>1, <2>1, <2>2, <2>3
  <2>8. Shape'
    BY <1>1, <2>2, <2>3, <2>6, <2>7 DEF Shape
  <2> DEFINE from(i) == IF i \in f .. size - 2 THEN i + 1 ELSE i
  <2>9. \A i \in 0 .. size - 2 : data'[i] = data[from(i)] /\ from(i) \in 0 .. size - 1
    BY <2>1, <2>3, <2>5
  <2>10. \A i, j \in 0 .. size - 2 : from(i) = from(j) => i = j
    BY <2>2, <2>3
  <2> HIDE DEF from
  <2>11. \A i \in 0 .. size - 2 : data'[i].key \in Key
    BY <2>4, <2>9
  <2>12. \A i, j \in 0 .. size - 2 : data'[i].key = data'[j].key => i = j
    BY <2>4, <2>9, <2>10
  <2>13. Listed'
    BY <2>7, <2>11, <2>12 DEF Listed
  <2>14. Tabled'
    BY <1>1, <2>2 DEF Tabled
  <2> QED BY <1>1, <2>8, <2>13, <2>14, QuietStep
<1> QED BY <1>2, <1>3

LEMMA ClearStep == ASSUME TableInv, Clear PROVE TableInv'
<1>1. /\ kind' = kind /\ hash' = hash /\ length' = 0 /\ size' = 0 /\ data' = NoData
      /\ growing' = growing /\ ~growing.on
  BY DEF Clear, Replace, Ready
<1>2. NoData \in [0 .. 0 - 1 -> EntrySet]
  BY DEF NoData
<1>3. Shape'
  BY <1>1, <1>2 DEF TableInv, Shape
<1> QED BY <1>1, <1>3, NoTableStep, QuietStep

LEMMA StillStep ==
  ASSUME TableInv, UNCHANGED <<kind, hash, tableVars, growing>>
  PROVE  TableInv'
BY DEF TableInv, Shape, Listed, Tabled, Rehashing, tableVars, Placed, Good, At

-----------------------------------------------------------------------------
HashInv == TableInv /\ growing \in GrowSet /\ (growing = NotGrowing \/ growing.on)

LEMMA InitInv == Init => HashInv
<1> SUFFICES ASSUME Init PROVE HashInv
  OBVIOUS
<1>1. /\ kind \in {"map", "set"} /\ hash \in [Key -> Nat] /\ data = NoData
      /\ length = 0 /\ size = 0 /\ growing = NotGrowing
  BY TableAssumption DEF Init
<1>2. NoData \in [0 .. 0 - 1 -> EntrySet]
  BY DEF NoData
<1>3. Shape
  BY <1>1, <1>2 DEF Shape
<1>4. Listed /\ Tabled
  BY <1>1, TableAssumption DEF Listed, Tabled
<1>5. ~growing.on
  BY <1>1 DEF NotGrowing
<1> QED BY <1>1, <1>3, <1>4, <1>5, NotGrowingSet DEF HashInv, TableInv, Rehashing

LEMMA NextInv == HashInv /\ [Next]_vars => HashInv'
<1> SUFFICES ASSUME HashInv, [Next]_vars PROVE HashInv'
  OBVIOUS
<1>0. TableInv /\ growing \in GrowSet /\ (growing = NotGrowing \/ growing.on)
  BY DEF HashInv
<1>1. ASSUME NEW k \in Key, NEW v \in Given[k], Overwrite(k, v) PROVE HashInv'
  BY <1>0, <1>1, OverwriteStep DEF HashInv, Overwrite
<1>2. ASSUME NEW k \in Key, NEW v \in Given[k], InsertFirst(k, v) PROVE HashInv'
  BY <1>0, <1>2, InsertFirstStep DEF HashInv, InsertFirst
<1>3. ASSUME NEW k \in Key, NEW v \in Given[k], InsertLast(k, v) PROVE HashInv'
  BY <1>0, <1>3, InsertLastStep DEF HashInv, InsertLast
<1>4. ASSUME NEW k \in Key, NEW v \in Given[k], InsertProbed(k, v) PROVE HashInv'
  BY <1>0, <1>4, InsertProbedStep DEF HashInv, InsertProbed
<1>5. ASSUME NEW k \in Key, NEW v \in Given[k], BeginGrowth(k, v) PROVE HashInv'
  BY <1>0, <1>5, BeginGrowthStep, BeginGrowthSet DEF HashInv
<1>6. ASSUME NEW k \in Key, Remove(k) PROVE HashInv'
  BY <1>0, <1>6, RemoveStep DEF HashInv, Remove
<1>7. ASSUME NEW k \in Key, Get(k) PROVE HashInv'
  BY <1>0, <1>7, StillStep DEF HashInv, Get
<1>8. CASE Clear
  BY <1>0, <1>8, ClearStep DEF HashInv, Clear
<1>9. CASE RehashItem
  <2>1. growing'.on
    BY <1>0, <1>9, RehashItemOn
  <2> QED BY <1>0, <1>9, <2>1, RehashItemStep DEF HashInv
<1>10. CASE GrowFurther
  <2>1. growing'.on
    BY <1>10 DEF GrowFurther, NewArray, GrowSet
  <2> QED BY <1>0, <1>10, <2>1, GrowFurtherStep DEF HashInv
<1>11. CASE EndGrowth
  BY <1>0, <1>11, EndGrowthStep DEF HashInv
<1>12. CASE Iterate
  BY <1>0, <1>12, StillStep DEF HashInv, Iterate
<1>13. CASE NextItem
  BY <1>0, <1>13, StillStep DEF HashInv, NextItem
<1>14. CASE UNCHANGED vars
  BY <1>0, <1>14, StillStep DEF HashInv, vars
<1> QED BY <1>1, <1>2, <1>3, <1>4, <1>5, <1>6, <1>7, <1>8, <1>9, <1>10, <1>11, <1>12,
           <1>13, <1>14 DEF Next, Change, Growth

(* Whatever was inserted, overwritten, removed, cleared and moved by a     *)
(* growth before, the search of findEntry() for the key of an item ends at *)
(* that item (setValue(), add(), rehash(), remove() and clear() together). *)
THEOREM ItemsStayFound == Spec => []ItemsAreFound
<1>1. HashInv => ItemsAreFound
  BY FoundByInv DEF HashInv
<1> QED BY <1>1, InitInv, NextInv, PTL DEF Spec

-----------------------------------------------------------------------------
(* What lookups see.                                                       *)

(* The items in the first n places of an array, and those of the collection *)
ItemsOf(t, n) == {e \in {t[i] : i \in 0 .. n - 1} : e # Empty}
Bound == IF length > Small THEN length ELSE size
Items == ItemsOf(data, Bound)
KeysOf(S) == {e.key : e \in S}

(* Items are entries with a key and a value. *)
LEMMA ItemsFacts ==
  ASSUME NEW n \in Nat, NEW t, \A i \in 0 .. n - 1 : t[i] \in EntrySet
  PROVE  /\ ItemsOf(t, n) \subseteq EntrySet \ {Empty}
         /\ KeysOf(ItemsOf(t, n)) \subseteq Key
         /\ \A e \in ItemsOf(t, n) : e \in [key : Key, value : Value]
BY EntryFacts DEF ItemsOf, KeysOf, EntrySet

(* An array of items of different keys that has one place more or changes  *)
(* in one place.                                                           *)
LEMMA ItemsNext ==
  ASSUME NEW n \in Nat, NEW t
  PROVE  ItemsOf(t, n + 1) = IF t[n] = Empty THEN ItemsOf(t, n) ELSE ItemsOf(t, n) \cup {t[n]}
<1>1. \A i : i \in 0 .. (n + 1) - 1 <=> i \in 0 .. n - 1 \/ i = n
  OBVIOUS
<1>2. {t[i] : i \in 0 .. (n + 1) - 1} = {t[i] : i \in 0 .. n - 1} \cup {t[n]}
  BY <1>1
<1> QED BY <1>2 DEF ItemsOf

DistinctKeys(t, n) ==
  \A i, j \in 0 .. n - 1 : t[i] # Empty /\ t[j] # Empty /\ t[i].key = t[j].key => i = j

(* In a table that probing finds its way in, keys differ. *)
LEMMA GoodIsDistinct ==
  ASSUME NEW h, NEW len \in Nat, NEW t, Good(h, t, len)
  PROVE  DistinctKeys(t, len)
BY GoodDistinct DEF DistinctKeys

(* The place where k is, or an empty one when no item has k *)
PlaceFor(t, n, at, k) ==
  \/ t[at] = Empty /\ \A i \in 0 .. n - 1 : t[i] # Empty => t[i].key # k
  \/ t[at] # Empty /\ t[at].key = k
Changed(t, t2, n, at, e) == t2[at] = e /\ \A i \in 0 .. n - 1 : i # at => t2[i] = t[i]

(* An entry written there replaces the item of its key. *)
LEMMA ItemsPut ==
  ASSUME NEW n \in Nat, NEW t, NEW t2, NEW at \in 0 .. n - 1, NEW k, NEW e,
         e # Empty, e.key = k, Changed(t, t2, n, at, e), DistinctKeys(t, n),
         PlaceFor(t, n, at, k)
  PROVE  ItemsOf(t2, n) = {x \in ItemsOf(t, n) : x.key # k} \cup {e}
<1>1. ASSUME NEW x \in ItemsOf(t2, n) PROVE x \in {y \in ItemsOf(t, n) : y.key # k} \cup {e}
  <2>1. PICK i \in 0 .. n - 1 : t2[i] = x /\ x # Empty
    BY DEF ItemsOf
  <2>2. CASE i = at
    BY <2>1, <2>2 DEF Changed
  <2>3. CASE i # at
    <3>1. t[i] = x /\ t[i] # Empty
      BY <2>1, <2>3 DEF Changed
    <3>2. x \in ItemsOf(t, n)
      BY <3>1 DEF ItemsOf
    <3>3. x.key # k
      BY <3>1, <2>3 DEF DistinctKeys, PlaceFor
    <3> QED BY <3>2, <3>3
  <2> QED BY <2>2, <2>3
<1>2. ASSUME NEW x \in ItemsOf(t, n), x.key # k PROVE x \in ItemsOf(t2, n)
  <2>1. PICK i \in 0 .. n - 1 : t[i] = x /\ x # Empty
    BY DEF ItemsOf
  <2>2. i # at
    BY <1>2, <2>1 DEF PlaceFor
  <2>3. t2[i] = x
    BY <2>1, <2>2 DEF Changed
  <2> QED BY <2>1, <2>3 DEF ItemsOf
<1>3. e \in ItemsOf(t2, n)
  BY DEF ItemsOf, Changed
<1> QED BY <1>1, <1>2, <1>3

(* The array of the collection up to Bound *)
LEMMA BoundFacts ==
  ASSUME TableInv
  PROVE  /\ Bound \in Nat /\ Bound <= length /\ length \in Nat /\ size \in Nat
         /\ \A i \in 0 .. Bound - 1 : i \in 0 .. length - 1 /\ data[i] \in EntrySet
         /\ DistinctKeys(data, Bound)
         /\ ~(length > Small) => Bound = size /\ \A i \in 0 .. size - 1 : data[i] # Empty
         /\ length = 0 => Items = {}
<1>1. /\ length \in Nat /\ size \in Nat /\ (length <= Small => size <= length)
      /\ length = 0 \/ length = Small \/ length > Small
      /\ length = 0 => size = 0
      /\ data \in [0 .. length - 1 -> EntrySet] /\ Small \in Nat \ {0}
  BY TableAssumption DEF TableInv, Shape
<1>2. Bound \in Nat /\ Bound <= length
  BY <1>1 DEF Bound
<1>3. \A i \in 0 .. Bound - 1 : i \in 0 .. length - 1 /\ data[i] \in EntrySet
  BY <1>1, <1>2
<1>4. ~(length > Small) => Bound = size /\ \A i \in 0 .. size - 1 : data[i] # Empty
  <2> SUFFICES ASSUME ~(length > Small)
               PROVE  Bound = size /\ \A i \in 0 .. size - 1 : data[i] # Empty
    OBVIOUS
  <2>1. Bound = size
    BY DEF Bound
  <2>2. CASE length = 0
    BY <1>1, <2>1, <2>2
  <2>3. CASE length = Small
    <3>1. ASSUME NEW i \in 0 .. size - 1 PROVE data[i] # Empty
      <4>1. data[i].key \in Key
        BY <2>3 DEF TableInv, Listed
      <4> QED BY <4>1, TableAssumption DEF Empty
    <3> QED BY <2>1, <3>1
  <2> QED BY <1>1, <2>2, <2>3
<1>5. DistinctKeys(data, Bound)
  <2> SUFFICES ASSUME NEW i \in 0 .. Bound - 1, NEW j \in 0 .. Bound - 1,
                      data[i] # Empty, data[j] # Empty, data[i].key = data[j].key
               PROVE  i = j
    BY DEF DistinctKeys
  <2>1. CASE length > Small
    BY <1>1, <1>3, <2>1, GoodDistinct DEF TableInv, Tabled
  <2>2. CASE length = Small
    BY <1>4, <2>2, <1>1 DEF TableInv, Listed
  <2>3. CASE length = 0
    BY <1>1, <1>2, <2>3
  <2> QED BY <1>1, <2>1, <2>2, <2>3
<1>6. length = 0 => Items = {}
  BY <1>1, <1>2 DEF Items, ItemsOf
<1> QED BY <1>1, <1>2, <1>3, <1>4, <1>5, <1>6

(* A lookup returns the value of the item with the key *)
LEMMA LookupIs ==
  ASSUME TableInv, NEW k \in Key
  PROVE  /\ \A e \in Items : e.key = k => Contains(k) /\ Lookup(k) = e.value /\ Lookup(k) # Absent
         /\ k \notin KeysOf(Items) => ~Contains(k) /\ Lookup(k) = Absent
<1>1. /\ Bound \in Nat /\ Bound <= length /\ length \in Nat /\ size \in Nat
      /\ \A i \in 0 .. Bound - 1 : i \in 0 .. length - 1 /\ data[i] \in EntrySet
      /\ ~(length > Small) => Bound = size /\ \A i \in 0 .. size - 1 : data[i] # Empty
      /\ data \in [0 .. length - 1 -> EntrySet]
  BY BoundFacts DEF TableInv, Shape
<1>2. ASSUME NEW e \in Items, e.key = k
      PROVE  Contains(k) /\ Lookup(k) = e.value /\ Lookup(k) # Absent
  <2>1. PICK i \in 0 .. Bound - 1 : data[i] = e /\ e # Empty
    BY DEF Items, ItemsOf
  <2>2. i \in DOMAIN data /\ i >= 0 /\ (length > Small \/ i < size)
    BY <1>1 DEF Bound
  <2>3. Find(k) = i
    BY <1>2, <2>1, <2>2, FoundByInv DEF ItemsAreFound
  <2>4. e.value \in Value /\ Absent \notin Value
    BY <1>1, <2>1, EntryFacts, TableAssumption
  <2>5. ~(i < 0)
    BY <2>2
  <2> QED BY <2>1, <2>2, <2>3, <2>4, <2>5 DEF Contains, Lookup
<1>3. ASSUME Contains(k) PROVE k \in KeysOf(Items)
  <2>1. Find(k) \in 0 .. length - 1 /\ data[Find(k)].key = k /\ Find(k) # -1 /\ length > 0
    BY <1>3, FindFacts
  <2>2. Find(k) \in 0 .. Bound - 1
    <3>1. CASE length > Small
      BY <2>1, <3>1 DEF Bound
    <3>2. CASE length = Small
      BY <2>1, <3>2, FindList, TableAssumption DEF Bound
    <3>3. length = Small \/ length > Small
      BY <2>1 DEF TableInv, Shape
    <3> QED BY <3>1, <3>2, <3>3
  <2>3. data[Find(k)] # Empty
    BY <2>1, TableAssumption DEF Empty
  <2>4. data[Find(k)] \in Items
    BY <2>2, <2>3 DEF Items, ItemsOf
  <2> QED BY <2>1, <2>4 DEF KeysOf
<1>4. ASSUME k \notin KeysOf(Items) PROVE ~Contains(k) /\ Lookup(k) = Absent
  <2>1. ~Contains(k)
    BY <1>3, <1>4
  <2>2. Find(k) < 0
    BY <2>1, FindFacts
  <2> QED BY <2>1, <2>2 DEF Lookup
<1> QED BY <1>2, <1>4
(* A key is contained if an item has it. *)
LEMMA ContainsIs ==
  ASSUME TableInv, NEW k \in Key
  PROVE  /\ Contains(k) <=> k \in KeysOf(Items)
         /\ ~Contains(k) => {e \in Items : e.key # k} = Items
BY LookupIs DEF KeysOf

(* The same for all keys, to be used of the next state too. *)
LEMMA LookupsAre ==
  TableInv => \A k \in Key :
    /\ \A e \in Items : e.key = k => Lookup(k) = e.value /\ Lookup(k) # Absent
    /\ k \notin KeysOf(Items) => Lookup(k) = Absent
BY LookupIs

(* The same in the next state. *)
LEMMA LookupsAreNext ==
  TableInv' => \A k \in Key :
    /\ \A e \in Items' : e.key = k => Lookup(k)' = e.value /\ Lookup(k)' # Absent
    /\ k \notin KeysOf(Items') => Lookup(k)' = Absent
<1>1. (TableInv => \A k \in Key :
         /\ \A e \in Items : e.key = k => Lookup(k) = e.value /\ Lookup(k) # Absent
         /\ k \notin KeysOf(Items) => Lookup(k) = Absent)'
  BY LookupsAre, PTL
<1> QED BY <1>1 DEF KeysOf

(* The keys that lookups find are those of the items. *)
LEMMA KeysAre ==
  TableInv => /\ KeysOf(Items) \subseteq Key
              /\ {k \in Key : Lookup(k) # Absent} = KeysOf(Items)
<1> SUFFICES ASSUME TableInv
             PROVE  /\ KeysOf(Items) \subseteq Key
                    /\ {k \in Key : Lookup(k) # Absent} = KeysOf(Items)
  OBVIOUS
<1>1. KeysOf(Items) \subseteq Key
  BY BoundFacts, ItemsFacts DEF Items
<1>2. \A k \in KeysOf(Items) : \E e \in Items : e.key = k
  BY DEF KeysOf
<1> QED BY <1>1, <1>2, LookupsAre

(* The same in the next state. *)
LEMMA KeysAreNext ==
  TableInv' => {k \in Key : Lookup(k)' # Absent} = KeysOf(Items')
<1>1. (TableInv => /\ KeysOf(Items) \subseteq Key
                   /\ {k \in Key : Lookup(k) # Absent} = KeysOf(Items))'
  BY KeysAre, PTL
<1> QED BY <1>1 DEF KeysOf

(* How the function that lookups see changes with the items *)
MapOf == [k \in Key |-> Lookup(k)]

(* The same items give the same map. *)
LEMMA MapSame ==
  ASSUME TableInv, TableInv', Items' = Items
  PROVE  MapOf' = MapOf /\ KeysOf(Items') = KeysOf(Items)
<1>1. ASSUME NEW k \in Key PROVE Lookup(k)' = Lookup(k)
  <2>1. CASE k \in KeysOf(Items)
    <3>1. PICK e \in Items : e.key = k
      BY <2>1 DEF KeysOf
    <3> QED BY <3>1, LookupsAre, LookupsAreNext
  <2>2. CASE k \notin KeysOf(Items)
    BY <2>2, LookupsAre, LookupsAreNext
  <2> QED BY <2>1, <2>2
<1> QED BY <1>1 DEF MapOf

(* An item that replaces that of its key changes the map at the key. *)
LEMMA MapPut ==
  ASSUME TableInv, TableInv', NEW k \in Key, NEW v \in Value,
         Items' = {e \in Items : e.key # k} \cup {Entry(k, v)}
  PROVE  MapOf' = [MapOf EXCEPT ![k] = v] /\ KeysOf(Items') = KeysOf(Items) \cup {k}
<1>0. Entry(k, v).key = k /\ Entry(k, v).value = v /\ Entry(k, v) \in Items'
  BY DEF Entry
<1>1. ASSUME NEW q \in Key PROVE Lookup(q)' = IF q = k THEN v ELSE Lookup(q)
  <2>1. CASE q = k
    BY <1>0, <2>1, LookupsAreNext
  <2>2. CASE q # k /\ q \in KeysOf(Items)
    <3>1. PICK e \in Items : e.key = q
      BY <2>2 DEF KeysOf
    <3>2. e \in Items'
      BY <2>2, <3>1
    <3> QED BY <2>2, <3>1, <3>2, LookupsAre, LookupsAreNext
  <2>3. CASE q # k /\ q \notin KeysOf(Items)
    <3>1. q \notin KeysOf(Items')
      BY <2>3, <1>0 DEF KeysOf
    <3> QED BY <2>3, <3>1, LookupsAre, LookupsAreNext
  <2> QED BY <2>1, <2>2, <2>3
<1>2. KeysOf(Items') = KeysOf(Items) \cup {k}
  <2>1. \A q \in KeysOf(Items') : q \in KeysOf(Items) \cup {k}
    BY <1>0 DEF KeysOf
  <2>2. \A q \in KeysOf(Items) : q \in KeysOf(Items')
    <3> TAKE q \in KeysOf(Items)
    <3>1. PICK e \in Items : e.key = q
      BY DEF KeysOf
    <3>2. e.key # k => e \in Items'
      OBVIOUS
    <3> QED BY <3>1, <3>2, <1>0 DEF KeysOf
  <2>3. k \in KeysOf(Items')
    BY <1>0 DEF KeysOf
  <2> QED BY <2>1, <2>2, <2>3
<1>3. MapOf' = [q \in Key |-> IF q = k THEN v ELSE Lookup(q)]
  BY <1>1 DEF MapOf
<1> QED BY <1>2, <1>3 DEF MapOf

(* Without the item of a key the map has nothing at the key. *)
LEMMA MapRemove ==
  ASSUME TableInv, TableInv', NEW k \in Key, Items' = {e \in Items : e.key # k}
  PROVE  MapOf' = [MapOf EXCEPT ![k] = Absent] /\ KeysOf(Items') = KeysOf(Items) \ {k}
<1>1. ASSUME NEW q \in Key PROVE Lookup(q)' = IF q = k THEN Absent ELSE Lookup(q)
  <2>1. CASE q = k
    <3>1. q \notin KeysOf(Items')
      BY <2>1 DEF KeysOf
    <3> QED BY <2>1, <3>1, LookupsAreNext
  <2>2. CASE q # k /\ q \in KeysOf(Items)
    <3>1. PICK e \in Items : e.key = q
      BY <2>2 DEF KeysOf
    <3>2. e \in Items'
      BY <2>2, <3>1
    <3> QED BY <2>2, <3>1, <3>2, LookupsAre, LookupsAreNext
  <2>3. CASE q # k /\ q \notin KeysOf(Items)
    <3>1. q \notin KeysOf(Items')
      BY <2>3 DEF KeysOf
    <3> QED BY <2>3, <3>1, LookupsAre, LookupsAreNext
  <2> QED BY <2>1, <2>2, <2>3
<1>2. KeysOf(Items') = KeysOf(Items) \ {k}
  BY DEF KeysOf
<1>3. MapOf' = [q \in Key |-> IF q = k THEN Absent ELSE Lookup(q)]
  BY <1>1 DEF MapOf
<1> QED BY <1>2, <1>3 DEF MapOf

-----------------------------------------------------------------------------
(* What each step does to the items.                                       *)

PutItem(k, v) == Items' = {e \in Items : e.key # k} \cup {Entry(k, v)}

(* The first insertion makes one item. *)
LEMMA InsertFirstItems ==
  ASSUME TableInv, NEW k \in Key, NEW v \in Value, InsertFirst(k, v)
  PROVE  PutItem(k, v)
<1>1. data' = [Blank(Small) EXCEPT ![0] = Entry(k, v)] /\ length' = Small /\ size' = 1
      /\ length = 0
  BY DEF InsertFirst, Replace
<1>2. Small \in Nat \ {0} /\ Items = {} /\ Entry(k, v) # Empty
  BY <1>1, BoundFacts, TableAssumption, EntryTyped
<1>3. Bound' = 1
  BY <1>1, <1>2 DEF Bound
<1>4. data'[0] = Entry(k, v)
  BY <1>1, <1>2 DEF Blank
<1>5. 0 .. 1 - 1 = {0}
  OBVIOUS
<1>6. ItemsOf(data', 1) = {Entry(k, v)}
  BY <1>2, <1>4, <1>5 DEF ItemsOf
<1> QED BY <1>2, <1>3, <1>6 DEF PutItem, Items, ItemsOf

(* Arrays that agree hold the same items *)
LEMMA ItemsSame ==
  ASSUME NEW n, NEW t, NEW t2, \A i \in 0 .. n - 1 : t2[i] = t[i]
  PROVE  ItemsOf(t2, n) = ItemsOf(t, n)
BY DEF ItemsOf

(* An insertion at the end of the first array adds an item. *)
LEMMA InsertLastItems ==
  ASSUME TableInv, NEW k \in Key, NEW v \in Value, InsertLast(k, v)
  PROVE  PutItem(k, v)
<1>1. /\ data' = [data EXCEPT ![size] = Entry(k, v)] /\ length' = length /\ size' = size + 1
      /\ length = Small /\ ~Contains(k) /\ size < Small
  BY DEF InsertLast
<1>2. /\ Small \in Nat \ {0} /\ size \in Nat /\ data \in [0 .. length - 1 -> EntrySet]
      /\ Bound = size /\ Entry(k, v) # Empty
  BY <1>1, BoundFacts, TableAssumption, EntryTyped DEF TableInv, Shape
<1>3. Bound' = size + 1
  BY <1>1, <1>2 DEF Bound
<1>4. data'[size] = Entry(k, v) /\ \A i \in 0 .. size - 1 : data'[i] = data[i]
  BY <1>1, <1>2
<1>5. ItemsOf(data', size + 1) = ItemsOf(data', size) \cup {Entry(k, v)}
  BY <1>2, <1>4, ItemsNext
<1>6. ItemsOf(data', size) = ItemsOf(data, size)
  BY <1>4, ItemsSame
<1>7. {e \in Items : e.key # k} = Items
  BY <1>1, ContainsIs
<1> QED BY <1>2, <1>3, <1>5, <1>6, <1>7 DEF PutItem, Items, ItemsOf

(* A key that no item has stops at an empty place *)
LEMMA StopIsEmpty ==
  ASSUME NEW h \in [Key -> Nat], NEW len \in Nat \ {0}, NEW t \in [0 .. len - 1 -> EntrySet],
         NEW k \in Key, k \notin KeysOf(ItemsOf(t, len)), StopsAt(h, t, len, k) # {}
  PROVE  LET at == At(h, k, FirstOf(StopsAt(h, t, len, k)), len)
         IN /\ at \in 0 .. len - 1 /\ t[at] = Empty
            /\ \A i \in 0 .. len - 1 : t[i] # Empty => t[i].key # k
<1> DEFINE S == StopsAt(h, t, len, k)
           at == At(h, k, FirstOf(S), len)
<1>1. S \subseteq Probes /\ \A m \in S : t[At(h, k, m, len)].key \in {Absent, k}
  BY DEF StopsAt
<1>2. FirstOf(S) \in S
  BY <1>1, FirstProbe
<1> HIDE DEF S
<1>3. at \in 0 .. len - 1 /\ t[at].key \in {Absent, k}
  BY <1>1, <1>2, AtRange
<1>4. \A i \in 0 .. len - 1 : t[i] # Empty => t[i].key # k
  BY DEF KeysOf, ItemsOf
<1>5. t[at] \in EntrySet
  BY <1>3
<1>6. t[at] = Empty
  BY <1>3, <1>4, <1>5, EntryFacts
<1> QED BY <1>3, <1>4, <1>6 DEF S

(* A table after a new item was put where the search for its key stopped *)
PutIn(h, t, len, k, v) ==
  [t EXCEPT ![At(h, k, FirstOf(StopsAt(h, t, len, k)), len)] = Entry(k, v)]

(* There the entry is one more item. *)
LEMMA PutAtStopItems ==
  ASSUME NEW h \in [Key -> Nat], NEW len \in Nat \ {0}, NEW t \in [0 .. len - 1 -> EntrySet],
         DistinctKeys(t, len), NEW k \in Key, NEW v \in Value,
         k \notin KeysOf(ItemsOf(t, len)), StopsAt(h, t, len, k) # {}
  PROVE  ItemsOf(PutIn(h, t, len, k, v), len)
           = {e \in ItemsOf(t, len) : e.key # k} \cup {Entry(k, v)}
<1> DEFINE at == At(h, k, FirstOf(StopsAt(h, t, len, k)), len)
           t2 == [t EXCEPT ![at] = Entry(k, v)]
<1>1. /\ at \in 0 .. len - 1 /\ t[at] = Empty
      /\ \A i \in 0 .. len - 1 : t[i] # Empty => t[i].key # k
  BY StopIsEmpty
<1> HIDE DEF at
<1>2. Entry(k, v) # Empty /\ Entry(k, v).key = k
  BY EntryTyped
<1>3. Changed(t, t2, len, at, Entry(k, v)) /\ PlaceFor(t, len, at, k) /\ at \in 0 .. len - 1
  BY <1>1 DEF Changed, PlaceFor
<1> HIDE DEF t2
<1>4. ItemsOf(t2, len) = {e \in ItemsOf(t, len) : e.key # k} \cup {Entry(k, v)}
  BY <1>2, <1>3, ItemsPut
<1> QED BY <1>4 DEF t2, at, PutIn

(* A probed insertion adds an item. *)
LEMMA InsertProbedItems ==
  ASSUME TableInv, NEW k \in Key, NEW v \in Value, InsertProbed(k, v)
  PROVE  PutItem(k, v)
<1>1. /\ length' = length /\ length > Small /\ ~Contains(k)
      /\ StopsAt(hash, data, length, k) # {}
      /\ data' = PutIn(hash, data, length, k, v)
  BY StopsIs, PlaceIsAt DEF InsertProbed, PutIn
<1>2. /\ length \in Nat \ {0} /\ hash \in [Key -> Nat]
      /\ data \in [0 .. length - 1 -> EntrySet]
  BY <1>1, TableAssumption DEF TableInv, Shape
<1>3. Bound = length /\ Bound' = length /\ DistinctKeys(data, length)
  BY <1>1, BoundFacts DEF Bound
<1>4. k \notin KeysOf(ItemsOf(data, length))
  BY <1>1, <1>3, ContainsIs DEF Items
<1>5. StopsAt(hash, data, length, k) # {}
  BY <1>1
<1>6. ItemsOf(data', length) = {e \in ItemsOf(data, length) : e.key # k} \cup {Entry(k, v)}
  BY <1>1, <1>2, <1>3, <1>4, <1>5, PutAtStopItems
<1> QED BY <1>3, <1>6 DEF PutItem, Items

(* Overwriting replaces the item in a map and nothing in a set. *)
LEMMA OverwriteItems ==
  ASSUME TableInv, NEW k \in Key, NEW v \in Value, Overwrite(k, v)
  PROVE  IF kind = "map" THEN PutItem(k, v) ELSE Items' = Items
<1> DEFINE f == Find(k)
<1>1. /\ length' = length /\ size' = size
      /\ data' = IF kind = "map" THEN [data EXCEPT ![f] = Entry(k, v)] ELSE data
      /\ Contains(k)
  BY DEF Overwrite
<1>2. Bound' = Bound
  BY <1>1 DEF Bound
<1>3. CASE kind # "map"
  BY <1>1, <1>2, <1>3 DEF Items, ItemsOf
<1>4. CASE kind = "map"
  <2>1. /\ data \in [0 .. length - 1 -> EntrySet] /\ Bound \in Nat /\ Bound <= length
        /\ DistinctKeys(data, Bound)
        /\ \A i \in 0 .. Bound - 1 : i \in 0 .. length - 1 /\ data[i] \in EntrySet
    BY BoundFacts DEF TableInv, Shape
  <2>2. f \in 0 .. Bound - 1 /\ data[f].key = k
    <3>1. f \in 0 .. length - 1 /\ data[f].key = k /\ f # -1 /\ length > 0
      BY <1>1, FindFacts
    <3>2. CASE length > Small
      BY <3>1, <3>2 DEF Bound
    <3>3. CASE length = Small
      BY <3>1, <3>3, FindList, TableAssumption DEF Bound
    <3>4. length = Small \/ length > Small
      BY <3>1 DEF TableInv, Shape
    <3> QED BY <3>1, <3>2, <3>3, <3>4
  <2> HIDE DEF f
  <2>3. Entry(k, v) # Empty /\ Entry(k, v).key = k
    BY EntryTyped
  <2>4. data[f] # Empty
    BY <2>2, TableAssumption DEF Empty
  <2>5. data' = [data EXCEPT ![f] = Entry(k, v)]
    BY <1>1, <1>4
  <2>6. Changed(data, data', Bound, f, Entry(k, v)) /\ PlaceFor(data, Bound, f, k)
    BY <2>1, <2>2, <2>4, <2>5 DEF Changed, PlaceFor
  <2>7. ItemsOf(data', Bound) = {e \in ItemsOf(data, Bound) : e.key # k} \cup {Entry(k, v)}
    BY <2>1, <2>2, <2>3, <2>6, ItemsPut
  <2> QED BY <1>2, <1>4, <2>7 DEF PutItem, Items
<1> QED BY <1>3, <1>4

(* A removal that closes the gap takes one item away. *)
LEMMA RemoveItems ==
  ASSUME TableInv, NEW k \in Key, length = Small, Contains(k), Remove(k)
  PROVE  Items' = {e \in Items : e.key # k}
<1> DEFINE f == Find(k)
<1>1. /\ data' = [i \in DOMAIN data |-> IF i \in f .. size - 2 THEN data[i + 1] ELSE data[i]]
      /\ size' = size - 1 /\ length' = length
  BY DEF Remove
<1>2. f \in 0 .. size - 1 /\ data[f].key = k
  BY FindFacts, FindList
<1>3. /\ Small \in Nat \ {0} /\ size \in Nat /\ size <= length /\ Bound = size
      /\ \A i \in 0 .. size - 1 : data[i] # Empty /\ data[i] \in EntrySet
      /\ data \in [0 .. length - 1 -> EntrySet] /\ DistinctKeys(data, size)
  <2>1. length <= Small /\ ~(length > Small) /\ Small \in Nat \ {0}
    BY TableAssumption
  <2> QED BY <2>1, BoundFacts DEF TableInv, Shape
<1>4. Bound' = size - 1
  BY <1>1, <1>3 DEF Bound
<1> HIDE DEF f
<1>5. \A i \in 0 .. size - 2 : i \in 0 .. length - 1
  BY <1>3
<1>6. ASSUME NEW i \in 0 .. size - 2 PROVE data'[i] = IF i >= f THEN data[i + 1] ELSE data[i]
  BY <1>1, <1>2, <1>3, <1>5
<1>7. ASSUME NEW x \in ItemsOf(data', size - 1) PROVE x \in Items /\ x.key # k
  <2>1. PICK i \in 0 .. (size - 1) - 1 : data'[i] = x
    BY DEF ItemsOf
  <2>2. i \in 0 .. size - 2 /\ i \in 0 .. size - 1
    BY <1>3
  <2>3. PICK j \in 0 .. size - 1 : j # f /\ data[j] = x
    <3>1. CASE i >= f
      <4>1. i + 1 \in 0 .. size - 1 /\ i + 1 # f
        BY <1>2, <1>3, <2>2, <3>1
      <4> QED BY <4>1, <1>6, <2>1, <2>2, <3>1
    <3>2. CASE ~(i >= f)
      <4>1. i # f
        BY <1>2, <3>2
      <4> QED BY <4>1, <1>6, <2>1, <2>2, <3>2
    <3> QED BY <3>1, <3>2
  <2>4. x \in Items
    BY <1>3, <2>3 DEF Items, ItemsOf
  <2>5. x.key # k
    BY <1>2, <1>3, <2>3 DEF DistinctKeys
  <2> QED BY <2>4, <2>5
<1>8. ASSUME NEW x \in Items, x.key # k PROVE x \in ItemsOf(data', size - 1)
  <2>1. PICK j \in 0 .. size - 1 : data[j] = x
    BY <1>3 DEF Items, ItemsOf
  <2>2. j # f /\ x # Empty
    BY <1>2, <1>3, <1>8, <2>1
  <2>3. PICK i \in 0 .. size - 2 : data'[i] = x
    <3>1. CASE j < f
      <4>1. j \in 0 .. size - 2 /\ ~(j >= f)
        BY <1>2, <1>3, <3>1
      <4> QED BY <4>1, <1>6, <2>1
    <3>2. CASE j > f
      <4>1. j - 1 \in 0 .. size - 2 /\ j - 1 >= f /\ (j - 1) + 1 = j
        BY <1>2, <1>3, <3>2
      <4> QED BY <4>1, <1>6, <2>1
    <3> QED BY <1>2, <2>2, <3>1, <3>2
  <2>4. i \in 0 .. (size - 1) - 1
    BY <1>3
  <2> QED BY <2>2, <2>3, <2>4 DEF ItemsOf
<1>9. Items' = ItemsOf(data', size - 1)
  BY <1>4 DEF Items
<1> QED BY <1>7, <1>8, <1>9
-----------------------------------------------------------------------------
(* Growth: the items that were copied are those of the old array so far.   *)

Copied ==
  growing.on =>
    /\ ItemsOf(growing.table, growing.length) = ItemsOf(data, growing.next)
    /\ growing.key \notin KeysOf(Items)
Counts == IsFiniteSet(KeysOf(Items)) /\ size = Cardinality(KeysOf(Items))
MapInv == HashInv /\ Counts /\ Copied

(* A blank array, and the first 0 places of any, have no items. *)
LEMMA NoItems ==
  /\ \A len \in Nat : ItemsOf(Blank(len), len) = {}
  /\ \A t : ItemsOf(t, 0) = {}
BY DEF ItemsOf, Blank

(* During a growth the whole old array counts. *)
LEMMA GrowBound == ASSUME TableInv, growing.on PROVE Bound = length
BY TableAssumption DEF TableInv, Shape, Rehashing, Bound

(* A growth begins with nothing copied. *)
LEMMA BeginGrowthCopied ==
  ASSUME HashInv, NEW k \in Key, NEW v \in Value, BeginGrowth(k, v)
  PROVE  Copied' /\ Items' = Items
<1> DEFINE len == IF kind = "set" /\ length = Small THEN 4 * length ELSE 2 * length
<1>1. /\ length' = length /\ size' = size /\ data' = data /\ ~Contains(k)
      /\ growing = NotGrowing
      /\ growing' = [NewArray(len) EXCEPT !.on = TRUE, !.key = k, !.value = v]
  BY DEF BeginGrowth, Ready, tableVars, HashInv
<1>2. len \in Nat /\ TableInv
  BY DEF TableInv, Shape, HashInv
<1> HIDE DEF len
<1>3. /\ growing'.length = len /\ growing'.next = 0
      /\ growing'.table = Blank(len) /\ growing'.key = k
  BY <1>1 DEF NewArray, NotGrowing
<1>4. Items' = Items
  BY <1>1 DEF Items, Bound
<1>5. k \notin KeysOf(Items)
  BY <1>1, <1>2, ContainsIs
<1>6. ItemsOf(growing'.table, growing'.length) = ItemsOf(data', growing'.next)
  BY <1>2, <1>3, NoItems
<1> QED BY <1>3, <1>4, <1>5, <1>6 DEF Copied, KeysOf

(* Starting over, too, nothing is copied. *)
LEMMA GrowFurtherCopied ==
  ASSUME MapInv, GrowFurther
  PROVE  Copied' /\ Items' = Items
<1>1. /\ length' = length /\ size' = size /\ data' = data /\ growing.on
      /\ growing' = NewArray(2 * growing.length)
  BY DEF GrowFurther, tableVars
<1>2. 2 * growing.length \in Nat /\ growing \in GrowSet
  BY <1>1 DEF MapInv, HashInv, TableInv, Rehashing
<1>3. NewArrayOf(growing, growing', 2 * growing.length)
  BY <1>1, <1>2, NewArrayIs
<1>4. Items' = Items
  BY <1>1 DEF Items, Bound
<1>5. growing.key \notin KeysOf(Items)
  BY <1>1 DEF MapInv, Copied
<1>6. ItemsOf(growing'.table, growing'.length) = ItemsOf(data', growing'.next)
  BY <1>2, <1>3, NoItems DEF NewArrayOf
<1> QED BY <1>3, <1>4, <1>5, <1>6 DEF Copied, KeysOf, NewArrayOf

(* Each step of rehash() copies the item of its place. *)
LEMMA RehashItemCopied ==
  ASSUME MapInv, RehashItem
  PROVE  Copied' /\ Items' = Items
<1> DEFINE e == data[growing.next]
           k == e.key
           n == FirstOf(Free(k))
           at == At(hash, k, n, growing.length)
<1>1. /\ length' = length /\ size' = size /\ data' = data /\ growing.on
      /\ growing.next < length
      /\ \/ e = Empty /\ growing' = [growing EXCEPT !.next = growing.next + 1]
         \/ /\ e # Empty /\ Free(k) # {}
            /\ growing' = [growing EXCEPT !.table[at] = e, !.next = growing.next + 1]
  BY PlaceIsAt DEF RehashItem, tableVars
<1>2. /\ length \in Nat /\ growing.length \in Nat \ {0} /\ growing.next \in 0 .. length - 1
      /\ growing.table \in [0 .. growing.length - 1 -> EntrySet]
      /\ Good(hash, growing.table, growing.length)
      /\ hash \in [Key -> Nat] /\ data \in [0 .. length - 1 -> EntrySet]
      /\ growing \in GrowSet /\ TableInv /\ growing.next \in Nat
  BY <1>1, TableAssumption DEF MapInv, HashInv, TableInv, Shape, Rehashing
<1>3. Items' = Items
  BY <1>1 DEF Items, Bound
<1>4. /\ ItemsOf(growing.table, growing.length) = ItemsOf(data, growing.next)
      /\ growing.key \notin KeysOf(Items)
  BY <1>1 DEF MapInv, Copied
<1>5. ItemsOf(data, growing.next + 1)
        = IF e = Empty THEN ItemsOf(data, growing.next) ELSE ItemsOf(data, growing.next) \cup {e}
  BY <1>2, ItemsNext
<1> HIDE DEF e
<1>6. CASE e = Empty
  <2>1. growing' = [growing EXCEPT !.next = growing.next + 1]
    BY <1>1, <1>6
  <2>2. /\ growing'.next = growing.next + 1 /\ growing'.key = growing.key
        /\ growing'.length = growing.length /\ growing'.table = growing.table
    BY <1>2, <2>1 DEF GrowSet
  <2> QED BY <1>1, <1>3, <1>4, <1>5, <1>6, <2>2 DEF Copied, KeysOf
<1>7. CASE e # Empty
  <2>1. e \in EntrySet /\ k \in Key
    BY <1>2, <1>7, EntryFacts DEF e
  <2>2. ASSUME NEW i \in 0 .. growing.length - 1, growing.table[i] # Empty
        PROVE  growing.table[i].key # k
    <3>1. growing.table[i] \in ItemsOf(data, growing.next)
      BY <1>4, <2>2 DEF ItemsOf
    <3>2. PICK j \in 0 .. growing.next - 1 : data[j] = growing.table[i]
      BY <3>1 DEF ItemsOf
    <3>3. j \in 0 .. length - 1 /\ j # growing.next
      BY <1>2
    <3> QED BY <1>1, <1>2, <1>7, <2>2, <3>2, <3>3, OldKeysDiffer DEF e
  <2>3. Free(k) \subseteq Probes
        /\ \A m \in Free(k) : growing.table[At(hash, k, m, growing.length)] = Empty
    BY PlaceIsAt DEF Free
  <2>4. n \in Free(k)
    BY <1>1, <1>7, <2>3, FirstProbe
  <2>5. n \in Probes /\ growing.table[at] = Empty
    BY <2>3, <2>4
  <2> HIDE DEF n
  <2>6. at \in 0 .. growing.length - 1
    BY <1>2, <2>1, <2>5, AtRange
  <2> HIDE DEF at
  <2> DEFINE t2 == [growing.table EXCEPT ![at] = e]
  <2>7. Changed(growing.table, t2, growing.length, at, e)
        /\ PlaceFor(growing.table, growing.length, at, k)
    <3>1. growing.table \in [0 .. growing.length - 1 -> EntrySet]
      BY <1>2
    <3>2. Changed(growing.table, t2, growing.length, at, e)
      BY <3>1, <2>6 DEF Changed
    <3> HIDE DEF t2, k
    <3>3. PlaceFor(growing.table, growing.length, at, k)
      BY <2>2, <2>5 DEF PlaceFor
    <3> QED BY <3>2, <3>3
  <2>8. DistinctKeys(growing.table, growing.length)
    BY <1>2, GoodIsDistinct
  <2> HIDE DEF t2, k
  <2>9. growing.length \in Nat /\ e.key = k
    BY <1>2 DEF k
  <2>10. ItemsOf(t2, growing.length) = {x \in ItemsOf(growing.table, growing.length) : x.key # k} \cup {e}
    BY <1>7, <2>6, <2>7, <2>8, <2>9, ItemsPut
  <2>11. ItemsOf(growing.table, growing.length)
           = {x \in ItemsOf(growing.table, growing.length) : x.key # k}
    BY <2>2 DEF ItemsOf
  <2>12. growing' = [growing EXCEPT !.table = t2, !.next = growing.next + 1]
    <3>1. growing' = [growing EXCEPT !.table[at] = e, !.next = growing.next + 1]
      BY <1>1, <1>7
    <3> QED BY <1>2, <3>1 DEF GrowSet, t2
  <2>13. /\ growing'.next = growing.next + 1 /\ growing'.key = growing.key
         /\ growing'.length = growing.length /\ growing'.table = t2
    BY <1>2, <2>12 DEF GrowSet
  <2> QED BY <1>1, <1>3, <1>4, <1>5, <1>7, <2>10, <2>11, <2>13 DEF Copied, KeysOf
<1> QED BY <1>6, <1>7

(* The collection has more than its first array, or is making more *)
Grown == length > Small \/ growing.on

(* The new array is in use: with the old items, or with the new one too *)
LEMMA EndGrowthItems ==
  ASSUME MapInv, EndGrowth
  PROVE  /\ growing.key \in Key /\ growing.value \in Value /\ growing.key \notin KeysOf(Items)
         /\ growing.on /\ Grown'
         /\ \/ Items' = Items /\ size' = size /\ UNCHANGED answerVars /\ Copied'
            \/ /\ PutItem(growing.key, growing.value)
               /\ size' = size + 1 /\ Added(growing.key) /\ Copied'
<1> DEFINE t == growing.table
           len == growing.length
           S == StopsAt(hash, t, len, growing.key)
<1>1. /\ growing.on /\ growing.next = length
      /\ \/ /\ S = {} /\ data' = t /\ length' = len /\ size' = size /\ UNCHANGED answerVars
            /\ growing' = NewArray(2 * len)
         \/ /\ S # {} /\ data' = PutIn(hash, t, len, growing.key, growing.value)
            /\ length' = len /\ size' = size + 1
            /\ growing' = NotGrowing /\ Added(growing.key)
  BY StopsIs, PlaceIsAt DEF EndGrowth, Replace, PutIn
<1>2. /\ len \in Nat \ {0} /\ len > Small /\ Small \in Nat /\ 2 * len \in Nat
      /\ t \in [0 .. len - 1 -> EntrySet] /\ Good(hash, t, len)
      /\ growing.key \in Key /\ growing.value \in Value
      /\ hash \in [Key -> Nat] /\ growing \in GrowSet /\ TableInv
  BY <1>1, TableAssumption DEF MapInv, HashInv, TableInv, Shape, Rehashing
<1>3. /\ ItemsOf(t, len) = Items /\ growing.key \notin KeysOf(Items)
  BY <1>1, <1>2, GrowBound DEF MapInv, Copied, Items
<1>4. length' = len => Bound' = len
  BY <1>2 DEF Bound
<1>5. CASE S = {}
  <2>1. data' = t /\ length' = len /\ size' = size /\ growing' = NewArray(2 * len)
        /\ UNCHANGED answerVars
    BY <1>1, <1>5
  <2>2. Items' = Items
    BY <1>3, <1>4, <2>1 DEF Items
  <2>3. NewArrayOf(growing, growing', 2 * len)
    BY <1>2, <2>1, NewArrayIs
  <2>4. ItemsOf(growing'.table, growing'.length) = ItemsOf(data', growing'.next)
    BY <1>2, <2>3, NoItems DEF NewArrayOf
  <2>5. Copied'
    BY <1>3, <2>2, <2>3, <2>4 DEF Copied, NewArrayOf, KeysOf
  <2>6. Grown'
    BY <1>2, <2>1 DEF Grown
  <2> QED BY <1>1, <1>2, <1>3, <2>1, <2>2, <2>5, <2>6
<1>6. CASE S # {}
  <2>1. /\ data' = PutIn(hash, t, len, growing.key, growing.value) /\ length' = len
        /\ size' = size + 1 /\ growing' = NotGrowing /\ Added(growing.key)
    BY <1>1, <1>6
  <2>2. DistinctKeys(t, len)
    BY <1>2, GoodIsDistinct
  <2>3. growing.key \notin KeysOf(ItemsOf(t, len))
    BY <1>3
  <2> HIDE DEF t, len
  <2>7. /\ len \in Nat \ {0} /\ t \in [0 .. len - 1 -> EntrySet] /\ hash \in [Key -> Nat]
        /\ growing.key \in Key /\ growing.value \in Value
    BY <1>2
  <2>8. StopsAt(hash, t, len, growing.key) # {}
    BY <1>6
  <2> HIDE DEF S
  <2>4. ItemsOf(PutIn(hash, t, len, growing.key, growing.value), len)
          = {e \in ItemsOf(t, len) : e.key # growing.key} \cup {Entry(growing.key, growing.value)}
    BY <2>2, <2>3, <2>7, <2>8, PutAtStopItems
  <2>5. PutItem(growing.key, growing.value)
    BY <1>3, <1>4, <2>1, <2>4 DEF PutItem, Items
  <2>6. Copied'
    BY <2>1 DEF Copied, NotGrowing
  <2>9. Grown'
    BY <1>2, <2>1 DEF Grown
  <2> QED BY <1>1, <1>2, <1>3, <2>1, <2>5, <2>6, <2>9
<1> QED BY <1>5, <1>6
-----------------------------------------------------------------------------
(* Every step of the table is a step of the abstract map, or none.         *)

(* What a step changes for a caller *)
SameMap ==
  /\ MapOf' = MapOf /\ size' = size /\ kind' = kind /\ Grown' = Grown
  /\ UNCHANGED answerVars
MapStep == Map!MapNext \/ SameMap

(* The size is the number of keys that lookups find. *)
LEMMA AnswersIs ==
  ASSUME TableInv', Counts', kind' = kind
  PROVE  Map!Answers(MapOf', result')
<1>1. size' = Cardinality(KeysOf(Items'))
  BY DEF Counts, KeysOf
<1>2. {k \in Key : MapOf'[k] # Absent} = {k \in Key : Lookup(k)' # Absent}
  BY DEF MapOf
<1>3. size' = Cardinality({k \in Key : MapOf'[k] # Absent})
  BY <1>1, <1>2, KeysAreNext
<1>4. MapOf' = [k \in Key |-> Lookup(k)']
  BY DEF MapOf
<1> QED BY <1>3, <1>4 DEF Map!Answers, Map!Cardinality, Cardinality

(* Putting an item keeps the size right. *)
LEMMA PutCounts ==
  ASSUME TableInv, TableInv', Counts, NEW k \in Key, NEW v \in Value, PutItem(k, v),
         IF k \in KeysOf(Items) THEN size' = size ELSE size' = size + 1
  PROVE  Counts' /\ MapOf' = [MapOf EXCEPT ![k] = v]
<1>1. MapOf' = [MapOf EXCEPT ![k] = v] /\ KeysOf(Items') = KeysOf(Items) \cup {k}
  BY MapPut DEF PutItem
<1>2. IsFiniteSet(KeysOf(Items)) /\ size = Cardinality(KeysOf(Items))
  BY DEF Counts
<1>3. /\ IsFiniteSet(KeysOf(Items) \cup {k})
      /\ Cardinality(KeysOf(Items) \cup {k})
           = IF k \in KeysOf(Items) THEN Cardinality(KeysOf(Items))
             ELSE Cardinality(KeysOf(Items)) + 1
  BY <1>2, FS_AddElement
<1> QED BY <1>1, <1>2, <1>3 DEF Counts, KeysOf

(* So does leaving the items alone. *)
LEMMA SameCounts ==
  ASSUME Counts, Items' = Items, size' = size PROVE Counts'
BY DEF Counts, KeysOf

(* To put a key is a step of the abstract map, *)
LEMMA PutIsMapStep ==
  ASSUME TableInv', Counts', kind' = kind, NEW k \in Key, NEW v \in Value,
         asked' = <<"put", k>>, Grown' = Grown,
         MapOf[k] # Absent \/ Grown \/ size < Small,
         \/ kind = "map" /\ MapOf' = [MapOf EXCEPT ![k] = v] /\ result' = Absent
         \/ /\ kind = "set" /\ MapOf[k] = Absent
            /\ MapOf' = [MapOf EXCEPT ![k] = v] /\ result' = TRUE
         \/ kind = "set" /\ MapOf[k] # Absent /\ MapOf' = MapOf /\ result' = FALSE
  PROVE  Map!MapNext
<1>1. Map!Answers(MapOf', result')
  BY AnswersIs
<1>2. MapOf = [q \in Key |-> Lookup(q)]
  BY DEF MapOf
<1> HIDE DEF MapOf
<1>3. \/ kind = "map" /\ Map!Answers([MapOf EXCEPT ![k] = v], Absent)
      \/ kind = "set" /\ MapOf[k] = Absent /\ Map!Answers([MapOf EXCEPT ![k] = v], TRUE)
      \/ kind = "set" /\ MapOf[k] # Absent /\ Map!Answers(MapOf, FALSE)
  BY <1>1
<1>4. Map!Put(k, v)
  BY <1>2, <1>3 DEF Map!Put, Grown
<1> QED BY <1>4 DEF Map!MapNext

(* so is to remove one, if the first array is all there is, *)
LEMMA RemoveIsMapStep ==
  ASSUME TableInv', Counts', kind' = kind, NEW k \in Key,
         asked' = <<"remove", k>>, Grown' = Grown,
         IF MapOf[k] # Absent /\ ~Grown
           THEN MapOf' = [MapOf EXCEPT ![k] = Absent] /\ result' = TRUE
           ELSE MapOf' = MapOf /\ result' = FALSE
  PROVE  Map!MapNext
<1>1. Map!Answers(MapOf', result')
  BY AnswersIs
<1>2. MapOf = [q \in Key |-> Lookup(q)]
  BY DEF MapOf
<1> HIDE DEF MapOf
<1>3. IF MapOf[k] # Absent /\ ~Grown
        THEN Map!Answers([MapOf EXCEPT ![k] = Absent], TRUE)
        ELSE Map!Answers(MapOf, FALSE)
  BY <1>1
<1>4. Map!Remove(k)
  BY <1>2, <1>3 DEF Map!Remove, Grown
<1> QED BY <1>4 DEF Map!MapNext

(* to look one up, *)
LEMMA GetIsMapStep ==
  ASSUME TableInv', Counts', kind' = kind, NEW k \in Key,
         asked' = <<"get", k>>, Grown' = Grown, MapOf' = MapOf, result' = MapOf[k]
  PROVE  Map!MapNext
<1>1. Map!Answers(MapOf', result')
  BY AnswersIs
<1>2. MapOf = [q \in Key |-> Lookup(q)]
  BY DEF MapOf
<1> HIDE DEF MapOf
<1>3. Map!Get(k)
  BY <1>1, <1>2 DEF Map!Get, Grown
<1> QED BY <1>3 DEF Map!MapNext

(* to clear the collection, *)
LEMMA ClearIsMapStep ==
  ASSUME TableInv', Counts', kind' = kind, ~Grown',
         asked' = <<"clear", Absent>>, MapOf' = [k \in Key |-> Absent], result' = Absent
  PROVE  Map!MapNext
<1>1. Map!Answers([k \in Key |-> Absent], Absent)
  BY AnswersIs
<1> QED BY <1>1 DEF Map!MapNext, Map!Clear, Grown

(* and to work without an answer. *)
LEMMA WorkIsMapStep ==
  ASSUME MapOf' = MapOf, size' = size, kind' = kind, Unanswered,
         Grown' = Grown \/ (size = Small /\ Grown')
  PROVE  Map!MapNext
<1>1. Map!Work
  BY DEF Map!Work, Grown, MapOf, Unanswered, Map!NoRequest, NoRequest
<1> QED BY <1>1 DEF Map!MapNext

(* The map at a key is what a lookup returns. *)
LEMMA LookupOf ==
  ASSUME TableInv, NEW k \in Key
  PROVE  MapOf[k] = Lookup(k) /\ (MapOf[k] # Absent <=> k \in KeysOf(Items))
<1>1. MapOf[k] = Lookup(k)
  BY DEF MapOf
<1>2. k \in KeysOf(Items) => \E e \in Items : e.key = k
  BY DEF KeysOf
<1> QED BY <1>1, <1>2, LookupsAre

-----------------------------------------------------------------------------
MapStepInv == Counts' /\ Copied' /\ MapStep

(* Without a growth nothing is said of copies. *)
LEMMA NotGrowingCopied == ASSUME growing' = growing, ~growing.on PROVE Copied'
BY DEF Copied

(* A step that puts a new item is a step of the abstract map. *)
LEMMA InsertMap ==
  ASSUME MapInv, HashInv', NEW k \in Key, NEW v \in Value,
         PutItem(k, v), k \notin KeysOf(Items), size' = size + 1, Added(k),
         kind' = kind, Copied', Grown' = Grown, Grown \/ size < Small
  PROVE  MapStepInv
<1>1. TableInv /\ TableInv' /\ Counts /\ kind \in {"map", "set"}
  BY DEF MapInv, HashInv, TableInv, Shape
<1>2. Counts' /\ MapOf' = [MapOf EXCEPT ![k] = v]
  BY <1>1, PutCounts
<1>3. MapOf[k] = Absent
  BY <1>1, LookupOf
<1>4. /\ asked' = <<"put", k>>
      /\ \/ kind = "map" /\ result' = Absent
         \/ kind = "set" /\ result' = TRUE /\ MapOf[k] = Absent
  BY <1>1, <1>3 DEF Added, Answer
<1>5. Map!MapNext
  BY <1>1, <1>2, <1>4, PutIsMapStep
<1> QED BY <1>2, <1>5 DEF MapStepInv, MapStep

(* setValue() or add() of a key that is there is a step of the map. *)
LEMMA OverwriteMap ==
  ASSUME MapInv, HashInv', NEW k \in Key, NEW v \in Value, Overwrite(k, v)
  PROVE  MapStepInv
<1>1. TableInv /\ TableInv' /\ Counts /\ kind \in {"map", "set"}
  BY DEF MapInv, HashInv, TableInv, Shape
<1>2. /\ kind' = kind /\ size' = size /\ Contains(k) /\ growing' = growing /\ ~growing.on
      /\ length' = length /\ asked' = <<"put", k>>
      /\ result' = IF kind = "set" THEN FALSE ELSE Absent
  BY DEF Overwrite, Ready, Answer
<1>3. Copied' /\ k \in KeysOf(Items) /\ Grown' = Grown
  BY <1>1, <1>2, NotGrowingCopied, ContainsIs DEF Grown
<1>4. IF kind = "map" THEN PutItem(k, v) ELSE Items' = Items
  BY <1>1, OverwriteItems
<1>5. MapOf[k] # Absent
  BY <1>1, <1>3, LookupOf
<1>6. Counts' /\ MapOf' = IF kind = "map" THEN [MapOf EXCEPT ![k] = v] ELSE MapOf
  BY <1>1, <1>2, <1>3, <1>4, PutCounts, SameCounts, MapSame
<1>7. \/ kind = "map" /\ MapOf' = [MapOf EXCEPT ![k] = v] /\ result' = Absent
      \/ kind = "set" /\ MapOf[k] # Absent /\ MapOf' = MapOf /\ result' = FALSE
  BY <1>1, <1>2, <1>5, <1>6
<1>8. Map!MapNext
  BY <1>1, <1>2, <1>3, <1>5, <1>6, <1>7, PutIsMapStep
<1> QED BY <1>3, <1>6, <1>8 DEF MapStepInv, MapStep

(* remove() is, whether it removes or does nothing. *)
LEMMA RemoveMap ==
  ASSUME MapInv, HashInv', NEW k \in Key, Remove(k)
  PROVE  MapStepInv
<1>1. TableInv /\ TableInv' /\ Counts
  BY DEF MapInv, HashInv
<1>2. kind' = kind /\ growing' = growing /\ ~growing.on /\ length' = length
  BY DEF Remove, Ready
<1>3. Copied'
  BY <1>2, NotGrowingCopied
<1>6. /\ asked' = <<"remove", k>> /\ Grown' = Grown
      /\ (length = Small /\ Contains(k)) <=> (MapOf[k] # Absent /\ ~Grown)
  <2>1. MapOf[k] # Absent <=> Contains(k)
    BY <1>1, LookupOf, ContainsIs
  <2>2. asked' = <<"remove", k>> /\ Grown' = Grown
    BY <1>2 DEF Remove, Answer, Grown
  <2>3. length = 0 => ~Contains(k)
    <3>1. length = 0 => size = 0 /\ ~(length > Small)
      BY <1>1, TableAssumption DEF TableInv, Shape
    <3> QED BY <3>1 DEF Contains, Find
  <2> QED BY <1>1, <1>2, <2>1, <2>2, <2>3, TableAssumption DEF TableInv, Shape, Grown
<1>4. CASE length = Small /\ Contains(k)
  <2>1. size' = size - 1 /\ result' = TRUE
    BY <1>4 DEF Remove, Answer
  <2>2. Items' = {e \in Items : e.key # k} /\ k \in KeysOf(Items)
    BY <1>1, <1>4, RemoveItems, ContainsIs
  <2>3. MapOf' = [MapOf EXCEPT ![k] = Absent] /\ KeysOf(Items') = KeysOf(Items) \ {k}
    BY <1>1, <2>2, MapRemove
  <2>4. IsFiniteSet(KeysOf(Items)) /\ size = Cardinality(KeysOf(Items))
    BY <1>1 DEF Counts
  <2>5. /\ IsFiniteSet(KeysOf(Items) \ {k})
        /\ Cardinality(KeysOf(Items) \ {k}) = Cardinality(KeysOf(Items)) - 1
    BY <2>2, <2>4, FS_RemoveElement
  <2>6. Counts'
    BY <2>1, <2>3, <2>4, <2>5 DEF Counts, KeysOf
  <2>7. Map!MapNext
    BY <1>1, <1>2, <1>4, <1>6, <2>1, <2>3, <2>6, RemoveIsMapStep
  <2> QED BY <1>3, <2>6, <2>7 DEF MapStepInv, MapStep
<1>5. CASE ~(length = Small /\ Contains(k))
  <2>1. size' = size /\ data' = data /\ result' = FALSE
    BY <1>5 DEF Remove, Answer
  <2>2. Items' = Items
    BY <1>2, <2>1 DEF Items, Bound
  <2>3. Counts' /\ MapOf' = MapOf
    BY <1>1, <2>1, <2>2, SameCounts, MapSame
  <2>4. Map!MapNext
    BY <1>1, <1>2, <1>5, <1>6, <2>1, <2>3, RemoveIsMapStep
  <2> QED BY <1>3, <2>3, <2>4 DEF MapStepInv, MapStep
<1> QED BY <1>4, <1>5

(* A lookup is. *)
LEMMA GetMap ==
  ASSUME MapInv, HashInv', NEW k \in Key, Get(k)
  PROVE  MapStepInv
<1>1. TableInv /\ TableInv' /\ Counts
  BY DEF MapInv, HashInv
<1>2. /\ kind' = kind /\ growing' = growing /\ ~growing.on /\ length' = length
      /\ size' = size /\ data' = data /\ asked' = <<"get", k>> /\ result' = Lookup(k)
  BY DEF Get, Ready, tableVars, Answer
<1>3. Copied'
  BY <1>2, NotGrowingCopied
<1>4. Items' = Items
  BY <1>2 DEF Items, Bound
<1>5. Counts' /\ MapOf' = MapOf
  BY <1>1, <1>2, <1>4, SameCounts, MapSame
<1>6. result' = MapOf[k] /\ Grown' = Grown
  BY <1>1, <1>2, LookupOf DEF Grown
<1>7. Map!MapNext
  BY <1>1, <1>2, <1>5, <1>6, GetIsMapStep
<1> QED BY <1>3, <1>5, <1>7 DEF MapStepInv, MapStep

(* clear() is. *)
LEMMA ClearMap ==
  ASSUME MapInv, HashInv', Clear
  PROVE  MapStepInv
<1>1. TableInv /\ TableInv'
  BY DEF MapInv, HashInv
<1>2. /\ kind' = kind /\ growing' = growing /\ ~growing.on /\ length' = 0
      /\ size' = 0 /\ asked' = <<"clear", Absent>> /\ result' = Absent
  BY DEF Clear, Replace, Ready, Answer
<1>3. Copied'
  BY <1>2, NotGrowingCopied
<1>4. Items' = {}
  BY <1>2, TableAssumption DEF Items, Bound, ItemsOf
<1>5. KeysOf(Items') = {}
  BY <1>4 DEF KeysOf
<1>6. Counts'
  BY <1>2, <1>5, FS_EmptySet DEF Counts, KeysOf
<1>7. MapOf' = [k \in Key |-> Absent]
  BY <1>1, <1>5, LookupsAreNext DEF MapOf
<1>8. ~Grown'
  BY <1>2, TableAssumption DEF Grown
<1>9. Map!MapNext
  BY <1>1, <1>2, <1>6, <1>7, <1>8, ClearIsMapStep
<1> QED BY <1>3, <1>6, <1>9 DEF MapStepInv, MapStep

(* A step of which a caller sees nothing, or no answer *)
LEMMA HiddenMap ==
  ASSUME MapInv, HashInv', Items' = Items, size' = size, kind' = kind, Copied',
         \/ UNCHANGED answerVars /\ Grown' = Grown
         \/ Unanswered /\ (Grown' = Grown \/ (size = Small /\ Grown'))
  PROVE  MapStepInv
<1>1. TableInv /\ TableInv'
  BY DEF MapInv, HashInv
<1>2. Counts' /\ MapOf' = MapOf
  BY <1>1, SameCounts, MapSame DEF MapInv
<1>3. MapStep
  BY <1>2, WorkIsMapStep DEF MapStep, SameMap
<1> QED BY <1>2, <1>3 DEF MapStepInv

(* and so is one that keeps the array. *)
LEMMA StillMap ==
  ASSUME MapInv, HashInv', UNCHANGED <<kind, hash, tableVars, growing>>,
         UNCHANGED answerVars \/ Unanswered
  PROVE  MapStepInv
<1>1. Items' = Items /\ size' = size /\ Grown' = Grown
  BY DEF Items, Bound, tableVars, Grown
<1>2. Copied'
  BY <1>1 DEF MapInv, Copied, tableVars, KeysOf
<1> QED BY <1>1, <1>2, HiddenMap

(* The invariant is kept, and every step is one of the map or hidden. *)
LEMMA NextMap == MapInv /\ [Next]_vars => MapInv' /\ MapStep
<1> SUFFICES ASSUME MapInv, [Next]_vars PROVE MapInv' /\ MapStep
  OBVIOUS
<1>0. HashInv' /\ HashInv /\ TableInv
  BY NextInv DEF MapInv, HashInv
<1> SUFFICES MapStepInv
  BY <1>0 DEF MapStepInv, MapInv
<1>a. Small \in Nat \ {0}
  BY TableAssumption
<1>1. ASSUME NEW k \in Key, NEW v \in Given[k], Overwrite(k, v) PROVE MapStepInv
  BY <1>0, <1>1, GivenValue, OverwriteMap
<1>2. ASSUME NEW k \in Key, NEW v \in Given[k], InsertFirst(k, v) PROVE MapStepInv
  <2>1. /\ length = 0 /\ size' = 1 /\ kind' = kind /\ Added(k)
        /\ length' = Small /\ growing' = growing /\ ~growing.on
    BY <1>2 DEF InsertFirst, Ready, Replace
  <2>2. Items = {} /\ size = 0
    BY <1>0, <2>1, BoundFacts DEF TableInv, Shape
  <2>3. k \notin KeysOf(Items) /\ size' = size + 1 /\ Grown' = Grown /\ size < Small
    BY <1>a, <2>1, <2>2 DEF KeysOf, Grown
  <2> QED BY <1>0, <1>2, <2>1, <2>3, GivenValue, InsertFirstItems, InsertMap, NotGrowingCopied
<1>3. ASSUME NEW k \in Key, NEW v \in Given[k], InsertLast(k, v) PROVE MapStepInv
  <2>1. /\ ~Contains(k) /\ size' = size + 1 /\ kind' = kind /\ Added(k)
        /\ length' = length /\ size < Small /\ growing' = growing /\ ~growing.on
    BY <1>3 DEF InsertLast, Ready
  <2>2. Grown' = Grown
    BY <2>1 DEF Grown
  <2> QED BY <1>0, <1>3, <2>1, <2>2, GivenValue, ContainsIs, InsertLastItems, InsertMap,
             NotGrowingCopied
<1>4. ASSUME NEW k \in Key, NEW v \in Given[k], InsertProbed(k, v) PROVE MapStepInv
  <2>1. /\ ~Contains(k) /\ size' = size + 1 /\ kind' = kind /\ Added(k)
        /\ length' = length /\ length > Small /\ growing' = growing /\ ~growing.on
    BY <1>4 DEF InsertProbed, Ready
  <2>2. Grown' = Grown /\ Grown
    BY <2>1 DEF Grown
  <2> QED BY <1>0, <1>4, <2>1, <2>2, GivenValue, ContainsIs, InsertProbedItems, InsertMap,
             NotGrowingCopied
<1>5. ASSUME NEW k \in Key, NEW v \in Given[k], BeginGrowth(k, v) PROVE MapStepInv
  <2>1. /\ size' = size /\ Unanswered /\ kind' = kind /\ growing'.on
        /\ length > 0 /\ (length = Small => size = Small)
    BY <1>5 DEF BeginGrowth, tableVars, NewArray, HashInv, GrowSet
  <2>2. Grown' /\ (Grown \/ size = Small)
    BY <1>0, <1>a, <2>1 DEF Grown, TableInv, Shape
  <2> QED BY <1>0, <1>5, <2>1, <2>2, GivenValue, BeginGrowthCopied, HiddenMap
<1>6. ASSUME NEW k \in Key, Remove(k) PROVE MapStepInv
  BY <1>0, <1>6, RemoveMap
<1>7. ASSUME NEW k \in Key, Get(k) PROVE MapStepInv
  BY <1>0, <1>7, GetMap
<1>8. CASE Clear
  BY <1>0, <1>8, ClearMap
<1>9. CASE RehashItem
  <2>1. size' = size /\ UNCHANGED answerVars /\ kind' = kind /\ Grown' = Grown
    BY <1>0, <1>9 DEF RehashItem, tableVars, Grown, HashInv, GrowSet, NewArray
  <2> QED BY <1>0, <1>9, <2>1, RehashItemCopied, HiddenMap
<1>10. CASE GrowFurther
  <2>1. size' = size /\ UNCHANGED answerVars /\ kind' = kind /\ Grown' = Grown
    BY <1>0, <1>10 DEF GrowFurther, tableVars, Grown, HashInv, GrowSet, NewArray
  <2> QED BY <1>0, <1>10, <2>1, GrowFurtherCopied, HiddenMap
<1>11. CASE EndGrowth
  <2>1. kind' = kind
    BY <1>11 DEF EndGrowth
  <2>2. growing.on => Grown
    BY DEF Grown
  <2> QED BY <1>0, <1>11, <2>1, <2>2, EndGrowthItems, InsertMap, HiddenMap
<1>12. CASE Iterate
  BY <1>0, <1>12, StillMap DEF Iterate
<1>13. CASE NextItem
  BY <1>0, <1>13, StillMap DEF NextItem
<1>14. CASE UNCHANGED vars
  BY <1>0, <1>14, StillMap DEF vars
<1> QED BY <1>1, <1>2, <1>3, <1>4, <1>5, <1>6, <1>7, <1>8, <1>9, <1>10, <1>11, <1>12,
           <1>13, <1>14 DEF Next, Change, Growth

(* In the beginning the map is empty. *)
LEMMA InitMap == Init => MapInv /\ Map!MapInit
<1> SUFFICES ASSUME Init PROVE MapInv /\ Map!MapInit
  OBVIOUS
<1>1. /\ kind \in {"map", "set"} /\ length = 0 /\ size = 0 /\ growing = NotGrowing
      /\ asked = NoRequest /\ result = Absent
  BY DEF Init
<1>2. HashInv /\ TableInv
  BY InitInv DEF HashInv
<1>3. Items = {}
  BY <1>1, <1>2, BoundFacts
<1>4. KeysOf(Items) = {}
  BY <1>3 DEF KeysOf
<1>5. Counts
  BY <1>1, <1>4, FS_EmptySet DEF Counts
<1>6. Copied
  BY <1>1 DEF Copied, NotGrowing
<1>7. [k \in Key |-> Lookup(k)] = [k \in Key |-> Absent]
  BY <1>2, <1>4, LookupsAre
<1>8. ~Grown
  BY <1>1, TableAssumption DEF Grown, NotGrowing
<1> QED BY <1>1, <1>2, <1>5, <1>6, <1>7, <1>8
        DEF MapInv, Map!MapInit, Map!NoRequest, NoRequest, Grown

(* A caller sees a partial function: each operation of HashMap and         *)
(* HashSet, a growth with all its copying among them, is one step of       *)
(* AbstractMap or none.  A lookup answers with the value of the key asked  *)
(* for, a removal removes that key and no other until the collection has   *)
(* needed more than its first array, and the size property is the number   *)
(* of keys.                                                                *)
THEOREM LookupsSeeAMap == Spec => ImplementsMap
<1>1. MapStep => [Map!MapNext]_(Map!mapVars)
  BY DEF MapStep, SameMap, MapOf, Map!mapVars, Grown, answerVars
<1>2. MapInv /\ [Next]_vars => MapInv' /\ [Map!MapNext]_(Map!mapVars)
  BY <1>1, NextMap
<1> QED BY <1>2, InitMap, PTL DEF Spec, ImplementsMap, Map!MapSpec

-----------------------------------------------------------------------------
(* An open iterator: over the array E of its time, or of now.              *)

IterSet ==
  [open : BOOLEAN, old : UNION {[0 .. n - 1 -> EntrySet] : n \in Nat}, live : BOOLEAN,
   index : Nat, max : Nat, first : SUBSET Key, known : SUBSET Key, disturbed : BOOLEAN,
   changes : Int]
SeenSet == [keys : SUBSET Key, again : BOOLEAN]

AheadIn(E, it) == {i \in it.index .. it.max - 1 : E[i] # Empty}

(* What it returned was before its index, and what it was to return at     *)
(* first and has not is ahead of it.                                       *)
Faithful(E, it, sn) ==
  /\ DistinctKeys(E, it.max) /\ ~sn.again
  /\ sn.keys \subseteq KeysOf(ItemsOf(E, it.index)) /\ sn.keys \subseteq it.known
  /\ KeysOf(ItemsOf(E, it.max)) \subseteq it.known
  /\ it.first \subseteq sn.keys \cup {E[i].key : i \in AheadIn(E, it)}

(* The iterator of a map does not go beyond the items of the first array,  *)
(* and for that of a set there is nothing beyond them.                     *)
WithinItems(n) ==
  length = Small =>
    IF kind = "map" THEN n <= size ELSE \A i \in size .. length - 1 : data[i] = Empty

IterTyped ==
  /\ iterator \in IterSet /\ seen \in SeenSet
  /\ iterator.index <= iterator.max
  /\ ~iterator.open => iterator = NoIterator /\ seen = NoneSeen
  /\ iterator.live => iterator.max <= length
  /\ ~iterator.live => \A i \in 0 .. iterator.max - 1 : iterator.old[i] \in EntrySet
IterInv ==
  /\ IterTyped
  /\ ~iterator.disturbed =>
       Faithful(Entries, iterator, seen) /\ (iterator.live => WithinItems(iterator.max))

(* The same iterator, or one that knows more *)
Resumes(it2, it) ==
  /\ it2.open = it.open /\ it2.index = it.index /\ it2.max = it.max /\ it2.first = it.first
  /\ it.known \subseteq it2.known

(* Below n the same places are empty, and the others have the same keys *)
SameKeys(E, E2, n) ==
  \A i \in 0 .. n - 1 : (E2[i] = Empty <=> E[i] = Empty) /\ E2[i].key = E[i].key

(* An iterator stays faithful while places keep their keys. *)
LEMMA FaithfulKept ==
  ASSUME NEW E, NEW E2, NEW it, NEW it2, NEW sn, it.index \in Nat, it.max \in Nat,
         it.index <= it.max, Faithful(E, it, sn), SameKeys(E, E2, it.max), Resumes(it2, it)
  PROVE  Faithful(E2, it2, sn)
<1>1. /\ it2.index = it.index /\ it2.max = it.max /\ it2.first = it.first
      /\ it.known \subseteq it2.known
  BY DEF Resumes
<1>2. DistinctKeys(E2, it.max)
  BY DEF Faithful, DistinctKeys, SameKeys
<1>3. ASSUME NEW n \in Nat, n <= it.max
      PROVE  KeysOf(ItemsOf(E2, n)) = KeysOf(ItemsOf(E, n))
  <2>1. \A i \in 0 .. n - 1 : (E2[i] = Empty <=> E[i] = Empty) /\ E2[i].key = E[i].key
    BY <1>3 DEF SameKeys
  <2>2. KeysOf(ItemsOf(E2, n)) = {E2[i].key : i \in {j \in 0 .. n - 1 : E2[j] # Empty}}
    BY DEF KeysOf, ItemsOf
  <2>3. KeysOf(ItemsOf(E, n)) = {E[i].key : i \in {j \in 0 .. n - 1 : E[j] # Empty}}
    BY DEF KeysOf, ItemsOf
  <2> QED BY <2>1, <2>2, <2>3
<1>4. {E2[i].key : i \in AheadIn(E2, it2)} = {E[i].key : i \in AheadIn(E, it)}
  <2>1. \A i \in it.index .. it.max - 1 : i \in 0 .. it.max - 1
    OBVIOUS
  <2>2. AheadIn(E2, it2) = AheadIn(E, it)
    BY <1>1, <2>1 DEF AheadIn, SameKeys
  <2>3. \A i \in AheadIn(E, it) : E2[i].key = E[i].key
    BY <2>1 DEF AheadIn, SameKeys
  <2> QED BY <2>2, <2>3
<1>5. /\ KeysOf(ItemsOf(E2, it.max)) = KeysOf(ItemsOf(E, it.max))
      /\ KeysOf(ItemsOf(E2, it.index)) = KeysOf(ItemsOf(E, it.index))
  BY <1>3
<1> QED BY <1>1, <1>2, <1>4, <1>5 DEF Faithful

(* An item comes into an empty place, with a key that none had, and the    *)
(* iterator is told of the key.                                            *)
LEMMA FaithfulAdd ==
  ASSUME NEW E, NEW E2, NEW it, NEW it2, NEW sn, NEW at, NEW e, it.index \in Nat, it.max \in Nat,
         it.index <= it.max, Faithful(E, it, sn), at \in 0 .. it.max - 1,
         Changed(E, E2, it.max, at, e), E[at] = Empty, e # Empty,
         \A i \in 0 .. it.max - 1 : E[i] # Empty => E[i].key # e.key,
         Resumes(it2, it), e.key \in it2.known
  PROVE  Faithful(E2, it2, sn)
<1>1. /\ it2.index = it.index /\ it2.max = it.max /\ it2.first = it.first
      /\ it.known \subseteq it2.known
  BY DEF Resumes
<1>0. E2[at] = e /\ \A i \in 0 .. it.max - 1 : i # at => E2[i] = E[i]
  BY DEF Changed
<1>2. DistinctKeys(E2, it.max)
  BY <1>0 DEF Faithful, DistinctKeys
<1>3. ASSUME NEW n \in Nat, n <= it.max
      PROVE  /\ KeysOf(ItemsOf(E, n)) \subseteq KeysOf(ItemsOf(E2, n))
             /\ KeysOf(ItemsOf(E2, n)) \subseteq KeysOf(ItemsOf(E, n)) \cup {e.key}
  <2>1. \A i \in 0 .. n - 1 : i \in 0 .. it.max - 1
    BY <1>3
  <2>2. \A i \in 0 .. n - 1 : E[i] # Empty => E2[i] = E[i]
    BY <1>0, <2>1
  <2>3. \A i \in 0 .. n - 1 : E2[i] = E[i] \/ E2[i] = e
    BY <1>0, <2>1
  <2>4. ItemsOf(E, n) \subseteq ItemsOf(E2, n)
    BY <2>2 DEF ItemsOf
  <2>5. ItemsOf(E2, n) \subseteq ItemsOf(E, n) \cup {e}
    BY <2>3 DEF ItemsOf
  <2> QED BY <2>4, <2>5 DEF KeysOf
<1>4. {E[i].key : i \in AheadIn(E, it)} \subseteq {E2[i].key : i \in AheadIn(E2, it2)}
  <2>1. \A i \in AheadIn(E, it) : i \in 0 .. it.max - 1 /\ i # at /\ E[i] # Empty
    BY DEF AheadIn
  <2>2. \A i \in AheadIn(E, it) : E2[i] = E[i] /\ i \in AheadIn(E2, it2)
    BY <1>0, <1>1, <2>1 DEF AheadIn
  <2> QED BY <2>2
<1>5. /\ KeysOf(ItemsOf(E2, it.max)) \subseteq KeysOf(ItemsOf(E, it.max)) \cup {e.key}
      /\ KeysOf(ItemsOf(E, it.index)) \subseteq KeysOf(ItemsOf(E2, it.index))
  BY <1>3
<1> QED BY <1>1, <1>2, <1>4, <1>5 DEF Faithful

(* Counting an operation changes nothing else *)
CountedAs(it2, it) ==
  /\ it2 \in IterSet /\ Resumes(it2, it) /\ it2.known = it.known /\ it2.live = it.live
  /\ it2.old = it.old /\ it2.disturbed = it.disturbed
  /\ ~it.open => it2 = it

(* Counting an operation changes nothing else. *)
LEMMA CountedIs ==
  ASSUME NEW it \in IterSet
  PROVE  CountedAs(Counted(it), it)
<1>1. CASE it.open
  <2>1. Counted(it) = [it EXCEPT !.changes = it.changes + 1]
    BY <1>1 DEF Counted
  <2>2. it.changes + 1 \in Int
    BY DEF IterSet
  <2> QED BY <1>1, <2>1, <2>2 DEF CountedAs, Resumes, IterSet
<1>2. CASE ~it.open
  BY <1>2 DEF Counted, CountedAs, Resumes
<1> QED BY <1>1, <1>2

(* No iterator, and nothing seen, are typed. *)
LEMMA NoIteratorTyped == NoIterator \in IterSet /\ NoneSeen \in SeenSet
<1>1. NoData \in [0 .. 0 - 1 -> EntrySet]
  BY DEF NoData
<1>2. NoData \in UNION {[0 .. n - 1 -> EntrySet] : n \in Nat}
  BY <1>1
<1> QED BY <1>2 DEF NoIterator, NoneSeen, IterSet, SeenSet

-----------------------------------------------------------------------------
(* The array is replaced: the iterator keeps the old one.                  *)
LEMMA ReplaceIter ==
  ASSUME TableInv, IterInv, NEW t, NEW n, Replace(t, n), seen' = seen
  PROVE  IterInv'
<1> DEFINE it == IF iterator.live THEN [iterator EXCEPT !.live = FALSE, !.old = data]
                 ELSE iterator
<1>1. iterator \in IterSet /\ iterator' = Counted(it) /\ IterTyped
  BY DEF IterInv, IterTyped, Replace
<1>2. length \in Nat /\ data \in [0 .. length - 1 -> EntrySet]
  BY DEF TableInv, Shape
<1>3. data \in UNION {[0 .. m - 1 -> EntrySet] : m \in Nat}
  BY <1>2
<1>4. /\ it \in IterSet /\ ~it.live /\ it.old = Entries /\ Resumes(it, iterator)
      /\ it.known = iterator.known /\ it.disturbed = iterator.disturbed
      /\ ~iterator.open => it = iterator
  <2>1. CASE iterator.live
    <3>1. iterator.open
      BY <1>1, <2>1 DEF IterTyped, NoIterator
    <3> QED BY <1>1, <1>3, <2>1, <3>1 DEF IterSet, Entries, Resumes
  <2>2. CASE ~iterator.live
    BY <1>1, <2>2 DEF Entries, Resumes
  <2> QED BY <2>1, <2>2
<1> HIDE DEF it
<1>5. CountedAs(iterator', it)
  BY <1>1, <1>4, CountedIs
<1>6. /\ iterator' \in IterSet /\ ~iterator'.live /\ iterator'.old = Entries
      /\ Resumes(iterator', iterator)
      /\ iterator'.disturbed = iterator.disturbed
      /\ ~iterator.open => iterator' = iterator
  BY <1>4, <1>5 DEF CountedAs, Resumes
<1>7. Entries' = Entries
  BY <1>6 DEF Entries
<1>8. \A i \in 0 .. iterator.max - 1 : Entries[i] \in EntrySet
  <2>1. CASE iterator.live
    <3>1. iterator.max \in Nat /\ iterator.max <= length
      BY <1>1, <2>1 DEF IterTyped, IterSet
    <3> QED BY <1>2, <2>1, <3>1 DEF Entries
  <2>2. CASE ~iterator.live
    BY <1>1, <2>2 DEF IterTyped, Entries
  <2> QED BY <2>1, <2>2
<1>9. IterTyped'
  BY <1>1, <1>6, <1>8 DEF IterTyped, Resumes
<1>10. ASSUME ~iterator'.disturbed PROVE Faithful(Entries, iterator', seen)
  <2>1. Faithful(Entries, iterator, seen)
    BY <1>6, <1>10 DEF IterInv
  <2>2. iterator.index \in Nat /\ iterator.max \in Nat /\ iterator.index <= iterator.max
    BY <1>1 DEF IterTyped, IterSet
  <2>3. SameKeys(Entries, Entries, iterator.max)
    BY DEF SameKeys
  <2> QED BY <1>6, <2>1, <2>2, <2>3, FaithfulKept
<1> QED BY <1>6, <1>7, <1>9, <1>10 DEF IterInv
(* The array is kept, or changed in place: only an iterator that is still  *)
(* over it can notice.                                                     *)
LEMMA KeptIter ==
  ASSUME IterInv, seen' = seen, length' = length, iterator' \in IterSet,
         Resumes(iterator', iterator), iterator'.live = iterator.live,
         iterator'.old = iterator.old, ~iterator.open => iterator' = iterator,
         iterator.disturbed => iterator'.disturbed,
         ~iterator'.disturbed /\ iterator.live =>
           Faithful(data', iterator', seen) /\ WithinItems(iterator.max)'
  PROVE  IterInv'
<1>1. IterTyped /\ iterator \in IterSet
  BY DEF IterInv, IterTyped
<1>2. iterator.index \in Nat /\ iterator.max \in Nat /\ iterator.index <= iterator.max
  BY <1>1 DEF IterTyped, IterSet
<1>3. IterTyped'
  BY <1>1 DEF IterTyped, Resumes
<1>4. CASE iterator'.live
  <2>1. Entries' = data'
    BY <1>4 DEF Entries
  <2> QED BY <1>3, <1>4, <2>1 DEF IterInv
<1>5. CASE ~iterator'.live
  <2>1. Entries' = Entries
    BY <1>5 DEF Entries
  <2>2. ASSUME ~iterator'.disturbed PROVE Faithful(Entries, iterator', seen)
    <3>1. Faithful(Entries, iterator, seen)
      BY <2>2 DEF IterInv
    <3>2. SameKeys(Entries, Entries, iterator.max)
      BY DEF SameKeys
    <3> QED BY <1>2, <3>1, <3>2, FaithfulKept
  <2> QED BY <1>3, <1>5, <2>1, <2>2 DEF IterInv
<1> QED BY <1>4, <1>5

(* A step that touches neither the array nor the iterator keeps all this. *)
LEMMA StillIter ==
  ASSUME IterInv, UNCHANGED <<kind, hash, tableVars, iterVars>>
  PROVE  IterInv'
<1>1. /\ kind' = kind /\ data' = data /\ length' = length /\ size' = size
      /\ iterator' = iterator /\ seen' = seen
  BY DEF tableVars, iterVars
<1>2. Entries' = Entries /\ (WithinItems(iterator.max)' <=> WithinItems(iterator.max))
  BY <1>1 DEF Entries, WithinItems
<1> QED BY <1>1, <1>2 DEF IterInv, IterTyped

(* An iterator over the present array is open. *)
LEMMA OpenWhenLive == ASSUME IterInv, iterator.live PROVE iterator.open
BY DEF IterInv, IterTyped, NoIterator

(* So does a counted operation that keeps the keys in their places. *)
LEMMA CountedIter ==
  ASSUME IterInv, iterator' = Counted(iterator), seen' = seen, length' = length, size' = size,
         kind' = kind, iterator.live => SameKeys(data, data', length), length \in Nat, size \in Nat
  PROVE  IterInv'
<1>1. CountedAs(iterator', iterator) /\ iterator \in IterSet
  BY CountedIs DEF IterInv, IterTyped
<1>2. iterator.index \in Nat /\ iterator.max \in Nat /\ iterator.index <= iterator.max
  BY DEF IterInv, IterTyped, IterSet
<1>3. ASSUME ~iterator'.disturbed, iterator.live
      PROVE  Faithful(data', iterator', seen) /\ WithinItems(iterator.max)'
  <2>1. Faithful(data, iterator, seen) /\ WithinItems(iterator.max) /\ iterator.max <= length
    BY <1>1, <1>3 DEF IterInv, IterTyped, CountedAs, Entries
  <2>2. SameKeys(data, data', iterator.max)
    BY <1>2, <1>3, <2>1 DEF SameKeys
  <2>3. Faithful(data', iterator', seen)
    BY <1>1, <1>2, <2>1, <2>2, FaithfulKept DEF CountedAs
  <2>4. \A i \in size .. length - 1 : i \in 0 .. length - 1
    OBVIOUS
  <2>5. \A i \in size .. length - 1 : data[i] = Empty => data'[i] = Empty
    BY <1>3, <2>4 DEF SameKeys
  <2>6. iterator'.max = iterator.max
    BY <1>1 DEF CountedAs, Resumes
  <2>7. WithinItems(iterator.max)'
    BY <2>1, <2>5, <2>6 DEF WithinItems
  <2> QED BY <2>3, <2>7
<1> QED BY <1>1, <1>3, KeptIter DEF CountedAs

(* Overwriting keeps the keys. *)
LEMMA OverwriteIter ==
  ASSUME TableInv, IterInv, NEW k \in Key, NEW v \in Value, Overwrite(k, v)
  PROVE  IterInv'
<1>1. /\ kind' = kind /\ length' = length /\ size' = size /\ seen' = seen
      /\ iterator' = Counted(iterator) /\ Contains(k)
      /\ data' = data \/ data' = [data EXCEPT ![Find(k)] = Entry(k, v)]
  BY DEF Overwrite
<1>2. length \in Nat /\ size \in Nat /\ data \in [0 .. length - 1 -> EntrySet]
  BY DEF TableInv, Shape
<1>3. Find(k) \in 0 .. length - 1 /\ data[Find(k)].key = k
  BY <1>1, FindFacts
<1>4. Entry(k, v) # Empty /\ Entry(k, v).key = k /\ data[Find(k)] # Empty
  BY <1>3, EntryTyped, TableAssumption DEF Empty
<1>5. SameKeys(data, data', length)
  <2>1. CASE data' = data
    BY <2>1 DEF SameKeys
  <2>2. CASE data' = [data EXCEPT ![Find(k)] = Entry(k, v)]
    BY <1>2, <1>3, <1>4, <2>2 DEF SameKeys
  <2> QED BY <1>1, <2>1, <2>2
<1> QED BY <1>1, <1>2, <1>5, CountedIter

(* A key comes into an empty place, or into one beyond what the iterator   *)
(* looks at, and the iterator is told.                                     *)
LEMMA LearnIter ==
  ASSUME IterInv, NEW k \in Key, NEW e, NEW at, e # Empty, e.key = k, length \in Nat,
         data \in [0 .. length - 1 -> EntrySet], at \in 0 .. length - 1,
         data' = [data EXCEPT ![at] = e],
         Learn(k), seen' = seen, length' = length,
         ~iterator.disturbed /\ iterator.live =>
           /\ WithinItems(iterator.max)'
           /\ at < iterator.max =>
                /\ data[at] = Empty
                /\ \A i \in 0 .. iterator.max - 1 : data[i] # Empty => data[i].key # k
  PROVE  IterInv'
<1> DEFINE it == IF iterator.open THEN [iterator EXCEPT !.known = iterator.known \cup {k}]
                 ELSE iterator
<1>1. iterator \in IterSet /\ iterator' = Counted(it)
  BY DEF IterInv, IterTyped, Learn
<1>2. /\ it \in IterSet /\ Resumes(it, iterator) /\ it.live = iterator.live
      /\ it.old = iterator.old /\ it.disturbed = iterator.disturbed
      /\ ~iterator.open => it = iterator
      /\ iterator.open => k \in it.known
  BY <1>1 DEF IterSet, Resumes
<1> HIDE DEF it
<1>3. CountedAs(iterator', it)
  BY <1>1, <1>2, CountedIs
<1>4. /\ iterator' \in IterSet /\ Resumes(iterator', iterator) /\ iterator'.live = iterator.live
      /\ iterator'.old = iterator.old /\ iterator'.disturbed = iterator.disturbed
      /\ ~iterator.open => iterator' = iterator
      /\ iterator.open => k \in iterator'.known
      /\ iterator'.max = iterator.max
  BY <1>2, <1>3 DEF CountedAs, Resumes
<1>5. iterator.index \in Nat /\ iterator.max \in Nat /\ iterator.index <= iterator.max
  BY DEF IterInv, IterTyped, IterSet
<1>6. ASSUME ~iterator'.disturbed, iterator.live
      PROVE  Faithful(data', iterator', seen) /\ WithinItems(iterator.max)'
  <2>1. Faithful(data, iterator, seen) /\ iterator.max <= length
    BY <1>4, <1>6 DEF IterInv, IterTyped, Entries
  <2>2. WithinItems(iterator.max)'
    <3>1. WithinItems(iterator.max)'
      BY <1>4, <1>6
    <3> QED BY <3>1
  <2>3. CASE at < iterator.max
    <3>1. at \in 0 .. iterator.max - 1
      BY <1>5, <2>3
    <3>2. Changed(data, data', iterator.max, at, e)
      BY <1>5, <2>1 DEF Changed
    <3>3. data[at] = Empty /\ \A i \in 0 .. iterator.max - 1 : data[i] # Empty => data[i].key # k
      BY <1>4, <1>6, <2>3
    <3>4. k \in iterator'.known
      BY <1>4, <1>6, OpenWhenLive
    <3> QED BY <1>4, <1>5, <2>1, <2>2, <3>1, <3>2, <3>3, <3>4, FaithfulAdd
  <2>4. CASE ~(at < iterator.max)
    <3>1. SameKeys(data, data', iterator.max)
      BY <1>5, <2>1, <2>4 DEF SameKeys
    <3> QED BY <1>4, <1>5, <2>1, <2>2, <3>1, FaithfulKept
  <2> QED BY <2>3, <2>4
<1> QED BY <1>4, <1>6, KeptIter

(* The place after the last item is empty or not looked at. *)
LEMMA InsertLastIter ==
  ASSUME TableInv, IterInv, NEW k \in Key, NEW v \in Value, InsertLast(k, v)
  PROVE  IterInv'
<1>1. /\ kind' = kind /\ length' = length /\ size' = size + 1 /\ seen' = seen
      /\ data' = [data EXCEPT ![size] = Entry(k, v)] /\ length = Small /\ size < Small
      /\ Learn(k) /\ ~Contains(k)
  BY DEF InsertLast
<1>2. /\ length \in Nat /\ size \in Nat /\ data \in [0 .. length - 1 -> EntrySet]
      /\ kind \in {"map", "set"}
  BY DEF TableInv, Shape
<1>3. size \in 0 .. length - 1 /\ Entry(k, v) # Empty /\ Entry(k, v).key = k
  BY <1>1, <1>2, EntryTyped
<1>4. \A i \in 0 .. size - 1 : data[i].key # k
  <2>1. Find(k) = -1
    BY <1>1, FindFacts
  <2> QED BY <1>1, <2>1, FindList
<1>5. iterator.max \in Nat
  BY DEF IterInv, IterTyped, IterSet
<1>6. ASSUME ~iterator.disturbed, iterator.live
      PROVE  /\ WithinItems(iterator.max)'
             /\ size < iterator.max =>
                  /\ data[size] = Empty
                  /\ \A i \in 0 .. iterator.max - 1 : data[i] # Empty => data[i].key # k
  <2>1. WithinItems(iterator.max) /\ iterator.max <= length
    BY <1>6 DEF IterInv, IterTyped
  <2>2. iterator'.max = iterator.max
    <3>1. iterator \in IterSet
      BY DEF IterInv, IterTyped
    <3> QED BY <1>1, <3>1 DEF Learn, Counted, IterSet
  <2>3. CASE kind = "map"
    <3>1. iterator.max <= size
      BY <1>1, <2>1, <2>3 DEF WithinItems
    <3>2. iterator'.max <= size'
      BY <1>1, <1>2, <1>5, <2>2, <3>1
    <3> QED BY <1>1, <1>2, <1>5, <2>3, <3>1, <3>2 DEF WithinItems
  <2>4. CASE kind = "set"
    <3>1. \A i \in size .. length - 1 : data[i] = Empty
      BY <1>1, <2>1, <2>4 DEF WithinItems
    <3>2. \A i \in size + 1 .. length - 1 : data'[i] = Empty
      BY <1>1, <1>2, <3>1
    <3>3. \A i \in 0 .. iterator.max - 1 : i \in 0 .. size - 1 \/ i \in size .. length - 1
      BY <1>2, <1>5, <2>1
    <3>4. WithinItems(iterator.max)'
      BY <1>1, <2>4, <3>2 DEF WithinItems
    <3> QED BY <1>3, <1>4, <3>1, <3>3, <3>4
  <2> QED BY <1>2, <2>3, <2>4
<1> QED BY <1>1, <1>2, <1>3, <1>6, LearnIter

(* A probed insertion goes to an empty place. *)
LEMMA InsertProbedIter ==
  ASSUME TableInv, IterInv, NEW k \in Key, NEW v \in Value, InsertProbed(k, v)
  PROVE  IterInv'
<1> DEFINE at == At(hash, k, FirstOf(StopsAt(hash, data, length, k)), length)
<1>1. /\ length' = length /\ length > Small /\ ~Contains(k) /\ seen' = seen
      /\ StopsAt(hash, data, length, k) # {} /\ Learn(k)
      /\ data' = [data EXCEPT ![at] = Entry(k, v)]
  BY StopsIs, PlaceIsAt DEF InsertProbed
<1>2. /\ length \in Nat \ {0} /\ hash \in [Key -> Nat] /\ Small \in Nat
      /\ data \in [0 .. length - 1 -> EntrySet]
  BY <1>1, TableAssumption DEF TableInv, Shape
<1>3. k \notin KeysOf(ItemsOf(data, length))
  BY <1>1, ContainsIs DEF Items, Bound
<1>4. /\ at \in 0 .. length - 1 /\ data[at] = Empty
      /\ \A i \in 0 .. length - 1 : data[i] # Empty => data[i].key # k
  BY <1>1, <1>2, <1>3, StopIsEmpty
<1> HIDE DEF at
<1>5. Entry(k, v) # Empty /\ Entry(k, v).key = k
  BY EntryTyped
<1>6. ~(length' = Small)
  BY <1>1, <1>2
<1>7. iterator.max \in Nat
  BY DEF IterInv, IterTyped, IterSet
<1>8. ASSUME iterator.live
      PROVE  \A i \in 0 .. iterator.max - 1 : data[i] # Empty => data[i].key # k
  <2>1. iterator.max <= length
    BY <1>8 DEF IterInv, IterTyped
  <2> QED BY <1>2, <1>4, <1>7, <2>1
<1>9. WithinItems(iterator.max)'
  BY <1>6 DEF WithinItems
<1> QED BY <1>1, <1>2, <1>4, <1>5, <1>8, <1>9, LearnIter
(* A removal disturbs the iterator or does nothing. *)
LEMMA RemoveIter ==
  ASSUME TableInv, IterInv, NEW k \in Key, Remove(k)
  PROVE  IterInv'
<1>1. kind' = kind /\ length' = length /\ seen' = seen
  BY DEF Remove
<1>2. CASE ~(length = Small /\ Contains(k))
  <2>1. data' = data /\ size' = size /\ iterator' = Counted(iterator)
    BY <1>2 DEF Remove
  <2>2. SameKeys(data, data', length) /\ length \in Nat /\ size \in Nat
    BY <2>1 DEF SameKeys, TableInv, Shape
  <2> QED BY <1>1, <2>1, <2>2, CountedIter
<1>3. CASE length = Small /\ Contains(k)
  <2> DEFINE it == [iterator EXCEPT !.disturbed = iterator.disturbed \/ iterator.live]
  <2>1. iterator' = Counted(it) /\ iterator \in IterSet
    BY <1>3 DEF Remove, IterInv, IterTyped
  <2>2. /\ it \in IterSet /\ Resumes(it, iterator) /\ it.live = iterator.live
        /\ it.old = iterator.old
        /\ iterator.disturbed \/ iterator.live => it.disturbed
    BY <2>1 DEF IterSet, Resumes
  <2>3. ~iterator.open => it = iterator
    <3> SUFFICES ASSUME ~iterator.open PROVE it = iterator
      OBVIOUS
    <3>1. iterator = NoIterator
      BY DEF IterInv, IterTyped
    <3>2. (iterator.disturbed \/ iterator.live) = FALSE
      BY <3>1 DEF NoIterator
    <3>3. it = [NoIterator EXCEPT !.disturbed = FALSE]
      BY <3>1, <3>2
    <3>4. [NoIterator EXCEPT !.disturbed = FALSE] = NoIterator
      <4>1. NoIterator \in IterSet /\ NoIterator.disturbed = FALSE
        BY NoIteratorTyped DEF NoIterator
      <4> QED BY <4>1 DEF IterSet
    <3> QED BY <3>1, <3>3, <3>4
  <2> HIDE DEF it
  <2>4. CountedAs(iterator', it)
    BY <2>1, <2>2, CountedIs
  <2>5. /\ iterator' \in IterSet /\ Resumes(iterator', iterator) /\ iterator'.live = iterator.live
        /\ iterator'.old = iterator.old
        /\ ~iterator.open => iterator' = iterator
        /\ iterator.disturbed \/ iterator.live => iterator'.disturbed
    BY <2>2, <2>3, <2>4 DEF CountedAs, Resumes
  <2> QED BY <1>1, <2>5, KeptIter
<1> QED BY <1>2, <1>3

(* A new iterator *)
LEMMA IterateIter ==
  ASSUME TableInv, IterInv, Iterate
  PROVE  IterInv'
<1> DEFINE max == IF kind = "map" /\ length <= Small THEN size ELSE length
           dist == kind = "set" /\ length = Small /\ \E i \in size .. length - 1 : data[i] # Empty
<1>1. /\ kind' = kind /\ data' = data /\ length' = length /\ size' = size /\ seen' = seen
      /\ ~iterator.open
      /\ iterator' = [NoIterator EXCEPT !.open = TRUE, !.live = TRUE, !.first = Keys,
                                         !.known = Keys, !.max = max, !.disturbed = dist]
  BY DEF Iterate, tableVars
<1>2. /\ length \in Nat /\ size \in Nat /\ (length <= Small => size <= length)
      /\ length = 0 \/ length = Small \/ length > Small
      /\ length = 0 => size = 0
      /\ data \in [0 .. length - 1 -> EntrySet] /\ kind \in {"map", "set"}
      /\ Small \in Nat \ {0}
  BY TableAssumption DEF TableInv, Shape
<1>3. /\ max \in Nat /\ max <= length /\ dist \in BOOLEAN /\ Bound <= max
  BY <1>2 DEF Bound
<1>4. seen = NoneSeen
  BY <1>1 DEF IterInv, IterTyped
<1>5. Keys = KeysOf(Items)
  <2>1. KeysOf(Items) \subseteq Key
    BY BoundFacts, ItemsFacts DEF Items
  <2> QED BY <2>1, ContainsIs DEF Keys
<1>6. ~dist => ItemsOf(data, max) = Items
  <2> SUFFICES ASSUME ~dist PROVE ItemsOf(data, max) = ItemsOf(data, Bound)
    BY DEF Items
  <2>1. CASE max = Bound
    BY <2>1
  <2>2. CASE max # Bound
    <3>1. kind = "set" /\ length = Small /\ max = length /\ Bound = size
      BY <1>2, <2>2 DEF Bound
    <3>2. \A i \in size .. length - 1 : data[i] = Empty
      BY <3>1
    <3>3. \A i \in 0 .. max - 1 : i \in 0 .. Bound - 1 \/ data[i] = Empty
      BY <1>2, <3>1, <3>2
    <3>4. \A i \in 0 .. Bound - 1 : i \in 0 .. max - 1
      BY <1>2, <3>1
    <3> HIDE DEF max
    <3> QED BY <3>3, <3>4 DEF ItemsOf
  <2> QED BY <2>1, <2>2
<1>7. ~dist => DistinctKeys(data, max)
  <2> SUFFICES ASSUME ~dist PROVE DistinctKeys(data, max)
    OBVIOUS
  <2>1. DistinctKeys(data, Bound)
    BY BoundFacts
  <2>2. CASE max = Bound
    BY <2>1, <2>2
  <2>3. CASE max # Bound
    <3>1. kind = "set" /\ length = Small /\ max = length /\ Bound = size
      BY <1>2, <2>3 DEF Bound
    <3>2. \A i \in size .. length - 1 : data[i] = Empty
      BY <3>1
    <3>3. \A i \in 0 .. max - 1 : i \in 0 .. Bound - 1 \/ data[i] = Empty
      BY <1>2, <3>1, <3>2
    <3> HIDE DEF max
    <3> QED BY <2>1, <3>3 DEF DistinctKeys
  <2> QED BY <2>2, <2>3
<1>8. ~dist => WithinItems(max)
  BY <1>2 DEF WithinItems
<1> HIDE DEF max, dist
<1>9. iterator' = [open |-> TRUE, old |-> NoData, live |-> TRUE, index |-> 0, max |-> max,
                   first |-> Keys, known |-> Keys, disturbed |-> dist, changes |-> 0]
  BY <1>1 DEF NoIterator
<1>10. IterTyped'
  <2>1. NoData \in UNION {[0 .. m - 1 -> EntrySet] : m \in Nat}
    BY NoIteratorTyped DEF NoIterator, IterSet
  <2>2. Keys \subseteq Key
    BY DEF Keys
  <2>3. seen' \in SeenSet
    BY <1>1, <1>4, NoIteratorTyped
  <2>4. iterator' \in IterSet
    BY <1>3, <1>9, <2>1, <2>2 DEF IterSet
  <2>5. /\ iterator'.open /\ iterator'.live /\ iterator'.index = 0 /\ iterator'.max = max
    BY <1>9
  <2>6. 0 <= max /\ max <= length'
    BY <1>1, <1>3
  <2> QED BY <2>3, <2>4, <2>5, <2>6 DEF IterTyped
<1>11. ASSUME ~dist PROVE Faithful(data, iterator', seen)
  <2>1. ItemsOf(data, 0) = {}
    BY NoItems
  <2>2. {data[i].key : i \in AheadIn(data, iterator')} = KeysOf(ItemsOf(data, max))
    <3>1. AheadIn(data, iterator') = {i \in 0 .. max - 1 : data[i] # Empty}
      BY <1>9 DEF AheadIn
    <3> QED BY <3>1 DEF KeysOf, ItemsOf
  <2> QED BY <1>4, <1>5, <1>6, <1>7, <1>9, <1>11, <2>1, <2>2 DEF Faithful, NoneSeen
<1>12. Entries' = data
  BY <1>1, <1>9 DEF Entries
<1>13. ~dist => WithinItems(iterator.max)'
  BY <1>1, <1>8, <1>9 DEF WithinItems
<1> QED BY <1>1, <1>9, <1>10, <1>11, <1>12, <1>13 DEF IterInv

(* It goes to the next item *)
LEMMA NextItemIter ==
  ASSUME TableInv, IterInv, NextItem
  PROVE  IterInv'
<1>1. /\ kind' = kind /\ data' = data /\ length' = length /\ size' = size
      /\ iterator.open
  BY DEF NextItem, tableVars
<1>2. iterator \in IterSet /\ seen \in SeenSet /\ IterTyped
  BY DEF IterInv, IterTyped
<1>3. CASE Ahead = {}
  <2>1. iterator' = NoIterator /\ seen' = NoneSeen
    BY <1>3 DEF NextItem
  <2>2. IterTyped'
    BY <2>1, NoIteratorTyped DEF IterTyped, NoIterator
  <2>3. Faithful(Entries', iterator', seen')
    BY <2>1, NoItems DEF Faithful, NoIterator, NoneSeen, DistinctKeys, KeysOf
  <2> QED BY <2>1, <2>2, <2>3 DEF IterInv, NoIterator
<1>4. CASE Ahead # {}
  <2> DEFINE i == FirstOf(Ahead)
             k == Entries[i].key
             E == Entries
  <2>1. /\ iterator' = [iterator EXCEPT !.index = i + 1]
        /\ seen' = [keys |-> seen.keys \cup {k}, again |-> seen.again \/ k \in seen.keys]
    BY <1>4 DEF NextItem
  <2>2. iterator.index \in Nat /\ iterator.max \in Nat /\ iterator.index <= iterator.max
    BY <1>2 DEF IterTyped, IterSet
  <2>3. Ahead \in SUBSET Nat /\ Ahead = AheadIn(E, iterator)
    BY <2>2 DEF Ahead, AheadIn
  <2>4. i \in Ahead /\ \A m \in Ahead : i <= m
    <3>1. \E n \in Ahead : \A m \in Ahead : n <= m
      BY <1>4, <2>3, LeastElement
    <3> QED BY <3>1 DEF FirstOf
  <2> HIDE DEF i
  <2>5. i \in iterator.index .. iterator.max - 1 /\ E[i] # Empty
    BY <2>4 DEF Ahead
  <2>6. i \in Nat /\ iterator.index <= i /\ i < iterator.max /\ i \in 0 .. iterator.max - 1
    BY <2>2, <2>5
  <2>7. E[i] \in EntrySet
    <3>1. CASE iterator.live
      <4>1. iterator.max <= length /\ length \in Nat /\ data \in [0 .. length - 1 -> EntrySet]
        BY <1>2, <3>1 DEF IterTyped, TableInv, Shape
      <4> QED BY <2>2, <2>6, <3>1, <4>1 DEF Entries
    <3>2. CASE ~iterator.live
      BY <1>2, <2>6, <3>2 DEF Entries, IterTyped
    <3> QED BY <3>1, <3>2
  <2>8. k \in Key
    BY <2>5, <2>7, EntryFacts
  <2>9. /\ iterator' \in IterSet /\ iterator'.index = i + 1 /\ iterator'.max = iterator.max
        /\ iterator'.open /\ iterator'.live = iterator.live /\ iterator'.old = iterator.old
        /\ iterator'.first = iterator.first /\ iterator'.known = iterator.known
        /\ iterator'.disturbed = iterator.disturbed
    BY <1>1, <1>2, <2>1, <2>6 DEF IterSet
  <2>10. seen' \in SeenSet
    BY <1>2, <2>1, <2>8 DEF SeenSet
  <2>11. IterTyped'
    BY <1>1, <1>2, <2>2, <2>6, <2>9, <2>10 DEF IterTyped
  <2>12. Entries' = E
    BY <1>1, <2>9 DEF Entries
  <2>13. ASSUME ~iterator.disturbed PROVE Faithful(E, iterator', seen')
    <3>1. Faithful(E, iterator, seen)
      BY <2>13 DEF IterInv
    <3> HIDE DEF E
    <3>2. k \notin seen.keys
      <4> SUFFICES ASSUME k \in seen.keys PROVE FALSE
        OBVIOUS
      <4>1. k \in KeysOf(ItemsOf(E, iterator.index))
        BY <3>1 DEF Faithful
      <4>2. PICK x \in ItemsOf(E, iterator.index) : x.key = k
        BY <4>1 DEF KeysOf
      <4>3. PICK j \in 0 .. iterator.index - 1 : E[j] = x /\ E[j] # Empty
        BY DEF ItemsOf
      <4>4. j \in 0 .. iterator.max - 1 /\ j # i
        BY <2>2, <2>6
      <4>5. E[j].key = E[i].key
        BY <4>2, <4>3 DEF E
      <4> QED BY <2>5, <2>6, <3>1, <4>3, <4>4, <4>5 DEF Faithful, DistinctKeys
    <3>3. k \in KeysOf(ItemsOf(E, i + 1)) /\ k \in KeysOf(ItemsOf(E, iterator.max))
      <4>1. i \in 0 .. (i + 1) - 1
        BY <2>6
      <4>2. E[i] \in ItemsOf(E, i + 1) /\ E[i] \in ItemsOf(E, iterator.max)
        BY <2>5, <2>6, <4>1 DEF ItemsOf
      <4> QED BY <4>2 DEF KeysOf, E
    <3>4. KeysOf(ItemsOf(E, iterator.index)) \subseteq KeysOf(ItemsOf(E, i + 1))
      <4>1. \A j \in 0 .. iterator.index - 1 : j \in 0 .. (i + 1) - 1
        BY <2>2, <2>6
      <4>2. ItemsOf(E, iterator.index) \subseteq ItemsOf(E, i + 1)
        BY <4>1 DEF ItemsOf
      <4> QED BY <4>2 DEF KeysOf
    <3>5. ASSUME NEW q \in {E[m].key : m \in AheadIn(E, iterator)}
          PROVE  q = k \/ q \in {E[m].key : m \in AheadIn(E, iterator')}
      <4>1. PICK m \in AheadIn(E, iterator) : E[m].key = q
        OBVIOUS
      <4>2. CASE m = i
        BY <4>1, <4>2 DEF E
      <4>3. CASE m # i
        <5>1. i <= m /\ m \in Nat /\ m \in iterator.index .. iterator.max - 1 /\ E[m] # Empty
          BY <2>2, <2>3, <2>4 DEF AheadIn, E
        <5>2. m \in i + 1 .. iterator.max - 1
          BY <2>2, <2>6, <4>3, <5>1
        <5>3. m \in AheadIn(E, iterator')
          BY <2>9, <5>1, <5>2 DEF AheadIn
        <5> QED BY <4>1, <5>3
      <4> QED BY <4>2, <4>3
    <3> HIDE DEF k
    <3>6. seen'.keys = seen.keys \cup {k} /\ seen'.again = (seen.again \/ k \in seen.keys)
      BY <2>1
    <3> QED BY <2>9, <3>1, <3>2, <3>3, <3>4, <3>5, <3>6 DEF Faithful
  <2>14. WithinItems(iterator.max)' <=> WithinItems(iterator.max)
    BY <1>1, <2>9 DEF WithinItems
  <2> QED BY <2>9, <2>11, <2>12, <2>13, <2>14 DEF IterInv
<1> QED BY <1>3, <1>4

-----------------------------------------------------------------------------
(* In the beginning there is no iterator. *)
LEMMA InitIter == Init => IterInv
<1> SUFFICES ASSUME Init PROVE IterInv
  OBVIOUS
<1>1. iterator = NoIterator /\ seen = NoneSeen
  BY DEF Init
<1>2. IterTyped
  BY <1>1, NoIteratorTyped DEF IterTyped, NoIterator
<1>3. Faithful(Entries, iterator, seen)
  BY <1>1, NoItems DEF Faithful, NoIterator, NoneSeen, DistinctKeys, KeysOf
<1> QED BY <1>1, <1>2, <1>3 DEF IterInv, NoIterator

(* Every step keeps what is known of the iterator. *)
LEMMA NextIter == HashInv /\ IterInv /\ [Next]_vars => IterInv'
<1> SUFFICES ASSUME HashInv, IterInv, [Next]_vars PROVE IterInv'
  OBVIOUS
<1>0. TableInv
  BY DEF HashInv
<1>1. ASSUME NEW k \in Key, NEW v \in Given[k], Overwrite(k, v) PROVE IterInv'
  BY <1>0, <1>1, GivenValue, OverwriteIter
<1>2. ASSUME NEW k \in Key, NEW v \in Given[k], InsertFirst(k, v) PROVE IterInv'
  BY <1>0, <1>2, ReplaceIter DEF InsertFirst
<1>3. ASSUME NEW k \in Key, NEW v \in Given[k], InsertLast(k, v) PROVE IterInv'
  BY <1>0, <1>3, GivenValue, InsertLastIter
<1>4. ASSUME NEW k \in Key, NEW v \in Given[k], InsertProbed(k, v) PROVE IterInv'
  BY <1>0, <1>4, GivenValue, InsertProbedIter
<1>5. ASSUME NEW k \in Key, NEW v \in Given[k], BeginGrowth(k, v) PROVE IterInv'
  BY <1>5, StillIter DEF BeginGrowth
<1>6. ASSUME NEW k \in Key, Remove(k) PROVE IterInv'
  BY <1>0, <1>6, RemoveIter
<1>7. ASSUME NEW k \in Key, Get(k) PROVE IterInv'
  BY <1>7, StillIter DEF Get
<1>8. CASE Clear
  BY <1>0, <1>8, ReplaceIter DEF Clear
<1>9. CASE RehashItem
  BY <1>9, StillIter DEF RehashItem
<1>10. CASE GrowFurther
  BY <1>10, StillIter DEF GrowFurther
<1>11. CASE EndGrowth
  <2>1. seen' = seen /\ \E t, n : Replace(t, n)
    BY <1>11 DEF EndGrowth
  <2> QED BY <1>0, <2>1, ReplaceIter
<1>12. CASE Iterate
  BY <1>0, <1>12, IterateIter
<1>13. CASE NextItem
  BY <1>0, <1>13, NextItemIter
<1>14. CASE UNCHANGED vars
  BY <1>14, StillIter DEF vars
<1> QED BY <1>1, <1>2, <1>3, <1>4, <1>5, <1>6, <1>7, <1>8, <1>9, <1>10, <1>11, <1>12,
           <1>13, <1>14 DEF Next, Change, Growth

(* An iterator (next() of HashMap and HashSet) that no removal disturbed   *)
(* returns no key twice, none that was never there, and all that were      *)
(* there when it was made, whatever insertions, growths and clear() do     *)
(* under it meanwhile.                                                     *)
THEOREM IteratorsAreFaithful == Spec => []IterationIsFaithful
<1>1. IterInv => IterationIsFaithful
  <2> SUFFICES ASSUME IterInv, ~iterator.disturbed
               PROVE  /\ ~seen.again /\ seen.keys \subseteq iterator.known
                      /\ iterator.first \subseteq seen.keys \cup {Entries[i].key : i \in Ahead}
    BY DEF IterationIsFaithful
  <2>1. Faithful(Entries, iterator, seen) /\ Ahead = AheadIn(Entries, iterator)
    BY DEF IterInv, Ahead, AheadIn
  <2> QED BY <2>1 DEF Faithful
<1> QED BY <1>1, InitInv, NextInv, InitIter, NextIter, PTL DEF Spec
=============================================================================

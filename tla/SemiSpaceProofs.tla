-------------------------- MODULE SemiSpaceProofs ---------------------------
(***************************************************************************)
(* For semispaces of every size, all roots and objects with any numbers of *)
(* fields: the collector keeps memory well formed, follows references to   *)
(* objects only, copies what is in reach and nothing else into the space   *)
(* there is, and is invisible to the program (it implements ObjectHeap).   *)
(*                                                                         *)
(* The parts: memory and its invariant HeapInv; the objects in reach, Live,*)
(* as a least set; steps of the collector as moves of objects; room in     *)
(* to-space (Fits); identities; the mapping to the ideal heap.             *)
(***************************************************************************)
EXTENDS SemiSpace, NaturalRecursion, TLAPS

(* Memory is well formed: every header that was ever written and not       *)
(* overwritten since stands before the cells of its fields, in its space,  *)
(* and one below p in to-space before cells below p.                       *)
CellsOK(m) ==
  /\ m = [c \in Cell |-> m[c]]
  /\ \A c \in Cell : /\ m[c].tag \in {"object", "moved", "field"}
                     /\ m[c].ref \in Nat /\ m[c].size \in Nat

SpaceEnd(c) == IF InFrom(c) THEN fromBegin + SpaceCells ELSE toEnd
Body(m, h)  == (h + 1)..(h + m[h].size - 1)

Tiled(m, p) ==
  \A h \in Cell : m[h].tag = "object" =>
    /\ m[h].size >= 1 /\ h + m[h].size <= SpaceEnd(h)
    /\ ~InFrom(h) /\ h < p => h + m[h].size <= p
    /\ \A f \in Body(m, h) : m[f].tag = "field"

(* S are objects of to-space, F those that from-space held when the        *)
(* collection began: the fields of S below k that were set lead to S, the  *)
(* others still to F, and what was moved out of F is in S.                 *)
Graph(m, p, u, k, S, F) ==
  /\ S \subseteq toBegin..(p - 1) /\ \A h \in S : m[h].tag = "object"
  /\ F \subseteq Cell
  /\ \A a \in F : /\ InFrom(a)
                  /\ \/ m[a].tag = "object"
                     \/ (m[a].tag = "moved" /\ m[a].ref \in S)
  /\ \A h \in S : \A f \in Body(m, h) \ u :
        m[f].ref \in {Null} \cup (IF f < k THEN S ELSE F)
  /\ \A h \in F : m[h].tag = "object" =>
        \A f \in Body(m, h) \ u : m[f].ref \in {Null} \cup F

(* S covers to-space as far as it is filled.                               *)
Covers(m, p, S) == \A c \in toBegin..(p - 1) : \E h \in S : c \in h..(h + m[h].size - 1)

-----------------------------------------------------------------------------
Placed == toBegin \in {1, SpaceCells + 1} /\ pos \in toBegin..toEnd

(* The two semispaces: a cell is in from-space or in to-space, and a block *)
(* of cells that ends before its space does stays in it.                   *)
LEMMA Sides ==
  ASSUME Placed
  PROVE  /\ toBegin \in Nat /\ toEnd \in Nat /\ fromBegin \in Nat /\ pos \in Nat
         /\ SpaceCells \in Nat /\ SpaceCells >= 1 /\ toBegin >= 1 /\ fromBegin >= 1
         /\ \A c \in Cell : c \in Nat /\ (InFrom(c) <=> ~ (toBegin <= c /\ c < toEnd))
         /\ \A c \in Nat : InFrom(c) => c \in Cell
         /\ \A c \in Nat : toBegin <= c /\ c < toEnd => c \in Cell /\ ~InFrom(c)
         /\ \A c \in Cell : SpaceEnd(c) \in Nat /\ SpaceEnd(c) <= 2 * SpaceCells + 1
         /\ \A c \in Cell, d \in Nat : c <= d /\ d < SpaceEnd(c) =>
              d \in Cell /\ (InFrom(d) <=> InFrom(c)) /\ SpaceEnd(d) = SpaceEnd(c)
         /\ ~InFrom(Null) /\ Null \notin Cell
BY SpaceAssumption DEF Placed, toEnd, fromBegin, InFrom, Cell, SpaceEnd, Null

(* What copying the object at a does to each cell: the copy holds what the *)
(* object held, the object's header becomes a forwarding pointer, and no   *)
(* other cell changes.                                                     *)
LEMMA CopiedCells ==
  ASSUME Placed, CellsOK(mem), Tiled(mem, pos), NEW a \in Nat, Unmoved(a),
         pos + mem[a].size <= toEnd
  PROVE  /\ a \in Cell /\ mem[a].size \in Nat /\ mem[a].size >= 1
         /\ a + mem[a].size <= fromBegin + SpaceCells
         /\ Copied(a) = [c \in Cell |-> Copied(a)[c]]
         /\ \A c \in Cell : c < pos \/ c >= pos + mem[a].size =>
              Copied(a)[c] = IF c = a THEN Moved(pos) ELSE mem[c]
         /\ Copied(a)[a] = Moved(pos)
         /\ \A i \in 0..(mem[a].size - 1) :
              /\ pos + i \in Cell /\ a + i \in Cell /\ ~InFrom(pos + i) /\ InFrom(a + i)
              /\ Copied(a)[pos + i] = mem[a + i]
<1>1. a \in Cell /\ mem[a].tag = "object" /\ InFrom(a)
  BY Sides DEF Unmoved
<1>2. mem[a].size \in Nat /\ mem[a].size >= 1 /\ a + mem[a].size <= fromBegin + SpaceCells
  BY <1>1 DEF CellsOK, Tiled, SpaceEnd
<1>3. Copied(a) = [c \in Cell |-> Copied(a)[c]]
  BY DEF Copied
<1>4. ASSUME NEW i \in 0..(mem[a].size - 1)
      PROVE  /\ pos + i \in Cell /\ a + i \in Cell /\ ~InFrom(pos + i) /\ InFrom(a + i)
             /\ Copied(a)[pos + i] = mem[a + i]
  <2>1. /\ pos + i \in Nat /\ toBegin <= pos + i /\ pos + i < toEnd
        /\ a + i \in Nat /\ fromBegin <= a + i /\ a + i < fromBegin + SpaceCells
    BY <1>1, <1>2, Sides DEF Placed, InFrom
  <2>2. pos + i \in Cell /\ a + i \in Cell /\ ~InFrom(pos + i) /\ InFrom(a + i)
    BY <2>1, Sides DEF InFrom
  <2>3. pos + i \in pos..(pos + mem[a].size - 1) /\ (pos + i) - pos + a = a + i
    BY <1>1, <1>2, Sides
  <2> QED BY <2>2, <2>3 DEF Copied
<1>5. ASSUME NEW c \in Cell, c < pos \/ c >= pos + mem[a].size
      PROVE  Copied(a)[c] = IF c = a THEN Moved(pos) ELSE mem[c]
  <2>1. c \notin pos..(pos + mem[a].size - 1)
    BY <1>2, <1>5, Sides
  <2> QED BY <2>1 DEF Copied
<1>6. a < pos \/ a >= pos + mem[a].size
  BY <1>1, <1>2, Sides DEF Placed
<1> QED BY <1>1, <1>2, <1>3, <1>4, <1>5, <1>6

(* Copying an object keeps memory well formed.                             *)
LEMMA CopyKeepsTiles ==
  ASSUME Placed, CellsOK(mem), Tiled(mem, pos), NEW a \in Nat, Unmoved(a),
         pos + mem[a].size <= toEnd
  PROVE  CellsOK(Copied(a)) /\ Tiled(Copied(a), pos + mem[a].size)
<1> DEFINE n == mem[a].size
           m2 == Copied(a)
<1>1. /\ a \in Cell /\ n \in Nat /\ n >= 1 /\ m2 = [c \in Cell |-> m2[c]]
      /\ a + n <= fromBegin + SpaceCells /\ InFrom(a) /\ mem[a].tag = "object"
  BY CopiedCells DEF Unmoved
<1>2. ASSUME NEW c \in Cell, c < pos \/ c >= pos + n
      PROVE  m2[c] = IF c = a THEN Moved(pos) ELSE mem[c]
  BY <1>2, CopiedCells
<1>3. ASSUME NEW i \in 0..(n - 1)
      PROVE  /\ pos + i \in Cell /\ a + i \in Cell /\ ~InFrom(pos + i) /\ InFrom(a + i)
             /\ m2[pos + i] = mem[a + i]
  BY CopiedCells
<1>4. ASSUME NEW c \in Cell, c >= pos, c < pos + n
      PROVE  c - pos \in 0..(n - 1) /\ pos + (c - pos) = c /\ a + (c - pos) \in Cell
             /\ m2[c] = mem[a + (c - pos)]
  <2>1. c - pos \in 0..(n - 1) /\ pos + (c - pos) = c
    BY <1>1, <1>4, Sides
  <2> HIDE DEF m2, n
  <2> QED BY <2>1, <1>3
<1>5. \A i \in 1..(n - 1) : mem[a + i].tag = "field"
  <2> SUFFICES ASSUME NEW i \in 1..(n - 1) PROVE mem[a + i].tag = "field"
    OBVIOUS
  <2>1. a + i \in Body(mem, a)
    BY <1>1, Sides DEF Body
  <2> QED BY <1>1, <2>1 DEF Tiled
<1>6. CellsOK(m2)
  <2> SUFFICES ASSUME NEW c \in Cell
               PROVE  /\ m2[c].tag \in {"object", "moved", "field"}
                      /\ m2[c].ref \in Nat /\ m2[c].size \in Nat
    <3> HIDE DEF m2
    <3> QED BY <1>1 DEF CellsOK
  <2> HIDE DEF m2, n
  <2>1. CASE c < pos \/ c >= pos + n
    BY <2>1, <1>2, Sides DEF CellsOK, Moved
  <2>2. CASE ~ (c < pos \/ c >= pos + n)
    <3>1. c >= pos /\ c < pos + n
      BY <2>2, <1>1, Sides
    <3>2. a + (c - pos) \in Cell /\ m2[c] = mem[a + (c - pos)]
      BY <3>1, <1>4
    <3> QED BY <3>2 DEF CellsOK
  <2> QED BY <2>1, <2>2
<1>7. ASSUME NEW h \in Cell, m2[h].tag = "object"
      PROVE  /\ m2[h].size >= 1 /\ h + m2[h].size <= SpaceEnd(h)
             /\ ~InFrom(h) /\ h < pos + n => h + m2[h].size <= pos + n
             /\ \A f \in Body(m2, h) : m2[f].tag = "field"
  <2> HIDE DEF m2, n
  <2>0. h \in Nat /\ pos \in Nat /\ SpaceEnd(h) \in Nat
    BY Sides
  <2>1. CASE h >= pos /\ h < pos + n
    <3>1. h - pos \in 0..(n - 1) /\ m2[h] = mem[a + (h - pos)]
      BY <2>1, <1>4
    <3>2. h = pos
      BY <3>1, <1>5, <1>7, <2>0, <1>1
    <3>3. m2[h] = mem[a]
      BY <3>1, <3>2, <1>1, Sides
    <3>4. ~InFrom(h) /\ SpaceEnd(h) = toEnd
      <4>1. 0 \in 0..(n - 1) /\ pos + 0 = pos BY <1>1, <2>0
      <4> QED BY <1>3, <3>2, <4>1 DEF SpaceEnd
    <3>5. m2[h].size = n BY <3>3 DEF n
    <3>6. ASSUME NEW f \in Body(m2, h) PROVE m2[f].tag = "field"
      <4>1. f \in (pos + 1)..(pos + n - 1)
        BY <3>2, <3>5 DEF Body
      <4>2. f - pos \in 1..(n - 1) /\ f - pos \in 0..(n - 1) /\ pos + (f - pos) = f
        BY <4>1, <2>0, <1>1
      <4>3. m2[f] = mem[a + (f - pos)]
        BY <4>2, <1>3
      <4> QED BY <4>2, <4>3, <1>5
    <3> QED BY <3>2, <3>4, <3>5, <3>6, <1>1, <2>0 DEF n
  <2>2. CASE h < pos \/ h >= pos + n
    <3>1. h # a /\ m2[h] = mem[h]
      BY <2>2, <1>2, <1>7 DEF Moved
    <3>2. /\ mem[h].size >= 1 /\ h + mem[h].size <= SpaceEnd(h) /\ mem[h].size \in Nat
          /\ ~InFrom(h) /\ h < pos => h + mem[h].size <= pos
          /\ \A f \in Body(mem, h) : mem[f].tag = "field"
      BY <3>1, <1>7 DEF Tiled, CellsOK
    <3>3. ~InFrom(h) /\ h < pos + n => h + mem[h].size <= pos + n
      BY <2>2, <3>2, <2>0, <1>1
    <3>4. ASSUME NEW f \in Body(m2, h) PROVE m2[f].tag = "field"
      <4>1. f \in Body(mem, h) /\ mem[f].tag = "field"
        BY <3>1, <3>2 DEF Body
      <4>2. f \in Nat /\ h <= f /\ f < h + mem[h].size /\ f < SpaceEnd(h)
        BY <4>1, <3>2, <2>0 DEF Body
      <4>3. f \in Cell /\ (InFrom(f) <=> InFrom(h))
        BY <4>2, Sides
      <4>4. f # a BY <4>1, <1>1
      <4>5. f < pos \/ f >= pos + n
        <5>1. CASE InFrom(h)
          <6>1. ~ (toBegin <= f /\ f < toEnd) BY <5>1, <4>3, Sides
          <6> QED BY <6>1, <2>0, <1>1, Sides, <4>2 DEF Placed, n
        <5>2. CASE ~InFrom(h) /\ h < pos
          BY <5>2, <3>2, <4>2, <2>0
        <5>3. CASE h >= pos + n
          BY <5>3, <4>2, <2>0, <1>1
        <5> QED BY <5>1, <5>2, <5>3, <2>2
      <4> QED BY <4>1, <4>3, <4>4, <4>5, <1>2
    <3> QED BY <3>1, <3>2, <3>3, <3>4
  <2> QED BY <2>1, <2>2, <2>0, <1>1
<1> QED
  <2> HIDE DEF m2, n
  <2>1. Tiled(m2, pos + n) BY <1>7 DEF Tiled
  <2> QED BY <2>1, <1>6 DEF m2, n

(* Copying an object carries the graph over: the object, if it is one of   *)
(* F, joins S with what is set of its fields.                              *)
LEMMA CopyKeepsGraph ==
  ASSUME Placed, CellsOK(mem), Tiled(mem, pos), NEW a \in Nat, Unmoved(a),
         pos + mem[a].size <= toEnd,
         NEW k \in Nat, k <= pos, NEW S, NEW F, Graph(mem, pos, unset, k, S, F)
  PROVE  Graph(Copied(a), PosAfter(a), UnsetAfter(a), k,
               IF a \in F THEN S \cup {pos} ELSE S, F)
<1> DEFINE n == mem[a].size
           m2 == Copied(a)
           u2 == UnsetAfter(a)
           S2 == IF a \in F THEN S \cup {pos} ELSE S
<1>1. /\ a \in Cell /\ n \in Nat /\ n >= 1 /\ PosAfter(a) = pos + n /\ pos \in Nat
      /\ InFrom(a) /\ mem[a].tag = "object" /\ toBegin \in Nat /\ toBegin <= pos
      /\ pos + n <= toEnd /\ toEnd \in Nat
  BY CopiedCells, Sides DEF Unmoved, PosAfter, Placed
<1>2. ASSUME NEW c \in Cell, c < pos \/ c >= pos + n
      PROVE  m2[c] = IF c = a THEN Moved(pos) ELSE mem[c]
  BY <1>2, CopiedCells
<1>3. ASSUME NEW i \in 0..(n - 1)
      PROVE  /\ pos + i \in Cell /\ a + i \in Cell /\ ~InFrom(pos + i) /\ InFrom(a + i)
             /\ m2[pos + i] = mem[a + i]
  BY CopiedCells
<1>4. u2 = (unset \ (pos..(pos + n - 1))) \cup {c - a + pos : c \in unset \cap FieldsOf(a)}
  BY DEF UnsetAfter
(* A cell outside of the copy keeps whether it was set. *)
<1>5. ASSUME NEW f \in Nat, f < pos \/ f >= pos + n PROVE f \in u2 <=> f \in unset
  <2>1. \A c \in FieldsOf(a) : c - a + pos \in pos..(pos + n - 1)
    BY <1>1, Sides DEF FieldsOf
  <2>2. f \notin pos..(pos + n - 1)
    BY <1>5, <1>1
  <2> HIDE DEF u2, n
  <2> QED BY <1>4, <2>1, <2>2
<1>6. ASSUME NEW i \in 1..(n - 1), pos + i \notin u2 PROVE a + i \notin unset
  <2>1. a + i \in FieldsOf(a) /\ (a + i) - a + pos = pos + i
    BY <1>1, Sides DEF FieldsOf
  <2> HIDE DEF u2, n
  <2> QED BY <1>4, <1>6, <2>1
(* The objects of S and F other than the copied one are as before. *)
<1>7. ASSUME NEW h \in Cell, h \in S \/ (h \in F /\ h # a /\ mem[h].tag = "object")
      PROVE  /\ m2[h] = mem[h] /\ mem[h].tag = "object"
             /\ \A f \in Body(m2, h) \ u2 :
                  f \in Body(mem, h) \ unset /\ m2[f] = mem[f]
  <2>0. h \in Nat /\ mem[h].tag = "object" /\ h # a /\ SpaceEnd(h) \in Nat
    <3>1. h \in S => ~InFrom(h)
      <4>1. h \in S => toBegin <= h /\ h < toEnd
        BY <1>1, Sides DEF Graph
      <4> QED BY <4>1, Sides
    <3> QED BY <1>7, <1>1, <3>1, Sides DEF Graph
  <2>1. h < pos \/ InFrom(h)
    BY <1>7, <1>1, Sides DEF Graph
  <2>2. /\ mem[h].size >= 1 /\ h + mem[h].size <= SpaceEnd(h) /\ mem[h].size \in Nat
        /\ ~InFrom(h) /\ h < pos => h + mem[h].size <= pos
        /\ \A f \in Body(mem, h) : mem[f].tag = "field"
    BY <2>0 DEF Tiled, CellsOK
  <2> HIDE DEF m2, n, u2
  <2>3. ASSUME NEW f \in Nat, h <= f, f < h + mem[h].size
        PROVE  f \in Cell /\ (f < pos \/ f >= pos + n)
    <3>1. f \in Cell /\ (InFrom(f) <=> InFrom(h))
      <4> f < SpaceEnd(h) BY <2>3, <2>2, <2>0
      <4> QED BY <2>3, Sides
    <3>2. CASE InFrom(h)
      <4>1. ~ (toBegin <= f /\ f < toEnd) BY <3>1, <3>2, Sides
      <4> QED BY <4>1, <1>1, <2>3, <3>1
    <3>3. CASE ~InFrom(h)
      BY <3>1, <3>3, <2>1, <2>2, <2>3, <2>0, <1>1
    <3> QED BY <3>2, <3>3
  <2>4. m2[h] = mem[h]
    <3> h <= h /\ h < h + mem[h].size BY <2>0, <2>2
    <3> QED BY <2>3, <2>0, <1>2
  <2>5. ASSUME NEW f \in Body(m2, h) \ u2
        PROVE  f \in Body(mem, h) \ unset /\ m2[f] = mem[f]
    <3>1. f \in Body(mem, h)
      BY <2>4, <2>5 DEF Body
    <3>2. f \in Nat /\ h <= f /\ f < h + mem[h].size
      BY <3>1, <2>0, <2>2 DEF Body
    <3>3. f \in Cell /\ (f < pos \/ f >= pos + n) /\ f # a
      <4> mem[f].tag # mem[a].tag BY <3>1, <2>2, <1>1
      <4> QED BY <3>2, <2>3
    <3> QED BY <3>1, <3>2, <3>3, <1>2, <1>5, <2>5
  <2> QED BY <2>0, <2>4, <2>5
<1>8. S2 \subseteq toBegin..(pos + n - 1) /\ S2 \subseteq Cell /\ F \subseteq Cell
  <2>1. S \subseteq toBegin..(pos + n - 1) /\ pos \in toBegin..(pos + n - 1)
    BY <1>1 DEF Graph
  <2>2. toBegin..(pos + n - 1) \subseteq Cell
    BY <1>1, Sides
  <2> QED BY <2>1, <2>2 DEF Graph
<1>9. a \in F => m2[pos] = mem[a] /\ m2[a] = Moved(pos)
  <2> 0 \in 0..(n - 1) /\ pos + 0 = pos /\ a + 0 = a BY <1>1, Sides
  <2> HIDE DEF m2, n
  <2>1. m2[pos] = mem[a] BY <1>3
  <2> QED BY <2>1, CopiedCells DEF m2, n
<1>10. ASSUME NEW h \in S2 PROVE m2[h].tag = "object"
  <2>0. h \in Cell /\ (h \in S \/ (a \in F /\ h = pos))
    BY <1>8
  <2> HIDE DEF m2, n, S2, u2
  <2>1. CASE h \in S BY <2>0, <2>1, <1>7
  <2>2. CASE a \in F /\ h = pos BY <2>2, <1>9, <1>1
  <2> QED BY <2>0, <2>1, <2>2
<1>11. \A x \in F : InFrom(x) /\ (m2[x].tag = "object" \/ (m2[x].tag = "moved" /\ m2[x].ref \in S2))
  <2> SUFFICES ASSUME NEW x \in F
               PROVE  m2[x].tag = "object" \/ (m2[x].tag = "moved" /\ m2[x].ref \in S2)
    BY DEF Graph
  <2>1. CASE x = a
    <3> m2[x] = Moved(pos) /\ pos \in S2 BY <1>9, <2>1
    <3> HIDE DEF m2, S2
    <3> QED BY DEF Moved
  <2>2. CASE x # a
    <3>1. x \in Cell /\ InFrom(x) BY DEF Graph
    <3>2. x < pos \/ x >= pos + n
      <4> ~ (toBegin <= x /\ x < toEnd) BY <3>1, Sides
      <4> QED BY <3>1, <1>1, Sides
    <3>3. m2[x] = mem[x] BY <1>2, <2>2, <3>1, <3>2
    <3>4. S \subseteq S2 OBVIOUS
    <3> HIDE DEF m2, S2
    <3> QED BY <3>3, <3>4 DEF Graph
  <2> QED BY <2>1, <2>2
<1>12. ASSUME NEW h \in S2, NEW f \in Body(m2, h) \ u2
       PROVE  m2[f].ref \in {Null} \cup (IF f < k THEN S2 ELSE F)
  <2>1. CASE h \in S
    <3>1. f \in Body(mem, h) \ unset /\ m2[f] = mem[f]
      <4>1. h \in Cell BY <1>8
      <4> HIDE DEF m2, u2, n, S2
      <4> QED BY <1>7, <4>1, <1>12, <2>1
    <3>2. mem[f].ref \in {Null} \cup (IF f < k THEN S ELSE F)
      BY <2>1, <3>1 DEF Graph
    <3>3. S \subseteq S2 OBVIOUS
    <3> HIDE DEF m2, u2, n, S2
    <3> QED BY <3>1, <3>2, <3>3
  <2>2. CASE a \in F /\ h = pos
    <3>1. m2[h].size = n BY <1>9, <2>2 DEF n
    <3> HIDE DEF m2, u2, n, S2
    <3>2. f \in (pos + 1)..(pos + n - 1) BY <3>1, <2>2, <1>12 DEF Body
    <3>3. f - pos \in 1..(n - 1) /\ f - pos \in 0..(n - 1) /\ pos + (f - pos) = f
      BY <3>2, <1>1
    <3>4. m2[f] = mem[a + (f - pos)] BY <3>3, <1>3
    <3>5. a + (f - pos) \notin unset BY <3>3, <1>6, <1>12
    <3>6. a + (f - pos) \in Body(mem, a) BY <3>3, <1>1, Sides DEF Body, n
    <3>7. mem[a + (f - pos)].ref \in {Null} \cup F
      BY <3>5, <3>6, <2>2, <1>1 DEF Graph
    <3>8. ~ (f < k) BY <3>2, <1>1
    <3> QED BY <3>4, <3>7, <3>8
  <2> QED BY <2>1, <2>2
<1>13. ASSUME NEW h \in F, m2[h].tag = "object", NEW f \in Body(m2, h) \ u2
       PROVE  m2[f].ref \in {Null} \cup F
  <2>1. h # a BY <1>9, <1>13 DEF Moved
  <2>2. h \in Cell /\ mem[h].tag = "object"
    <3>1. h \in Cell /\ InFrom(h) BY DEF Graph
    <3>2. h < pos \/ h >= pos + n
      <4>1. ~ (toBegin <= h /\ h < toEnd) /\ h \in Nat BY <3>1, Sides
      <4> HIDE DEF n
      <4> QED BY <4>1, <1>1
    <3> HIDE DEF m2, n
    <3> QED BY <3>1, <3>2, <2>1, <1>2, <1>13
  <2> HIDE DEF m2, u2, n
  <2> f \in Body(mem, h) \ unset /\ m2[f] = mem[f] BY <1>7, <2>1, <2>2, <1>13
  <2> QED BY <2>2 DEF Graph
<1> QED
  <2> HIDE DEF m2, u2, S2
  <2>1. Graph(m2, pos + n, u2, k, S2, F)
    <3> HIDE DEF n
    <3>1. \A h \in S2 : m2[h].tag = "object" BY <1>10
    <3>2. \A h \in S2 : \A f \in Body(m2, h) \ u2 :
            m2[f].ref \in {Null} \cup (IF f < k THEN S2 ELSE F)
      BY <1>12
    <3>3. \A h \in F : m2[h].tag = "object" =>
            \A f \in Body(m2, h) \ u2 : m2[f].ref \in {Null} \cup F
      BY <1>13
    <3>4. S2 \subseteq toBegin..((pos + n) - 1) /\ F \subseteq Cell
      BY <1>8, <1>1
    <3>5. \A x \in F : /\ InFrom(x)
                       /\ m2[x].tag = "object" \/ (m2[x].tag = "moved" /\ m2[x].ref \in S2)
      BY <1>11
    <3> QED BY <3>1, <3>2, <3>3, <3>4, <3>5, Zenon DEF Graph
  <2> QED BY <2>1, <1>1 DEF m2, u2, S2

(* The copy fills to-space up to the new position.                         *)
LEMMA CopyKeepsCovers ==
  ASSUME Placed, CellsOK(mem), Tiled(mem, pos), NEW a \in Nat, Unmoved(a),
         pos + mem[a].size <= toEnd,
         NEW S, NEW F, Covers(mem, pos, S), a \in F, S \subseteq toBegin..(pos - 1)
  PROVE  Covers(Copied(a), PosAfter(a), S \cup {pos})
<1> DEFINE n == mem[a].size
           m2 == Copied(a)
<1>1. /\ n \in Nat /\ n >= 1 /\ PosAfter(a) = pos + n /\ pos \in Nat
      /\ InFrom(a) /\ toBegin \in Nat /\ toBegin <= pos /\ pos + n <= toEnd /\ toEnd \in Nat
  BY CopiedCells, Sides DEF Unmoved, PosAfter, Placed
<1>2. m2[pos].size = n
  <2> 0 \in 0..(n - 1) /\ pos + 0 = pos /\ a + 0 = a BY <1>1, Sides
  <2> QED BY CopiedCells
<1>3. ASSUME NEW h \in S PROVE m2[h] = mem[h]
  <2>1. h \in Nat /\ toBegin <= h /\ h < pos /\ h < toEnd
    <3> HIDE DEF n, m2
    <3> QED BY <1>1
  <2>2. h \in Cell /\ ~InFrom(h) BY <2>1, Sides
  <2> QED BY <2>1, <2>2, <1>1, CopiedCells
<1> SUFFICES ASSUME NEW c \in toBegin..((pos + n) - 1)
             PROVE  \E h \in S \cup {pos} : c \in h..(h + m2[h].size - 1)
  <2> HIDE DEF n, m2
  <2> QED BY <1>1 DEF Covers, m2
<1> HIDE DEF n, m2
<1>4. CASE c \in toBegin..(pos - 1)
  <2>1. PICK h \in S : c \in h..(h + mem[h].size - 1)
    BY <1>4 DEF Covers
  <2> QED BY <2>1, <1>3
<1>5. CASE c \notin toBegin..(pos - 1)
  <2> c \in pos..(pos + n - 1) BY <1>5, <1>1
  <2> QED BY <1>2
<1> QED BY <1>4, <1>5

-----------------------------------------------------------------------------
(* Writing a field keeps memory well formed and, if what is written leads  *)
(* where the place of the field asks, the graph.                           *)
LEMMA WriteKeepsTiles ==
  ASSUME Placed, NEW m, NEW p \in Nat, CellsOK(m), Tiled(m, p),
         NEW f \in Cell, m[f].tag = "field", NEW v \in Nat
  PROVE  /\ CellsOK([m EXCEPT ![f] = Field(v)])
         /\ Tiled([m EXCEPT ![f] = Field(v)], p)
<1> DEFINE m2 == [m EXCEPT ![f] = Field(v)]
<1>1. m2 = [c \in Cell |-> IF c = f THEN Field(v) ELSE m[c]]
  BY DEF CellsOK
<1>2. \A c \in Cell : m2[c] = IF c = f THEN Field(v) ELSE m[c]
  BY <1>1
<1>3. CellsOK(m2)
  <2>1. m2 = [c \in Cell |-> m2[c]] BY <1>1
  <2> HIDE DEF m2
  <2> QED BY <1>2, <2>1 DEF CellsOK, Field, Null
<1>4. Tiled(m2, p)
  <2> SUFFICES ASSUME NEW h \in Cell, m2[h].tag = "object"
               PROVE  /\ m2[h].size >= 1 /\ h + m2[h].size <= SpaceEnd(h)
                      /\ ~InFrom(h) /\ h < p => h + m2[h].size <= p
                      /\ \A g \in Body(m2, h) : m2[g].tag = "field"
    <3> HIDE DEF m2
    <3> QED BY DEF Tiled
  <2> HIDE DEF m2
  <2>1. m2[h] = m[h] /\ h # f BY <1>2 DEF Field
  <2>2. /\ m[h].size >= 1 /\ h + m[h].size <= SpaceEnd(h) /\ m[h].size \in Nat
        /\ ~InFrom(h) /\ h < p => h + m[h].size <= p
        /\ \A g \in Body(m, h) : m[g].tag = "field"
    BY <2>1 DEF Tiled, CellsOK
  <2>3. ASSUME NEW g \in Body(m2, h) PROVE m2[g].tag = "field"
    <3>1. g \in Body(m, h) /\ m[g].tag = "field" BY <2>1, <2>2 DEF Body
    <3>2. g \in Cell
      <4>1. h \in Nat /\ SpaceEnd(h) \in Nat BY Sides
      <4>2. g \in Nat /\ h <= g /\ g < SpaceEnd(h)
        BY <3>1, <2>2, <4>1 DEF Body
      <4> QED BY <4>2, Sides
    <3> QED BY <3>1, <3>2, <1>2 DEF Field
  <2> QED BY <2>1, <2>2, <2>3
<1> QED BY <1>3, <1>4

(* The field that the scan updates leads to a copy, as all before it do.   *)
LEMMA WriteKeepsGraph ==
  ASSUME Placed, NEW m, NEW p \in Nat, CellsOK(m), Tiled(m, p), p <= toEnd,
         NEW f \in toBegin..(p - 1), m[f].tag = "field", NEW v \in Nat,
         NEW u, NEW u2, u2 = u \/ u2 = u \ {f},
         NEW k \in Nat, NEW k2 \in Nat, \A g \in Nat \ {f} : g < k2 <=> g < k,
         NEW S, NEW F, Graph(m, p, u, k, S, F),
         (\E h \in S : f \in Body(m, h) \ u2) => v \in {Null} \cup (IF f < k2 THEN S ELSE F)
  PROVE  Graph([m EXCEPT ![f] = Field(v)], p, u2, k2, S, F)
<1> DEFINE m2 == [m EXCEPT ![f] = Field(v)]
<1>0. f \in Nat /\ f \in Cell /\ ~InFrom(f)
  BY Sides
<1>1. \A c \in Cell : m2[c] = IF c = f THEN Field(v) ELSE m[c]
  BY DEF CellsOK
<1> HIDE DEF m2
<1>2. S \subseteq Cell /\ F \subseteq Cell
  BY Sides DEF Graph
<1>3. ASSUME NEW h \in Cell, m[h].tag = "object"
      PROVE  /\ m2[h] = m[h]
             /\ \A g \in Body(m2, h) : g \in Body(m, h) /\ g \in Cell /\ g \in Nat
                                       /\ (InFrom(g) <=> InFrom(h))
  <2>1. m2[h] = m[h] BY <1>1, <1>3
  <2>2. m[h].size >= 1 /\ h + m[h].size <= SpaceEnd(h) /\ m[h].size \in Nat
    BY <1>3 DEF Tiled, CellsOK
  <2>3. ASSUME NEW g \in Body(m2, h)
        PROVE  g \in Body(m, h) /\ g \in Cell /\ g \in Nat /\ (InFrom(g) <=> InFrom(h))
    <3>1. g \in Body(m, h) BY <2>1 DEF Body
    <3>2. h \in Nat /\ SpaceEnd(h) \in Nat BY Sides
    <3>3. g \in Nat /\ h <= g /\ g < SpaceEnd(h)
      BY <3>1, <2>2, <3>2 DEF Body
    <3> QED BY <3>1, <3>3, Sides
  <2> QED BY <2>1, <2>3
<1>4. \A h \in S : m2[h].tag = "object"
  BY <1>2, <1>3 DEF Graph
<1>5. \A a \in F : /\ InFrom(a)
                   /\ m2[a].tag = "object" \/ (m2[a].tag = "moved" /\ m2[a].ref \in S)
  BY <1>2, <1>1, <1>0 DEF Graph
<1>6. ASSUME NEW h \in S, NEW g \in Body(m2, h) \ u2
      PROVE  m2[g].ref \in {Null} \cup (IF g < k2 THEN S ELSE F)
  <2>1. g \in Body(m, h) /\ g \in Cell /\ g \in Nat
    BY <1>2, <1>3 DEF Graph
  <2>2. CASE g = f
    BY <2>1, <2>2, <1>1 DEF Field
  <2>3. CASE g # f
    <3>1. g \in Body(m, h) \ u /\ m2[g] = m[g] /\ (g < k2 <=> g < k)
      BY <2>1, <2>3, <1>1
    <3> QED BY <3>1 DEF Graph
  <2> QED BY <2>2, <2>3
<1>7. ASSUME NEW h \in F, m2[h].tag = "object", NEW g \in Body(m2, h) \ u2
      PROVE  m2[g].ref \in {Null} \cup F
  <2>1. h \in Cell /\ InFrom(h) /\ h # f /\ m[h].tag = "object"
    BY <1>2, <1>1, <1>0, <1>7 DEF Graph
  <2>2. g \in Body(m, h) /\ g \in Cell /\ InFrom(g)
    BY <2>1, <1>3
  <2>3. g # f /\ g \notin u /\ m2[g] = m[g]
    BY <2>2, <1>0, <1>1
  <2> QED BY <2>1, <2>2, <2>3 DEF Graph
<1> QED
  <2>1. S \subseteq toBegin..(p - 1) BY DEF Graph
  <2>2. Graph(m2, p, u2, k2, S, F)
    BY <1>2, <2>1, <1>4, <1>5, <1>6, <1>7, Zenon DEF Graph
  <2> QED BY <2>2 DEF m2

(* Updating a field moves no object.                                       *)
LEMMA WriteKeepsCovers ==
  ASSUME NEW m, NEW p, CellsOK(m), NEW f \in Cell, m[f].tag = "field", NEW v,
         NEW S \in SUBSET Cell, \A h \in S : m[h].tag = "object", Covers(m, p, S)
  PROVE  Covers([m EXCEPT ![f] = Field(v)], p, S)
<1> DEFINE m2 == [m EXCEPT ![f] = Field(v)]
<1>1. \A h \in S : m2[h] = m[h]
  BY DEF CellsOK
<1> HIDE DEF m2
<1>2. Covers(m2, p, S)
  BY <1>1 DEF Covers
<1> QED BY <1>2 DEF m2

-----------------------------------------------------------------------------
(* Between collections F is empty and all of S is scanned.  A new object   *)
(* joins S; what from-space holds does not matter.                         *)
Settled(m, p, u, S) ==
  /\ CellsOK(m) /\ Tiled(m, p) /\ Graph(m, p, u, p, S, {})
  /\ ~LateInit => u = {} /\ Covers(m, p, S)

(* Forgetting what from-space holds disturbs nothing of to-space.          *)
LEMMA LeaveFromSettled ==
  ASSUME Placed, NEW S, Settled(mem, pos, unset, S)
  PROVE  Settled(LeaveFrom(mem), pos, unset, S)
<1>1. CASE LateInit
  BY <1>1 DEF LeaveFrom
<1>2. CASE ~LateInit
  <2> DEFINE m2 == LeaveFrom(mem)
  <2>1. m2 = [c \in Cell |-> IF InFrom(c) THEN Field(Null) ELSE mem[c]]
    BY <1>2 DEF LeaveFrom
  <2>2. \A c \in Cell : m2[c] = IF InFrom(c) THEN Field(Null) ELSE mem[c]
    BY <2>1
  <2>3. m2 = [c \in Cell |-> m2[c]]
    BY <2>1
  <2> HIDE DEF m2
  <2>4. CellsOK(m2)
    BY <2>2, <2>3 DEF Settled, CellsOK, Field, Null
  <2>5. ASSUME NEW h \in Cell, ~InFrom(h), mem[h].tag = "object"
        PROVE  m2[h] = mem[h] /\ \A f \in Body(mem, h) : m2[f] = mem[f]
    <3>1. m2[h] = mem[h] BY <2>2, <2>5
    <3>2. /\ h + mem[h].size <= SpaceEnd(h) /\ mem[h].size \in Nat
          /\ h \in Nat /\ SpaceEnd(h) \in Nat
      BY <2>5, Sides DEF Settled, Tiled, CellsOK
    <3>3. ASSUME NEW f \in Body(mem, h) PROVE m2[f] = mem[f]
      <4>1. f \in Nat /\ h <= f /\ f < SpaceEnd(h) BY <3>2 DEF Body
      <4>2. f \in Cell /\ ~InFrom(f) BY <4>1, <2>5, Sides
      <4> QED BY <4>2, <2>2
    <3> QED BY <3>1, <3>3
  <2>6. Tiled(m2, pos)
    <3> SUFFICES ASSUME NEW h \in Cell, m2[h].tag = "object"
                 PROVE  /\ m2[h].size >= 1 /\ h + m2[h].size <= SpaceEnd(h)
                        /\ ~InFrom(h) /\ h < pos => h + m2[h].size <= pos
                        /\ \A f \in Body(m2, h) : m2[f].tag = "field"
      BY DEF Tiled
    <3>1. ~InFrom(h) /\ m2[h] = mem[h] BY <2>2 DEF Field
    <3>2. Body(m2, h) = Body(mem, h) BY <3>1 DEF Body
    <3> QED BY <3>1, <3>2, <2>5 DEF Settled, Tiled
  <2>7. \A h \in S : h \in Cell /\ ~InFrom(h) /\ mem[h].tag = "object"
    <3> SUFFICES ASSUME NEW h \in S PROVE h \in Cell /\ ~InFrom(h) /\ mem[h].tag = "object"
      OBVIOUS
    <3>1. h \in toBegin..(pos - 1) /\ mem[h].tag = "object" BY DEF Settled, Graph
    <3>2. h \in Nat /\ toBegin <= h /\ h < toEnd BY <3>1, Sides DEF Placed
    <3> QED BY <3>1, <3>2, Sides
  <2>8. Graph(m2, pos, unset, pos, S, {})
    <3>1. S \subseteq toBegin..(pos - 1) BY DEF Settled, Graph
    <3>2. \A h \in S : m2[h] = mem[h] /\ m2[h].tag = "object" BY <2>5, <2>7
    <3>3. ASSUME NEW h \in S, NEW f \in Body(m2, h) \ unset
          PROVE  m2[f].ref \in {Null} \cup (IF f < pos THEN S ELSE {})
      <4>1. f \in Body(mem, h) \ unset /\ m2[f] = mem[f]
        BY <3>2, <2>5, <2>7 DEF Body
      <4> QED BY <4>1 DEF Settled, Graph
    <3> QED BY <3>1, <3>2, <3>3 DEF Graph
  <2>9. Covers(m2, pos, S)
    BY <1>2, <2>5, <2>7 DEF Settled, Covers
  <2> QED BY <2>4, <2>6, <2>8, <2>9 DEF Settled, m2
<1> QED BY <1>1, <1>2

(* A new object joins the objects of to-space.                             *)
LEMMA PlaceKeepsSettled ==
  ASSUME Placed, NEW m, NEW S, Settled(m, pos, unset, S),
         NEW r \in Root, NEW n \in Nat, pos + n + 1 <= toEnd, Place(m, r, n)
  PROVE  Settled(mem', pos', unset', S \cup {pos})
<1> DEFINE p2 == pos + n + 1
           new == (pos + 1)..(pos + n) \cap Cell
<1>0. pos \in Nat /\ toBegin \in Nat /\ toEnd \in Nat /\ toBegin <= pos /\ pos < toEnd
      /\ pos \in Cell /\ ~InFrom(pos) /\ p2 \in Nat /\ p2 > pos /\ p2 <= toEnd /\ pos' = p2
  BY Sides DEF Placed, Place
<1>1. PICK late \in {FALSE} \cup {LateInit} :
        /\ mem' = [c \in Cell |-> IF c = pos THEN Object(n + 1, FreshId)
                                  ELSE IF c \notin new THEN m[c]
                                  ELSE Field(IF late THEN m[c].ref ELSE Null)]
        /\ unset' = IF late THEN unset \cup new ELSE unset \ new
  BY DEF Place
<1>2. /\ mem'[pos] = Object(n + 1, FreshId)
      /\ \A c \in new : /\ c \in Cell /\ c # pos
                        /\ mem'[c].tag = "field" /\ mem'[c].size = 0
                        /\ mem'[c].ref = IF late THEN m[c].ref ELSE Null
      /\ \A c \in Cell : c < pos \/ c >= p2 => mem'[c] = m[c]
      /\ mem' = [c \in Cell |-> mem'[c]]
      /\ \A c \in Nat : pos < c /\ c < p2 => c \in new
      /\ \A c \in Nat : c < pos \/ c >= p2 => c \notin new
      /\ \A c \in Cell : c \in Nat
  <2>1. \A c \in Nat : pos < c /\ c < p2 => c \in new
    BY <1>0, Sides
  <2>2. \A c \in new : c # pos
    BY <1>0
  <2>3. \A c \in Cell : c < pos \/ c >= p2 => c \notin new /\ c # pos
    BY <1>0
  <2>4. \A c \in Nat : c < pos \/ c >= p2 => c \notin new
    BY <1>0
  <2>5. \A c \in Cell : c \in Nat
    BY Sides
  <2>6. new \subseteq Cell
    OBVIOUS
  <2> HIDE DEF new, p2
  <2>7. mem'[pos] = Object(n + 1, FreshId)
    BY <1>0, <1>1
  <2>8. ASSUME NEW c \in new
        PROVE  /\ mem'[c].tag = "field" /\ mem'[c].size = 0
               /\ mem'[c].ref = IF late THEN m[c].ref ELSE Null
    <3>1. mem'[c] = Field(IF late THEN m[c].ref ELSE Null)
      BY <1>1, <2>2, <2>6
    <3> QED BY <3>1 DEF Field
  <2>9. \A c \in Cell : c < pos \/ c >= p2 => mem'[c] = m[c]
    BY <1>1, <2>3
  <2>10. mem' = [c \in Cell |-> mem'[c]]
    BY <1>1
  <2> QED BY <2>1, <2>2, <2>4, <2>5, <2>6, <2>7, <2>8, <2>9, <2>10
<1> HIDE DEF new, p2
<1>3. CellsOK(mem')
  <2> SUFFICES ASSUME NEW c \in Cell
               PROVE  /\ mem'[c].tag \in {"object", "moved", "field"}
                      /\ mem'[c].ref \in Nat /\ mem'[c].size \in Nat
    BY <1>2 DEF CellsOK
  <2>1. /\ m[c].tag \in {"object", "moved", "field"}
        /\ m[c].ref \in Nat /\ m[c].size \in Nat
    BY DEF Settled, CellsOK
  <2>2. CASE c = pos BY <2>2, <1>2 DEF Object, Null
  <2>3. CASE c \in new BY <2>1, <2>3, <1>2 DEF Null
  <2>4. CASE c < pos \/ c >= p2 BY <2>1, <2>4, <1>2
  <2> QED BY <1>0, <1>2, <2>2, <2>3, <2>4
<1>4. ASSUME NEW h \in Cell, mem'[h].tag = "object"
      PROVE  /\ h < pos \/ h = pos \/ h >= p2
             /\ h # pos => m[h].tag = "object" /\ mem'[h] = m[h]
  <2>1. h \notin new BY <1>2, <1>4
  <2>2. h < pos \/ h = pos \/ h >= p2 BY <2>1, <1>0, <1>2
  <2> QED BY <2>2, <1>2, <1>4
(* An object other than the new one is not disturbed by it. *)
<1>5. ASSUME NEW h \in Cell, m[h].tag = "object", InFrom(h) \/ h < pos \/ h >= p2
      PROVE  /\ mem'[h] = m[h]
             /\ \A f \in Body(m, h) : /\ f \in Cell /\ mem'[f] = m[f]
                                      /\ f < pos \/ f >= p2
  <2>1. /\ m[h].size >= 1 /\ h + m[h].size <= SpaceEnd(h) /\ m[h].size \in Nat
        /\ ~InFrom(h) /\ h < pos => h + m[h].size <= pos
        /\ h \in Nat /\ SpaceEnd(h) \in Nat
    BY <1>5, Sides DEF Settled, Tiled, CellsOK
  <2>2. ASSUME NEW f \in Nat, h <= f, f < h + m[h].size
        PROVE  f \in Cell /\ (f < pos \/ f >= p2)
    <3>1. f < SpaceEnd(h) BY <2>1, <2>2
    <3>2. f \in Cell /\ (InFrom(f) <=> InFrom(h)) BY <2>2, <3>1, Sides
    <3>3. CASE InFrom(h)
      <4> ~ (toBegin <= f /\ f < toEnd) BY <3>2, <3>3, Sides
      <4> QED BY <1>0, <2>2, <3>2
    <3>4. CASE ~InFrom(h) BY <3>2, <3>4, <1>5, <2>1, <2>2, <1>0
    <3> QED BY <3>3, <3>4
  <2>3. mem'[h] = m[h]
    <3> h < pos \/ h >= p2 BY <2>1, <2>2
    <3> QED BY <1>2
  <2>4. ASSUME NEW f \in Body(m, h)
        PROVE  f \in Cell /\ mem'[f] = m[f] /\ (f < pos \/ f >= p2)
    <3> f \in Nat /\ h <= f /\ f < h + m[h].size BY <2>1 DEF Body
    <3> QED BY <2>2, <1>2
  <2> QED BY <2>3, <2>4
<1>6. Body(mem', pos) \subseteq new /\ pos + mem'[pos].size = p2 /\ mem'[pos].size = n + 1
  <2>1. mem'[pos].size = n + 1 BY <1>2 DEF Object
  <2>2. ASSUME NEW f \in Body(mem', pos) PROVE f \in new
    <3> f \in Nat /\ pos < f /\ f < p2 BY <2>1, <1>0 DEF Body, p2
    <3> QED BY <1>2
  <2> QED BY <2>1, <2>2, <1>0 DEF p2
<1>7. Tiled(mem', p2)
  <2> SUFFICES ASSUME NEW h \in Cell, mem'[h].tag = "object"
               PROVE  /\ mem'[h].size >= 1 /\ h + mem'[h].size <= SpaceEnd(h)
                      /\ ~InFrom(h) /\ h < p2 => h + mem'[h].size <= p2
                      /\ \A f \in Body(mem', h) : mem'[f].tag = "field"
    BY DEF Tiled
  <2>1. CASE h = pos
    <3>1. SpaceEnd(h) = toEnd BY <2>1, <1>0 DEF SpaceEnd
    <3>2. \A f \in Body(mem', h) : mem'[f].tag = "field"
      BY <2>1, <1>6, <1>2
    <3> QED BY <2>1, <3>1, <3>2, <1>6, <1>0
  <2>2. CASE h # pos
    <3>1. (h < pos \/ h >= p2) /\ m[h].tag = "object" /\ mem'[h] = m[h]
      BY <2>2, <1>4
    <3>2. /\ m[h].size >= 1 /\ h + m[h].size <= SpaceEnd(h) /\ m[h].size \in Nat
          /\ ~InFrom(h) /\ h < pos => h + m[h].size <= pos
          /\ \A f \in Body(m, h) : m[f].tag = "field"
      BY <3>1 DEF Settled, Tiled, CellsOK
    <3>3. Body(mem', h) = Body(m, h) BY <3>1 DEF Body
    <3>4. \A f \in Body(m, h) : mem'[f] = m[f] BY <3>1, <1>5
    <3>5. ~InFrom(h) /\ h < p2 => h + mem'[h].size <= p2
      BY <3>1, <3>2, <1>0, <1>2
    <3> QED BY <3>1, <3>2, <3>3, <3>4, <3>5
  <2> QED BY <2>1, <2>2
<1>8. S \subseteq toBegin..(pos - 1) /\ \A h \in S : h \in Cell /\ h < pos /\ m[h].tag = "object"
  <2>1. S \subseteq toBegin..(pos - 1) /\ \A h \in S : m[h].tag = "object"
    BY DEF Settled, Graph
  <2>2. \A h \in toBegin..(pos - 1) : h \in Cell /\ h < pos
    BY <1>0, Sides
  <2> QED BY <2>1, <2>2
<1>9. \A h \in S : mem'[h] = m[h]
  BY <1>5, <1>8
<1>10. S \cup {pos} \subseteq toBegin..(p2 - 1)
  BY <1>0, <1>8
<1>11. Graph(mem', p2, unset', p2, S \cup {pos}, {})
  <2>1. \A h \in S \cup {pos} : mem'[h].tag = "object"
    BY <1>2, <1>8, <1>9 DEF Object
  <2>2. ASSUME NEW h \in S \cup {pos}, NEW f \in Body(mem', h) \ unset'
        PROVE  mem'[f].ref \in {Null} \cup (IF f < p2 THEN S \cup {pos} ELSE {})
    <3>1. CASE h = pos
      <4>1. f \in new BY <3>1, <1>6
      <4>2. ~late BY <4>1, <2>2, <1>1
      <4> QED BY <4>1, <4>2, <1>2
    <3>2. CASE h \in S
      <4>1. f \in Body(m, h) BY <3>2, <1>9 DEF Body
      <4>2. mem'[f] = m[f] /\ f \in Cell /\ (f < pos \/ f >= p2)
        BY <3>2, <4>1, <1>5, <1>8
      <4>3. f \notin new BY <4>2, <1>2
      <4>4. f \notin unset BY <4>3, <2>2, <1>1
      <4>5. m[f].ref \in {Null} \cup (IF f < pos THEN S ELSE {})
        BY <3>2, <4>1, <4>4 DEF Settled, Graph
      <4> QED BY <4>2, <4>5, <1>0, <1>2
    <3> QED BY <3>1, <3>2
  <2> QED BY <1>10, <2>1, <2>2 DEF Graph
<1>12. ~LateInit => unset' = {} /\ Covers(mem', p2, S \cup {pos})
  <2> SUFFICES ASSUME ~LateInit PROVE unset' = {} /\ Covers(mem', p2, S \cup {pos})
    OBVIOUS
  <2>1. unset' = {}
    <3>1. late = FALSE \/ late = LateInit OBVIOUS
    <3>2. ~late BY <3>1, Zenon
    <3>3. unset = {} BY DEF Settled
    <3>4. unset' = unset \ new BY <3>2, <1>1
    <3> QED BY <3>3, <3>4
  <2>2. ASSUME NEW c \in toBegin..(p2 - 1)
        PROVE  \E h \in S \cup {pos} : c \in h..(h + mem'[h].size - 1)
    <3>1. CASE c \in toBegin..(pos - 1)
      <4> PICK h \in S : c \in h..(h + m[h].size - 1)
        BY <3>1 DEF Settled, Covers
      <4> QED BY <1>9
    <3>2. CASE c \notin toBegin..(pos - 1)
      <4>1. c \in Nat /\ pos <= c /\ c < pos + n + 1 BY <3>2, <1>0 DEF p2
      <4>2. mem'[pos].size = n + 1 BY <1>6
      <4>3. pos + mem'[pos].size - 1 = pos + n BY <4>2, <1>0
      <4>4. c \in pos..(pos + n) BY <4>1, <1>0
      <4> QED BY <4>3, <4>4
    <3> QED BY <3>1, <3>2
  <2> QED BY <2>1, <2>2 DEF Covers
<1> QED BY <1>0, <1>3, <1>7, <1>11, <1>12 DEF Settled

-----------------------------------------------------------------------------
(* The invariant: control and positions, and outside of the states that    *)
(* end a behaviour some S and F.  Between collections F is empty; while    *)
(* roots are traced those still to visit lead to F.                        *)
Collecting == pc \in {"roots", "scan"}

Control ==
  /\ toBegin \in {1, SpaceCells + 1} /\ pos \in Nat /\ toBegin <= pos
  /\ pc \in {"program", "roots", "scan", "failed", "corrupt"}
  /\ request \in {<<>>} \cup (Root \X FieldCounts)
  /\ toVisit \subseteq Root /\ tracePos \in Nat
  /\ roots = [r \in Root |-> roots[r]]
  /\ Collecting => toBegin <= tracePos /\ tracePos <= pos
  /\ pc = "roots" => tracePos = toBegin
  /\ pc \in {"program", "scan", "failed"} => toVisit = {}
  /\ ~LateInit => pc # "corrupt"

Front == IF Collecting THEN tracePos ELSE pos

Heaped(S, F) ==
  /\ Graph(mem, pos, unset, Front, S, F)
  /\ \A r \in Root : roots[r] \in {Null} \cup (IF r \in toVisit THEN F ELSE S)
  /\ ~LateInit => unset = {} /\ Covers(mem, pos, S)

Memory == CellsOK(mem) /\ Tiled(mem, pos) /\ \E S, F : Heaped(S, F)

HeapInv == Control /\ (InSpace /\ pc # "corrupt" => Memory)

(* The empty heap is well formed.                                          *)
LEMMA InitHeap == Init => HeapInv
<1> SUFFICES ASSUME Init PROVE HeapInv
  OBVIOUS
<1>1. Control
  BY SpaceAssumption DEF Init, Control, Collecting
<1>2. \A c \in Cell : mem[c].tag = "field" /\ mem[c].ref \in Nat /\ mem[c].size \in Nat
  BY DEF Init, Field, Null
<1>3. CellsOK(mem)
  BY <1>2 DEF CellsOK, Init
<1>4. Tiled(mem, pos)
  BY <1>2 DEF Tiled
<1>5. Heaped({}, {})
  <2>1. Graph(mem, pos, unset, Front, {}, {})
    BY DEF Graph
  <2>2. Covers(mem, pos, {})
    BY DEF Init, Covers
  <2> QED BY <2>1, <2>2 DEF Heaped, Init
<1> QED BY <1>1, <1>3, <1>4, <1>5 DEF HeapInv, Memory

(* Inside the space the position is one of to-space or its end.            *)
LEMMA MemoryPlaced == Control /\ InSpace => Placed
BY SpaceAssumption DEF Control, InSpace, Placed, toEnd

(* While the program runs all of S is scanned, and F can be forgotten.     *)
LEMMA ProgramSettled ==
  ASSUME Control, Placed, Memory,
         pc \in {"program", "failed"} \/ (pc = "scan" /\ tracePos = pos)
  PROVE  \E S : /\ Settled(mem, pos, unset, S)
                /\ \A r \in Root : roots[r] \in {Null} \cup S
<1>1. PICK S, F : Heaped(S, F)
  BY DEF Memory
<1>2. Front = pos /\ toVisit = {}
  BY DEF Front, Collecting, Control
<1>3. ASSUME NEW h \in S
      PROVE  /\ h \in Cell /\ mem[h].tag = "object"
             /\ \A f \in Body(mem, h) : f < pos
  <2>1. h \in Nat /\ toBegin <= h /\ h < pos /\ h < toEnd /\ mem[h].tag = "object"
    BY <1>1, Sides DEF Heaped, Graph, Placed
  <2>2. h \in Cell /\ ~InFrom(h) BY <2>1, Sides
  <2>3. h + mem[h].size <= pos /\ mem[h].size \in Nat
    BY <2>1, <2>2 DEF Memory, Tiled, CellsOK
  <2> QED BY <2>1, <2>2, <2>3, Sides DEF Body
<1>4. Graph(mem, pos, unset, pos, S, {})
  <2>1. S \subseteq toBegin..(pos - 1)
    BY <1>1 DEF Heaped, Graph
  <2>2. ASSUME NEW h \in S, NEW f \in Body(mem, h) \ unset
        PROVE  mem[f].ref \in {Null} \cup (IF f < pos THEN S ELSE {})
    BY <1>1, <1>2, <1>3 DEF Heaped, Graph
  <2> QED BY <2>1, <2>2, <1>3 DEF Graph
<1>5. Settled(mem, pos, unset, S)
  BY <1>1, <1>4 DEF Heaped, Settled, Memory
<1>6. \A r \in Root : roots[r] \in {Null} \cup S
  BY <1>1, <1>2 DEF Heaped
<1> QED BY <1>5, <1>6

(* What holds of to-space while the program runs is the invariant.         *)
LEMMA SettledMemory ==
  ASSUME NEW S, Settled(mem, pos, unset, S), ~Collecting, toVisit = {},
         \A r \in Root : roots[r] \in {Null} \cup S
  PROVE  Memory
<1>1. Front = pos
  BY DEF Front
<1>2. Heaped(S, {})
  BY <1>1 DEF Heaped, Settled
<1> QED BY <1>2 DEF Memory, Settled

(* Tracing a reference: what it comes to, and memory, position and unset   *)
(* after it.                                                               *)
LEMMA TraceKeepsMemory ==
  ASSUME Placed, CellsOK(mem), Tiled(mem, pos), NEW a \in Nat, ~Stale(a),
         PosAfter(a) <= toEnd,
         NEW k \in Nat, k <= pos, NEW S, NEW F, Graph(mem, pos, unset, k, S, F),
         ~LateInit => unset = {} /\ Covers(mem, pos, S) /\ a \in {Null} \cup F
  PROVE  \E S2 : /\ S \subseteq S2
                 /\ CellsOK(MemAfter(a)) /\ Tiled(MemAfter(a), PosAfter(a))
                 /\ Graph(MemAfter(a), PosAfter(a), UnsetAfter(a), k, S2, F)
                 /\ ~LateInit => UnsetAfter(a) = {} /\ Covers(MemAfter(a), PosAfter(a), S2)
                 /\ a \in {Null} \cup F => Traced(a) \in {Null} \cup S2
                 /\ Traced(a) \in Nat /\ PosAfter(a) \in Nat /\ pos <= PosAfter(a)
                 /\ \A c \in toBegin..(pos - 1) : MemAfter(a)[c] = mem[c]
<1>1. CASE Unmoved(a)
  <2>1. PosAfter(a) = pos + mem[a].size /\ MemAfter(a) = Copied(a)
    BY <1>1 DEF PosAfter, MemAfter
  <2>2. CellsOK(Copied(a)) /\ Tiled(Copied(a), pos + mem[a].size)
    BY <1>1, <2>1, CopyKeepsTiles
  <2> DEFINE S2 == IF a \in F THEN S \cup {pos} ELSE S
  <2>3. Graph(Copied(a), PosAfter(a), UnsetAfter(a), k, S2, F)
    BY <1>1, <2>1, CopyKeepsGraph
  <2>4. /\ mem[a].size \in Nat /\ pos \in Nat /\ PosAfter(a) \in Nat /\ pos <= PosAfter(a)
        /\ InFrom(a) /\ mem[a].tag = "object" /\ a # Null
    BY <1>1, <2>1, CopiedCells, Sides DEF Unmoved
  <2>5. Traced(a) = pos
    BY <2>4 DEF Traced
  <2>6. ~LateInit => UnsetAfter(a) = {} /\ Covers(Copied(a), PosAfter(a), S2)
    <3> SUFFICES ASSUME ~LateInit
                 PROVE  UnsetAfter(a) = {} /\ Covers(Copied(a), PosAfter(a), S2)
      OBVIOUS
    <3>1. UnsetAfter(a) = {} BY DEF UnsetAfter
    <3>2. a \in F /\ S \subseteq toBegin..(pos - 1) BY <2>4 DEF Graph
    <3>3. Covers(Copied(a), PosAfter(a), S \cup {pos})
      BY <1>1, <2>1, <3>2, CopyKeepsCovers
    <3> QED BY <3>1, <3>2, <3>3
  <2>7. \A c \in toBegin..(pos - 1) : Copied(a)[c] = mem[c]
    <3> SUFFICES ASSUME NEW c \in toBegin..(pos - 1) PROVE Copied(a)[c] = mem[c]
      OBVIOUS
    <3>1. c \in Nat /\ toBegin <= c /\ c < pos /\ c < toEnd BY Sides DEF Placed
    <3>2. c \in Cell /\ ~InFrom(c) BY <3>1, Sides
    <3> QED BY <1>1, <2>1, <2>4, <3>1, <3>2, CopiedCells
  <2>8. S \subseteq S2 /\ (a \in F => pos \in S2)
    OBVIOUS
  <2> HIDE DEF S2
  <2> QED BY <2>1, <2>2, <2>3, <2>4, <2>5, <2>6, <2>7, <2>8
<1>2. CASE ~Unmoved(a)
  <2>1. PosAfter(a) = pos /\ MemAfter(a) = mem /\ UnsetAfter(a) = unset
    BY <1>2 DEF PosAfter, MemAfter, UnsetAfter
  <2>2. CASE InFrom(a)
    <3>1. mem[a].tag = "moved" /\ a \in Cell
      BY <1>2, <2>2, Sides DEF Unmoved, Stale
    <3>2. Traced(a) = mem[a].ref /\ mem[a].ref \in Nat
      BY <3>1, <2>2 DEF Traced, CellsOK
    <3>3. a \in {Null} \cup F => mem[a].ref \in S
      BY <3>1, Sides DEF Graph
    <3> QED BY <2>1, <3>2, <3>3, Sides
  <2>3. CASE ~InFrom(a)
    <3>1. Traced(a) = a /\ a \notin F
      BY <2>3 DEF Traced, Graph
    <3> QED BY <2>1, <3>1, Sides
  <2> QED BY <2>2, <2>3
<1> QED BY <1>1, <1>2

-----------------------------------------------------------------------------
(* Every action preserves the invariant.                                   *)
LEMMA SetRootKeeps ==
  ASSUME HeapInv, At("program"), NEW r \in Root, NEW v \in Values \cup Loaded, SetRoot(r, v)
  PROVE  HeapInv'
<1>1. Control /\ Placed /\ Memory
  BY MemoryPlaced DEF HeapInv, At
<1>2. PICK S : /\ Settled(mem, pos, unset, S)
               /\ \A s \in Root : roots[s] \in {Null} \cup S
  BY <1>1, ProgramSettled DEF At
<1>3. v \in {Null} \cup S
  <2>1. ASSUME NEW s \in Root, roots[s] # Null, NEW f \in FieldsOf(roots[s]) \ unset
        PROVE  mem[f].ref \in {Null} \cup S
    <3>1. roots[s] \in S BY <1>2, <2>1
    <3> QED BY <3>1, <2>1, <1>2 DEF Settled, Graph, FieldsOf, Body
  <2>2. v \in Loaded => v \in {Null} \cup S
    BY <2>1 DEF Loaded, RootFields
  <2> QED BY <1>2, <2>2 DEF Values
<1>4. Control'
  BY <1>1 DEF Control, SetRoot, Collecting
<1>5. Placed' /\ Settled(mem, pos, unset, S)' /\ ~Collecting' /\ toVisit' = {}
  BY <1>1, <1>2 DEF SetRoot, Placed, toEnd, Settled, Collecting, At, Control,
     CellsOK, Tiled, Graph, Covers, Body, SpaceEnd, InFrom, fromBegin
<1>6. \A s \in Root : roots'[s] \in {Null} \cup S
  BY <1>1, <1>2, <1>3 DEF SetRoot, Control
<1>7. Memory'
  <2>1. Heaped(S, {})'
    BY <1>5, <1>6 DEF Heaped, Settled, Front
  <2> QED BY <1>5, <2>1 DEF Memory, Settled
<1> QED BY <1>4, <1>7 DEF HeapInv

(* A field that the program sets leads to an object the program has.       *)
LEMMA SetFieldKeeps ==
  ASSUME HeapInv, At("program"), NEW f \in RootFields, NEW v \in Values, SetField(f, v)
  PROVE  HeapInv'
<1>1. Control /\ Placed /\ Memory
  BY MemoryPlaced DEF HeapInv, At
<1>2. PICK S : /\ Settled(mem, pos, unset, S)
               /\ \A s \in Root : roots[s] \in {Null} \cup S
  BY <1>1, ProgramSettled DEF At
<1>3. PICK s \in Root : roots[s] # Null /\ f \in Body(mem, roots[s])
  BY DEF RootFields, FieldsOf, Body
<1>4. roots[s] \in S
  BY <1>2, <1>3
<1>5. v \in {Null} \cup S
  BY <1>2 DEF Values
<1>6. /\ S \subseteq toBegin..(pos - 1) /\ S \subseteq Cell
      /\ \A h \in S : mem[h].tag = "object"
  <2>1. S \subseteq toBegin..(pos - 1) /\ \A h \in S : mem[h].tag = "object"
    BY <1>2 DEF Settled, Graph
  <2>2. toBegin..(pos - 1) \subseteq Cell
    <3>1. \A c \in toBegin..(pos - 1) : c \in Nat /\ toBegin <= c /\ c < toEnd
      BY <1>1, Sides DEF Placed
    <3> QED BY <1>1, <3>1, Sides
  <2> QED BY <2>1, <2>2
<1>7. f \in toBegin..(pos - 1) /\ f \in Cell /\ mem[f].tag = "field" /\ v \in Nat
  <2> DEFINE h == roots[s]
  <2>1. h \in Cell /\ h \in Nat /\ toBegin <= h /\ h < pos /\ ~InFrom(h) /\ mem[h].tag = "object"
    <3>1. h \in toBegin..(pos - 1) /\ h \in Cell /\ mem[h].tag = "object" BY <1>4, <1>6
    <3>2. h \in Nat /\ toBegin <= h /\ h < toEnd /\ h < pos BY <1>1, <3>1, Sides DEF Placed
    <3> HIDE DEF h
    <3> QED BY <1>1, <3>1, <3>2, Sides
  <2> HIDE DEF h
  <2>2. h + mem[h].size <= pos /\ mem[h].size \in Nat /\ \A g \in Body(mem, h) : mem[g].tag = "field"
    BY <1>2, <2>1 DEF Settled, Tiled, CellsOK
  <2>3. f \in Nat /\ toBegin <= f /\ f < pos /\ mem[f].tag = "field"
    BY <1>1, <1>3, <2>1, <2>2, Sides DEF Body, h
  <2>4. f \in toBegin..(pos - 1) /\ f < toEnd
    BY <1>1, <2>3, Sides DEF Placed
  <2>5. f \in Cell BY <1>1, <2>3, <2>4, Sides
  <2>6. v \in Nat BY <1>5, <1>6, <1>1, Sides DEF Null
  <2> QED BY <2>3, <2>4, <2>5, <2>6
<1>8. Settled(mem', pos, unset', S)
  <2>1. mem' = [mem EXCEPT ![f] = Field(v)] /\ unset' = unset \ {f}
    BY DEF SetField
  <2>2. pos \in Nat /\ pos <= toEnd /\ CellsOK(mem) /\ Tiled(mem, pos) /\ Graph(mem, pos, unset, pos, S, {})
    BY <1>1, <1>2, Sides DEF Placed, Settled
  <2>3. CellsOK(mem') /\ Tiled(mem', pos)
    BY <1>1, <1>7, <2>1, <2>2, WriteKeepsTiles
  <2>4. f < pos
    BY <1>7, <2>2, <1>1, Sides
  <2>5. Graph(mem', pos, unset', pos, S, {})
    BY <1>1, <1>5, <1>7, <2>1, <2>2, <2>4, WriteKeepsGraph
  <2>6. ~LateInit => unset' = {} /\ Covers(mem', pos, S)
    BY <1>2, <1>6, <1>7, <2>1, <2>2, WriteKeepsCovers DEF Settled
  <2> QED BY <2>3, <2>5, <2>6 DEF Settled
<1>9. Control'
  BY <1>1 DEF Control, SetField, Collecting
<1>10. Memory'
  <2>1. /\ toBegin' = toBegin /\ pos' = pos /\ roots' = roots /\ pc' = pc
        /\ toVisit' = toVisit /\ toVisit = {} /\ ~Collecting
    BY <1>1 DEF SetField, At, Control, Collecting
  <2>2. Settled(mem, pos, unset, S)'
    BY <1>8, <2>1 DEF Settled, CellsOK, Tiled, Graph, Covers, Body, SpaceEnd,
       InFrom, fromBegin, toEnd
  <2>3. Heaped(S, {})'
    BY <1>2, <2>1, <2>2 DEF Heaped, Settled, Front, Collecting
  <2> QED BY <2>2, <2>3 DEF Memory, Settled
<1> QED BY <1>9, <1>10 DEF HeapInv

(* A new object that fits.                                                 *)
LEMMA PlaceKeeps ==
  ASSUME Control, Placed, NEW m, NEW S, Settled(m, pos, unset, S),
         \A s \in Root : roots[s] \in {Null} \cup S, toVisit = {}, toVisit' = toVisit,
         toBegin' = toBegin, ~Collecting', NEW r \in Root, NEW n \in Nat, Place(m, r, n),
         InSpace'
  PROVE  Memory'
<1>1. pos' = pos + n + 1 /\ toEnd' = toEnd /\ pos + n + 1 <= toEnd
  BY DEF Place, InSpace, toEnd
<1> DEFINE S2 == S \cup {pos}
<1>. PICK T : T = S2
  OBVIOUS
<1> HIDE DEF S2
<1>2. Settled(mem', pos', unset', T)
  BY <1>1, PlaceKeepsSettled DEF S2
<1>3. Settled(mem, pos, unset, T)'
  BY <1>2 DEF Settled, CellsOK, Tiled, Graph, Covers, Body, SpaceEnd,
     InFrom, fromBegin, toEnd
<1>4. \A s \in Root : roots'[s] \in {Null} \cup T
  BY DEF Place, Control, S2
<1>5. Heaped(T, {})'
  BY <1>3, <1>4 DEF Heaped, Settled, Front
<1> QED BY <1>3, <1>5 DEF Memory, Settled

(* alloc() when there is room.                                             *)
LEMMA AllocFitsKeeps ==
  ASSUME HeapInv, NEW r \in Root, NEW n \in FieldCounts, AllocFits(r, n)
  PROVE  HeapInv'
<1>1. Control /\ Placed /\ Memory
  BY MemoryPlaced DEF HeapInv, AllocFits, At
<1>2. PICK S : /\ Settled(mem, pos, unset, S)
               /\ \A s \in Root : roots[s] \in {Null} \cup S
  BY <1>1, ProgramSettled DEF AllocFits, At
<1>3. n \in Nat
  BY SpaceAssumption
<1>4. Control'
  <2>1. /\ pos' = pos + n + 1 /\ roots' = [roots EXCEPT ![r] = pos] /\ pc = "program"
        /\ UNCHANGED <<toBegin, pc, request, toVisit, tracePos>>
    BY DEF AllocFits, Place, At
  <2>2. pos' \in Nat /\ toBegin' <= pos'
    BY <1>1, <1>3, <2>1, Sides DEF Placed
  <2>3. roots' = [s \in Root |-> roots'[s]]
    BY <1>1, <2>1 DEF Control
  <2> QED BY <1>1, <2>1, <2>2, <2>3 DEF Control, Collecting
<1>5. InSpace' => Memory'
  <2>1. ~Collecting' /\ toVisit = {} /\ Place(mem, r, n) /\ toBegin' = toBegin /\ toVisit' = toVisit
    BY <1>1 DEF Control, AllocFits, Collecting, At
  <2> QED BY <1>1, <1>2, <1>3, <2>1, PlaceKeeps
<1> QED BY <1>4, <1>5 DEF HeapInv

(* alloc() of an object that no space could hold touches nothing.          *)
LEMMA AllocTooLargeKeeps ==
  ASSUME HeapInv, NEW r \in Root, NEW n \in FieldCounts, AllocTooLarge(r, n)
  PROVE  HeapInv'
<1>1. Control /\ Placed /\ Memory /\ toVisit = {}
  BY MemoryPlaced DEF HeapInv, AllocTooLarge, At, Control
<1>2. PICK S : /\ Settled(mem, pos, unset, S)
               /\ \A s \in Root : roots[s] \in {Null} \cup S
  BY <1>1, ProgramSettled DEF AllocTooLarge, At
<1>3. Control'
  BY <1>1 DEF Control, AllocTooLarge, Collecting, At
<1>4. Memory'
  <2>1. Settled(mem, pos, unset, S)'
    BY <1>2 DEF AllocTooLarge, Settled, CellsOK, Tiled, Graph, Covers, Body, SpaceEnd,
       InFrom, fromBegin, toEnd
  <2>2. Heaped(S, {})'
    BY <1>1, <1>2, <2>1 DEF AllocTooLarge, Heaped, Settled, Front, Collecting
  <2> QED BY <2>1, <2>2 DEF Memory, Settled
<1> QED BY <1>3, <1>4 DEF HeapInv

(* The spaces are swapped: what was S is now F, and nothing is scanned.    *)
LEMMA SwapKeeps ==
  ASSUME HeapInv, At("program"), SwapSpaces,
         request' \in {<<>>} \cup (Root \X FieldCounts)
  PROVE  HeapInv'
<1>1. Control /\ Placed /\ Memory
  BY MemoryPlaced DEF HeapInv, At
<1>2. PICK S : /\ Settled(mem, pos, unset, S)
               /\ \A s \in Root : roots[s] \in {Null} \cup S
  BY <1>1, ProgramSettled DEF At
<1>3. /\ toBegin' = fromBegin /\ pos' = fromBegin /\ tracePos' = fromBegin
      /\ toVisit' \subseteq Root /\ toVisit' = Root /\ pc' = "roots" /\ mem' = mem /\ roots' = roots /\ unset' = unset
  BY DEF SwapSpaces
<1>4. /\ toBegin \in {1, SpaceCells + 1} /\ fromBegin \in {1, SpaceCells + 1}
      /\ fromBegin' = toBegin /\ toEnd' = fromBegin + SpaceCells
      /\ SpaceCells \in Nat /\ SpaceCells >= 1
  BY <1>1, <1>3, SpaceAssumption DEF Placed, fromBegin, toEnd
<1>5. Control'
  BY <1>1, <1>3, <1>4 DEF Control, Collecting
<1>6. \A c \in Cell : c \in Nat /\ (InFrom(c)' <=> ~InFrom(c)) /\ SpaceEnd(c)' = SpaceEnd(c)
  <2> SUFFICES ASSUME NEW c \in Cell
               PROVE  c \in Nat /\ (InFrom(c)' <=> ~InFrom(c)) /\ SpaceEnd(c)' = SpaceEnd(c)
    OBVIOUS
  <2>1. c \in Nat /\ 1 <= c /\ c <= 2 * SpaceCells
    BY <1>4 DEF Cell
  <2>2. InFrom(c)' <=> c >= toBegin /\ c < toBegin + SpaceCells
    BY <1>4 DEF InFrom
  <2>3. InFrom(c)' <=> ~InFrom(c)
    BY <2>1, <2>2, <1>4 DEF InFrom, fromBegin
  <2>4. SpaceEnd(c)' = IF InFrom(c) THEN fromBegin + SpaceCells ELSE toBegin + SpaceCells
    BY <2>3, <1>4 DEF SpaceEnd
  <2> QED BY <2>1, <2>3, <2>4 DEF SpaceEnd, toEnd
<1>7. CellsOK(mem)' /\ CellsOK(mem)
  BY <1>1, <1>3 DEF Memory, CellsOK
<1>8. Tiled(mem, pos)'
  <2> SUFFICES ASSUME NEW h \in Cell, mem[h].tag = "object"
               PROVE  /\ mem[h].size >= 1 /\ h + mem[h].size <= SpaceEnd(h)
                      /\ ~InFrom(h)' => ~ (h < fromBegin)
                      /\ \A f \in Body(mem, h) : mem[f].tag = "field"
    BY <1>3, <1>6 DEF Tiled, Body
  <2>1. ~InFrom(h)' => ~ (h < fromBegin)
    BY <1>4, <1>6 DEF InFrom
  <2> QED BY <1>2, <2>1 DEF Settled, Tiled
<1>9. S \subseteq Cell /\ \A h \in S : ~InFrom(h) /\ mem[h].tag = "object"
  <2> SUFFICES ASSUME NEW h \in S PROVE h \in Cell /\ ~InFrom(h) /\ mem[h].tag = "object"
    OBVIOUS
  <2>1. h \in toBegin..(pos - 1) /\ mem[h].tag = "object" BY <1>2 DEF Settled, Graph
  <2>2. h \in Nat /\ toBegin <= h /\ h < toEnd BY <2>1, <1>1, Sides DEF Placed
  <2> QED BY <2>1, <2>2, <1>1, Sides
<1>10. Graph(mem, pos, unset, Front, {}, S)'
  <2>1. \A h \in S : \A f \in Body(mem, h) \ unset : mem[f].ref \in {Null} \cup S
    BY <1>2 DEF Settled, Graph
  <2> QED BY <1>3, <1>6, <1>9, <2>1 DEF Graph, Body
<1>11. Heaped({}, S)'
  <2>1. Covers(mem, pos, {})'
    BY <1>3, <1>4 DEF Covers
  <2>2. \A s \in Root : roots'[s] \in {Null} \cup (IF s \in toVisit' THEN S ELSE {})
    BY <1>2, <1>3
  <2> QED BY <1>2, <1>3, <1>10, <2>1, <2>2 DEF Heaped, Settled
<1> QED BY <1>5, <1>7, <1>8, <1>11 DEF HeapInv, Memory

(* When all roots are traced the scan begins.                              *)
LEMMA RootsTracedKeeps ==
  ASSUME HeapInv, RootsTraced
  PROVE  HeapInv'
<1>1. Control /\ Placed /\ Memory
  BY MemoryPlaced DEF HeapInv, RootsTraced, At
<1>2. Control'
  BY <1>1 DEF Control, RootsTraced, At, Collecting
<1>3. PICK S, F : Heaped(S, F)
  BY <1>1 DEF Memory
<1>4. Heaped(S, F)'
  <2> Front' = Front BY DEF RootsTraced, At, Front, Collecting
  <2> QED BY <1>3 DEF RootsTraced, Heaped, Graph, Covers, Body, InFrom, fromBegin
<1>5. CellsOK(mem)' /\ Tiled(mem, pos)'
  BY <1>1 DEF Memory, RootsTraced, CellsOK, Tiled, Body, SpaceEnd, InFrom, fromBegin, toEnd
<1> QED BY <1>2, <1>4, <1>5 DEF HeapInv, Memory

(* The scan passes over a header.                                          *)
LEMMA ScanHeaderKeeps ==
  ASSUME HeapInv, ScanHeader
  PROVE  HeapInv'
<1>1. Control /\ Placed /\ Memory /\ pc = "scan"
  BY MemoryPlaced DEF HeapInv, ScanHeader, Scanning, At
<1>2. /\ mem[tracePos].tag = "object" /\ tracePos' = tracePos + 1
      /\ tracePos \in Nat /\ toBegin <= tracePos /\ tracePos < pos
      /\ UNCHANGED <<mem, toBegin, pos, roots, pc, request, toVisit, unset>>
  BY <1>1 DEF ScanHeader, Scanning, Control, Collecting
<1>3. Control'
  <2>1. tracePos' \in Nat /\ toBegin <= tracePos' /\ tracePos' <= pos
    BY <1>1, <1>2, Sides
  <2> QED BY <1>1, <1>2, <2>1 DEF Control, Collecting
<1>4. PICK S, F : Heaped(S, F)
  BY <1>1 DEF Memory
<1>5. Front = tracePos /\ Front' = tracePos + 1
  BY <1>1, <1>2 DEF Front, Collecting
<1>6. Graph(mem, pos, unset, tracePos + 1, S, F)
  <2>1. Graph(mem, pos, unset, tracePos, S, F)
    BY <1>4, <1>5 DEF Heaped
  <2>2. ASSUME NEW h \in S, NEW f \in Body(mem, h) \ unset
        PROVE  mem[f].ref \in {Null} \cup (IF f < tracePos + 1 THEN S ELSE F)
    <3>1. h \in toBegin..(pos - 1) /\ mem[h].tag = "object"
      BY <2>1 DEF Graph
    <3>2. h \in Nat /\ toBegin <= h /\ h < toEnd
      BY <3>1, <1>1, Sides DEF Placed
    <3>3. h \in Cell BY <3>2, <1>1, Sides
    <3>4. mem[f].tag = "field" BY <3>1, <3>3, <1>1 DEF Memory, Tiled
    <3>5. f # tracePos BY <3>4, <1>2
    <3>6. f \in Nat /\ mem[h].size \in Nat BY <3>2, <3>3, <1>1 DEF Body, Memory, CellsOK
    <3>7. f < tracePos + 1 <=> f < tracePos BY <3>5, <3>6, <1>2
    <3> QED BY <2>1, <3>7 DEF Graph
  <2> QED BY <2>1, <2>2 DEF Graph
<1>7. Heaped(S, F)'
  BY <1>2, <1>4, <1>5, <1>6 DEF Heaped, Graph, Covers, Body, InFrom, fromBegin
<1>8. CellsOK(mem)' /\ Tiled(mem, pos)'
  BY <1>1, <1>2 DEF Memory, CellsOK, Tiled, Body, SpaceEnd, InFrom, fromBegin, toEnd
<1> QED BY <1>3, <1>7, <1>8 DEF HeapInv, Memory

(* Where the heap keeps its control, a reference the collector meets is a  *)
(* natural, and with constructors that set every field one of F or null.   *)
LEMMA MetByScan ==
  ASSUME Control, Placed, Memory, Scanning("field"), NEW S, NEW F, Heaped(S, F)
  PROVE  /\ mem[tracePos].ref \in Nat /\ tracePos \in Nat /\ tracePos \in Cell
         /\ toBegin <= tracePos /\ tracePos < pos /\ mem[tracePos].tag = "field"
         /\ Graph(mem, pos, unset, tracePos, S, F)
         /\ ~LateInit => mem[tracePos].ref \in {Null} \cup F
<1>1. /\ tracePos \in Nat /\ toBegin <= tracePos /\ tracePos < pos
      /\ mem[tracePos].tag = "field" /\ Front = tracePos
  BY DEF Control, Scanning, At, Collecting, Front
<1>2. tracePos \in Cell
  <2> tracePos < toEnd BY <1>1, Sides DEF Placed
  <2> QED BY <1>1, Sides
<1>3. mem[tracePos].ref \in Nat
  BY <1>2 DEF Memory, CellsOK
<1>4. Graph(mem, pos, unset, tracePos, S, F)
  BY <1>1 DEF Heaped
<1>5. ASSUME ~LateInit PROVE mem[tracePos].ref \in {Null} \cup F
  <2>1. unset = {} /\ Covers(mem, pos, S)
    BY <1>5 DEF Heaped
  <2>2. tracePos \in toBegin..(pos - 1)
    BY <1>1, Sides
  <2>3. PICK h \in S : tracePos \in h..(h + mem[h].size - 1)
    BY <2>1, <2>2 DEF Covers
  <2>4. h \in toBegin..(pos - 1) /\ mem[h].tag = "object"
    BY <1>4 DEF Graph
  <2>5. h \in Nat /\ h # tracePos
    BY <2>4, <1>1, Sides
  <2>6. h \in Cell
    <3> toBegin <= h /\ h < toEnd BY <2>4, Sides DEF Placed
    <3> QED BY <2>5, Sides
  <2>7. mem[h].size \in Nat
    BY <2>6 DEF Memory, CellsOK
  <2>8. tracePos \in Body(mem, h) \ unset
    BY <2>1, <2>3, <2>5, <2>7, <1>1 DEF Body
  <2>9. ~ (tracePos < tracePos)
    BY <1>1
  <2> QED BY <1>4, <2>8, <2>9 DEF Graph
<1> QED BY <1>1, <1>2, <1>3, <1>4, <1>5

(* A root still to trace leads to what from-space held.                    *)
LEMMA MetByRoots ==
  ASSUME Control, Placed, Memory, At("roots"), NEW r \in toVisit, NEW S, NEW F, Heaped(S, F)
  PROVE  /\ roots[r] \in Nat /\ roots[r] \in {Null} \cup F /\ r \in Root
         /\ Graph(mem, pos, unset, tracePos, S, F) /\ tracePos \in Nat /\ tracePos <= pos
<1>1. tracePos \in Nat /\ tracePos <= pos /\ Front = tracePos
  BY DEF Control, At, Collecting, Front
<1>2. r \in Root /\ roots[r] \in {Null} \cup F /\ Graph(mem, pos, unset, tracePos, S, F)
  BY <1>1 DEF Heaped, Control
<1>3. roots[r] \in Nat
  BY <1>2, Sides DEF Graph, Null
<1> QED BY <1>1, <1>2, <1>3

(* traceStack() and traceStaticRoots(), a root at a time.                  *)
LEMMA TraceRootKeeps ==
  ASSUME HeapInv, NEW r \in Root, TraceRoot(r)
  PROVE  HeapInv'
<1>1. Control /\ Placed /\ Memory /\ r \in toVisit /\ At("roots") /\ pc = "roots"
  BY MemoryPlaced DEF HeapInv, TraceRoot, At
<1> DEFINE a == roots[r]
<1>2. /\ mem' = MemAfter(a) /\ pos' = PosAfter(a) /\ unset' = UnsetAfter(a)
      /\ roots' = [roots EXCEPT ![r] = Traced(a)] /\ toVisit' = toVisit \ {r}
      /\ UNCHANGED <<toBegin, pc, request, tracePos>> /\ ~Stale(a)
  BY DEF TraceRoot
<1>3. PICK S, F : Heaped(S, F)
  BY <1>1 DEF Memory
<1>4. /\ a \in Nat /\ a \in {Null} \cup F
      /\ Graph(mem, pos, unset, tracePos, S, F) /\ tracePos \in Nat /\ tracePos <= pos
  BY <1>1, <1>3, MetByRoots
<1> HIDE DEF a
<1>5. PosAfter(a) \in Nat /\ pos <= PosAfter(a)
  <2>1. CASE Unmoved(a)
    <3>1. a \in Cell BY <2>1, <1>1, <1>4, Sides DEF Unmoved
    <3>2. mem[a].size \in Nat BY <3>1, <1>1 DEF Memory, CellsOK
    <3> QED BY <2>1, <3>2, <1>1, Sides DEF PosAfter
  <2>2. CASE ~Unmoved(a)
    BY <2>2, <1>1, Sides DEF PosAfter
  <2> QED BY <2>1, <2>2
<1>6. Control'
  <2>1. toBegin <= pos'
    BY <1>1, <1>2, <1>5, Sides DEF Placed
  <2>2. tracePos <= pos'
    BY <1>1, <1>2, <1>4, <1>5, Sides
  <2>3. roots' = [s \in Root |-> roots'[s]]
    BY <1>1, <1>2 DEF Control
  <2> QED BY <1>1, <1>2, <1>5, <2>1, <2>2, <2>3 DEF Control, Collecting
<1>7. ASSUME InSpace' PROVE Memory'
  <2>1. PosAfter(a) <= toEnd
    BY <1>2, <1>7 DEF InSpace, toEnd
  <2>2. ~LateInit => unset = {} /\ Covers(mem, pos, S)
    BY <1>3 DEF Heaped
  <2>3. PICK S2 :
          /\ S \subseteq S2
          /\ CellsOK(MemAfter(a)) /\ Tiled(MemAfter(a), PosAfter(a))
          /\ Graph(MemAfter(a), PosAfter(a), UnsetAfter(a), tracePos, S2, F)
          /\ ~LateInit => UnsetAfter(a) = {} /\ Covers(MemAfter(a), PosAfter(a), S2)
          /\ a \in {Null} \cup F => Traced(a) \in {Null} \cup S2
          /\ Traced(a) \in Nat /\ PosAfter(a) \in Nat /\ pos <= PosAfter(a)
          /\ \A c \in toBegin..(pos - 1) : MemAfter(a)[c] = mem[c]
    BY <1>1, <1>2, <1>4, <2>1, <2>2, TraceKeepsMemory DEF Memory
  <2>4. CellsOK(mem)' /\ Tiled(mem, pos)'
    BY <1>2, <2>3 DEF CellsOK, Tiled, Body, SpaceEnd, InFrom, fromBegin, toEnd
  <2>5. Graph(mem, pos, unset, Front, S2, F)'
    <3> Front' = tracePos BY <1>1, <1>2 DEF Front, Collecting
    <3> QED BY <1>2, <2>3 DEF Graph, Body, InFrom, fromBegin
  <2>6. ~LateInit => unset' = {} /\ Covers(mem, pos, S2)'
    BY <1>2, <2>3 DEF Covers
  <2>7. \A s \in Root : roots'[s] \in {Null} \cup (IF s \in toVisit' THEN F ELSE S2)
    <3> SUFFICES ASSUME NEW s \in Root
                 PROVE  roots'[s] \in {Null} \cup (IF s \in toVisit' THEN F ELSE S2)
      OBVIOUS
    <3>1. roots'[s] = IF s = r THEN Traced(a) ELSE roots[s]
      BY <1>1, <1>2 DEF Control
    <3>2. roots[s] \in {Null} \cup (IF s \in toVisit THEN F ELSE S)
      BY <1>3 DEF Heaped
    <3>3. CASE s = r BY <3>1, <3>3, <1>2, <1>4, <2>3
    <3>4. CASE s # r BY <3>1, <3>2, <3>4, <1>2, <2>3
    <3> QED BY <3>3, <3>4
  <2>8. Heaped(S2, F)'
    BY <2>5, <2>6, <2>7 DEF Heaped
  <2> QED BY <2>4, <2>8 DEF Memory
<1> QED BY <1>6, <1>7 DEF HeapInv

(* The scan of a field.                                                    *)
LEMMA ScanFieldKeeps ==
  ASSUME HeapInv, ScanField
  PROVE  HeapInv'
<1>1. Control /\ Placed /\ Memory /\ Scanning("field") /\ pc = "scan"
  BY MemoryPlaced DEF HeapInv, ScanField, Scanning, At
<1> DEFINE a == mem[tracePos].ref
           m == MemAfter(a)
<1>2. /\ mem' = [m EXCEPT ![tracePos] = Field(Traced(a))]
      /\ pos' = PosAfter(a) /\ unset' = UnsetAfter(a)
      /\ tracePos' = tracePos + 1 /\ UNCHANGED <<toBegin, roots, pc, request, toVisit>>
      /\ ~Stale(a)
  BY DEF ScanField
<1>3. PICK S, F : Heaped(S, F)
  BY <1>1 DEF Memory
<1>4. /\ a \in Nat /\ tracePos \in Nat /\ tracePos \in Cell
      /\ toBegin <= tracePos /\ tracePos < pos /\ mem[tracePos].tag = "field"
      /\ Graph(mem, pos, unset, tracePos, S, F)
      /\ ~LateInit => a \in {Null} \cup F
  BY <1>1, <1>3, MetByScan
<1>5. PosAfter(a) \in Nat /\ pos <= PosAfter(a)
  <2> HIDE DEF a
  <2>1. CASE Unmoved(a)
    <3>1. a \in Cell BY <2>1, <1>1, <1>4, Sides DEF Unmoved
    <3>2. mem[a].size \in Nat BY <3>1, <1>1 DEF Memory, CellsOK
    <3> QED BY <2>1, <3>2, <1>1, Sides DEF PosAfter
  <2>2. CASE ~Unmoved(a)
    BY <2>2, <1>1, Sides DEF PosAfter
  <2> QED BY <2>1, <2>2
<1>6. Control'
  <2> HIDE DEF a, m
  <2>1. toBegin <= pos' /\ tracePos' \in Nat /\ toBegin <= tracePos' /\ tracePos' <= pos'
    BY <1>1, <1>2, <1>4, <1>5, Sides DEF Placed
  <2> QED BY <1>1, <1>2, <1>5, <2>1 DEF Control, Collecting
<1>7. ASSUME InSpace' PROVE Memory'
  <2>1. PosAfter(a) <= toEnd /\ tracePos <= pos /\ pos \in Nat
    BY <1>1, <1>2, <1>4, <1>7, Sides DEF InSpace, toEnd
  <2>2. ~LateInit => unset = {} /\ Covers(mem, pos, S)
    BY <1>3 DEF Heaped
  <2> HIDE DEF a
  <2>3. PICK S2 :
          /\ S \subseteq S2
          /\ CellsOK(MemAfter(a)) /\ Tiled(MemAfter(a), PosAfter(a))
          /\ Graph(MemAfter(a), PosAfter(a), UnsetAfter(a), tracePos, S2, F)
          /\ ~LateInit => UnsetAfter(a) = {} /\ Covers(MemAfter(a), PosAfter(a), S2)
          /\ a \in {Null} \cup F => Traced(a) \in {Null} \cup S2
          /\ Traced(a) \in Nat /\ PosAfter(a) \in Nat /\ pos <= PosAfter(a)
          /\ \A c \in toBegin..(pos - 1) : MemAfter(a)[c] = mem[c]
    BY <1>1, <1>2, <1>4, <2>1, <2>2, TraceKeepsMemory DEF Memory
  <2>4. m[tracePos] = mem[tracePos] /\ tracePos \in toBegin..(PosAfter(a) - 1)
    <3>1. tracePos \in toBegin..(pos - 1) /\ tracePos \in toBegin..(PosAfter(a) - 1)
      BY <1>1, <1>4, <1>5, Sides
    <3> QED BY <2>3, <3>1
  <2>5. CellsOK(mem') /\ Tiled(mem', PosAfter(a))
    BY <1>1, <1>2, <1>4, <2>3, <2>4, WriteKeepsTiles
  <2>6. Graph(mem', PosAfter(a), UnsetAfter(a), tracePos + 1, S2, F)
    <3>1. ASSUME NEW h \in S2, tracePos \in Body(m, h) \ UnsetAfter(a)
          PROVE  Traced(a) \in {Null} \cup (IF tracePos < tracePos + 1 THEN S2 ELSE F)
      <4>1. ~ (tracePos < tracePos) /\ tracePos < tracePos + 1 BY <1>4
      <4>2. m[tracePos].ref = a BY <2>4 DEF a
      <4>3. a \in {Null} \cup F
        BY <2>3, <3>1, <4>1, <4>2 DEF Graph
      <4> QED BY <2>3, <4>1, <4>3
    <3>2. \A g \in Nat \ {tracePos} : g < tracePos + 1 <=> g < tracePos
      BY <1>4
    <3> HIDE DEF m
    <3>3. CellsOK(m) /\ Tiled(m, PosAfter(a)) /\ Graph(m, PosAfter(a), UnsetAfter(a), tracePos, S2, F)
      BY <2>3 DEF m
    <3>4. tracePos + 1 \in Nat /\ m[tracePos].tag = "field" BY <1>4, <2>4
    <3> QED BY <1>1, <1>2, <1>4, <1>5, <2>1, <2>3, <2>4, <3>1, <3>2, <3>3, <3>4, WriteKeepsGraph
  <2>7. ~LateInit => unset' = {} /\ Covers(mem', PosAfter(a), S2)
    <3> SUFFICES ASSUME ~LateInit PROVE unset' = {} /\ Covers(mem', PosAfter(a), S2)
      OBVIOUS
    <3>1. S2 \subseteq toBegin..(PosAfter(a) - 1) /\ \A h \in S2 : m[h].tag = "object"
      BY <2>3 DEF Graph
    <3>2. S2 \in SUBSET Cell
      <4>1. \A c \in toBegin..(PosAfter(a) - 1) : c \in Nat /\ toBegin <= c /\ c < toEnd
        BY <1>1, <1>5, <2>1, Sides
      <4> QED BY <1>1, <3>1, <4>1, Sides
    <3>3. CellsOK(m) /\ Covers(m, PosAfter(a), S2) /\ m[tracePos].tag = "field"
      BY <2>3, <2>4, <1>4
    <3> HIDE DEF m
    <3>4. Covers([m EXCEPT ![tracePos] = Field(Traced(a))], PosAfter(a), S2)
      BY <1>4, <3>1, <3>2, <3>3, WriteKeepsCovers
    <3> QED BY <1>2, <2>3, <3>4
  <2> HIDE DEF m
  <2>8. CellsOK(mem)' /\ Tiled(mem, pos)'
    BY <1>2, <2>5 DEF CellsOK, Tiled, Body, SpaceEnd, InFrom, fromBegin, toEnd
  <2>9. Graph(mem, pos, unset, Front, S2, F)'
    <3> Front' = tracePos + 1 BY <1>1, <1>2 DEF Front, Collecting
    <3> QED BY <1>2, <2>6 DEF Graph, Body, InFrom, fromBegin
  <2>10. \A s \in Root : roots'[s] \in {Null} \cup (IF s \in toVisit' THEN F ELSE S2)
    <3> toVisit = {} BY <1>1 DEF Control
    <3> QED BY <1>2, <1>3, <2>3 DEF Heaped
  <2>11. Heaped(S2, F)'
    BY <1>2, <2>7, <2>9, <2>10 DEF Heaped, Covers
  <2> QED BY <2>8, <2>11 DEF Memory
<1> QED BY <1>6, <1>7 DEF HeapInv

(* With constructors that set every field nothing stale is ever met.       *)
LEMMA NothingStale ==
  ASSUME Control, Placed, Memory, ~LateInit
  PROVE  ~FollowStale
<1>1. PICK S, F : Heaped(S, F)
  BY DEF Memory
<1>2. \A a \in {Null} \cup F : ~Stale(a)
  BY <1>1, Sides DEF Heaped, Graph, Stale
<1>3. ~ (Scanning("field") /\ Stale(mem[tracePos].ref))
  BY <1>1, <1>2, MetByScan
<1>4. ~ (At("roots") /\ \E r \in toVisit : Stale(roots[r]))
  <2> SUFFICES ASSUME At("roots"), NEW r \in toVisit PROVE ~Stale(roots[r])
    OBVIOUS
  <2> roots[r] \in {Null} \cup F BY <1>1, MetByRoots
  <2> QED BY <1>2
<1> QED BY <1>3, <1>4 DEF FollowStale

(* The states in which the model stops.                                    *)
LEMMA FollowStaleKeeps ==
  ASSUME HeapInv, FollowStale
  PROVE  HeapInv'
<1>1. Control /\ Placed /\ Memory /\ Collecting
  BY MemoryPlaced DEF HeapInv, FollowStale, Scanning, At, Collecting
<1>2. LateInit
  BY <1>1, NothingStale
<1>3. Control'
  BY <1>1, <1>2 DEF Control, FollowStale, Collecting
<1> QED BY <1>3 DEF HeapInv, FollowStale

(* alloc() after a collection.                                             *)
LEMMA ResumeAllocKeeps ==
  ASSUME HeapInv, ResumeAlloc
  PROVE  HeapInv'
<1>1. Control /\ Placed /\ Memory /\ toVisit = {} /\ pc = "scan" /\ tracePos = pos
  BY MemoryPlaced DEF HeapInv, ResumeAlloc, At, Control
<1>2. PICK S : /\ Settled(mem, pos, unset, S)
               /\ \A s \in Root : roots[s] \in {Null} \cup S
  BY <1>1, ProgramSettled
<1>3. PICK r \in Root, n \in FieldCounts : request = <<r, n>>
  BY <1>1 DEF Control, ResumeAlloc
<1>4. n \in Nat
  BY SpaceAssumption
<1>5. /\ Place(LeaveFrom(mem), r, n) /\ pc' = "program" /\ request' = <<>>
      /\ UNCHANGED <<toBegin, toVisit, tracePos>>
  BY <1>3 DEF ResumeAlloc
<1>6. Settled(LeaveFrom(mem), pos, unset, S)
  BY <1>1, <1>2, LeaveFromSettled
<1>7. Control'
  <2>1. /\ pos' = pos + n + 1 /\ roots' = [roots EXCEPT ![r] = pos]
    BY <1>5 DEF Place
  <2>2. pos' \in Nat /\ toBegin' <= pos'
    BY <1>1, <1>4, <1>5, <2>1, Sides DEF Placed
  <2>3. roots' = [s \in Root |-> roots'[s]]
    BY <1>1, <2>1 DEF Control
  <2> QED BY <1>1, <1>5, <2>2, <2>3 DEF Control, Collecting
<1>8. InSpace' => Memory'
  <2>1. ~Collecting' BY <1>5 DEF Collecting
  <2> QED BY <1>1, <1>2, <1>4, <1>5, <1>6, <2>1, PlaceKeeps
<1> QED BY <1>7, <1>8 DEF HeapInv

(* A call of GC.collect() returns.                                         *)
LEMMA EndCollectKeeps ==
  ASSUME HeapInv, EndCollect
  PROVE  HeapInv'
<1>1. Control /\ Placed /\ Memory /\ toVisit = {} /\ pc = "scan" /\ tracePos = pos
  BY MemoryPlaced DEF HeapInv, EndCollect, At, Control
<1>2. PICK S : /\ Settled(mem, pos, unset, S)
               /\ \A s \in Root : roots[s] \in {Null} \cup S
  BY <1>1, ProgramSettled
<1>3. /\ pc' = "program" /\ mem' = LeaveFrom(mem)
      /\ UNCHANGED <<toBegin, pos, roots, request, toVisit, tracePos, unset>>
  BY DEF EndCollect
<1>4. Settled(mem', pos, unset, S)
  BY <1>1, <1>2, <1>3, LeaveFromSettled
<1>5. Control'
  BY <1>1, <1>3 DEF Control, Collecting
<1>6. Settled(mem, pos, unset, S)'
  BY <1>3, <1>4 DEF Settled, CellsOK, Tiled, Graph, Covers, Body, SpaceEnd,
     InFrom, fromBegin, toEnd
<1>7. Heaped(S, {})'
  BY <1>1, <1>2, <1>3, <1>6 DEF Heaped, Settled, Front, Collecting
<1> QED BY <1>5, <1>6, <1>7 DEF HeapInv, Memory, Settled

(* Every step keeps the heap well formed.                                  *)
LEMMA HeapStep == HeapInv /\ [Next]_vars => HeapInv'
<1> SUFFICES ASSUME HeapInv, [Next]_vars PROVE HeapInv'
  OBVIOUS
<1>1. CASE At("program") /\ \E r \in Root : \E v \in Values \cup Loaded : SetRoot(r, v)
  BY <1>1, SetRootKeeps
<1>2. CASE At("program") /\ \E f \in RootFields : \E v \in Values : SetField(f, v)
  BY <1>2, SetFieldKeeps
<1>3. ASSUME NEW r \in Root, NEW n \in FieldCounts, AllocFits(r, n) PROVE HeapInv'
  BY <1>3, AllocFitsKeeps
<1>4. ASSUME NEW r \in Root, NEW n \in FieldCounts, AllocTooLarge(r, n) PROVE HeapInv'
  BY <1>4, AllocTooLargeKeeps
<1>5. ASSUME NEW r \in Root, NEW n \in FieldCounts, AllocCollects(r, n) PROVE HeapInv'
  <2> At("program") /\ SwapSpaces /\ request' = <<r, n>>
    BY <1>5 DEF AllocCollects
  <2> QED BY SwapKeeps
<1>6. CASE Collect
  <2> At("program") /\ SwapSpaces /\ request' = <<>>
    BY <1>6 DEF Collect
  <2> QED BY SwapKeeps
<1>7. ASSUME NEW r \in Root, TraceRoot(r) PROVE HeapInv'
  BY <1>7, TraceRootKeeps
<1>8. CASE RootsTraced BY <1>8, RootsTracedKeeps
<1>9. CASE ScanHeader BY <1>9, ScanHeaderKeeps
<1>10. CASE ScanField BY <1>10, ScanFieldKeeps
<1>11. CASE FollowStale BY <1>11, FollowStaleKeeps
<1>12. CASE ResumeAlloc BY <1>12, ResumeAllocKeeps
<1>13. CASE EndCollect BY <1>13, EndCollectKeeps
<1>14. CASE UNCHANGED vars
  <2>1. Control'
    BY <1>14 DEF vars, HeapInv, Control, Collecting
  <2>2. ASSUME InSpace', pc' # "corrupt" PROVE Memory'
    <3>1. PICK S, F : Heaped(S, F)
      BY <1>14, <2>2 DEF vars, HeapInv, InSpace, toEnd, Memory
    <3>2. Front' = Front
      BY <1>14 DEF vars, Front, Collecting
    <3>3. Heaped(S, F)'
      BY <1>14, <3>1, <3>2 DEF vars, Heaped, Graph, Covers, Body, InFrom, fromBegin
    <3>4. CellsOK(mem)' /\ Tiled(mem, pos)'
      BY <1>14, <2>2 DEF vars, HeapInv, InSpace, Memory, CellsOK, Tiled, Body,
         SpaceEnd, InFrom, fromBegin, toEnd
    <3> QED BY <3>3, <3>4 DEF Memory
  <2> QED BY <2>1, <2>2 DEF HeapInv
<1> QED
  BY <1>1, <1>2, <1>3, <1>4, <1>5, <1>6, <1>7, <1>8, <1>9, <1>10, <1>11, <1>12, <1>13, <1>14
  DEF Next, Program, Collector

(* The memory of the collector is well formed in every state: headers      *)
(* stand before their fields, the objects that roots and set fields lead   *)
(* to are complete objects of the one space or the other, and what was     *)
(* moved out of from-space left a pointer to its copy (GC1.tart, collect   *)
(* and tracePointer).                                                      *)
THEOREM HeapInvariant == Spec => []HeapInv
BY InitHeap, HeapStep, PTL DEF Spec

(* tracePointer() follows references to the heads of objects only, never   *)
(* stale memory, when constructors set every field before they allocate.   *)
THEOREM CollectorTracesObjectsOnly ==
  ASSUME ~LateInit
  PROVE  Spec => []TracesObjectsOnly
<1>1. HeapInv => TracesObjectsOnly
  BY DEF HeapInv, Control, TracesObjectsOnly
<1> QED BY <1>1, HeapInvariant, PTL

-----------------------------------------------------------------------------
(* The set of objects in reach is the least that holds those the roots     *)
(* lead to and is closed under set references.                             *)
LEMMA WithinUnfolds ==
  ASSUME NEW C, RootObjects \subseteq C, Targets(C) \subseteq C
  PROVE  /\ Within[0] = RootObjects
         /\ \A n \in Nat : Within[n + 1] = Within[n] \cup Targets(Within[n])
         /\ Within \in [Nat -> SUBSET C]
<1> DEFINE step == [p \in Nat \X SUBSET C |-> p[2] \cup Targets(p[2])]
           G(f) == [n \in Nat |-> IF n = 0 THEN RootObjects
                                  ELSE LET S == f[n - 1] IN S \cup Targets(S)]
<1>1. \A T \in SUBSET C : Targets(T) \subseteq C
  BY DEF Targets
<1>2. step \in [Nat \X SUBSET C -> SUBSET C]
  BY <1>1
<1>3. PICK f \in [Nat -> SUBSET C] :
        f[0] = RootObjects /\ \A n \in Nat : f[n + 1] = step[<<n, f[n]>>]
  <2> HIDE DEF step
  <2>1. RootObjects \in SUBSET C OBVIOUS
  <2> DEFINE X == SUBSET C
  <2>2. step \in [Nat \X X -> X] /\ RootObjects \in X BY <1>2, <2>1
  <2> HIDE DEF X
  <2>3. Iterates(X, RootObjects, step)
    BY <2>2, Recursion
  <2> QED BY <2>3 DEF X, Iterates
<1>4. \A n \in Nat : f[n + 1] = f[n] \cup Targets(f[n])
  BY <1>3
<1>5. f = G(f)
  <2> SUFFICES ASSUME NEW n \in Nat PROVE f[n] = G(f)[n]
    OBVIOUS
  <2>1. CASE n = 0 BY <1>3, <2>1
  <2>2. CASE n # 0
    <3> n - 1 \in Nat /\ (n - 1) + 1 = n BY <2>2
    <3> f[n] = f[n - 1] \cup Targets(f[n - 1]) BY <1>4
    <3> QED BY <2>2
  <2> QED BY <2>1, <2>2
<1>6. Within = G(Within)
  BY <1>5 DEF Within
<1>7. Within[0] = RootObjects
  BY <1>6
<1>8. \A n \in Nat : Within[n + 1] = Within[n] \cup Targets(Within[n])
  <2> SUFFICES ASSUME NEW n \in Nat
               PROVE  Within[n + 1] = Within[n] \cup Targets(Within[n])
    OBVIOUS
  <2> n + 1 \in Nat /\ n + 1 # 0 /\ (n + 1) - 1 = n OBVIOUS
  <2> G(Within)[n + 1] = Within[n] \cup Targets(Within[n]) OBVIOUS
  <2> QED BY <1>6
<1>9. Within \in [Nat -> SUBSET C]
  <2> DEFINE T == {n \in Nat : Within[n] \in SUBSET C}
  <2>1. 0 \in T BY <1>7
  <2>2. ASSUME NEW n \in Nat, n \in T PROVE n + 1 \in T
    BY <2>2, <1>1, <1>8
  <2>3. Nat \subseteq T
    <3> HIDE DEF T
    <3> QED BY <2>1, <2>2, Induction
  <2>4. \A n \in Nat : Within[n] \in SUBSET C
    BY <2>3
  <2>5. Within = [n \in Nat |-> Within[n]]
    BY <1>6
  <2> QED BY <2>4, <2>5
<1> QED BY <1>7, <1>8, <1>9

(* Live, which is computed by iteration, is that least set.                *)
LEMMA LiveIsLeast ==
  ASSUME NEW C \in SUBSET Cell, RootObjects \subseteq C, Targets(C) \subseteq C
  PROVE  /\ RootObjects \subseteq Live /\ Targets(Live) \subseteq Live /\ Live \subseteq C
         /\ \A D : RootObjects \subseteq D /\ Targets(D) \subseteq D => Live \subseteq D
<1>1. /\ Within[0] = RootObjects
      /\ \A n \in Nat : Within[n + 1] = Within[n] \cup Targets(Within[n])
      /\ Within \in [Nat -> SUBSET C]
  BY WithinUnfolds
<1>2. IsFiniteSet(Cell) /\ Cardinality(Cell) = 2 * SpaceCells
  <2>1. 1 \in Int /\ 2 * SpaceCells \in Int /\ ~ (1 > 2 * SpaceCells)
        /\ 2 * SpaceCells - 1 + 1 = 2 * SpaceCells
    BY SpaceAssumption
  <2> QED BY <2>1, FS_Interval DEF Cell
<1>3. PICK n \in 0..(2 * SpaceCells) : Within[n + 1] = Within[n]
  <2>1. Within \in [Nat -> SUBSET Cell] /\ \A n \in Nat : Within[n] \subseteq Within[n + 1]
    BY <1>1
  <2> QED BY <1>2, <2>1, FiniteChain
<1> DEFINE m == CHOOSE i \in 0..(2 * SpaceCells) : Within[i + 1] = Within[i]
<1>4. m \in 0..(2 * SpaceCells) /\ Within[m + 1] = Within[m] /\ Live = Within[m]
  BY <1>3 DEF Live
<1>5. m \in Nat
  BY <1>4, SpaceAssumption
<1> HIDE DEF m
<1>6. Live \subseteq C /\ Targets(Live) \subseteq Live
  BY <1>1, <1>4, <1>5
<1>7. RootObjects \subseteq Live
  <2> DEFINE T == {i \in Nat : RootObjects \subseteq Within[i]}
  <2>1. 0 \in T BY <1>1
  <2>2. ASSUME NEW i \in Nat, i \in T PROVE i + 1 \in T
    BY <2>2, <1>1
  <2>3. Nat \subseteq T
    <3> HIDE DEF T
    <3> QED BY <2>1, <2>2, Induction
  <2> QED BY <2>3, <1>4, <1>5
<1>8. ASSUME NEW D, RootObjects \subseteq D, Targets(D) \subseteq D PROVE Live \subseteq D
  <2>1. Within \in [Nat -> SUBSET D]
    BY <1>8, WithinUnfolds
  <2> QED BY <2>1, <1>4, <1>5
<1> QED BY <1>6, <1>7, <1>8

(* References that stay in a set have their targets there.                 *)
LEMMA TargetsIn ==
  ASSUME NEW T, NEW D,
         \A h \in T : \A f \in SetFields(h) : Resolve(mem[f].ref) \in {Null} \cup D
  PROVE  Targets(T) \subseteq D
<1> DEFINE Of(h) == {Resolve(mem[f].ref) : f \in SetFields(h)}
<1>1. Targets(T) = (UNION {Of(h) : h \in T}) \ {Null}
  BY DEF Targets
<1>2. \A h \in T : Of(h) \subseteq {Null} \cup D
  OBVIOUS
<1> HIDE DEF Of
<1> QED BY <1>1, <1>2

(* The target of a set reference is among the targets.                     *)
LEMMA TargetsHas ==
  ASSUME NEW T, NEW h \in T, NEW f \in SetFields(h), Resolve(mem[f].ref) # Null
  PROVE  Resolve(mem[f].ref) \in Targets(T)
<1> DEFINE Of(g) == {Resolve(mem[e].ref) : e \in SetFields(g)}
           y == Resolve(mem[f].ref)
<1>1. Targets(T) = (UNION {Of(g) : g \in T}) \ {Null}
  BY DEF Targets
<1>2. y \in Of(h) /\ y # Null
  OBVIOUS
<1> HIDE DEF Of, y
<1>3. y \in Targets(T)
  BY <1>1, <1>2
<1> QED BY <1>3 DEF y

(* A closed set that holds what the roots lead to: the objects of S, and   *)
(* those of F that were not moved.  All references met in it resolve to it.*)
Objects(S, F) == S \cup {h \in F : mem[h].tag = "object"}

(* The objects of an S and F of the invariant are such a closed set.       *)
LEMMA ObjectsAreClosed ==
  ASSUME Control, Placed, Memory, NEW S, NEW F, Heaped(S, F)
  PROVE  /\ Objects(S, F) \subseteq Cell /\ S \subseteq Cell /\ F \subseteq Cell
         /\ \A h \in Objects(S, F) : mem[h].tag = "object"
         /\ \A a \in S : ~InFrom(a)
         /\ \A a \in {Null} \cup S \cup F : Resolve(a) \in {Null} \cup Objects(S, F)
         /\ \A h \in Objects(S, F) : \A f \in SetFields(h) : mem[f].ref \in {Null} \cup S \cup F
         /\ \A r \in Root : roots[r] \in {Null} \cup S \cup F
         /\ RootObjects \subseteq Objects(S, F)
         /\ Targets(Objects(S, F)) \subseteq Objects(S, F)
<1>1. /\ \A h \in S : mem[h].tag = "object"
      /\ F \subseteq Cell
      /\ \A a \in F : mem[a].tag = "object" \/ (mem[a].tag = "moved" /\ mem[a].ref \in S)
      /\ \A h \in S : \A f \in Body(mem, h) \ unset : mem[f].ref \in {Null} \cup S \cup F
      /\ \A h \in F : mem[h].tag = "object" =>
            \A f \in Body(mem, h) \ unset : mem[f].ref \in {Null} \cup F
  BY DEF Heaped, Graph
<1>2. S \subseteq Cell /\ \A a \in S : ~InFrom(a)
  <2> SUFFICES ASSUME NEW h \in S PROVE h \in Cell /\ ~InFrom(h)
    OBVIOUS
  <2>1. h \in toBegin..(pos - 1) BY DEF Heaped, Graph
  <2>2. h \in Nat /\ toBegin <= h /\ h < toEnd BY <2>1, Sides DEF Placed
  <2> QED BY <2>2, Sides
<1>3. Objects(S, F) \subseteq Cell /\ \A h \in Objects(S, F) : mem[h].tag = "object"
  BY <1>1, <1>2 DEF Objects
<1>4. \A a \in {Null} \cup S \cup F : Resolve(a) \in {Null} \cup Objects(S, F)
  BY <1>1 DEF Objects, Resolve
<1>5. ASSUME NEW h \in Objects(S, F), NEW f \in SetFields(h)
      PROVE  mem[f].ref \in {Null} \cup S \cup F
  <2> f \in Body(mem, h) \ unset BY DEF SetFields, FieldsOf, Body
  <2> QED BY <1>1 DEF Objects
<1>6. \A r \in Root : roots[r] \in {Null} \cup S \cup F
  BY DEF Heaped
<1>7. RootObjects \subseteq Objects(S, F)
  BY <1>4, <1>6 DEF RootObjects
<1>8. Targets(Objects(S, F)) \subseteq Objects(S, F)
  BY <1>4, <1>5, TargetsIn
<1> QED BY <1>1, <1>2, <1>3, <1>4, <1>5, <1>6, <1>7, <1>8

(* So all that is in reach is among them.                                  *)
LEMMA LiveObjects ==
  ASSUME Control, Placed, Memory, NEW S, NEW F, Heaped(S, F)
  PROVE  /\ Live \subseteq Objects(S, F)
         /\ RootObjects \subseteq Live /\ Targets(Live) \subseteq Live
         /\ \A D : RootObjects \subseteq D /\ Targets(D) \subseteq D => Live \subseteq D
BY ObjectsAreClosed, LiveIsLeast

(* While the program runs, every root and every field it set leads to the  *)
(* head of an object outside from-space, even when constructors allocate   *)
(* before they set their fields and collections have copied what such      *)
(* fields held.                                                            *)
THEOREM ReferencesThatWereSetAreSound == Spec => []SetReferencesAreSound
<1>1. HeapInv => SetReferencesAreSound
  <2> SUFFICES ASSUME HeapInv, pc = "program", InSpace,
                      NEW a \in {roots[r] : r \in Root}
                               \cup UNION {{mem[f].ref : f \in SetFields(h)} : h \in Live},
                      a # Null
               PROVE  ~InFrom(a) /\ mem[a].tag = "object"
    BY DEF SetReferencesAreSound
  <2>1. Control /\ Placed /\ Memory
    BY MemoryPlaced DEF HeapInv
  <2>2. PICK S : /\ Settled(mem, pos, unset, S)
                 /\ \A r \in Root : roots[r] \in {Null} \cup S
    BY <2>1, ProgramSettled
  <2>3. Heaped(S, {})
    BY <2>1, <2>2 DEF Heaped, Settled, Front, Collecting, Control
  <2>4. Objects(S, {}) = S
    BY DEF Objects
  <2>5. Live \subseteq S
    BY <2>1, <2>3, <2>4, LiveObjects
  <2>6. a \in S
    BY <2>1, <2>2, <2>3, <2>4, <2>5, ObjectsAreClosed
  <2> QED BY <2>1, <2>3, <2>4, <2>6, ObjectsAreClosed
<1> QED BY <1>1, HeapInvariant, PTL

-----------------------------------------------------------------------------
(* With constructors that set every field.  Held(r) and Leads(h, i) are    *)
(* the objects that the root r and the i-th field of h lead to; Live is    *)
(* the least set closed under them.                                        *)
Held(r)     == Resolve(roots[r])
Leads(h, i) == Resolve(mem[h + i].ref)
Block(h)    == h..(h + mem[h].size - 1)

Sound == ~LateInit /\ Control /\ InSpace /\ Memory

Reach ==
  /\ unset = {} /\ Live \in SUBSET Cell
  /\ \A h \in Live : mem[h].tag = "object" /\ (InFrom(h) \/ h \in toBegin..(pos - 1))
  /\ \A r \in Root : Held(r) \in {Null} \cup Live
  /\ \A h \in Live : \A i \in 1..(mem[h].size - 1) : Leads(h, i) \in {Null} \cup Live
  /\ \A D : /\ \A r \in Root : Held(r) \in {Null} \cup D
            /\ \A h \in D \cap Live : \A i \in 1..(mem[h].size - 1) :
                  Leads(h, i) \in {Null} \cup D
            => Live \subseteq D

(* When all fields are set, those of an object go by their number.         *)
LEMMA FieldsByNumber ==
  ASSUME CellsOK(mem), unset = {}, NEW h \in Cell
  PROVE  /\ \A i \in 1..(mem[h].size - 1) : h + i \in SetFields(h)
         /\ \A f \in SetFields(h) : \E i \in 1..(mem[h].size - 1) : f = h + i
<1>1. mem[h].size \in Nat /\ h \in Nat /\ SetFields(h) = (h + 1)..(h + mem[h].size - 1)
  BY SpaceAssumption DEF CellsOK, SetFields, FieldsOf, Cell
<1>2. ASSUME NEW f \in SetFields(h) PROVE \E i \in 1..(mem[h].size - 1) : f = h + i
  <2> f - h \in 1..(mem[h].size - 1) /\ f = h + (f - h) BY <1>1
  <2> QED OBVIOUS
<1>3. \A i \in 1..(mem[h].size - 1) : h + i \in SetFields(h)
  BY <1>1
<1> QED BY <1>2, <1>3

(* A heap that satisfies the invariant has all of Reach.                   *)
LEMMA SoundReaches == Sound => Reach
<1> SUFFICES ASSUME Sound PROVE Reach
  OBVIOUS
<1>1. Control /\ Placed /\ Memory /\ CellsOK(mem)
  BY MemoryPlaced DEF Sound, Memory
<1>2. PICK S, F : Heaped(S, F)
  BY <1>1 DEF Memory
<1>3. unset = {}
  BY <1>2 DEF Heaped, Sound
<1>4. /\ Live \subseteq Objects(S, F)
      /\ RootObjects \subseteq Live /\ Targets(Live) \subseteq Live
      /\ \A D : RootObjects \subseteq D /\ Targets(D) \subseteq D => Live \subseteq D
  BY <1>1, <1>2, LiveObjects
<1>5. Objects(S, F) \subseteq Cell /\ \A h \in Objects(S, F) : mem[h].tag = "object"
  BY <1>1, <1>2, ObjectsAreClosed
<1>6. \A h \in Objects(S, F) : InFrom(h) \/ h \in toBegin..(pos - 1)
  BY <1>2 DEF Objects, Heaped, Graph
<1>7. \A r \in Root : Held(r) \in {Null} \cup Live
  BY <1>4 DEF Held, RootObjects
<1>8. ASSUME NEW h \in Live, NEW i \in 1..(mem[h].size - 1)
      PROVE  Leads(h, i) \in {Null} \cup Live
  <2>1. h + i \in SetFields(h)
    BY <1>1, <1>3, <1>4, <1>5, FieldsByNumber
  <2>2. Resolve(mem[h + i].ref) # Null => Resolve(mem[h + i].ref) \in Targets(Live)
    BY <2>1, TargetsHas
  <2> QED BY <1>4, <2>2 DEF Leads
<1>9. ASSUME NEW D, \A r \in Root : Held(r) \in {Null} \cup D,
             \A h \in D \cap Live : \A i \in 1..(mem[h].size - 1) : Leads(h, i) \in {Null} \cup D
      PROVE  Live \subseteq D
  <2> DEFINE E == D \cap Live
  <2>1. RootObjects \subseteq E
    BY <1>4, <1>9 DEF RootObjects, Held
  <2>2. ASSUME NEW h \in E, NEW f \in SetFields(h)
        PROVE  Resolve(mem[f].ref) \in {Null} \cup E
    <3>1. PICK i \in 1..(mem[h].size - 1) : f = h + i
      BY <1>1, <1>3, <1>4, <1>5, FieldsByNumber
    <3> QED BY <1>8, <1>9, <3>1 DEF Leads
  <2>3. Targets(E) \subseteq E
    <3> HIDE DEF E
    <3> QED BY <2>2, TargetsIn
  <2> HIDE DEF E
  <2>4. Live \subseteq E
    BY <1>4, <2>1, <2>3
  <2> QED BY <2>4 DEF E
<1> QED BY <1>3, <1>4, <1>5, <1>6, <1>7, <1>8, <1>9 DEF Reach

(* A step that moves objects about, each to where rho says, and leaves     *)
(* what roots and fields lead to: what is in reach moves as rho says.      *)
Moves(rho) ==
  /\ rho[Null] = Null /\ \A x \in Live : rho[x] # Null
  /\ \A r \in Root : Held(r)' = rho[Held(r)]
  /\ \A x \in Live : /\ mem'[rho[x]].size = mem[x].size
                     /\ mem'[rho[x]].id = mem[x].id
                     /\ \A i \in 1..(mem[x].size - 1) : Leads(rho[x], i)' = rho[Leads(x, i)]

(* What is in reach after the move are the places objects moved to.        *)
LEMMA MovesLive ==
  ASSUME Reach, Reach', NEW rho, Moves(rho)
  PROVE  Live' = {rho[x] : x \in Live}
<1>1. PICK D : D = {rho[x] : x \in Live}
  OBVIOUS
<1>2. Live' \subseteq D
  <2>1. \A r \in Root : Held(r)' \in {Null} \cup D
    BY <1>1 DEF Reach, Moves
  <2>2. \A h \in D : \A i \in 1..(mem'[h].size - 1) : Leads(h, i)' \in {Null} \cup D
    <3> SUFFICES ASSUME NEW h \in D, NEW i \in 1..(mem'[h].size - 1)
                 PROVE  Leads(h, i)' \in {Null} \cup D
      OBVIOUS
    <3>1. PICK x \in Live : h = rho[x] BY <1>1
    <3>2. i \in 1..(mem[x].size - 1) /\ Leads(h, i)' = rho[Leads(x, i)]
      BY <3>1 DEF Moves
    <3>3. Leads(x, i) \in {Null} \cup Live BY <3>2 DEF Reach
    <3> QED BY <1>1, <3>2, <3>3 DEF Moves
  <2> QED BY <2>1, <2>2 DEF Reach
<1>3. D \subseteq Live'
  <2>1. PICK E : E = {x \in Live : rho[x] \in Live'}
    OBVIOUS
  <2>2. \A r \in Root : Held(r) \in {Null} \cup E
    <3> SUFFICES ASSUME NEW r \in Root, Held(r) # Null PROVE Held(r) \in E
      OBVIOUS
    <3>1. Held(r) \in Live BY DEF Reach
    <3>2. Held(r)' = rho[Held(r)] /\ rho[Held(r)] # Null BY <3>1 DEF Moves
    <3>3. Held(r)' \in Live' BY <3>2 DEF Reach
    <3> QED BY <2>1, <3>1, <3>2, <3>3
  <2>3. ASSUME NEW h \in E \cap Live, NEW i \in 1..(mem[h].size - 1)
        PROVE  Leads(h, i) \in {Null} \cup E
    <3> SUFFICES ASSUME Leads(h, i) # Null PROVE Leads(h, i) \in E
      OBVIOUS
    <3>1. Leads(h, i) \in Live BY DEF Reach
    <3>2. Leads(rho[h], i)' = rho[Leads(h, i)] /\ rho[Leads(h, i)] # Null
      BY <3>1 DEF Moves
    <3>3. rho[h] \in Live' /\ i \in 1..(mem'[rho[h]].size - 1)
      BY <2>1 DEF Moves
    <3>4. Leads(rho[h], i)' \in Live'
      BY <3>2, <3>3 DEF Reach
    <3> QED BY <2>1, <3>1, <3>2, <3>4
  <2>4. Live \subseteq E
    BY <2>2, <2>3 DEF Reach
  <2> QED BY <1>1, <2>1, <2>4
<1> QED BY <1>1, <1>2, <1>3

-----------------------------------------------------------------------------
(* Objects occupy blocks that do not overlap, each on one side.            *)
Filled == UNION {Block(h) : h \in Live}

(* The block of an object lies in its space and meets no other's.          *)
LEMMA Blocks ==
  ASSUME Placed, CellsOK(mem), Tiled(mem, pos), NEW h \in Cell, mem[h].tag = "object"
  PROVE  /\ h \in Nat /\ mem[h].size \in Nat /\ mem[h].size >= 1 /\ h \in Block(h)
         /\ \A c \in Block(h) : c \in Cell /\ (InFrom(c) <=> InFrom(h))
         /\ ~InFrom(h) /\ h < pos => \A c \in Block(h) : c < pos
         /\ \A g \in Cell \ {h} : mem[g].tag = "object" => Block(g) \cap Block(h) = {}
<1>1. ASSUME NEW g \in Cell, mem[g].tag = "object"
      PROVE  /\ g \in Nat /\ mem[g].size \in Nat /\ mem[g].size >= 1
             /\ g + mem[g].size <= SpaceEnd(g) /\ SpaceEnd(g) \in Nat
             /\ ~InFrom(g) /\ g < pos => g + mem[g].size <= pos
             /\ \A f \in Body(mem, g) : mem[f].tag = "field"
  BY <1>1, Sides DEF CellsOK, Tiled
<1>2. h \in Block(h)
  BY <1>1 DEF Block
<1>3. ASSUME NEW c \in Block(h)
      PROVE  c \in Cell /\ (InFrom(c) <=> InFrom(h)) /\ (~InFrom(h) /\ h < pos => c < pos)
  <2>1. c \in Nat /\ h <= c /\ c < h + mem[h].size
    BY <1>1 DEF Block
  <2>2. c < SpaceEnd(h)
    BY <1>1, <2>1
  <2>3. c \in Cell /\ (InFrom(c) <=> InFrom(h))
    BY <2>1, <2>2, Sides
  <2> QED BY <1>1, <2>1, <2>3, Sides
<1>4. ASSUME NEW g \in Cell, NEW k \in Cell, mem[g].tag = "object", mem[k].tag = "object",
             g < k, NEW c \in Block(g) \cap Block(k)
      PROVE  FALSE
  <2>1. /\ g \in Nat /\ mem[g].size \in Nat /\ k \in Nat /\ mem[k].size \in Nat
        /\ \A f \in Body(mem, g) : mem[f].tag = "field"
    BY <1>1, <1>4
  <2>2. c \in Nat /\ k <= c /\ c <= g + mem[g].size - 1
    BY <2>1, <1>4 DEF Block
  <2>3. k \in Body(mem, g)
    BY <2>1, <2>2, <1>4 DEF Body
  <2> QED BY <2>1, <2>3, <1>4
<1>5. ASSUME NEW g \in Cell \ {h}, mem[g].tag = "object", NEW c \in Block(g) \cap Block(h)
      PROVE  FALSE
  <2> g < h \/ h < g BY <1>1, <1>5
  <2> QED BY <1>4, <1>5
<1> QED BY <1>1, <1>2, <1>3, <1>5

(* What a sound heap provides, gathered for citation.                      *)
LEMMA SoundMemory ==
  ASSUME Sound
  PROVE  Control /\ Placed /\ Memory /\ CellsOK(mem) /\ Tiled(mem, pos) /\ ~LateInit /\ Reach
BY MemoryPlaced, SoundReaches DEF Sound, Memory

(* Sets of cells are finite.                                               *)
LEMMA CellsAreFinite ==
  ASSUME NEW T \in SUBSET Cell
  PROVE  IsFiniteSet(T) /\ Cardinality(T) \in Nat
<1>1. IsFiniteSet(Cell)
  <2> 1 \in Int /\ 2 * SpaceCells \in Int BY SpaceAssumption
  <2> QED BY FS_Interval DEF Cell
<1> QED BY <1>1, FS_Subset, FS_CardinalityType

(* LiveCells counts the cells of the objects in reach.                     *)
LEMMA FilledCells ==
  Sound => /\ Filled \in SUBSET Cell /\ LiveCells = Cardinality(Filled)
           /\ IsFiniteSet(Filled) /\ LiveCells \in Nat /\ Live \subseteq Filled
<1> SUFFICES ASSUME Sound
             PROVE  /\ Filled \in SUBSET Cell /\ LiveCells = Cardinality(Filled)
                    /\ IsFiniteSet(Filled) /\ LiveCells \in Nat /\ Live \subseteq Filled
  OBVIOUS
<1>1. \A h \in Live : Block(h) \subseteq Cell /\ h \in Block(h)
  BY SoundMemory, Blocks DEF Reach
<1>2. Filled \in SUBSET Cell /\ Live \subseteq Filled
  <2> HIDE DEF Block
  <2> QED BY <1>1 DEF Filled
<1>3. LiveCells = Cardinality(Filled)
  BY DEF LiveCells, Filled, Block
<1> QED BY <1>2, <1>3, CellsAreFinite

(* Moving objects about, and losing some, does not make them larger.       *)
LEMMA LiveCellsShrink ==
  ASSUME Sound, Sound', NEW rho, \A x \in Live : rho[x] \in Nat /\ mem'[rho[x]].size = mem[x].size,
         Live' \subseteq {rho[x] : x \in Live}
  PROVE  LiveCells' \in Nat /\ LiveCells \in Nat /\ LiveCells' <= LiveCells
<1> DEFINE Hd(c) == CHOOSE x \in Live : c \in Block(x)
           f     == [c \in Filled |-> rho[Hd(c)] + (c - Hd(c))]
           R     == {f[c] : c \in Filled}
<1>1. /\ Filled \in SUBSET Cell /\ LiveCells = Cardinality(Filled)
      /\ IsFiniteSet(Filled) /\ LiveCells \in Nat /\ Live \subseteq Cell
      /\ \A x \in Live : mem[x].tag = "object"
  BY FilledCells, SoundMemory DEF Reach
<1>2. (Sound => /\ Filled \in SUBSET Cell /\ LiveCells = Cardinality(Filled)
                /\ IsFiniteSet(Filled) /\ LiveCells \in Nat /\ Live \subseteq Filled)'
  BY FilledCells, PTL
<1>3. ASSUME NEW x \in Live, NEW c \in Block(x)
      PROVE  c \in Filled /\ Hd(c) = x
  <2>1. c \in Filled BY DEF Filled
  <2>2. \A y \in Live : c \in Block(y) => y = x
    BY <1>1, <1>3, SoundMemory, Blocks
  <2> QED BY <2>1, <2>2
<1>4. f \in Surjection(Filled, R)
  <2>1. f \in [Filled -> R] OBVIOUS
  <2>2. \A d \in R : \E c \in Filled : f[c] = d OBVIOUS
  <2> HIDE DEF f, R
  <2> QED BY <2>1, <2>2 DEF Surjection
<1>5. IsFiniteSet(R) /\ Cardinality(R) <= Cardinality(Filled)
  <2> HIDE DEF f, R
  <2> QED BY <1>1, <1>4, FS_Surjection
<1>6. Filled' \subseteq R
  <2>1. Filled' = UNION {Block(h)' : h \in Live'}
    BY DEF Filled
  <2> SUFFICES ASSUME NEW h \in Live', NEW d \in Block(h)' PROVE d \in R
    <3> HIDE DEF R
    <3> QED BY <2>1
  <2>2. PICK x \in Live : h = rho[x]
    OBVIOUS
  <2>3. mem'[h].size = mem[x].size /\ h \in Nat /\ x \in Nat /\ mem[x].size \in Nat
    BY <1>1, <2>2, SoundMemory, Blocks
  <2>4. d \in h..(h + mem[x].size - 1)
    BY <2>3 DEF Block
  <2>5. x + (d - h) \in Block(x)
    BY <2>3, <2>4 DEF Block
  <2>6. x + (d - h) \in Filled /\ Hd(x + (d - h)) = x
    BY <1>3, <2>5
  <2>7. f[x + (d - h)] = h + ((x + (d - h)) - x)
    BY <2>2, <2>6
  <2>8. f[x + (d - h)] = d
    <3> HIDE DEF f
    <3> QED BY <2>3, <2>4, <2>7
  <2> HIDE DEF f, Hd
  <2> QED BY <2>6, <2>8
<1>7. Cardinality(Filled') <= Cardinality(R) /\ Cardinality(R) \in Nat
  <2> HIDE DEF R
  <2> QED BY <1>5, <1>6, FS_Subset, FS_CardinalityType
<1> HIDE DEF f, R
<1> QED BY <1>1, <1>2, <1>5, <1>7

-----------------------------------------------------------------------------
(* What a trace does to what references lead to.                           *)
Res(m, x) == IF x # Null /\ m[x].tag = "moved" THEN m[x].ref ELSE x
Rho(a)    == [x \in {Null} \cup Cell |-> IF Unmoved(a) /\ x = a THEN pos ELSE x]

(* Tracing a reference moves at most one object: references resolve to     *)
(* where it moved, and the contents of objects move with them.             *)
LEMMA TraceMoves ==
  ASSUME Sound, NEW S, NEW F, Heaped(S, F), NEW a \in {Null} \cup F, PosAfter(a) <= toEnd
  PROVE  /\ \A x \in {Null} \cup S \cup F : Res(MemAfter(a), x) = Rho(a)[Res(mem, x)]
         /\ Res(MemAfter(a), Traced(a)) = Rho(a)[Res(mem, a)]
         /\ Traced(a) \in {Null} \cup Cell
         /\ \A x \in Objects(S, F) :
              /\ MemAfter(a)[Rho(a)[x]] = mem[x] /\ Rho(a)[x] \in Cell
              /\ \A i \in 1..(mem[x].size - 1) :
                    /\ Rho(a)[x] + i \in Cell
                    /\ MemAfter(a)[Rho(a)[x] + i] = mem[x + i]
         /\ \A h \in toBegin..(PosAfter(a) - 1) : MemAfter(a)[h].tag = "object" =>
              (h < pos /\ mem[h].tag = "object") \/ (h = pos /\ Unmoved(a))
<1>1. /\ Control /\ Placed /\ Memory /\ CellsOK(mem) /\ Tiled(mem, pos)
      /\ pos \in Nat /\ toBegin \in Nat /\ toEnd \in Nat /\ toBegin <= pos /\ pos <= toEnd
  BY SoundMemory, Sides DEF Placed
<1>2. /\ Objects(S, F) \subseteq Cell /\ S \subseteq Cell /\ F \subseteq Cell
      /\ \A h \in Objects(S, F) : mem[h].tag = "object"
      /\ \A h \in S : ~InFrom(h)
  BY <1>1, ObjectsAreClosed
<1>3. /\ \A h \in S : mem[h].tag = "object" /\ h \in toBegin..(pos - 1)
      /\ \A h \in F : /\ InFrom(h)
                      /\ mem[h].tag = "object" \/ (mem[h].tag = "moved" /\ mem[h].ref \in S)
  BY DEF Heaped, Graph
<1>4. \A c \in Cell : /\ c \in Nat /\ c # Null /\ (InFrom(c) <=> ~ (toBegin <= c /\ c < toEnd))
  BY <1>1, Sides
<1>5. \A x \in Objects(S, F) : \A i \in 1..(mem[x].size - 1) :
         /\ x + i \in Block(x) /\ x + i \in Cell /\ (InFrom(x + i) <=> InFrom(x))
         /\ mem[x + i].tag = "field" /\ (~InFrom(x) => x + i < pos)
         /\ ~InFrom(x) => x < pos
  <2> SUFFICES ASSUME NEW x \in Objects(S, F), NEW i \in 1..(mem[x].size - 1)
               PROVE  /\ x + i \in Block(x) /\ x + i \in Cell /\ (InFrom(x + i) <=> InFrom(x))
                      /\ mem[x + i].tag = "field" /\ (~InFrom(x) => x + i < pos)
                      /\ ~InFrom(x) => x < pos
    OBVIOUS
  <2>1. x \in Cell /\ mem[x].tag = "object" /\ x \in Nat /\ mem[x].size \in Nat
    BY <1>1, <1>2, Blocks
  <2>2. x + i \in Block(x) /\ x + i \in Body(mem, x)
    BY <2>1 DEF Block, Body
  <2>3. mem[x + i].tag = "field" BY <1>1, <2>1, <2>2 DEF Tiled
  <2>4. ~InFrom(x) => x < pos
    BY <1>1, <1>3 DEF Objects
  <2> QED BY <1>1, <2>1, <2>2, <2>3, <2>4, Blocks
<1>6. CASE ~Unmoved(a)
  <2>1. MemAfter(a) = mem /\ PosAfter(a) = pos /\ Rho(a) = [x \in {Null} \cup Cell |-> x]
    BY <1>6 DEF MemAfter, PosAfter, Rho
  <2>2. \A x \in {Null} \cup S \cup F : Res(mem, x) \in {Null} \cup Cell
    BY <1>2, <1>3 DEF Res
  <2>3. Traced(a) \in {Null} \cup S /\ Res(mem, Traced(a)) = Res(mem, a)
    <3>1. CASE a = Null
      BY <3>1, <1>1, Sides DEF Traced, Res
    <3>2. CASE a \in F
      <4>1. InFrom(a) /\ mem[a].tag = "moved" /\ mem[a].ref \in S /\ a # Null
        BY <3>2, <1>2, <1>3, <1>4, <1>6 DEF Unmoved
      <4> QED BY <4>1, <1>3 DEF Traced, Res
    <3> QED BY <3>1, <3>2
  <2> QED BY <1>1, <1>2, <1>5, <2>1, <2>2, <2>3
<1>7. CASE Unmoved(a)
  <2> DEFINE n  == mem[a].size
             m2 == Copied(a)
  <2>1. MemAfter(a) = m2 /\ PosAfter(a) = pos + n
        /\ \A x \in {Null} \cup Cell : Rho(a)[x] = IF x = a THEN pos ELSE x
    BY <1>7 DEF MemAfter, PosAfter, Rho
  <2>2. a \in F /\ InFrom(a) /\ mem[a].tag = "object" /\ a \in Objects(S, F) /\ a \in Cell /\ a # Null
    BY <1>1, <1>2, <1>4, <1>7, Sides DEF Unmoved, Objects
  <2>3. /\ n \in Nat /\ n >= 1 /\ pos + n <= toEnd
        /\ \A c \in Cell : c < pos \/ c >= pos + n => m2[c] = IF c = a THEN Moved(pos) ELSE mem[c]
        /\ m2[a] = Moved(pos)
        /\ \A i \in 0..(n - 1) : pos + i \in Cell /\ m2[pos + i] = mem[a + i]
    BY <1>1, <1>4, <1>7, <2>1, <2>2, CopiedCells
  <2> HIDE DEF m2, n
  <2>4. pos \in Cell /\ m2[pos] = mem[a]
    <3> 0 \in 0..(n - 1) /\ pos + 0 = pos /\ a + 0 = a BY <1>1, <1>4, <2>2, <2>3
    <3> QED BY <2>3
  <2>5. \A c \in Cell : InFrom(c) \/ c < pos => m2[c] = IF c = a THEN Moved(pos) ELSE mem[c]
    BY <1>1, <1>4, <2>3
  <2>6. ASSUME NEW x \in {Null} \cup S \cup F PROVE Res(m2, x) = Rho(a)[Res(mem, x)]
    <3>1. CASE x = Null
      BY <3>1, <2>1, <2>2 DEF Res
    <3>2. CASE x = a
      BY <3>2, <2>1, <2>2, <2>3 DEF Res, Moved
    <3>3. CASE x # a /\ x # Null
      <4>1. x \in Cell /\ (InFrom(x) \/ x < pos)
        BY <1>1, <1>2, <1>3, <3>3
      <4>2. m2[x] = mem[x] BY <2>5, <3>3, <4>1
      <4>3. mem[x].tag = "moved" => mem[x].ref \in S
        BY <1>3, <3>3
      <4>4. Res(mem, x) # a /\ Res(mem, x) \in {Null} \cup Cell
        BY <1>2, <2>2, <3>3, <4>1, <4>3 DEF Res
      <4>5. Res(m2, x) = Res(mem, x)
        BY <4>2 DEF Res
      <4> QED BY <2>1, <4>4, <4>5
    <3> QED BY <3>1, <3>2, <3>3
  <2>7. Traced(a) = pos /\ Res(m2, pos) = pos /\ Res(mem, a) = a
    BY <2>2, <2>4 DEF Traced, Res
  <2>8. ASSUME NEW x \in Objects(S, F)
        PROVE  /\ m2[Rho(a)[x]] = mem[x] /\ Rho(a)[x] \in Cell
               /\ \A i \in 1..(mem[x].size - 1) :
                    Rho(a)[x] + i \in Cell /\ m2[Rho(a)[x] + i] = mem[x + i]
    <3>1. CASE x = a
      <4>1. Rho(a)[x] = pos BY <2>1, <2>2, <3>1
      <4>2. \A i \in 1..(n - 1) : i \in 0..(n - 1) OBVIOUS
      <4> QED BY <2>3, <2>4, <3>1, <4>1, <4>2 DEF n
    <3>2. CASE x # a
      <4>1. Rho(a)[x] = x /\ x \in Cell BY <1>2, <2>1, <3>2
      <4>2. InFrom(x) \/ x < pos BY <1>1, <1>3 DEF Objects
      <4>3. m2[x] = mem[x] BY <2>5, <3>2, <4>1, <4>2
      <4>4. ASSUME NEW i \in 1..(mem[x].size - 1) PROVE m2[x + i] = mem[x + i] /\ x + i \in Cell
        <5>1. x + i \in Cell /\ (InFrom(x + i) \/ x + i < pos) /\ mem[x + i].tag = "field"
          BY <1>5
        <5>2. x + i # a BY <5>1, <2>2
        <5> QED BY <2>5, <5>1, <5>2
      <4> QED BY <4>1, <4>3, <4>4
    <3> QED BY <3>1, <3>2
  <2>9. ASSUME NEW h \in toBegin..((pos + n) - 1), m2[h].tag = "object"
        PROVE  (h < pos /\ mem[h].tag = "object") \/ h = pos
    <3>1. h \in Nat /\ toBegin <= h /\ h < toEnd BY <1>1, <2>3
    <3>2. h \in Cell /\ ~InFrom(h) BY <1>1, <3>1, Sides
    <3>3. CASE h < pos
      BY <2>2, <2>5, <2>9, <3>2, <3>3
    <3>4. CASE h > pos
      <4>1. h - pos \in 1..(n - 1) /\ h - pos \in 0..(n - 1) /\ pos + (h - pos) = h
        BY <1>1, <2>3, <3>1, <3>4
      <4>2. m2[h] = mem[a + (h - pos)] BY <2>3, <4>1
      <4>3. mem[a + (h - pos)].tag = "field" BY <1>5, <2>2, <4>1 DEF n
      <4> QED BY <2>9, <4>2, <4>3
    <3> QED BY <1>1, <3>1, <3>3, <3>4
  <2>10. Res(m2, Traced(a)) = Rho(a)[Res(mem, a)] /\ Traced(a) \in {Null} \cup Cell
    BY <2>1, <2>2, <2>4, <2>7
  <2>11. \A h \in toBegin..(PosAfter(a) - 1) : m2[h].tag = "object" =>
           (h < pos /\ mem[h].tag = "object") \/ (h = pos /\ Unmoved(a))
    BY <1>7, <2>1, <2>9
  <2>12. MemAfter(a) = m2
    BY <2>1
  <2> QED BY <2>6, <2>8, <2>10, <2>11, <2>12
<1> QED BY <1>6, <1>7

-----------------------------------------------------------------------------
(* While a collection goes on, all that was copied is in reach, and what   *)
(* is in reach, with the object that waits, has room in to-space.          *)
Wanted == IF request = <<>> THEN 0 ELSE request[2] + 1

AllLive == \A h \in toBegin..(pos - 1) : mem[h].tag = "object" => h \in Live

Fits == InSpace /\ (Collecting => AllLive /\ LiveCells + Wanted <= SpaceCells)

(* The size of the object that waits is a natural number.                  *)
LEMMA WantedIsNatural ==
  ASSUME Control
  PROVE  Wanted \in Nat
BY SpaceAssumption DEF Control, Wanted

(* When all copies are in reach, to-space is filled by what is.            *)
LEMMA ToSpaceIsFilled ==
  ASSUME Sound, AllLive
  PROVE  toBegin..(pos - 1) \subseteq Filled
<1>1. PICK S, F : Heaped(S, F)
  BY DEF Sound, Memory
<1>2. Covers(mem, pos, S) /\ S \subseteq Live
  BY <1>1 DEF Sound, Heaped, Graph, AllLive
<1> QED BY <1>2 DEF Covers, Filled, Block

(* An object in reach that was not moved yet has room in to-space.         *)
LEMMA RoomForCopy ==
  ASSUME Sound, AllLive, LiveCells <= SpaceCells, NEW a \in Live, Unmoved(a)
  PROVE  PosAfter(a) <= toEnd
<1>1. /\ Control /\ Placed /\ CellsOK(mem) /\ Tiled(mem, pos)
      /\ pos \in Nat /\ toBegin \in Nat /\ toEnd \in Nat /\ toBegin <= pos /\ pos <= toEnd
  BY SoundMemory, Sides DEF Placed
<1>2. a \in Cell /\ mem[a].tag = "object" /\ InFrom(a)
  BY SoundMemory DEF Reach, Unmoved
<1>3. a \in Nat /\ mem[a].size \in Nat /\ \A c \in Block(a) : c \in Cell /\ InFrom(c)
  BY <1>1, <1>2, Blocks
<1> DEFINE A == toBegin..(pos - 1)
           B == Block(a)
<1>4. A \cap B = {}
  <2> SUFFICES ASSUME NEW c \in A \cap B PROVE FALSE
    OBVIOUS
  <2>1. c \in Nat /\ toBegin <= c /\ c < toEnd BY <1>1
  <2>2. ~InFrom(c) BY <1>1, <2>1, Sides
  <2> QED BY <1>3, <2>2
<1>5. A \cup B \subseteq Filled
  BY ToSpaceIsFilled DEF Filled
<1>6. IsFiniteSet(A) /\ Cardinality(A) = pos - toBegin
  <2> toBegin \in Int /\ pos - 1 \in Int BY <1>1
  <2>1. IsFiniteSet(A) /\ Cardinality(A) = IF toBegin > pos - 1 THEN 0 ELSE (pos - 1) - toBegin + 1
    BY FS_Interval
  <2> HIDE DEF A
  <2> QED BY <1>1, <2>1
<1>7. IsFiniteSet(B) /\ Cardinality(B) = mem[a].size
  <2> a \in Int /\ a + mem[a].size - 1 \in Int BY <1>3
  <2>1. IsFiniteSet(B) /\ Cardinality(B) = IF a > a + mem[a].size - 1 THEN 0
                                            ELSE (a + mem[a].size - 1) - a + 1
    BY FS_Interval DEF Block
  <2> QED BY <1>3, <2>1
<1>8. Cardinality(A \cup B) = (pos - toBegin) + mem[a].size
  <2>1. Cardinality(A \cap B) = 0 BY <1>4, FS_EmptySet
  <2> HIDE DEF A, B
  <2>2. Cardinality(A \cup B) = Cardinality(A) + Cardinality(B) - Cardinality(A \cap B)
    BY <1>6, <1>7, FS_Union
  <2> QED BY <2>1, <2>2, <1>1, <1>3, <1>6, <1>7
<1>9. Cardinality(A \cup B) <= LiveCells /\ LiveCells \in Nat
  <2> HIDE DEF A, B
  <2> QED BY <1>5, FilledCells, FS_Subset
<1>10. (pos - toBegin) + mem[a].size <= SpaceCells /\ SpaceCells \in Nat
  <2> HIDE DEF A, B
  <2> QED BY <1>1, <1>3, <1>8, <1>9, SpaceAssumption
<1> QED BY <1>1, <1>3, <1>10 DEF PosAfter, toEnd

(* What the collector traces is in reach or null.                          *)
LEMMA RootMet ==
  ASSUME Sound, At("roots"), NEW r \in toVisit, NEW S, NEW F, Heaped(S, F)
  PROVE  /\ roots[r] \in {Null} \cup F /\ r \in Root
         /\ Unmoved(roots[r]) => roots[r] \in Live
<1>1. Control /\ Placed /\ Memory /\ Reach
  BY SoundMemory
<1>2. roots[r] \in {Null} \cup F /\ r \in Root /\ roots[r] \in Nat
  BY <1>1, MetByRoots
<1>3. ASSUME Unmoved(roots[r]) PROVE roots[r] \in Live
  <2>1. roots[r] # Null BY <1>1, <1>3, Sides DEF Unmoved
  <2>2. Held(r) = roots[r] BY <1>3 DEF Held, Resolve, Unmoved
  <2> QED BY <1>1, <1>2, <2>1, <2>2 DEF Reach
<1> QED BY <1>2, <1>3

(* A field that the scan meets leads to an object in reach.                *)
LEMMA FieldMet ==
  ASSUME Sound, AllLive, Scanning("field"), NEW S, NEW F, Heaped(S, F)
  PROVE  /\ mem[tracePos].ref \in {Null} \cup F
         /\ Unmoved(mem[tracePos].ref) => mem[tracePos].ref \in Live
<1>1. Control /\ Placed /\ Memory /\ Reach /\ CellsOK(mem) /\ Tiled(mem, pos)
  BY SoundMemory
<1> DEFINE a == mem[tracePos].ref
<1>2. /\ a \in {Null} \cup F /\ a \in Nat /\ tracePos \in Nat /\ tracePos \in Cell
      /\ toBegin <= tracePos /\ tracePos < pos /\ mem[tracePos].tag = "field"
  BY <1>1, MetByScan DEF Sound
<1>3. ASSUME Unmoved(a) PROVE a \in Live
  <2>1. S \subseteq toBegin..(pos - 1) /\ S \subseteq Live /\ \A h \in S : mem[h].tag = "object"
    BY DEF Heaped, Graph, AllLive
  <2>2. PICK h \in S : tracePos \in Block(h)
    <3> tracePos \in toBegin..(pos - 1) BY <1>1, <1>2, Sides
    <3> QED BY DEF Sound, Heaped, Covers, Block
  <2>3. h \in Live /\ h \in Cell /\ h \in Nat /\ mem[h].size \in Nat /\ h # tracePos
    BY <1>1, <1>2, <2>1, Blocks DEF Reach
  <2>4. tracePos - h \in 1..(mem[h].size - 1) /\ h + (tracePos - h) = tracePos
    BY <1>2, <2>2, <2>3 DEF Block
  <2>5. Leads(h, tracePos - h) = Resolve(a)
    BY <2>4 DEF Leads
  <2>6. Resolve(a) = a /\ a # Null
    BY <1>1, <1>3, Sides DEF Resolve, Unmoved
  <2> HIDE DEF a
  <2>7. Leads(h, tracePos - h) \in {Null} \cup Live
    BY <1>1, <2>3, <2>4 DEF Reach
  <2> QED BY <2>5, <2>6, <2>7
<1> QED BY <1>2, <1>3

-----------------------------------------------------------------------------
(* A step of the collector moves objects about and nothing else.           *)
Relocates == \E rho : Moves(rho) /\ \A x \in Live : rho[x] \in Cell

(* The invariant, in the states after a step.                              *)
LEMMA SoundNext ==
  ASSUME HeapInv', InSpace', pc' # "corrupt", ~LateInit
  PROVE  Sound' /\ Reach'
<1>1. Sound'
  BY DEF HeapInv, Sound
<1>2. (Sound => Reach)'
  BY SoundReaches, PTL
<1> QED BY <1>1, <1>2

(* Tracing a root moves at most one object, to a place in to-space, and    *)
(* its copy is in reach.                                                   *)
LEMMA TraceRootRelocates ==
  ASSUME HeapInv, Sound, AllLive, LiveCells <= SpaceCells, NEW r \in Root, TraceRoot(r)
  PROVE  Sound' /\ Relocates /\ AllLive'
<1>1. /\ Control /\ Placed /\ Memory /\ Reach /\ At("roots") /\ r \in toVisit
      /\ pos \in Nat /\ toBegin \in Nat /\ toEnd \in Nat
  BY SoundMemory, Sides DEF TraceRoot
<1> DEFINE a == roots[r]
<1>2. /\ mem' = MemAfter(a) /\ pos' = PosAfter(a)
      /\ roots' = [roots EXCEPT ![r] = Traced(a)]
      /\ toBegin' = toBegin /\ pc' = pc
  BY DEF TraceRoot
<1>3. PICK S, F : Heaped(S, F)
  BY <1>1 DEF Memory
<1>4. a \in {Null} \cup F /\ (Unmoved(a) => a \in Live)
  BY <1>1, <1>3, RootMet
<1> HIDE DEF a
<1>5. PosAfter(a) <= toEnd
  <2>1. CASE Unmoved(a) BY <1>4, <2>1, RoomForCopy
  <2>2. CASE ~Unmoved(a) BY <2>2, <1>1 DEF PosAfter, Placed
  <2> QED BY <2>1, <2>2
<1>6. InSpace' /\ pc' # "corrupt"
  BY <1>1, <1>2, <1>5 DEF InSpace, toEnd, At
<1>7. Sound' /\ Reach'
  BY <1>6, TraceRootKeeps, SoundNext, SoundMemory
<1>8. PICK rho : rho = Rho(a)
  OBVIOUS
<1>9. /\ \A x \in {Null} \cup S \cup F : Res(mem', x) = rho[Res(mem, x)]
      /\ Res(mem', Traced(a)) = rho[Res(mem, a)]
      /\ \A x \in Objects(S, F) :
           /\ mem'[rho[x]] = mem[x] /\ rho[x] \in Cell
           /\ \A i \in 1..(mem[x].size - 1) : mem'[rho[x] + i] = mem[x + i]
      /\ \A h \in toBegin..(pos' - 1) : mem'[h].tag = "object" =>
           (h < pos /\ mem[h].tag = "object") \/ (h = pos /\ Unmoved(a))
  BY <1>2, <1>3, <1>4, <1>5, <1>8, TraceMoves
<1>10. Live \subseteq Objects(S, F) /\ Live \subseteq Cell
  BY <1>1, <1>3, LiveObjects DEF Reach
<1>11. /\ \A s \in Root : roots[s] \in {Null} \cup S \cup F
       /\ \A h \in Objects(S, F) : \A f \in SetFields(h) : mem[f].ref \in {Null} \cup S \cup F
       /\ Null \notin Cell
  BY <1>1, <1>3, ObjectsAreClosed, Sides
<1>12. Moves(rho)
  <2>1. rho[Null] = Null /\ \A x \in Live : rho[x] # Null
    BY <1>1, <1>4, <1>8, <1>9, <1>10, <1>11, Sides DEF Rho, Unmoved
  <2>2. ASSUME NEW s \in Root PROVE Held(s)' = rho[Held(s)]
    <3>1. roots'[s] = IF s = r THEN Traced(a) ELSE roots[s]
      BY <1>1, <1>2 DEF Control
    <3>2. Held(s)' = Res(mem', roots'[s]) /\ Held(s) = Res(mem, roots[s])
      BY DEF Held, Resolve, Res
    <3> QED BY <1>9, <1>11, <3>1, <3>2 DEF a
  <2>3. ASSUME NEW x \in Live, NEW i \in 1..(mem[x].size - 1)
        PROVE  Leads(rho[x], i)' = rho[Leads(x, i)]
    <3>1. mem'[rho[x] + i] = mem[x + i]
      BY <1>9, <1>10
    <3>2. x + i \in SetFields(x)
      BY <1>1, <1>10, FieldsByNumber DEF Reach, Memory
    <3>3. mem[x + i].ref \in {Null} \cup S \cup F
      BY <1>10, <1>11, <3>2
    <3>4. /\ Leads(rho[x], i)' = Res(mem', mem'[rho[x] + i].ref)
          /\ Leads(x, i) = Res(mem, mem[x + i].ref)
      BY DEF Leads, Resolve, Res
    <3> QED BY <1>9, <3>1, <3>3, <3>4
  <2>4. \A x \in Live : mem'[rho[x]] = mem[x]
    BY <1>9, <1>10
  <2> QED BY <2>1, <2>2, <2>3, <2>4 DEF Moves
<1>13. Live' = {rho[x] : x \in Live}
  BY <1>1, <1>7, <1>12, MovesLive
<1>14. AllLive'
  <2> SUFFICES ASSUME NEW h \in toBegin..(pos' - 1), mem'[h].tag = "object"
               PROVE  h \in Live'
    BY <1>2 DEF AllLive
  <2>1. CASE h < pos /\ mem[h].tag = "object"
    <3>1. h \in toBegin..(pos - 1) BY <1>1, <2>1
    <3>2. h \in Live BY <2>1, <3>1 DEF AllLive
    <3>3. ~InFrom(h)
      <4> toBegin <= h /\ h < toEnd /\ h \in Nat BY <1>1, <3>1 DEF Placed
      <4> QED BY <1>1, Sides
    <3>4. rho[h] = h BY <1>8, <1>10, <3>2, <3>3 DEF Rho, Unmoved
    <3> QED BY <1>13, <3>2, <3>4
  <2>2. CASE h = pos /\ Unmoved(a)
    <3> rho[a] = pos BY <1>4, <1>8, <1>10, <2>2 DEF Rho
    <3> QED BY <1>4, <1>13, <2>2
  <2> QED BY <1>9, <2>1, <2>2
<1>15. \A x \in Live : rho[x] \in Cell
  BY <1>9, <1>10
<1> QED BY <1>7, <1>12, <1>14, <1>15 DEF Relocates

(* So does the scan of a field.                                            *)
LEMMA ScanFieldRelocates ==
  ASSUME HeapInv, Sound, AllLive, LiveCells <= SpaceCells, ScanField
  PROVE  Sound' /\ Relocates /\ AllLive'
<1>1. /\ Control /\ Placed /\ Memory /\ CellsOK(mem) /\ Reach /\ Scanning("field")
      /\ pos \in Nat /\ toBegin \in Nat /\ toEnd \in Nat
  BY SoundMemory, Sides DEF ScanField
<1> DEFINE a == mem[tracePos].ref
           m == MemAfter(a)
<1>2. /\ mem' = [m EXCEPT ![tracePos] = Field(Traced(a))] /\ pos' = PosAfter(a)
      /\ roots' = roots /\ toBegin' = toBegin /\ pc' = pc
  BY DEF ScanField
<1>3. PICK S, F : Heaped(S, F)
  BY <1>1 DEF Memory
<1>4. a \in {Null} \cup F /\ (Unmoved(a) => a \in Live)
  BY <1>1, <1>3, FieldMet
<1>5. /\ tracePos \in Cell /\ mem[tracePos].tag = "field" /\ tracePos \in Nat
      /\ toBegin <= tracePos /\ tracePos < pos
  BY <1>1, <1>3, MetByScan
<1> HIDE DEF a
<1>6. PosAfter(a) <= toEnd
  <2>1. CASE Unmoved(a) BY <1>4, <2>1, RoomForCopy
  <2>2. CASE ~Unmoved(a) BY <2>2, <1>1 DEF PosAfter, Placed
  <2> QED BY <2>1, <2>2
<1>7. InSpace' /\ pc' # "corrupt"
  BY <1>1, <1>2, <1>6 DEF InSpace, toEnd, At, Scanning
<1>8. Sound' /\ Reach'
  BY <1>7, ScanFieldKeeps, SoundNext, SoundMemory
<1>9. PICK rho : rho = Rho(a)
  OBVIOUS
<1>10. /\ \A x \in {Null} \cup S \cup F : Res(m, x) = rho[Res(mem, x)]
       /\ Res(m, Traced(a)) = rho[Res(mem, a)] /\ Traced(a) \in {Null} \cup Cell
       /\ \A x \in Objects(S, F) :
            /\ m[rho[x]] = mem[x] /\ rho[x] \in Cell
            /\ \A i \in 1..(mem[x].size - 1) : rho[x] + i \in Cell /\ m[rho[x] + i] = mem[x + i]
       /\ \A h \in toBegin..(pos' - 1) : m[h].tag = "object" =>
            (h < pos /\ mem[h].tag = "object") \/ (h = pos /\ Unmoved(a))
  BY <1>2, <1>3, <1>4, <1>6, <1>9, TraceMoves
<1>11. Live \subseteq Objects(S, F) /\ Live \subseteq Cell
  BY <1>1, <1>3, LiveObjects DEF Reach
<1>12. /\ \A s \in Root : roots[s] \in {Null} \cup S \cup F
       /\ \A h \in Objects(S, F) : \A f \in SetFields(h) : mem[f].ref \in {Null} \cup S \cup F
       /\ \A h \in Objects(S, F) : mem[h].tag = "object"
       /\ Null \notin Cell /\ S \subseteq Cell /\ F \subseteq Cell
  BY <1>1, <1>3, ObjectsAreClosed, Sides
<1>13. m = [c \in Cell |-> m[c]]
  BY <1>1 DEF MemAfter, Copied, CellsOK
<1>14. m[tracePos] = mem[tracePos]
  <2>1. CASE Unmoved(a)
    <3>1. a \in Nat
      BY <1>4, <1>11, <1>1, <2>1, Sides
    <3>2. pos + mem[a].size <= toEnd
      BY <1>6, <2>1 DEF PosAfter
    <3>3. Copied(a)[tracePos] = IF tracePos = a THEN Moved(pos) ELSE mem[tracePos]
      BY <1>1, <1>5, <2>1, <3>1, <3>2, CopiedCells DEF Memory
    <3> QED BY <1>5, <2>1, <3>3 DEF MemAfter, Unmoved
  <2>2. CASE ~Unmoved(a) BY <2>2 DEF MemAfter
  <2> QED BY <2>1, <2>2
<1> HIDE DEF m
<1>15. \A c \in Cell : mem'[c] = IF c = tracePos THEN Field(Traced(a)) ELSE m[c]
  BY <1>2, <1>13
<1>16. \A x \in {Null} \cup Cell : Res(mem', x) = Res(m, x)
  <2> SUFFICES ASSUME NEW x \in {Null} \cup Cell PROVE Res(mem', x) = Res(m, x)
    OBVIOUS
  <2>1. CASE x = Null BY <2>1 DEF Res
  <2>2. CASE x = tracePos
    <3> mem'[x].tag = "field" BY <1>5, <1>15, <2>2 DEF Field
    <3> QED BY <1>5, <1>14, <2>2 DEF Res
  <2>3. CASE x \in Cell \ {tracePos} BY <1>15, <2>3 DEF Res
  <2> QED BY <2>1, <2>2, <2>3
<1>17. Moves(rho)
  <2>1. rho[Null] = Null /\ \A x \in Live : rho[x] # Null
    BY <1>1, <1>4, <1>9, <1>10, <1>11, <1>12, Sides DEF Rho, Unmoved
  <2>2. ASSUME NEW s \in Root PROVE Held(s)' = rho[Held(s)]
    <3>1. Held(s)' = Res(mem', roots[s]) /\ Held(s) = Res(mem, roots[s])
      BY <1>2 DEF Held, Resolve, Res
    <3> QED BY <1>10, <1>12, <1>16, <3>1
  <2>3. ASSUME NEW x \in Live, NEW i \in 1..(mem[x].size - 1)
        PROVE  Leads(rho[x], i)' = rho[Leads(x, i)]
    <3>1. m[rho[x] + i] = mem[x + i] /\ rho[x] + i \in Cell
      BY <1>10, <1>11
    <3>2. x + i \in SetFields(x)
      BY <1>1, <1>11, FieldsByNumber DEF Reach
    <3>3. mem[x + i].ref \in {Null} \cup S \cup F
      BY <1>11, <1>12, <3>2
    <3>4. /\ Leads(rho[x], i)' = Res(mem', mem'[rho[x] + i].ref)
          /\ Leads(x, i) = Res(mem, mem[x + i].ref)
      BY DEF Leads, Resolve, Res
    <3>5. CASE rho[x] + i = tracePos
      <4>1. mem'[rho[x] + i].ref = Traced(a) BY <1>5, <1>15, <3>5 DEF Field
      <4>2. mem[x + i].ref = a BY <1>14, <3>1, <3>5 DEF a
      <4> QED BY <1>10, <1>16, <3>4, <4>1, <4>2
    <3>6. CASE rho[x] + i # tracePos
      BY <1>10, <1>12, <1>15, <1>16, <3>1, <3>3, <3>4, <3>6
    <3> QED BY <3>5, <3>6
  <2>4. \A x \in Live : mem'[rho[x]] = mem[x]
    BY <1>5, <1>10, <1>11, <1>12, <1>14, <1>15
  <2> QED BY <2>1, <2>2, <2>3, <2>4 DEF Moves
<1>18. Live' = {rho[x] : x \in Live}
  BY <1>1, <1>8, <1>17, MovesLive
<1>21. \A h \in toBegin..(pos' - 1) : h \in Cell /\ h \in Nat
  <2>1. pos' <= toEnd BY <1>2, <1>6
  <2>2. PICK p \in Nat : p = pos' BY <1>8 DEF Sound, Control
  <2>4. toBegin \in Nat /\ toEnd \in Nat BY <1>1
  <2>5. p <= toEnd BY <2>1, <2>2
  <2>3. \A h \in toBegin..(p - 1) : h \in Nat /\ toBegin <= h /\ h < toEnd
    BY <2>4, <2>5
  <2> QED BY <1>1, <2>2, <2>3, Sides
<1>19. AllLive'
  <2> SUFFICES ASSUME NEW h \in toBegin..(pos' - 1), mem'[h].tag = "object"
               PROVE  h \in Live'
    BY <1>2 DEF AllLive
  <2>0. h \in Cell /\ h \in Nat
    BY <1>21
  <2>1. m[h].tag = "object"
    BY <1>15, <2>0 DEF Field
  <2>2. CASE h < pos /\ mem[h].tag = "object"
    <3>1. h \in toBegin..(pos - 1) BY <1>1, <2>0, <2>2
    <3>2. h \in Live BY <2>2, <3>1 DEF AllLive
    <3>3. ~InFrom(h)
      <4> toBegin <= h /\ h < toEnd /\ h \in Nat BY <1>1, <3>1 DEF Placed
      <4> QED BY <1>1, Sides
    <3>4. rho[h] = h BY <1>9, <1>11, <3>2, <3>3 DEF Rho, Unmoved
    <3> QED BY <1>18, <3>2, <3>4
  <2>3. CASE h = pos /\ Unmoved(a)
    <3> rho[a] = pos BY <1>4, <1>9, <1>11, <2>3 DEF Rho
    <3> QED BY <1>4, <1>18, <2>3
  <2> QED BY <1>10, <2>1, <2>2, <2>3
<1>20. \A x \in Live : rho[x] \in Cell
  BY <1>10, <1>11
<1> QED BY <1>8, <1>17, <1>19, <1>20 DEF Relocates

(* A step that changes neither memory nor roots moves nothing.             *)
LEMMA StandingRelocates ==
  ASSUME Sound, mem' = mem, roots' = roots
  PROVE  Relocates
<1>1. PICK rho : rho = [x \in {Null} \cup Cell |-> x]
  OBVIOUS
<1>2. Reach /\ Null \notin Cell
  BY SoundMemory, Sides
<1>3. ASSUME NEW r \in Root PROVE Held(r)' = rho[Held(r)]
  <2>1. Held(r)' = Held(r) BY DEF Held, Resolve
  <2>2. Held(r) \in {Null} \cup Cell BY <1>2 DEF Reach
  <2> QED BY <1>1, <2>1, <2>2
<1>4. ASSUME NEW x \in Live
      PROVE  /\ rho[x] = x /\ x \in Cell
             /\ \A i \in 1..(mem[x].size - 1) : Leads(rho[x], i)' = rho[Leads(x, i)]
  <2>1. rho[x] = x /\ x \in Cell BY <1>1, <1>2 DEF Reach
  <2>2. ASSUME NEW i \in 1..(mem[x].size - 1) PROVE Leads(rho[x], i)' = rho[Leads(x, i)]
    <3>1. Leads(rho[x], i)' = Leads(x, i) BY <2>1 DEF Leads, Resolve
    <3>2. Leads(x, i) \in {Null} \cup Cell BY <1>2 DEF Reach
    <3> QED BY <1>1, <3>1, <3>2
  <2> QED BY <2>1, <2>2
<1>5. rho[Null] = Null
  BY <1>1
<1>6. Moves(rho)
  BY <1>2, <1>3, <1>4, <1>5 DEF Moves
<1> QED BY <1>4, <1>6 DEF Relocates

(* Between collections references lead straight to objects of to-space.    *)
Quiet == pc = "program" \/ (pc = "scan" /\ tracePos = pos)

(* Then the objects in reach, their fields and their references are all    *)
(* outside from-space.                                                     *)
LEMMA QuietState ==
  ASSUME Sound, Quiet
  PROVE  /\ \A r \in Root : Held(r) = roots[r]
         /\ \A h \in Live : /\ h \in toBegin..(pos - 1) /\ ~InFrom(h) /\ h < pos
                            /\ Resolve(h) = h
                            /\ \A i \in 1..(mem[h].size - 1) :
                                  /\ Leads(h, i) = mem[h + i].ref
                                  /\ h + i \in Cell /\ ~InFrom(h + i) /\ h + i < pos
         /\ \E S : /\ Settled(mem, pos, unset, S) /\ \A r \in Root : roots[r] \in {Null} \cup S
                   /\ Live \subseteq S /\ S \subseteq Cell
<1>1. Control /\ Placed /\ Memory /\ CellsOK(mem) /\ Tiled(mem, pos) /\ Reach /\ toVisit = {}
  BY SoundMemory DEF Control, Quiet
<1>2. PICK S : /\ Settled(mem, pos, unset, S)
               /\ \A r \in Root : roots[r] \in {Null} \cup S
  BY <1>1, ProgramSettled DEF Quiet
<1>3. Heaped(S, {})
  <2> Front = pos BY DEF Front, Collecting, Quiet
  <2> QED BY <1>1, <1>2 DEF Heaped, Settled
<1>4. Objects(S, {}) = S
  BY DEF Objects
<1>5. /\ S \subseteq Cell /\ Live \subseteq S
      /\ \A h \in S : mem[h].tag = "object" /\ ~InFrom(h) /\ h \in toBegin..(pos - 1)
      /\ \A h \in S : \A f \in SetFields(h) : mem[f].ref \in {Null} \cup S
  <2>1. Live \subseteq S /\ S \subseteq Cell
    BY <1>1, <1>3, <1>4, ObjectsAreClosed, LiveObjects
  <2>2. /\ \A h \in S : mem[h].tag = "object" /\ ~InFrom(h)
        /\ \A h \in S : \A f \in SetFields(h) : mem[f].ref \in {Null} \cup S
    BY <1>1, <1>3, <1>4, ObjectsAreClosed
  <2>3. S \subseteq toBegin..(pos - 1)
    BY <1>2 DEF Settled, Graph
  <2> QED BY <2>1, <2>2, <2>3
<1>6. \A x \in {Null} \cup S : Resolve(x) = x
  BY <1>5 DEF Resolve
<1>7. \A r \in Root : Held(r) = roots[r]
  BY <1>2, <1>6 DEF Held
<1>8. ASSUME NEW h \in Live
      PROVE  /\ h \in toBegin..(pos - 1) /\ ~InFrom(h) /\ h < pos
             /\ Resolve(h) = h
             /\ \A i \in 1..(mem[h].size - 1) :
                   /\ Leads(h, i) = mem[h + i].ref
                   /\ h + i \in Cell /\ ~InFrom(h + i) /\ h + i < pos
  <2>1. h \in toBegin..(pos - 1) /\ ~InFrom(h) /\ Resolve(h) = h /\ h \in Cell /\ mem[h].tag = "object"
    BY <1>5, <1>6
  <2>2. h < pos /\ h \in Nat /\ mem[h].size \in Nat
    BY <1>1, <2>1, Blocks, Sides
  <2>3. ASSUME NEW i \in 1..(mem[h].size - 1)
        PROVE  /\ Leads(h, i) = mem[h + i].ref
               /\ h + i \in Cell /\ ~InFrom(h + i) /\ h + i < pos
    <3>1. h + i \in SetFields(h)
      BY <1>1, <2>1, FieldsByNumber DEF Reach
    <3>2. mem[h + i].ref \in {Null} \cup S BY <1>5, <3>1
    <3>3. h + i \in Block(h) BY <2>2 DEF Block
    <3>4. h + i \in Cell /\ ~InFrom(h + i) /\ h + i < pos
      BY <1>1, <2>1, <2>2, <3>3, Blocks
    <3> QED BY <1>6, <3>2, <3>4 DEF Leads
  <2> QED BY <2>1, <2>2, <2>3
<1> QED BY <1>2, <1>5, <1>7, <1>8

(* Leaving from-space behind moves nothing.                                *)
LEMMA EndCollectRelocates ==
  ASSUME HeapInv, Sound, EndCollect
  PROVE  Sound' /\ Relocates
<1>1. Sound'
  <2> InSpace' /\ pc' # "corrupt" BY DEF EndCollect, At, InSpace, toEnd
  <2> QED BY EndCollectKeeps, SoundNext, SoundMemory
<1>2. Reach /\ Quiet /\ ~LateInit /\ CellsOK(mem) /\ Null \notin Cell
  BY SoundMemory, Sides DEF EndCollect, At, Quiet
<1>3. roots' = roots /\ \A c \in Cell : ~InFrom(c) => mem'[c] = mem[c]
  BY <1>2 DEF EndCollect, LeaveFrom
<1>4. PICK rho : rho = [x \in {Null} \cup Cell |-> x]
  OBVIOUS
<1>5. \A x \in {Null} \cup Live : Resolve(x) = x /\ Resolve(x)' = x /\ rho[x] = x
  <2>1. \A x \in Live : ~InFrom(x) /\ x \in Cell /\ mem[x].tag = "object" /\ mem'[x] = mem[x]
    BY <1>2, <1>3, QuietState DEF Reach
  <2> QED BY <1>4, <2>1 DEF Resolve
<1>6. ASSUME NEW r \in Root PROVE Held(r)' = rho[Held(r)]
  <2>1. roots[r] \in {Null} \cup Live BY <1>2, QuietState DEF Reach
  <2>2. Held(r)' = IF roots[r] # Null /\ mem'[roots[r]].tag = "moved" THEN mem'[roots[r]].ref ELSE roots[r]
    BY <1>3 DEF Held, Resolve
  <2>3. Held(r)' = roots[r] BY <1>5, <2>1, <2>2 DEF Resolve
  <2> QED BY <1>2, <1>5, <2>1, <2>3, QuietState
<1>7. ASSUME NEW x \in Live
      PROVE  /\ rho[x] = x /\ x \in Cell /\ mem'[x] = mem[x]
             /\ \A i \in 1..(mem[x].size - 1) : Leads(rho[x], i)' = rho[Leads(x, i)]
  <2>1. rho[x] = x /\ x \in Cell /\ ~InFrom(x) /\ mem'[x] = mem[x]
    BY <1>2, <1>3, <1>5, QuietState DEF Reach
  <2>2. ASSUME NEW i \in 1..(mem[x].size - 1) PROVE Leads(rho[x], i)' = rho[Leads(x, i)]
    <3>1. Leads(x, i) = mem[x + i].ref /\ Leads(x, i) \in {Null} \cup Live
          /\ mem'[x + i] = mem[x + i]
      BY <1>2, <1>3, QuietState DEF Reach
    <3> DEFINE y == mem[x + i].ref
    <3>2. Leads(x, i)' = IF y # Null /\ mem'[y].tag = "moved" THEN mem'[y].ref ELSE y
      BY <3>1 DEF Leads, Resolve
    <3>3. y \in {Null} \cup Live BY <3>1
    <3> HIDE DEF y
    <3>4. Leads(x, i)' = y BY <1>5, <3>2, <3>3 DEF Resolve
    <3> QED BY <1>5, <2>1, <3>1, <3>3, <3>4 DEF y
  <2> QED BY <2>1, <2>2
<1>8. rho[Null] = Null
  BY <1>5
<1>9. Moves(rho)
  BY <1>2, <1>6, <1>7, <1>8 DEF Moves
<1> QED BY <1>1, <1>7, <1>9 DEF Relocates

(* A step that changes neither memory nor roots keeps what is in reach.    *)
LEMMA StandingLive ==
  ASSUME Sound, Reach', mem' = mem, roots' = roots
  PROVE  Live' = Live
<1>1. PICK rho : rho = [x \in {Null} \cup Cell |-> x]
  OBVIOUS
<1>2. Reach /\ Null \notin Cell
  BY SoundMemory, Sides
<1>3. \A x \in {Null} \cup Live : rho[x] = x
  BY <1>1, <1>2 DEF Reach
<1>4. \A r \in Root : Held(r)' = rho[Held(r)]
  <2> SUFFICES ASSUME NEW r \in Root PROVE Held(r)' = rho[Held(r)]
    OBVIOUS
  <2>1. Held(r)' = Held(r) BY DEF Held, Resolve
  <2>2. Held(r) \in {Null} \cup Live BY <1>2 DEF Reach
  <2> QED BY <1>3, <2>1, <2>2
<1>5. ASSUME NEW x \in Live, NEW i \in 1..(mem[x].size - 1)
      PROVE  Leads(rho[x], i)' = rho[Leads(x, i)]
  <2>1. Leads(rho[x], i)' = Leads(x, i) BY <1>3 DEF Leads, Resolve
  <2>2. Leads(x, i) \in {Null} \cup Live BY <1>2 DEF Reach
  <2> QED BY <1>3, <2>1, <2>2
<1>6. \A x \in Live : rho[x] # Null
  BY <1>2, <1>3 DEF Reach
<1>7. Moves(rho)
  BY <1>3, <1>4, <1>5, <1>6 DEF Moves
<1>8. Live' = {rho[x] : x \in Live}
  BY <1>2, <1>7, MovesLive
<1> QED BY <1>3, <1>8

(* Objects in reach have identities, and different ones.                   *)
Identified == /\ \A h \in Live : mem[h].id \in Id
              /\ \A g, h \in Live : mem[g].id = mem[h].id => g = h

(* The collector makes what is in reach no larger, and keeps identities.   *)
LEMMA RelocatesKeeps ==
  ASSUME Sound, Sound', Relocates
  PROVE  /\ LiveCells' \in Nat /\ LiveCells \in Nat /\ LiveCells' <= LiveCells
         /\ Identified => Identified'
<1>1. Reach /\ Reach'
  <2>1. (Sound => Reach)' BY SoundReaches, PTL
  <2> QED BY <2>1, SoundReaches
<1>2. PICK rho : Moves(rho) /\ \A x \in Live : rho[x] \in Cell
  BY DEF Relocates
<1>3. Live' = {rho[x] : x \in Live}
  BY <1>1, <1>2, MovesLive
<1>4. \A x \in Live : rho[x] \in Nat /\ mem'[rho[x]].size = mem[x].size /\ mem'[rho[x]].id = mem[x].id
  BY <1>2, SoundMemory, Sides DEF Moves
<1>5. LiveCells' \in Nat /\ LiveCells \in Nat /\ LiveCells' <= LiveCells
  BY <1>3, <1>4, LiveCellsShrink
<1>6. Identified => Identified'
  BY <1>3, <1>4 DEF Identified
<1> QED BY <1>5, <1>6

(* Between collections what is in reach fits in the filled part of to-     *)
(* space.                                                                  *)
LEMMA QuietRoom ==
  ASSUME Sound, Quiet
  PROVE  LiveCells \in Nat /\ LiveCells <= pos - toBegin /\ pos - toBegin <= SpaceCells
         /\ SpaceCells \in Nat /\ pos \in Nat /\ toBegin \in Nat
<1>1. /\ Control /\ Placed /\ CellsOK(mem) /\ Tiled(mem, pos) /\ Reach
      /\ pos \in Nat /\ toBegin \in Nat /\ toEnd \in Nat /\ toBegin <= pos /\ pos <= toEnd
      /\ SpaceCells \in Nat
  BY SoundMemory, Sides DEF Placed
<1>2. ASSUME NEW h \in Live, NEW c \in Block(h) PROVE c \in toBegin..(pos - 1)
  <2>1. h \in Cell /\ mem[h].tag = "object" /\ ~InFrom(h) /\ h < pos
    BY <1>1, QuietState DEF Reach
  <2>2. c \in Cell /\ ~InFrom(c) /\ c < pos
    BY <1>1, <2>1, Blocks
  <2>3. c \in Nat /\ toBegin <= c
    BY <1>1, <2>2, Sides
  <2> QED BY <1>1, <2>2, <2>3
<1>3. Filled \subseteq toBegin..(pos - 1)
  BY <1>2 DEF Filled
<1>4. IsFiniteSet(toBegin..(pos - 1)) /\ Cardinality(toBegin..(pos - 1)) = pos - toBegin
  <2> toBegin \in Int /\ pos - 1 \in Int BY <1>1
  <2>1. /\ IsFiniteSet(toBegin..(pos - 1))
        /\ Cardinality(toBegin..(pos - 1)) = IF toBegin > pos - 1 THEN 0 ELSE (pos - 1) - toBegin + 1
    BY FS_Interval
  <2> QED BY <1>1, <2>1
<1>5. LiveCells <= pos - toBegin /\ LiveCells \in Nat
  <2>1. Cardinality(Filled) <= Cardinality(toBegin..(pos - 1))
    BY <1>3, <1>4, FS_Subset
  <2> QED BY <1>4, <2>1, FilledCells
<1>6. pos - toBegin <= SpaceCells
  BY <1>1 DEF toEnd
<1> QED BY <1>1, <1>5, <1>6

(* At the end of a scan all of to-space is in reach.                       *)
LEMMA ScannedRoom ==
  ASSUME Sound, AllLive
  PROVE  pos - toBegin <= LiveCells /\ LiveCells \in Nat /\ pos \in Nat /\ toBegin \in Nat
<1>1. pos \in Nat /\ toBegin \in Nat /\ toBegin <= pos
  BY SoundMemory, Sides DEF Placed
<1>2. IsFiniteSet(toBegin..(pos - 1)) /\ Cardinality(toBegin..(pos - 1)) = pos - toBegin
  <2> toBegin \in Int /\ pos - 1 \in Int BY <1>1
  <2>1. /\ IsFiniteSet(toBegin..(pos - 1))
        /\ Cardinality(toBegin..(pos - 1)) = IF toBegin > pos - 1 THEN 0 ELSE (pos - 1) - toBegin + 1
    BY FS_Interval
  <2> QED BY <1>1, <2>1
<1>3. Cardinality(toBegin..(pos - 1)) <= Cardinality(Filled)
  BY ToSpaceIsFilled, FilledCells, FS_Subset
<1> QED BY <1>1, <1>2, <1>3, FilledCells

(* Arithmetic, used with the counts of cells.                              *)
LEMMA SumBelow ==
  \A k, l, m, n \in Nat : k + m <= n /\ l <= k => l + m <= n
OBVIOUS

(* The empty heap fits.                                                    *)
LEMMA InitFits == Init => Fits
<1> SUFFICES ASSUME Init PROVE Fits
  OBVIOUS
<1> pos = 1 /\ toBegin = 1 /\ pc = "program"
  BY DEF Init
<1> QED BY SpaceAssumption DEF Fits, InSpace, toEnd, Collecting

(* Every step keeps the bound: a collection copies only what is in reach,  *)
(* and nothing else is in to-space when alloc() resumes.                   *)
LEMMA FitsStep ==
  ASSUME ~LateInit, MaxLive <= SpaceCells, HeapInv, HeapInv', Fits, [Next]_vars
  PROVE  Fits'
<1>1. Sound
  BY DEF HeapInv, Control, Fits, Sound
<1>2. /\ Control /\ Placed /\ Memory /\ Reach /\ Wanted \in Nat /\ SpaceCells \in Nat
      /\ pos \in Nat /\ toBegin \in Nat /\ toEnd \in Nat /\ InSpace
  BY <1>1, SoundMemory, Sides, WantedIsNatural DEF Sound
<1>3. Control' /\ Wanted' \in Nat
  <2>1. Control' BY DEF HeapInv
  <2>2. (Control => Wanted \in Nat)'
    <3>1. Control => Wanted \in Nat BY WantedIsNatural
    <3> QED BY <3>1, SpaceAssumption DEF Control, Wanted
  <2> QED BY <2>1, <2>2
<1>4. ASSUME InSpace' PROVE Sound' /\ Reach'
  BY <1>2, <1>3, <1>4, SoundNext DEF Control
(* The program, and the end of a collection *)
<1>5. ASSUME pos' = pos, toBegin' = toBegin, ~Collecting' PROVE Fits'
  BY <1>2, <1>5 DEF Fits, InSpace, toEnd
<1>6. ASSUME NEW r \in Root, NEW n \in FieldCounts, AllocFits(r, n) PROVE Fits'
  <2>1. /\ pos' = pos + n + 1 /\ toBegin' = toBegin /\ pc' = "program"
        /\ pos + (n + 1) <= toEnd /\ n \in Nat
    BY <1>6, SpaceAssumption DEF AllocFits, Place, CanAlloc, At
  <2>2. pos' <= toEnd' BY <1>2, <2>1 DEF toEnd
  <2> QED BY <2>1, <2>2 DEF Fits, InSpace, Collecting
(* The spaces are swapped *)
<1>7. ASSUME At("program"), SwapSpaces, LiveCells + Wanted' <= SpaceCells PROVE Fits'
  <2>1. pos' = toBegin' /\ pos' = fromBegin /\ mem' = mem /\ roots' = roots
    BY <1>7 DEF SwapSpaces
  <2>2. InSpace'
    <3> fromBegin \in Nat /\ toEnd' = fromBegin + SpaceCells
      BY <1>2, <2>1, Sides DEF toEnd
    <3> QED BY <1>2, <2>1 DEF InSpace
  <2>3. AllLive'
    <3> SUFFICES ASSUME NEW h \in toBegin'..(pos' - 1) PROVE FALSE
      BY DEF AllLive
    <3>1. PICK p \in Nat : p = pos' BY <1>2, <2>1, Sides
    <3> QED BY <2>1, <3>1
  <2>4. LiveCells' \in Nat /\ LiveCells \in Nat /\ LiveCells' <= LiveCells
    BY <1>1, <1>4, <2>1, <2>2, StandingRelocates, RelocatesKeeps
  <2>5. LiveCells' + Wanted' <= SpaceCells
    BY <1>2, <1>3, <1>7, <2>4, SumBelow, Zenon
  <2> QED BY <2>2, <2>3, <2>5 DEF Fits
<1>8. ASSUME NEW r \in Root, NEW n \in FieldCounts, AllocCollects(r, n) PROVE Fits'
  <2>1. /\ At("program") /\ SwapSpaces /\ LiveCells + n + 1 <= MaxLive /\ request' = <<r, n>>
    BY <1>8 DEF AllocCollects
  <2>2. Wanted' = n + 1
    BY <2>1 DEF Wanted
  <2>3. LiveCells \in Nat /\ n \in Nat /\ MaxLive \in Nat
    BY <1>1, FilledCells, SpaceAssumption
  <2>4. LiveCells + Wanted' <= SpaceCells
    BY <1>2, <2>1, <2>2, <2>3
  <2> QED BY <1>7, <2>1, <2>4
<1>9. CASE Collect
  <2>1. At("program") /\ SwapSpaces /\ request' = <<>>
    BY <1>9 DEF Collect
  <2>2. Wanted' = 0
    BY <2>1 DEF Wanted
  <2>3. LiveCells \in Nat /\ LiveCells <= SpaceCells
    BY <1>1, <2>1, QuietRoom DEF At, Quiet
  <2>4. LiveCells + Wanted' <= SpaceCells
    BY <2>2, <2>3
  <2> QED BY <1>7, <2>1, <2>4
(* The collection *)
<1>10. ASSUME Collecting
       PROVE  AllLive /\ LiveCells <= SpaceCells /\ LiveCells \in Nat /\ LiveCells + Wanted <= SpaceCells
  <2>1. AllLive /\ LiveCells + Wanted <= SpaceCells /\ LiveCells \in Nat
    BY <1>1, <1>10, FilledCells DEF Fits
  <2> QED BY <1>2, <2>1
<1>11. ASSUME Collecting, Sound', Relocates, AllLive', request' = request PROVE Fits'
  <2>1. LiveCells' \in Nat /\ LiveCells' <= LiveCells
    BY <1>1, <1>11, RelocatesKeeps
  <2>2. Wanted' = Wanted
    BY <1>11 DEF Wanted
  <2>3. LiveCells' + Wanted' <= SpaceCells
    <3> LiveCells \in Nat /\ LiveCells + Wanted <= SpaceCells BY <1>10, <1>11
    <3> QED BY <1>2, <2>1, <2>2, SumBelow, Zenon
  <2> QED BY <1>11, <2>3 DEF Fits, Sound
<1>12. ASSUME NEW r \in Root, TraceRoot(r) PROVE Fits'
  <2> Collecting /\ request' = request BY <1>12 DEF TraceRoot, At, Collecting
  <2> QED BY <1>1, <1>10, <1>11, <1>12, TraceRootRelocates
<1>13. CASE ScanField
  <2> Collecting /\ request' = request BY <1>13 DEF ScanField, Scanning, At, Collecting
  <2> QED BY <1>1, <1>10, <1>11, <1>13, ScanFieldRelocates
<1>14. ASSUME Collecting, UNCHANGED <<mem, toBegin, pos, roots, request>> PROVE Fits'
  <2>1. InSpace' BY <1>2, <1>14 DEF InSpace, toEnd
  <2>2. Sound' /\ Reach' BY <1>4, <2>1
  <2>3. Relocates /\ Live' = Live
    BY <1>1, <1>14, <2>2, StandingRelocates, StandingLive
  <2>4. AllLive' BY <1>10, <1>14, <2>3 DEF AllLive
  <2> QED BY <1>11, <1>14, <2>2, <2>3, <2>4
<1>15. CASE RootsTraced \/ ScanHeader
  <2> Collecting /\ UNCHANGED <<mem, toBegin, pos, roots, request>>
    BY <1>15 DEF RootsTraced, ScanHeader, Scanning, At, Collecting
  <2> QED BY <1>14
<1>16. CASE FollowStale
  BY <1>2, <1>16, NothingStale
<1>17. CASE ResumeAlloc
  <2>1. Collecting /\ pc' = "program" /\ request # <<>> /\ toBegin' = toBegin
    BY <1>17 DEF ResumeAlloc, At, Collecting
  <2>2. Wanted = request[2] + 1 /\ pos' = pos + request[2] + 1
    BY <1>17, <2>1 DEF Wanted, ResumeAlloc, Place
  <2>3. request[2] \in Nat
    BY <1>2, <2>1, SpaceAssumption DEF Control
  <2>4. AllLive /\ LiveCells \in Nat /\ LiveCells + Wanted <= SpaceCells
    BY <1>10, <2>1
  <2>5. pos - toBegin <= LiveCells
    BY <1>1, <2>4, ScannedRoom
  <2>6. pos + request[2] + 1 <= toBegin + SpaceCells
    BY <1>2, <2>2, <2>3, <2>4, <2>5
  <2>7. InSpace'
    BY <2>1, <2>2, <2>6 DEF InSpace, toEnd
  <2> QED BY <2>1, <2>7 DEF Fits, Collecting
<1>18. CASE UNCHANGED vars
  <2>1. CASE Collecting
    BY <1>14, <1>18, <2>1 DEF vars
  <2>2. CASE ~Collecting
    BY <1>5, <1>18, <2>2 DEF vars, Collecting
  <2> QED BY <2>1, <2>2
<1>19. CASE EndCollect
  BY <1>5, <1>19 DEF EndCollect, Collecting
<1>20. CASE \/ At("program") /\ \E r \in Root : \E v \in Values \cup Loaded : SetRoot(r, v)
            \/ At("program") /\ \E f \in RootFields : \E v \in Values : SetField(f, v)
  BY <1>5, <1>20 DEF At, SetRoot, SetField, Collecting
<1>21. ASSUME NEW r \in Root, NEW n \in FieldCounts, AllocTooLarge(r, n) PROVE Fits'
  BY <1>5, <1>21 DEF AllocTooLarge, Collecting
<1> QED
  BY <1>6, <1>8, <1>9, <1>12, <1>13, <1>15, <1>16, <1>17, <1>18, <1>19, <1>20, <1>21
  DEF Next, Program, Collector

(* No object ever extends beyond the end of the space it is allocated or   *)
(* copied in, although alloc() does not look at the space again after a    *)
(* collection: as long as the program keeps no more in use than a          *)
(* semispace holds, and constructors set every field.                      *)
THEOREM ObjectsFitInToSpace ==
  ASSUME ~LateInit, MaxLive <= SpaceCells
  PROVE  Spec => []AllocatedInToSpace
<1>1. Init => HeapInv /\ Fits
  BY InitHeap, InitFits
<1>2. HeapInv /\ Fits /\ [Next]_vars => HeapInv' /\ Fits'
  BY HeapStep, FitsStep
<1>3. Fits => AllocatedInToSpace
  BY DEF Fits, AllocatedInToSpace
<1> QED BY <1>1, <1>2, <1>3, PTL DEF Spec

-----------------------------------------------------------------------------
(* Identities: distinct objects in reach have distinct ones, as long as    *)
(* there are enough of them for a full space.                              *)
EnoughIds == IsFiniteSet(Id) => SpaceCells <= Cardinality(Id)

(* There is an identity left for a new object.                             *)
LEMMA FreshIdIsFresh ==
  ASSUME Sound, LiveCells < SpaceCells, EnoughIds
  PROVE  FreshId \in Id \ LiveIds
<1>1. /\ IsFiniteSet(Filled) /\ LiveCells = Cardinality(Filled) /\ LiveCells \in Nat
      /\ Live \subseteq Filled /\ SpaceCells \in Nat
  BY FilledCells, SpaceAssumption
<1>2. IsFiniteSet(Live) /\ Cardinality(Live) \in Nat /\ Cardinality(Live) <= LiveCells
  BY <1>1, FS_Subset, FS_CardinalityType
<1> DEFINE g == [h \in Live |-> mem[h].id]
<1>3. g \in Surjection(Live, LiveIds)
  <2>1. g \in [Live -> LiveIds] /\ \A i \in LiveIds : \E h \in Live : g[h] = i
    BY DEF LiveIds
  <2> HIDE DEF g
  <2> QED BY <2>1 DEF Surjection
<1>4. IsFiniteSet(LiveIds) /\ Cardinality(LiveIds) <= Cardinality(Live)
  <2> HIDE DEF g
  <2> QED BY <1>2, <1>3, FS_Surjection
<1>5. Id \ LiveIds # {}
  <2> SUFFICES ASSUME Id \subseteq LiveIds PROVE FALSE
    OBVIOUS
  <2>1. IsFiniteSet(Id) /\ Cardinality(Id) <= Cardinality(LiveIds)
    BY <1>4, FS_Subset
  <2>2. Cardinality(Id) \in Nat /\ Cardinality(LiveIds) \in Nat
    BY <1>4, <2>1, FS_CardinalityType
  <2>3. SpaceCells <= Cardinality(Id)
    BY <2>1 DEF EnoughIds
  <2> QED BY <1>1, <1>2, <1>4, <2>1, <2>2, <2>3
<1>6. \E i \in Id \ LiveIds : \A j \in Id \ LiveIds : i <= j
  <2>1. Id \ LiveIds \in SUBSET Nat BY SpaceAssumption
  <2> QED BY <1>5, <2>1, LeastElement
<1>7. FreshId = CHOOSE i \in Id \ LiveIds : \A j \in Id \ LiveIds : i <= j
  BY <1>5 DEF FreshId
<1> QED BY <1>6, <1>7

(* Where references lead straight to objects, a step of the program that   *)
(* makes the objects N, and lets references lead to them or to objects     *)
(* that were in reach, brings nothing else in reach.                       *)
LEMMA QuietStep ==
  ASSUME Reach', NEW N,
         \A h \in Live : mem'[h] = mem[h] /\ mem[h].tag = "object",
         \A x \in N : mem'[x].tag = "object",
         \A s \in Root : roots'[s] \in {Null} \cup Live \cup N,
         \A h \in Live \cup N : \A i \in 1..(mem'[h].size - 1) :
            mem'[h + i].ref \in {Null} \cup Live \cup N
  PROVE  /\ Live' \subseteq Live \cup N
         /\ \A s \in Root : Held(s)' = roots'[s]
         /\ \A h \in Live \cup N : \A i \in 1..(mem'[h].size - 1) :
               Leads(h, i)' = mem'[h + i].ref
<1>1. PICK D : D = Live \cup N
  OBVIOUS
<1>2. \A x \in {Null} \cup D : IF x # Null /\ mem'[x].tag = "moved" THEN FALSE ELSE TRUE
  BY <1>1
<1>3. \A s \in Root : Held(s)' = roots'[s] /\ Held(s)' \in {Null} \cup D
  <2> SUFFICES ASSUME NEW s \in Root PROVE Held(s)' = roots'[s] /\ Held(s)' \in {Null} \cup D
    OBVIOUS
  <2>1. Held(s)' = IF roots'[s] # Null /\ mem'[roots'[s]].tag = "moved"
                   THEN mem'[roots'[s]].ref ELSE roots'[s]
    BY DEF Held, Resolve
  <2>2. roots'[s] \in {Null} \cup D BY <1>1
  <2> QED BY <1>2, <2>1, <2>2
<1>4. \A h \in D : \A i \in 1..(mem'[h].size - 1) :
         Leads(h, i)' = mem'[h + i].ref /\ Leads(h, i)' \in {Null} \cup D
  <2> SUFFICES ASSUME NEW h \in D, NEW i \in 1..(mem'[h].size - 1)
               PROVE  Leads(h, i)' = mem'[h + i].ref /\ Leads(h, i)' \in {Null} \cup D
    OBVIOUS
  <2>1. PICK y : y = mem'[h + i].ref
    OBVIOUS
  <2>2. Leads(h, i)' = IF y # Null /\ mem'[y].tag = "moved" THEN mem'[y].ref ELSE y
    BY <2>1 DEF Leads, Resolve
  <2>3. y \in {Null} \cup D BY <1>1, <2>1
  <2> QED BY <1>2, <2>1, <2>2, <2>3
<1>5. Live' \subseteq D
  BY <1>3, <1>4 DEF Reach
<1> QED BY <1>1, <1>3, <1>4, <1>5

(* An assignment to a root brings nothing else in reach: what is loaded    *)
(* from a field of an object was in reach already.                         *)
LEMMA SetRootReaches ==
  ASSUME Sound, Reach', At("program"), NEW r \in Root, NEW v \in Values \cup Loaded,
         SetRoot(r, v)
  PROVE  /\ Live' \subseteq Live /\ \A h \in Live : mem'[h] = mem[h]
         /\ \/ v = Null \/ \E q \in Root : v = Held(q)
            \/ \E q \in Root : /\ Held(q) \in Live
                              /\ \E k \in 1..(mem[Held(q)].size - 1) : v = Leads(Held(q), k)
         /\ \A s \in Root : Held(s)' = IF s = r THEN v ELSE Held(s)
         /\ \A h \in Live : \A i \in 1..(mem[h].size - 1) : Leads(h, i)' = Leads(h, i)
<1>1. Quiet /\ Control /\ Reach /\ mem' = mem
  BY SoundMemory DEF Quiet, At, SetRoot
<1>2. \A s \in Root : roots[s] \in {Null} \cup Live
  BY <1>1, QuietState DEF Reach
<1>3. /\ v \in {Null} \cup Live
      /\ \/ v = Null \/ \E q \in Root : v = Held(q)
         \/ \E q \in Root : /\ Held(q) \in Live
                           /\ \E k \in 1..(mem[Held(q)].size - 1) : v = Leads(Held(q), k)
  <2>1. CASE v \in Values
    BY <1>1, <1>2, <2>1, QuietState DEF Values
  <2>2. CASE v \in Loaded
    <3>1. PICK f \in RootFields \ unset : v = mem[f].ref
      BY <2>2 DEF Loaded
    <3>2. PICK q \in Root : roots[q] # Null /\ f \in FieldsOf(roots[q])
      BY DEF RootFields
    <3>3. roots[q] \in Live /\ roots[q] \in Cell
      BY <1>1, <1>2, <3>2 DEF Reach
    <3>4. PICK i \in 1..(mem[roots[q]].size - 1) : f = roots[q] + i
      BY <1>1, <3>2, <3>3, FieldsByNumber, SoundMemory DEF SetFields, Reach
    <3>5. v = Leads(roots[q], i)
      BY <1>1, <3>1, <3>3, <3>4, QuietState
    <3>6. Held(q) = roots[q]
      BY <1>1, QuietState
    <3> QED BY <1>1, <3>3, <3>4, <3>5, <3>6 DEF Reach
  <2> QED BY <2>1, <2>2
<1>4. \A s \in Root : /\ roots'[s] \in {Null} \cup Live \cup {}
                     /\ roots'[s] = IF s = r THEN v ELSE roots[s]
  <2> roots' = [roots EXCEPT ![r] = v] /\ roots = [s \in Root |-> roots[s]]
    BY <1>1 DEF SetRoot, Control
  <2> QED BY <1>2, <1>3
<1>5. \A h \in Live \cup {} : \A i \in 1..(mem'[h].size - 1) :
         mem'[h + i].ref \in {Null} \cup Live \cup {}
  BY <1>1, QuietState DEF Reach
<1>6. \A h \in Live : mem'[h] = mem[h] /\ mem[h].tag = "object"
  BY <1>1 DEF Reach
<1>7. \A x \in {} : mem'[x].tag = "object"
  OBVIOUS
<1>8. /\ Live' \subseteq Live \cup {}
      /\ \A s \in Root : Held(s)' = roots'[s]
      /\ \A h \in Live \cup {} : \A i \in 1..(mem'[h].size - 1) : Leads(h, i)' = mem'[h + i].ref
  BY <1>4, <1>5, <1>6, <1>7, QuietStep
<1>9. \A s \in Root : Held(s)' = IF s = r THEN v ELSE Held(s)
  BY <1>1, <1>4, <1>8, QuietState
<1>10. \A h \in Live : \A i \in 1..(mem[h].size - 1) : Leads(h, i)' = Leads(h, i)
  BY <1>1, <1>8, QuietState
<1> QED BY <1>3, <1>6, <1>8, <1>9, <1>10

(* Neither does a store to a field, which changes that field only.         *)
LEMMA SetFieldReaches ==
  ASSUME Sound, Reach', At("program"), NEW f \in RootFields, NEW v \in Values, SetField(f, v)
  PROVE  /\ Live' \subseteq Live /\ \A h \in Live : mem'[h] = mem[h]
         /\ v = Null \/ \E s \in Root : v = Held(s)
         /\ \A s \in Root : Held(s)' = Held(s)
         /\ \E q \in Root : Held(q) \in Live /\ \E k \in 1..(mem[Held(q)].size - 1) :
              \A h \in Live : \A i \in 1..(mem[h].size - 1) :
                 Leads(h, i)' = IF h = Held(q) /\ i = k THEN v ELSE Leads(h, i)
<1>1. Quiet /\ Control /\ Placed /\ Reach /\ CellsOK(mem) /\ Tiled(mem, pos)
  BY SoundMemory DEF Quiet, At
<1>2. \A s \in Root : roots[s] \in {Null} \cup Live
  BY <1>1, QuietState DEF Reach
<1>3. v \in {Null} \cup Live
  BY <1>2 DEF Values
<1>4. mem' = [mem EXCEPT ![f] = Field(v)] /\ roots' = roots
  BY DEF SetField
<1>5. PICK q \in Root : roots[q] # Null /\ f \in FieldsOf(roots[q])
  BY DEF RootFields
<1>a. roots[q] \in Live /\ roots[q] \in Cell /\ mem[roots[q]].tag = "object" /\ roots[q] = Held(q)
  BY <1>1, <1>2, <1>5, QuietState DEF Reach
<1>b. mem[f].tag = "field"
  BY <1>1, <1>5, <1>a DEF Tiled, Body, FieldsOf
<1>c. PICK k \in 1..(mem[roots[q]].size - 1) : f = roots[q] + k
  BY <1>1, <1>5, <1>a, FieldsByNumber DEF SetFields, Reach
<1>6. \A h \in Live : mem'[h] = mem[h] /\ mem[h].tag = "object" /\ h \in Cell
  BY <1>1, <1>4, <1>b DEF Reach
<1>7. ASSUME NEW h \in Live, NEW i \in 1..(mem'[h].size - 1)
      PROVE  /\ mem'[h + i].ref \in {Null} \cup Live
             /\ mem'[h + i].ref = IF h = roots[q] /\ i = k THEN v ELSE Leads(h, i)
  <2>1. i \in 1..(mem[h].size - 1) BY <1>6
  <2>2. mem[h + i].ref \in {Null} \cup Live /\ mem[h + i].ref = Leads(h, i)
    BY <1>1, <2>1, QuietState DEF Reach
  <2>3. mem'[h + i] = IF h + i = f THEN Field(v) ELSE mem[h + i]
    <3>1. h + i \in Cell BY <1>1, <2>1, QuietState
    <3> QED BY <1>1, <1>4, <3>1 DEF CellsOK
  <2>4. h + i = f <=> h = roots[q] /\ i = k
    <3>1. /\ h \in Cell /\ mem[h].tag = "object" /\ h \in Nat /\ mem[h].size \in Nat
          /\ roots[q] \in Nat /\ mem[roots[q]].size \in Nat
      BY <1>1, <1>6, <1>a, Blocks
    <3>2. h + i \in Block(h) /\ f \in Block(roots[q])
      BY <1>c, <2>1, <3>1 DEF Block
    <3>3. h + i = f => h = roots[q]
      BY <1>1, <1>a, <3>1, <3>2, Blocks
    <3> QED BY <1>c, <2>1, <3>1, <3>3
  <2> QED BY <1>3, <2>2, <2>3, <2>4 DEF Field
<1>8. \A x \in {} : mem'[x].tag = "object"
  OBVIOUS
<1>9. /\ Live' \subseteq Live \cup {}
      /\ \A s \in Root : Held(s)' = roots'[s]
      /\ \A h \in Live \cup {} : \A i \in 1..(mem'[h].size - 1) : Leads(h, i)' = mem'[h + i].ref
  <2>1. \A h \in Live : mem'[h] = mem[h] /\ mem[h].tag = "object"
    BY <1>6
  <2>2. \A s \in Root : roots'[s] \in {Null} \cup Live \cup {}
    BY <1>2, <1>4
  <2>3. \A h \in Live \cup {} : \A i \in 1..(mem'[h].size - 1) :
           mem'[h + i].ref \in {Null} \cup Live \cup {}
    BY <1>7
  <2> QED BY <1>8, <2>1, <2>2, <2>3, QuietStep
<1>10. \A s \in Root : Held(s)' = Held(s)
  BY <1>1, <1>4, <1>9, QuietState
<1>11. \A h \in Live : \A i \in 1..(mem[h].size - 1) :
          Leads(h, i)' = IF h = Held(q) /\ i = k THEN v ELSE Leads(h, i)
  BY <1>6, <1>7, <1>9, <1>a
<1>12. v = Null \/ \E s \in Root : v = Held(s)
  BY <1>1, QuietState DEF Values
<1> QED BY <1>6, <1>9, <1>10, <1>11, <1>12, <1>a

(* A new object is all that an allocation brings in reach.                 *)
LEMMA PlaceReaches ==
  ASSUME Sound, Reach', Quiet, NEW m \in {mem, LeaveFrom(mem)}, NEW r \in Root,
         NEW n \in Nat, Place(m, r, n), pos + n + 1 <= toEnd, NEW p, p = pos
  PROVE  /\ Live' \subseteq Live \cup {pos} /\ \A h \in Live : mem'[h] = mem[h] /\ h # pos
         /\ pos \in Cell /\ mem'[pos] = Object(n + 1, FreshId)
         /\ \A s \in Root : Held(s)' = IF s = r THEN pos ELSE Held(s)
         /\ \A h \in Live : \A i \in 1..(mem[h].size - 1) : Leads(h, i)' = Leads(h, i)
         /\ \A i \in 1..n : Leads(p, i)' = Null
<1>1. /\ Control /\ Placed /\ Reach /\ CellsOK(mem) /\ ~LateInit
      /\ pos \in Nat /\ toBegin \in Nat /\ toEnd \in Nat /\ toBegin <= pos /\ pos <= toEnd
  BY SoundMemory, Sides DEF Placed
<1>2. \A c \in Cell : ~InFrom(c) => m[c] = mem[c]
  BY <1>1 DEF LeaveFrom
<1>3. /\ roots' = [roots EXCEPT ![r] = pos]
      /\ mem' = [c \in Cell |-> IF c = pos THEN Object(n + 1, FreshId)
                                ELSE IF c \notin (pos + 1)..(pos + n) \cap Cell THEN m[c]
                                ELSE Field(Null)]
  <2>1. PICK late \in {FALSE} \cup {LateInit} :
          mem' = [c \in Cell |-> IF c = pos THEN Object(n + 1, FreshId)
                                 ELSE IF c \notin (pos + 1)..(pos + n) \cap Cell THEN m[c]
                                 ELSE Field(IF late THEN m[c].ref ELSE Null)]
    BY Zenon DEF Place
  <2>2. late = FALSE /\ roots' = [roots EXCEPT ![r] = pos]
    BY <1>1, SpaceAssumption DEF Place
  <2> QED BY <2>1, <2>2
<1>4. \A i \in 0..n : pos + i \in Cell /\ ~InFrom(pos + i)
  <2> SUFFICES ASSUME NEW i \in 0..n PROVE pos + i \in Cell /\ ~InFrom(pos + i)
    OBVIOUS
  <2> pos + i \in Nat /\ toBegin <= pos + i /\ pos + i < toEnd
    BY <1>1
  <2> QED BY <1>1, Sides
<1>5. pos \in Cell /\ ~InFrom(pos)
  <2> 0 \in 0..n /\ pos + 0 = pos BY <1>1
  <2> QED BY <1>4
<1>6. mem'[pos] = Object(n + 1, FreshId)
  BY <1>3, <1>5
<1>7. \A c \in Cell : ~InFrom(c) /\ c < pos => mem'[c] = mem[c] /\ c # pos
  <2> SUFFICES ASSUME NEW c \in Cell, ~InFrom(c), c < pos PROVE mem'[c] = mem[c] /\ c # pos
    OBVIOUS
  <2> c \in Nat /\ c # pos /\ c \notin (pos + 1)..(pos + n)
    BY <1>1, Sides
  <2> QED BY <1>2, <1>3
<1>8. \A h \in Live : mem'[h] = mem[h] /\ h # pos /\ mem[h].tag = "object"
  BY <1>1, <1>7, QuietState DEF Reach
<1>9. \A x \in {pos} : mem'[x].tag = "object"
  BY <1>6 DEF Object
<1>10. \A s \in Root : /\ roots'[s] \in {Null} \cup Live \cup {pos}
                      /\ roots'[s] = IF s = r THEN pos ELSE roots[s]
  <2> roots' = [roots EXCEPT ![r] = pos] /\ roots = [s \in Root |-> roots[s]]
    BY <1>1, <1>3 DEF Control
  <2> \A s \in Root : roots[s] \in {Null} \cup Live
    BY <1>1, QuietState DEF Reach
  <2> QED OBVIOUS
<1>11. ASSUME NEW h \in Live \cup {pos}, NEW i \in 1..(mem'[h].size - 1)
       PROVE  /\ mem'[h + i].ref \in {Null} \cup Live \cup {pos}
              /\ h = pos => mem'[h + i].ref = Null
              /\ h \in Live => mem'[h + i].ref = Leads(h, i)
  <2>1. CASE h = pos
    <3>1. i \in 1..n /\ i \in 0..n
      BY <1>6, <2>1 DEF Object
    <3>2. pos + i \in Cell /\ pos + i # pos /\ pos + i \in (pos + 1)..(pos + n)
      BY <1>1, <1>4, <3>1
    <3>3. mem'[pos + i] = Field(Null)
      BY <1>3, <3>2
    <3> QED BY <1>8, <2>1, <3>3 DEF Field
  <2>2. CASE h \in Live
    <3>1. i \in 1..(mem[h].size - 1) BY <1>8, <2>2
    <3>2. Leads(h, i) = mem[h + i].ref /\ mem'[h + i] = mem[h + i]
      BY <1>1, <1>7, <2>2, <3>1, QuietState
    <3> QED BY <1>1, <1>8, <2>2, <3>1, <3>2 DEF Reach
  <2> QED BY <2>1, <2>2
<1>12. /\ Live' \subseteq Live \cup {pos}
       /\ \A s \in Root : Held(s)' = roots'[s]
       /\ \A h \in Live \cup {pos} : \A i \in 1..(mem'[h].size - 1) : Leads(h, i)' = mem'[h + i].ref
  <2>1. \A h \in Live : mem'[h] = mem[h] /\ mem[h].tag = "object"
    BY <1>8
  <2>2. \A s \in Root : roots'[s] \in {Null} \cup Live \cup {pos}
    BY <1>10
  <2>3. \A h \in Live \cup {pos} : \A i \in 1..(mem'[h].size - 1) :
           mem'[h + i].ref \in {Null} \cup Live \cup {pos}
    BY <1>11
  <2> QED BY <1>9, <2>1, <2>2, <2>3, QuietStep
<1>13. \A s \in Root : Held(s)' = IF s = r THEN pos ELSE Held(s)
  BY <1>1, <1>10, <1>12, QuietState
<1>14. \A h \in Live : \A i \in 1..(mem[h].size - 1) : Leads(h, i)' = Leads(h, i)
  BY <1>8, <1>11, <1>12
<1>15. \A i \in 1..n : Leads(p, i)' = Null
  <2> mem'[p].size - 1 = n /\ p \in Live \cup {pos} BY <1>1, <1>6 DEF Object
  <2> QED BY <1>11, <1>12
<1> QED BY <1>5, <1>6, <1>8, <1>12, <1>13, <1>14, <1>15

(* It has an identity of its own.                                          *)
LEMMA PlaceKeepsIds ==
  ASSUME Sound, Reach', Quiet, NEW m \in {mem, LeaveFrom(mem)}, NEW r \in Root,
         NEW n \in Nat, Place(m, r, n), pos + n + 1 <= toEnd, EnoughIds, Identified
  PROVE  Identified'
<1>1. /\ Live' \subseteq Live \cup {pos} /\ \A h \in Live : mem'[h] = mem[h] /\ h # pos
      /\ mem'[pos].id = FreshId
  <2>1. /\ Live' \subseteq Live \cup {pos} /\ \A h \in Live : mem'[h] = mem[h] /\ h # pos
        /\ mem'[pos] = Object(n + 1, FreshId)
    <3>1. PICK p : p = pos OBVIOUS
    <3> QED BY <3>1, PlaceReaches
  <2>2. mem'[pos].id = FreshId
    BY <2>1 DEF Object
  <2> QED BY <2>1, <2>2
<1>2. FreshId \in Id \ LiveIds
  <2>1. LiveCells < SpaceCells
    <3> LiveCells \in Nat /\ LiveCells <= pos - toBegin /\ SpaceCells \in Nat
        /\ pos \in Nat /\ toBegin \in Nat
      BY QuietRoom
    <3> QED BY DEF toEnd
  <2> QED BY <2>1, FreshIdIsFresh
<1>3. \A h \in Live : mem'[h].id = mem[h].id /\ mem'[h].id \in LiveIds
  BY <1>1 DEF LiveIds
<1>4. ASSUME NEW g \in Live', NEW h \in Live', mem'[g].id = mem'[h].id PROVE g = h
  <2>1. CASE g \in Live /\ h \in Live BY <1>3, <1>4, <2>1 DEF Identified
  <2>2. CASE g = pos /\ h \in Live BY <1>1, <1>2, <1>3, <1>4, <2>2
  <2>3. CASE h = pos /\ g \in Live BY <1>1, <1>2, <1>3, <1>4, <2>3
  <2> QED BY <1>1, <2>1, <2>2, <2>3
<1>5. \A h \in Live' : mem'[h].id \in Id
  BY <1>1, <1>2, <1>3 DEF Identified
<1> QED BY <1>4, <1>5 DEF Identified

(* Nothing is in reach at first.                                           *)
LEMMA InitIds == Init => Identified
<1> SUFFICES ASSUME Init PROVE Identified
  OBVIOUS
<1>1. RootObjects \subseteq {}
  BY DEF Init, RootObjects, Resolve
<1>2. Targets({}) \subseteq {}
  BY TargetsIn
<1>3. Live \subseteq {}
  BY <1>1, <1>2, LiveIsLeast
<1> QED BY <1>3 DEF Identified

(* Every step keeps identities apart.                                      *)
LEMMA IdsStep ==
  ASSUME ~LateInit, MaxLive <= SpaceCells, EnoughIds, HeapInv, HeapInv', Fits, Fits',
         Identified, [Next]_vars
  PROVE  Identified'
<1>1. Sound
  BY DEF HeapInv, Control, Fits, Sound
<1>2. Sound' /\ Reach'
  BY SoundNext DEF HeapInv, Control, Fits
<1>3. Control /\ SpaceCells \in Nat
  BY SpaceAssumption DEF HeapInv
<1>4. ASSUME Collecting PROVE AllLive /\ LiveCells <= SpaceCells
  <2>1. AllLive /\ LiveCells + Wanted <= SpaceCells /\ LiveCells \in Nat /\ Wanted \in Nat
    BY <1>1, <1>3, <1>4, FilledCells, WantedIsNatural DEF Fits
  <2> QED BY <1>3, <2>1
<1>5. ASSUME Relocates PROVE Identified'
  BY <1>1, <1>2, <1>5, RelocatesKeeps
<1>6. ASSUME mem' = mem, roots' = roots PROVE Identified'
  BY <1>1, <1>2, <1>5, <1>6, StandingRelocates
<1>7. ASSUME Live' \subseteq Live, \A h \in Live : mem'[h] = mem[h] PROVE Identified'
  BY <1>7 DEF Identified
<1>8. ASSUME NEW r \in Root, TraceRoot(r) PROVE Identified'
  <2> Collecting BY <1>8 DEF TraceRoot, At, Collecting
  <2> QED BY <1>1, <1>4, <1>5, <1>8, TraceRootRelocates
<1>9. CASE ScanField
  <2> Collecting BY <1>9 DEF ScanField, Scanning, At, Collecting
  <2> QED BY <1>1, <1>4, <1>5, <1>9, ScanFieldRelocates
<1>10. CASE EndCollect
  BY <1>1, <1>5, <1>10, EndCollectRelocates
<1>11. CASE ResumeAlloc
  <2>1. Quiet /\ Place(LeaveFrom(mem), request[1], request[2]) /\ request # <<>> /\ toBegin' = toBegin
    BY <1>11 DEF ResumeAlloc, At, Quiet
  <2>2. request[1] \in Root /\ request[2] \in Nat
    BY <1>3, <2>1, SpaceAssumption DEF Control
  <2>3. pos + request[2] + 1 <= toEnd
    BY <2>1 DEF Place, Fits, InSpace, toEnd
  <2> QED BY <1>1, <1>2, <2>1, <2>2, <2>3, PlaceKeepsIds
<1>12. ASSUME NEW r \in Root, NEW n \in FieldCounts, AllocFits(r, n) PROVE Identified'
  <2>1. Quiet /\ Place(mem, r, n) /\ toBegin' = toBegin /\ n \in Nat
    BY <1>12, SpaceAssumption DEF AllocFits, At, Quiet
  <2>2. pos + n + 1 <= toEnd
    BY <2>1 DEF Place, Fits, InSpace, toEnd
  <2> QED BY <1>1, <1>2, <2>1, <2>2, PlaceKeepsIds
<1>13. ASSUME At("program"), NEW r \in Root, NEW v \in Values \cup Loaded, SetRoot(r, v)
       PROVE  Identified'
  BY <1>1, <1>2, <1>7, <1>13, SetRootReaches
<1>14. ASSUME At("program"), NEW f \in RootFields, NEW v \in Values, SetField(f, v)
       PROVE  Identified'
  BY <1>1, <1>2, <1>7, <1>14, SetFieldReaches
<1>15. CASE FollowStale
  BY <1>2, <1>15 DEF FollowStale, Sound, Control
<1>16. ASSUME NEW r \in Root, NEW n \in FieldCounts, AllocTooLarge(r, n) \/ AllocCollects(r, n)
       PROVE  Identified'
  BY <1>6, <1>16 DEF AllocTooLarge, AllocCollects, SwapSpaces
<1>17. CASE Collect \/ RootsTraced \/ ScanHeader \/ UNCHANGED vars
  BY <1>6, <1>17 DEF Collect, SwapSpaces, RootsTraced, ScanHeader, vars
<1> QED
  BY <1>8, <1>9, <1>10, <1>11, <1>12, <1>13, <1>14, <1>15, <1>16, <1>17
  DEF Next, Program, Collector

(* When the scan of collect() ends, to-space holds the objects in reach,   *)
(* each once and nothing else, and no root or field leads into from-space: *)
(* under the bounds of the runs on what the program keeps in use, with     *)
(* enough identities for a full space.                                     *)
THEOREM CollectionLeavesTheObjectsInReach ==
  ASSUME ~LateInit, MaxLive <= SpaceCells, EnoughIds
  PROVE  Spec => []CollectionIsExact
<1>1. Init => HeapInv /\ Fits /\ Identified
  BY InitHeap, InitFits, InitIds
<1>2. HeapInv /\ Fits /\ Identified /\ [Next]_vars => HeapInv' /\ Fits' /\ Identified'
  BY HeapStep, FitsStep, IdsStep
<1>3. HeapInv /\ Fits /\ Identified => CollectionIsExact
  <2> SUFFICES ASSUME HeapInv, Fits, Identified, pc = "scan", tracePos = pos
               PROVE  /\ pos - toBegin = LiveCells
                      /\ \A g, h \in Live : mem[g].id = mem[h].id => g = h
                      /\ \A h \in Live : h \in toBegin..(pos - 1)
                      /\ \A r \in Root : ~InFrom(roots[r])
                      /\ \A h \in Live : \A f \in SetFields(h) : ~InFrom(mem[f].ref)
    BY DEF CollectionIsExact
  <2>1. Sound /\ Quiet /\ AllLive
    BY DEF HeapInv, Control, Fits, Sound, Quiet, Collecting
  <2>2. pos - toBegin = LiveCells
    <3>1. LiveCells <= pos - toBegin BY <2>1, QuietRoom
    <3>2. pos - toBegin <= LiveCells /\ LiveCells \in Nat /\ pos \in Nat /\ toBegin \in Nat
      BY <2>1, ScannedRoom
    <3> QED BY <3>1, <3>2
  <2>3. Reach /\ CellsOK(mem) /\ ~InFrom(Null)
    BY <2>1, SoundMemory, Sides
  <2>4. \A h \in Live : h \in toBegin..(pos - 1) /\ ~InFrom(h) /\ h \in Cell
    BY <2>1, <2>3, QuietState DEF Reach
  <2>5. \A r \in Root : ~InFrom(roots[r])
    <3> \A r \in Root : roots[r] \in {Null} \cup Live BY <2>1, <2>3, QuietState DEF Reach
    <3> QED BY <2>3, <2>4
  <2>6. ASSUME NEW h \in Live, NEW f \in SetFields(h) PROVE ~InFrom(mem[f].ref)
    <3>1. PICK i \in 1..(mem[h].size - 1) : f = h + i
      BY <2>3, <2>4, FieldsByNumber DEF Reach
    <3>2. mem[f].ref \in {Null} \cup Live
      BY <2>1, <2>3, <3>1, QuietState DEF Reach
    <3> QED BY <2>3, <2>4, <3>2
  <2> QED BY <2>2, <2>4, <2>5, <2>6 DEF Identified
<1> QED BY <1>1, <1>2, <1>3, PTL DEF Spec

-----------------------------------------------------------------------------
(* The ideal heap: roots and fields hold the identities of the objects     *)
(* they lead to.                                                           *)
Name(x) == IF x = Null THEN 0 ELSE mem[x].id

(* The mapping to the ideal heap, by objects in reach instead of           *)
(* identities.                                                             *)
LEMMA HeapOfNames ==
  Reach /\ Identified /\ CellsOK(mem) =>
    /\ HeldIds = [r \in Root |-> Name(Held(r))]
    /\ FieldIds = [i \in LiveIds |-> FieldIds[i]]
    /\ LiveIds \subseteq Id /\ 0 \notin LiveIds
    /\ \A i \in LiveIds : \E h \in Live : mem[h].id = i
    /\ \A h \in Live : /\ mem[h].id \in LiveIds
                       /\ FieldIds[mem[h].id] = [k \in 1..(mem[h].size - 1) |-> Name(Leads(h, k))]
<1> SUFFICES ASSUME Reach, Identified, CellsOK(mem)
             PROVE  /\ HeldIds = [r \in Root |-> Name(Held(r))]
                    /\ FieldIds = [i \in LiveIds |-> FieldIds[i]]
                    /\ LiveIds \subseteq Id /\ 0 \notin LiveIds
                    /\ \A i \in LiveIds : \E h \in Live : mem[h].id = i
                    /\ \A h \in Live :
                         /\ mem[h].id \in LiveIds
                         /\ FieldIds[mem[h].id] = [k \in 1..(mem[h].size - 1) |-> Name(Leads(h, k))]
  OBVIOUS
<1>1. HeldIds = [r \in Root |-> Name(Held(r))]
  <2> \A r \in Root : IdOf(roots[r]) = Name(Held(r))
    BY DEF IdOf, Name, Held, Resolve
  <2> QED BY DEF HeldIds
<1>2. FieldIds = [i \in LiveIds |-> FieldIds[i]]
  BY DEF FieldIds
<1>3. LiveIds \subseteq Id /\ 0 \notin LiveIds
  BY SpaceAssumption DEF LiveIds, Identified
<1>4. \A i \in LiveIds : \E h \in Live : mem[h].id = i
  BY DEF LiveIds
<1>5. ASSUME NEW h \in Live
      PROVE  /\ mem[h].id \in LiveIds
             /\ FieldIds[mem[h].id] = [k \in 1..(mem[h].size - 1) |-> Name(Leads(h, k))]
  <2>1. mem[h].id \in LiveIds BY DEF LiveIds
  <2>2. h = CHOOSE g \in Live : mem[g].id = mem[h].id
    BY DEF Identified
  <2>3. FieldIds[mem[h].id] = [k \in 1..(mem[h].size - 1) |->
                                 IF h + k \in unset THEN 0 ELSE IdOf(mem[h + k].ref)]
    BY <2>1, <2>2 DEF FieldIds
  <2>4. \A k \in 1..(mem[h].size - 1) :
           (IF h + k \in unset THEN 0 ELSE IdOf(mem[h + k].ref)) = Name(Leads(h, k))
    BY DEF Reach, IdOf, Name, Leads, Resolve
  <2> QED BY <2>1, <2>3, <2>4
<1> QED BY <1>1, <1>2, <1>3, <1>4, <1>5

(* What is in reach of the ideal heap are the identities of what is in     *)
(* reach in memory.                                                        *)
LEMMA HeapBecomes ==
  ASSUME Reach', Identified', CellsOK(mem)', NEW H, HeldIds' = H, NEW F, LiveIds' \subseteq DOMAIN F,
         \A i \in LiveIds' : F[i] = FieldIds'[i]
  PROVE  Heap!Become(H, F)
<1>1. /\ HeldIds' = [r \in Root |-> Name(Held(r))']
      /\ FieldIds' = [i \in LiveIds' |-> FieldIds'[i]]
      /\ 0 \notin LiveIds'
      /\ \A i \in LiveIds' : \E h \in Live' : mem'[h].id = i
      /\ \A h \in Live' : /\ mem'[h].id \in LiveIds'
                          /\ FieldIds'[mem'[h].id] = [k \in 1..(mem'[h].size - 1) |-> Name(Leads(h, k))']
  <2>1. (Reach /\ Identified /\ CellsOK(mem) =>
          /\ HeldIds = [r \in Root |-> Name(Held(r))]
          /\ FieldIds = [i \in LiveIds |-> FieldIds[i]]
          /\ LiveIds \subseteq Id /\ 0 \notin LiveIds
          /\ \A i \in LiveIds : \E h \in Live : mem[h].id = i
          /\ \A h \in Live : /\ mem[h].id \in LiveIds
                             /\ FieldIds[mem[h].id] = [k \in 1..(mem[h].size - 1) |-> Name(Leads(h, k))])'
    BY HeapOfNames, PTL
  <2> QED BY <2>1
<1>2. \A r \in Root : /\ Held(r)' \in {Null} \cup Live'
                      /\ H[r] = IF Held(r)' = Null THEN 0 ELSE mem'[Held(r)'].id
  BY <1>1 DEF Reach, Name
<1>3. \A h \in Live' : \A k \in 1..(mem'[h].size - 1) :
         /\ Leads(h, k)' \in {Null} \cup Live'
         /\ F[mem'[h].id][k] = IF Leads(h, k)' = Null THEN 0 ELSE mem'[Leads(h, k)'].id
  <2> SUFFICES ASSUME NEW h \in Live', NEW k \in 1..(mem'[h].size - 1)
               PROVE  /\ Leads(h, k)' \in {Null} \cup Live'
                      /\ F[mem'[h].id][k] = IF Leads(h, k)' = Null THEN 0 ELSE mem'[Leads(h, k)'].id
    OBVIOUS
  <2>1. Leads(h, k)' \in {Null} \cup Live'
    BY DEF Reach
  <2>2. F[mem'[h].id] = [j \in 1..(mem'[h].size - 1) |-> Name(Leads(h, j))']
    BY <1>1
  <2>3. F[mem'[h].id][k] = Name(Leads(h, k))'
    BY <2>2
  <2> QED BY <2>1, <2>3 DEF Name
<1>4. ASSUME NEW h \in Live' PROVE DOMAIN F[mem'[h].id] = 1..(mem'[h].size - 1)
  <2>1. F[mem'[h].id] = [j \in 1..(mem'[h].size - 1) |-> Name(Leads(h, j))']
    BY <1>1
  <2> QED BY <2>1
<1>5. ASSUME NEW S \in SUBSET DOMAIN F, Heap!Closed(S, H, F) PROVE LiveIds' \subseteq S
  <2>1. PICK D : D = {x \in Live' : mem'[x].id \in S}
    OBVIOUS
  <2>2. \A r \in Root : Held(r)' \in {Null} \cup D
    <3> SUFFICES ASSUME NEW r \in Root, Held(r)' # Null PROVE Held(r)' \in D
      OBVIOUS
    <3>1. H[r] \in {0} \cup S BY <1>5 DEF Heap!Closed
    <3>2. Held(r)' \in Live' /\ H[r] = mem'[Held(r)'].id /\ H[r] # 0
      BY <1>1, <1>2
    <3> QED BY <2>1, <3>1, <3>2
  <2>3. \A h \in D \cap Live' : \A k \in 1..(mem'[h].size - 1) : Leads(h, k)' \in {Null} \cup D
    <3> SUFFICES ASSUME NEW h \in D, NEW k \in 1..(mem'[h].size - 1), Leads(h, k)' # Null
                 PROVE  Leads(h, k)' \in D
      OBVIOUS
    <3>1. h \in Live' /\ mem'[h].id \in S BY <2>1
    <3>2. F[mem'[h].id][k] \in {0} \cup S BY <1>4, <1>5, <3>1 DEF Heap!Closed
    <3>3. Leads(h, k)' \in Live' /\ F[mem'[h].id][k] = mem'[Leads(h, k)'].id
      BY <1>3, <3>1
    <3>4. mem'[Leads(h, k)'].id # 0
      BY <1>1, <3>3
    <3> QED BY <2>1, <3>2, <3>3, <3>4
  <2>4. Live' \subseteq D
    BY <2>2, <2>3 DEF Reach
  <2> QED BY <1>1, <2>1, <2>4
<1>6. Heap!Closed(LiveIds', H, F)
  <2>1. \A r \in Root : H[r] \in {0} \cup LiveIds'
    BY <1>1, <1>2
  <2>2. ASSUME NEW i \in LiveIds', NEW k \in DOMAIN F[i] PROVE F[i][k] \in {0} \cup LiveIds'
    <3>1. PICK h \in Live' : mem'[h].id = i BY <1>1
    <3>2. k \in 1..(mem'[h].size - 1) BY <1>4, <3>1
    <3> QED BY <1>1, <1>3, <3>1, <3>2
  <2> QED BY <2>1, <2>2 DEF Heap!Closed
<1>7. Heap!InReach(H, F) = LiveIds'
  BY <1>5, <1>6 DEF Heap!InReach
<1>8. FieldIds' = [i \in Heap!InReach(H, F) |-> F[i]]
  BY <1>1, <1>7
<1> QED BY <1>8 DEF Heap!Become

(* What the collector does cannot be seen.                                 *)
LEMMA RelocatesUnseen ==
  ASSUME Sound, Sound', Relocates, Identified, Identified'
  PROVE  HeldIds' = HeldIds /\ FieldIds' = FieldIds
<1>1. Reach /\ Reach' /\ CellsOK(mem) /\ CellsOK(mem)'
  <2>1. (Sound => Reach)' BY SoundReaches, PTL
  <2>2. CellsOK(mem)' BY DEF Sound, Memory
  <2> QED BY <2>1, <2>2, SoundMemory
<1>2. PICK rho : Moves(rho) /\ \A x \in Live : rho[x] \in Cell
  BY DEF Relocates
<1>3. Live' = {rho[x] : x \in Live}
  BY <1>1, <1>2, MovesLive
<1>4. \A x \in {Null} \cup Live : (IF rho[x] = Null THEN 0 ELSE mem'[rho[x]].id) = Name(x)
  BY <1>2 DEF Moves, Name
<1>5. /\ HeldIds = [r \in Root |-> Name(Held(r))]
      /\ FieldIds = [i \in LiveIds |-> FieldIds[i]]
      /\ \A i \in LiveIds : \E h \in Live : mem[h].id = i
      /\ \A h \in Live : /\ mem[h].id \in LiveIds
                         /\ FieldIds[mem[h].id] = [k \in 1..(mem[h].size - 1) |-> Name(Leads(h, k))]
  BY <1>1, HeapOfNames
<1>6. /\ HeldIds' = [r \in Root |-> Name(Held(r))']
      /\ FieldIds' = [i \in LiveIds' |-> FieldIds'[i]]
      /\ \A i \in LiveIds' : \E h \in Live' : mem'[h].id = i
      /\ \A h \in Live' : /\ mem'[h].id \in LiveIds'
                          /\ FieldIds'[mem'[h].id] = [k \in 1..(mem'[h].size - 1) |-> Name(Leads(h, k))']
  <2>1. (Reach /\ Identified /\ CellsOK(mem) =>
          /\ HeldIds = [r \in Root |-> Name(Held(r))]
          /\ FieldIds = [i \in LiveIds |-> FieldIds[i]]
          /\ LiveIds \subseteq Id /\ 0 \notin LiveIds
          /\ \A i \in LiveIds : \E h \in Live : mem[h].id = i
          /\ \A h \in Live : /\ mem[h].id \in LiveIds
                             /\ FieldIds[mem[h].id] = [k \in 1..(mem[h].size - 1) |-> Name(Leads(h, k))])'
    BY HeapOfNames, PTL
  <2> QED BY <1>1, <2>1
<1>7. ASSUME NEW r \in Root PROVE Name(Held(r))' = Name(Held(r))
  <2>1. Held(r)' = rho[Held(r)] /\ Held(r) \in {Null} \cup Live
    BY <1>1, <1>2 DEF Moves, Reach
  <2>2. Name(Held(r))' = IF Held(r)' = Null THEN 0 ELSE mem'[Held(r)'].id
    BY DEF Name
  <2> QED BY <1>4, <2>1, <2>2
<1>8. LiveIds' = LiveIds
  <2>1. \A x \in Live : rho[x] \in Live' /\ mem'[rho[x]].id = mem[x].id
    BY <1>2, <1>3 DEF Moves
  <2>2. \A y \in Live' : \E x \in Live : y = rho[x]
    BY <1>3
  <2>3. ASSUME NEW i \in LiveIds PROVE i \in LiveIds'
    <3>1. PICK x \in Live : mem[x].id = i BY <1>5
    <3>2. rho[x] \in Live' /\ mem'[rho[x]].id = i BY <2>1, <3>1
    <3> QED BY <1>6, <3>2
  <2>4. \A i \in LiveIds' : i \in LiveIds
    <3> SUFFICES ASSUME NEW i \in LiveIds' PROVE i \in LiveIds
      OBVIOUS
    <3>1. PICK y \in Live' : mem'[y].id = i BY <1>6
    <3>2. PICK x \in Live : y = rho[x] BY <2>2
    <3> QED BY <1>5, <2>1, <3>1, <3>2
  <2> QED BY <2>3, <2>4
<1>9. ASSUME NEW i \in LiveIds PROVE FieldIds'[i] = FieldIds[i]
  <2>1. PICK x \in Live : mem[x].id = i BY <1>5
  <2>2. rho[x] \in Live' /\ mem'[rho[x]].id = i /\ mem'[rho[x]].size = mem[x].size
    BY <1>2, <1>3, <2>1 DEF Moves
  <2>3. ASSUME NEW k \in 1..(mem[x].size - 1) PROVE Name(Leads(rho[x], k))' = Name(Leads(x, k))
    <3>1. Leads(rho[x], k)' = rho[Leads(x, k)] /\ Leads(x, k) \in {Null} \cup Live
      BY <1>1, <1>2 DEF Moves, Reach
    <3>2. Name(Leads(rho[x], k))' = IF Leads(rho[x], k)' = Null THEN 0 ELSE mem'[Leads(rho[x], k)'].id
      BY DEF Name
    <3> QED BY <1>4, <3>1, <3>2
  <2>4. FieldIds[i] = [k \in 1..(mem[x].size - 1) |-> Name(Leads(x, k))]
    BY <1>5, <2>1
  <2>5. FieldIds'[i] = [k \in 1..(mem[x].size - 1) |-> Name(Leads(rho[x], k))']
    BY <1>6, <2>2
  <2> QED BY <2>3, <2>4, <2>5
<1>10. HeldIds' = HeldIds
  BY <1>5, <1>6, <1>7
<1> QED BY <1>5, <1>6, <1>8, <1>9, <1>10

(* The mapping before and after a step.                                    *)
LEMMA SoundHeap ==
  ASSUME Sound, Sound', Identified, Identified'
  PROVE  /\ Reach /\ Reach' /\ CellsOK(mem)'
         /\ HeldIds = [r \in Root |-> Name(Held(r))]
         /\ FieldIds = [i \in LiveIds |-> FieldIds[i]]
         /\ LiveIds \subseteq Id /\ 0 \notin LiveIds
         /\ \A h \in Live : /\ mem[h].id \in LiveIds
                            /\ FieldIds[mem[h].id] = [k \in 1..(mem[h].size - 1) |-> Name(Leads(h, k))]
         /\ HeldIds' = [r \in Root |-> Name(Held(r))']
         /\ \A i \in LiveIds' : \E h \in Live' : mem'[h].id = i
         /\ \A h \in Live' : FieldIds'[mem'[h].id] = [k \in 1..(mem'[h].size - 1) |-> Name(Leads(h, k))']
<1>1. Reach /\ Reach' /\ CellsOK(mem) /\ CellsOK(mem)'
  <2>1. (Sound => Reach)' BY SoundReaches, PTL
  <2>2. CellsOK(mem)' BY DEF Sound, Memory
  <2> QED BY <2>1, <2>2, SoundMemory
<1>2. (Reach /\ Identified /\ CellsOK(mem) =>
        /\ HeldIds = [r \in Root |-> Name(Held(r))]
        /\ FieldIds = [i \in LiveIds |-> FieldIds[i]]
        /\ LiveIds \subseteq Id /\ 0 \notin LiveIds
        /\ \A i \in LiveIds : \E h \in Live : mem[h].id = i
        /\ \A h \in Live : /\ mem[h].id \in LiveIds
                           /\ FieldIds[mem[h].id] = [k \in 1..(mem[h].size - 1) |-> Name(Leads(h, k))])'
  BY HeapOfNames, PTL
<1>3. /\ HeldIds' = [r \in Root |-> Name(Held(r))']
      /\ \A i \in LiveIds' : \E h \in Live' : mem'[h].id = i
      /\ \A h \in Live' : FieldIds'[mem'[h].id] = [k \in 1..(mem'[h].size - 1) |-> Name(Leads(h, k))']
  BY <1>1, <1>2
<1> QED BY <1>1, <1>3, HeapOfNames

(* An assignment to a root is an Assign or a LoadField of the ideal heap.  *)
LEMMA SetRootInHeap ==
  ASSUME Sound, Sound', Identified, Identified', At("program"), NEW r \in Root,
         NEW v \in Values \cup Loaded, SetRoot(r, v)
  PROVE  Heap!HeapNext
<1>1. /\ Reach /\ Reach' /\ CellsOK(mem)'
      /\ HeldIds = [s \in Root |-> Name(Held(s))]
      /\ FieldIds = [i \in LiveIds |-> FieldIds[i]]
      /\ 0 \notin LiveIds
      /\ \A h \in Live : /\ mem[h].id \in LiveIds
                         /\ FieldIds[mem[h].id] = [k \in 1..(mem[h].size - 1) |-> Name(Leads(h, k))]
      /\ HeldIds' = [s \in Root |-> Name(Held(s))']
      /\ \A i \in LiveIds' : \E h \in Live' : mem'[h].id = i
      /\ \A h \in Live' : FieldIds'[mem'[h].id] = [k \in 1..(mem'[h].size - 1) |-> Name(Leads(h, k))']
  BY SoundHeap
<1>2. /\ Live' \subseteq Live /\ mem' = mem
      /\ \/ v = Null \/ \E q \in Root : v = Held(q)
         \/ \E q \in Root : /\ Held(q) \in Live
                           /\ \E k \in 1..(mem[Held(q)].size - 1) : v = Leads(Held(q), k)
      /\ \A s \in Root : Held(s)' = IF s = r THEN v ELSE Held(s)
      /\ \A h \in Live : \A i \in 1..(mem[h].size - 1) : Leads(h, i)' = Leads(h, i)
  BY <1>1, SetRootReaches DEF SetRoot
<1>3. PICK id : id = Name(v)
  OBVIOUS
<1>4. PICK H : H = [HeldIds EXCEPT ![r] = id]
  OBVIOUS
<1>5. HeldIds' = H
  <2>1. \A s \in Root : Name(Held(s))' = IF s = r THEN id ELSE Name(Held(s))
    BY <1>2, <1>3 DEF Name
  <2> QED BY <1>1, <1>4, <2>1
<1>6. ASSUME NEW i \in LiveIds' PROVE i \in LiveIds /\ FieldIds'[i] = FieldIds[i]
  <2>1. PICK h \in Live' : mem'[h].id = i BY <1>1
  <2>2. h \in Live /\ mem[h].id = i BY <1>2, <2>1
  <2>3. \A k \in 1..(mem[h].size - 1) : Name(Leads(h, k))' = Name(Leads(h, k))
    BY <1>2, <2>2 DEF Name
  <2>4. FieldIds[i] = [k \in 1..(mem[h].size - 1) |-> Name(Leads(h, k))]
    BY <1>1, <2>2
  <2>5. FieldIds'[i] = [k \in 1..(mem[h].size - 1) |-> Name(Leads(h, k))']
    BY <1>1, <1>2, <2>1
  <2> QED BY <1>1, <2>2, <2>3, <2>4, <2>5
<1>7. Heap!Become(H, FieldIds)
  <2>1. PICK F : F = FieldIds OBVIOUS
  <2>2. LiveIds' \subseteq DOMAIN F /\ \A i \in LiveIds' : F[i] = FieldIds'[i]
    BY <1>1, <1>6, <2>1
  <2>3. Heap!Become(H, F)
    BY <1>1, <1>5, <2>2, HeapBecomes
  <2> QED BY <2>1, <2>3
<1>8. CASE v = Null \/ \E q \in Root : v = Held(q)
  <2>1. id \in {0} \cup {HeldIds[s] : s \in Root}
    BY <1>1, <1>3, <1>8 DEF Name
  <2>2. Heap!Assign(r, id)
    BY <1>4, <1>7 DEF Heap!Assign
  <2> QED BY <2>1, <2>2 DEF Heap!HeapNext
<1>9. CASE \E q \in Root : /\ Held(q) \in Live
                           /\ \E k \in 1..(mem[Held(q)].size - 1) : v = Leads(Held(q), k)
  <2>0. PICK q \in Root : /\ Held(q) \in Live
                          /\ \E k \in 1..(mem[Held(q)].size - 1) : v = Leads(Held(q), k)
    BY <1>9
  <2>1. PICK k \in 1..(mem[Held(q)].size - 1) : Held(q) \in Live /\ v = Leads(Held(q), k)
    BY <2>0
  <2>2. HeldIds[q] = mem[Held(q)].id /\ HeldIds[q] # 0
    <3> Held(q) # Null BY <2>1, SoundMemory, Sides DEF Reach
    <3> QED BY <1>1, <2>1 DEF Name
  <2>3. FieldIds[HeldIds[q]] = [j \in 1..(mem[Held(q)].size - 1) |-> Name(Leads(Held(q), j))]
    BY <1>1, <2>1, <2>2
  <2>4. k \in DOMAIN FieldIds[HeldIds[q]] /\ FieldIds[HeldIds[q]][k] = id
    BY <1>3, <2>1, <2>3
  <2>5. Heap!LoadField(r, q, k)
    BY <1>4, <1>7, <2>2, <2>4 DEF Heap!LoadField
  <2> QED BY <2>2, <2>4, <2>5 DEF Heap!HeapNext
<1> QED BY <1>2, <1>8, <1>9

(* A store to a field is a StoreField.                                     *)
LEMMA SetFieldInHeap ==
  ASSUME Sound, Sound', Identified, Identified', At("program"), NEW f \in RootFields,
         NEW v \in Values, SetField(f, v)
  PROVE  Heap!HeapNext
<1>1. /\ Reach /\ Reach' /\ CellsOK(mem)'
      /\ HeldIds = [s \in Root |-> Name(Held(s))]
      /\ FieldIds = [i \in LiveIds |-> FieldIds[i]]
      /\ 0 \notin LiveIds
      /\ \A h \in Live : /\ mem[h].id \in LiveIds
                         /\ FieldIds[mem[h].id] = [k \in 1..(mem[h].size - 1) |-> Name(Leads(h, k))]
      /\ HeldIds' = [s \in Root |-> Name(Held(s))']
      /\ \A i \in LiveIds' : \E h \in Live' : mem'[h].id = i
      /\ \A h \in Live' : FieldIds'[mem'[h].id] = [k \in 1..(mem'[h].size - 1) |-> Name(Leads(h, k))']
  BY SoundHeap
<1>2. /\ Live' \subseteq Live /\ \A h \in Live : mem'[h] = mem[h]
      /\ v = Null \/ \E s \in Root : v = Held(s)
      /\ \A s \in Root : Held(s)' = Held(s)
      /\ \E q \in Root : Held(q) \in Live /\ \E k \in 1..(mem[Held(q)].size - 1) :
           \A h \in Live : \A i \in 1..(mem[h].size - 1) :
              Leads(h, i)' = IF h = Held(q) /\ i = k THEN v ELSE Leads(h, i)
  BY <1>1, SetFieldReaches
<1>3. PICK q \in Root : Held(q) \in Live /\ \E k \in 1..(mem[Held(q)].size - 1) :
        \A h \in Live : \A i \in 1..(mem[h].size - 1) :
           Leads(h, i)' = IF h = Held(q) /\ i = k THEN v ELSE Leads(h, i)
  BY <1>2
<1>4. PICK g : g = Held(q)
  OBVIOUS
<1>5. PICK k \in 1..(mem[g].size - 1) :
        \A h \in Live : \A i \in 1..(mem[h].size - 1) :
           Leads(h, i)' = IF h = g /\ i = k THEN v ELSE Leads(h, i)
  BY <1>3, <1>4
<1>6. PICK id : id = Name(v)
  OBVIOUS
<1>7. v \in {Null} \cup Live /\ id \in {0} \cup {HeldIds[s] : s \in Root}
  BY <1>1, <1>2, <1>6 DEF Name, Reach
<1>8. \A x \in {Null} \cup Live : (IF x = Null THEN 0 ELSE mem'[x].id) = Name(x)
  BY <1>2 DEF Name
<1>9. HeldIds' = HeldIds
  <2>1. \A s \in Root : Name(Held(s))' = Name(Held(s))
    <3> SUFFICES ASSUME NEW s \in Root PROVE Name(Held(s))' = Name(Held(s))
      OBVIOUS
    <3>1. Name(Held(s))' = IF Held(s)' = Null THEN 0 ELSE mem'[Held(s)'].id
      BY DEF Name
    <3>2. Held(s)' = Held(s) /\ Held(s) \in {Null} \cup Live BY <1>1, <1>2 DEF Reach
    <3> QED BY <1>8, <3>1, <3>2
  <2> QED BY <1>1, <2>1
<1>10. HeldIds[q] = mem[g].id /\ HeldIds[q] # 0 /\ g \in Live /\ mem[g].id \in LiveIds
  <2> g # Null BY <1>3, <1>4, SoundMemory, Sides DEF Reach
  <2> QED BY <1>1, <1>3, <1>4 DEF Name
<1>11. PICK F : F = [FieldIds EXCEPT ![HeldIds[q]][k] = id]
  OBVIOUS
<1>12. FieldIds[HeldIds[q]] = [j \in 1..(mem[g].size - 1) |-> Name(Leads(g, j))]
  BY <1>1, <1>10
<1>13. /\ DOMAIN F = LiveIds
       /\ F[HeldIds[q]] = [j \in 1..(mem[g].size - 1) |-> IF j = k THEN id ELSE Name(Leads(g, j))]
       /\ \A i \in LiveIds : i # HeldIds[q] => F[i] = FieldIds[i]
  BY <1>1, <1>5, <1>10, <1>11, <1>12
<1>14. ASSUME NEW i \in LiveIds' PROVE i \in LiveIds /\ F[i] = FieldIds'[i]
  <2>1. PICK h \in Live' : mem'[h].id = i BY <1>1
  <2>2. h \in Live /\ mem[h].id = i BY <1>2, <2>1
  <2>3. ASSUME NEW j \in 1..(mem[h].size - 1)
        PROVE  Name(Leads(h, j))' = IF h = g /\ j = k THEN id ELSE Name(Leads(h, j))
    <3>1. Name(Leads(h, j))' = IF Leads(h, j)' = Null THEN 0 ELSE mem'[Leads(h, j)'].id
      BY DEF Name
    <3>2. Leads(h, j)' = IF h = g /\ j = k THEN v ELSE Leads(h, j)
      BY <1>5, <2>2
    <3>3. Leads(h, j) \in {Null} \cup Live BY <1>1, <2>2 DEF Reach
    <3> QED BY <1>6, <1>7, <1>8, <3>1, <3>2, <3>3
  <2>4. FieldIds'[i] = [j \in 1..(mem[h].size - 1) |-> Name(Leads(h, j))']
    BY <1>1, <1>2, <2>1
  <2>5. FieldIds'[i] = [j \in 1..(mem[h].size - 1) |-> IF h = g /\ j = k THEN id ELSE Name(Leads(h, j))]
    BY <2>3, <2>4
  <2>6. i \in LiveIds BY <1>1, <2>2
  <2>7. CASE h = g
    BY <1>10, <1>13, <2>2, <2>5, <2>6, <2>7
  <2>8. CASE h # g
    <3>1. i # HeldIds[q] BY <1>10, <2>2, <2>8 DEF Identified
    <3>2. F[i] = [j \in 1..(mem[h].size - 1) |-> Name(Leads(h, j))]
      BY <1>1, <1>13, <2>2, <2>6, <3>1
    <3> QED BY <2>5, <2>6, <2>8, <3>2
  <2> QED BY <2>7, <2>8
<1>15. Heap!Become(HeldIds, F)
  <2>1. PICK H : H = HeldIds OBVIOUS
  <2>2. LiveIds' \subseteq DOMAIN F /\ \A i \in LiveIds' : F[i] = FieldIds'[i] /\ HeldIds' = H
    BY <1>9, <1>13, <1>14, <2>1
  <2>3. Heap!Become(H, F)
    BY <1>1, <1>9, <2>1, <2>2, HeapBecomes
  <2> QED BY <2>1, <2>3
<1>16. k \in DOMAIN FieldIds[HeldIds[q]]
  BY <1>12
<1>17. Heap!StoreField(q, k, id)
  BY <1>10, <1>11, <1>15, <1>16 DEF Heap!StoreField
<1> QED BY <1>7, <1>10, <1>16, <1>17 DEF Heap!HeapNext

(* An allocation is an Allocate, whether a collection came before it or    *)
(* not.                                                                    *)
LEMMA PlaceInHeap ==
  ASSUME Sound, Sound', Identified, Identified', Quiet, NEW m \in {mem, LeaveFrom(mem)},
         NEW r \in Root, NEW n \in FieldCounts, Place(m, r, n), pos + n + 1 <= toEnd, EnoughIds
  PROVE  Heap!HeapNext
<1>1. /\ Reach /\ Reach' /\ CellsOK(mem)' /\ n \in Nat
      /\ HeldIds = [s \in Root |-> Name(Held(s))]
      /\ FieldIds = [i \in LiveIds |-> FieldIds[i]]
      /\ \A h \in Live : /\ mem[h].id \in LiveIds
                         /\ FieldIds[mem[h].id] = [k \in 1..(mem[h].size - 1) |-> Name(Leads(h, k))]
      /\ HeldIds' = [s \in Root |-> Name(Held(s))']
      /\ \A i \in LiveIds' : \E h \in Live' : mem'[h].id = i
      /\ \A h \in Live' : FieldIds'[mem'[h].id] = [k \in 1..(mem'[h].size - 1) |-> Name(Leads(h, k))']
  BY SoundHeap, SpaceAssumption
<1>2. PICK p : p = pos
  OBVIOUS
<1>3. PICK id : id = FreshId
  OBVIOUS
<1>4. /\ Live' \subseteq Live \cup {p} /\ \A h \in Live : mem'[h] = mem[h] /\ h # p
      /\ p \in Cell /\ mem'[p] = Object(n + 1, id)
      /\ \A s \in Root : Held(s)' = IF s = r THEN p ELSE Held(s)
      /\ \A h \in Live : \A i \in 1..(mem[h].size - 1) : Leads(h, i)' = Leads(h, i)
      /\ \A i \in 1..n : Leads(p, i)' = Null
  BY <1>1, <1>2, <1>3, PlaceReaches
<1>5. p # Null /\ mem'[p].id = id /\ mem'[p].size - 1 = n
  <2>1. p \in Cell /\ Null \notin Cell /\ mem'[p] = Object(n + 1, id) BY <1>4, SoundMemory, Sides
  <2> QED BY <1>1, <2>1 DEF Object
<1>6. id \in Id \ LiveIds
  <2>1. LiveCells < SpaceCells
    <3> LiveCells \in Nat /\ LiveCells <= pos - toBegin /\ SpaceCells \in Nat
        /\ pos \in Nat /\ toBegin \in Nat
      BY QuietRoom
    <3> QED BY <1>1 DEF toEnd
  <2> QED BY <1>3, <2>1, FreshIdIsFresh
<1>7. \A x \in {Null} \cup Live : (IF x = Null THEN 0 ELSE mem'[x].id) = Name(x)
  BY <1>4 DEF Name
<1>8. PICK H : H = [HeldIds EXCEPT ![r] = id]
  OBVIOUS
<1>9. HeldIds' = H
  <2>1. \A s \in Root : Name(Held(s))' = IF s = r THEN id ELSE Name(Held(s))
    <3> SUFFICES ASSUME NEW s \in Root PROVE Name(Held(s))' = IF s = r THEN id ELSE Name(Held(s))
      OBVIOUS
    <3>1. Name(Held(s))' = IF Held(s)' = Null THEN 0 ELSE mem'[Held(s)'].id
      BY DEF Name
    <3>2. Held(s)' = (IF s = r THEN p ELSE Held(s)) /\ Held(s) \in {Null} \cup Live
      BY <1>1, <1>4 DEF Reach
    <3> QED BY <1>5, <1>7, <3>1, <3>2
  <2> QED BY <1>1, <1>8, <2>1
<1>10. PICK F : F = [j \in DOMAIN FieldIds \cup {id} |-> IF j = id THEN [k \in 1..n |-> 0]
                                                         ELSE FieldIds[j]]
  OBVIOUS
<1>11. DOMAIN FieldIds = LiveIds
  BY <1>1
<1>12. ASSUME NEW i \in LiveIds' PROVE i \in DOMAIN F /\ F[i] = FieldIds'[i]
  <2>1. PICK h \in Live' : mem'[h].id = i BY <1>1
  <2>2. CASE h = p
    <3>1. i = id /\ \A k \in 1..n : Name(Leads(h, k))' = 0
      BY <1>4, <1>5, <2>1, <2>2 DEF Name
    <3>2. FieldIds'[i] = [k \in 1..n |-> Name(Leads(h, k))']
      BY <1>1, <1>5, <2>1, <2>2
    <3> QED BY <1>10, <3>1, <3>2
  <2>3. CASE h \in Live
    <3>1. mem[h].id = i /\ i \in LiveIds /\ i # id /\ mem'[h] = mem[h]
      <4>1. mem'[h] = mem[h] BY <1>4, <2>3
      <4>2. mem[h].id = i BY <2>1, <4>1
      <4>3. mem[h].id \in LiveIds BY <1>1, <2>3
      <4> QED BY <1>6, <4>1, <4>2, <4>3
    <3>2. \A k \in 1..(mem[h].size - 1) : Name(Leads(h, k))' = Name(Leads(h, k))
      <4> SUFFICES ASSUME NEW k \in 1..(mem[h].size - 1) PROVE Name(Leads(h, k))' = Name(Leads(h, k))
        OBVIOUS
      <4>1. Name(Leads(h, k))' = IF Leads(h, k)' = Null THEN 0 ELSE mem'[Leads(h, k)'].id
        BY DEF Name
      <4>2. Leads(h, k)' = Leads(h, k) /\ Leads(h, k) \in {Null} \cup Live
        BY <1>1, <1>4, <2>3 DEF Reach
      <4> QED BY <1>7, <4>1, <4>2
    <3>3. FieldIds[i] = [k \in 1..(mem[h].size - 1) |-> Name(Leads(h, k))]
      BY <1>1, <2>3, <3>1
    <3>4. FieldIds'[i] = [k \in 1..(mem[h].size - 1) |-> Name(Leads(h, k))']
      BY <1>1, <2>1, <3>1
    <3> QED BY <1>10, <1>11, <3>1, <3>2, <3>3, <3>4
  <2> QED BY <1>4, <2>2, <2>3
<1>13. Heap!Become(H, F)
  <2>1. LiveIds' \subseteq DOMAIN F /\ \A i \in LiveIds' : F[i] = FieldIds'[i]
    BY <1>12
  <2> QED BY <1>1, <1>9, <2>1, HeapBecomes
<1>14. Heap!Allocate(r, n)
  BY <1>6, <1>8, <1>10, <1>11, <1>13 DEF Heap!Allocate
<1> QED BY <1>14 DEF Heap!HeapNext

(* The ideal heap is empty at first.                                       *)
LEMMA InitInHeap == Init => Heap!HeapInit
<1> SUFFICES ASSUME Init PROVE HeldIds = [r \in Root |-> 0] /\ FieldIds = << >>
  BY DEF Heap!HeapInit
<1>1. RootObjects \subseteq {}
  BY DEF Init, RootObjects, Resolve
<1>2. Targets({}) \subseteq {}
  BY TargetsIn
<1>3. Live = {}
  BY <1>1, <1>2, LiveIsLeast
<1>4. FieldIds = << >>
  BY <1>3 DEF FieldIds, LiveIds
<1>5. HeldIds = [r \in Root |-> 0]
  BY DEF Init, HeldIds, IdOf, Resolve
<1> QED BY <1>4, <1>5

(* Every step is a step of the ideal heap or leaves it as it is.           *)
LEMMA StepInHeap ==
  ASSUME ~LateInit, MaxLive <= SpaceCells, EnoughIds, HeapInv, HeapInv', Fits, Fits',
         Identified, Identified', [Next]_vars
  PROVE  Heap!HeapNext \/ (HeldIds' = HeldIds /\ FieldIds' = FieldIds)
<1>1. Sound
  BY DEF HeapInv, Control, Fits, Sound
<1>2. Sound' /\ Reach'
  BY SoundNext DEF HeapInv, Control, Fits
<1>3. Control /\ SpaceCells \in Nat
  BY SpaceAssumption DEF HeapInv
<1>4. ASSUME Collecting PROVE AllLive /\ LiveCells <= SpaceCells
  <2>1. AllLive /\ LiveCells + Wanted <= SpaceCells /\ LiveCells \in Nat /\ Wanted \in Nat
    BY <1>1, <1>3, <1>4, FilledCells, WantedIsNatural DEF Fits
  <2> QED BY <1>3, <2>1
<1> DEFINE Unseen == HeldIds' = HeldIds /\ FieldIds' = FieldIds
<1>5. ASSUME Relocates PROVE Unseen
  BY <1>1, <1>2, <1>5, RelocatesUnseen
<1>6. ASSUME mem' = mem, roots' = roots PROVE Unseen
  <2> HIDE DEF Unseen
  <2> QED BY <1>1, <1>2, <1>5, <1>6, StandingRelocates
<1> HIDE DEF Unseen
<1>7. ASSUME NEW r \in Root, TraceRoot(r) PROVE Unseen
  <2> Collecting BY <1>7 DEF TraceRoot, At, Collecting
  <2> QED BY <1>1, <1>4, <1>5, <1>7, TraceRootRelocates
<1>8. CASE ScanField
  <2> Collecting BY <1>8 DEF ScanField, Scanning, At, Collecting
  <2> QED BY <1>1, <1>4, <1>5, <1>8, ScanFieldRelocates DEF Unseen
<1>9. CASE EndCollect
  BY <1>1, <1>5, <1>9, EndCollectRelocates DEF Unseen
<1>10. CASE ResumeAlloc
  <2>1. Quiet /\ Place(LeaveFrom(mem), request[1], request[2]) /\ request # <<>> /\ toBegin' = toBegin
    BY <1>10 DEF ResumeAlloc, At, Quiet
  <2>2. request[1] \in Root /\ request[2] \in FieldCounts /\ request[2] \in Nat
    BY <1>3, <2>1, SpaceAssumption DEF Control
  <2>3. pos + request[2] + 1 <= toEnd
    BY <2>1 DEF Place, Fits, InSpace, toEnd
  <2> QED BY <1>1, <1>2, <2>1, <2>2, <2>3, PlaceInHeap
<1>11. ASSUME NEW r \in Root, NEW n \in FieldCounts, AllocFits(r, n) PROVE Heap!HeapNext
  <2>1. Quiet /\ Place(mem, r, n) /\ toBegin' = toBegin
    BY <1>11 DEF AllocFits, At, Quiet
  <2>2. pos + n + 1 <= toEnd
    BY <2>1 DEF Place, Fits, InSpace, toEnd
  <2> QED BY <1>1, <1>2, <2>1, <2>2, PlaceInHeap
<1>12. CASE \/ At("program") /\ \E r \in Root : \E v \in Values \cup Loaded : SetRoot(r, v)
            \/ At("program") /\ \E f \in RootFields : \E v \in Values : SetField(f, v)
  BY <1>1, <1>2, <1>12, SetRootInHeap, SetFieldInHeap
<1>13. CASE FollowStale
  BY <1>2, <1>13 DEF FollowStale, Sound, Control
<1>14. ASSUME NEW r \in Root, NEW n \in FieldCounts, AllocTooLarge(r, n) \/ AllocCollects(r, n)
       PROVE  Unseen
  BY <1>6, <1>14 DEF AllocTooLarge, AllocCollects, SwapSpaces
<1>15. CASE Collect \/ RootsTraced \/ ScanHeader \/ UNCHANGED vars
  <2> mem' = mem /\ roots' = roots
    BY <1>15 DEF Collect, SwapSpaces, RootsTraced, ScanHeader, vars
  <2> QED BY <1>6 DEF Unseen
<1> QED
  BY <1>7, <1>8, <1>9, <1>10, <1>11, <1>12, <1>13, <1>14, <1>15
  DEF Next, Program, Collector, Unseen

(* The collector implements the ideal heap: to the program that loads,     *)
(* stores and allocates, collections, which move all objects and forget    *)
(* those out of reach, cannot be seen.                                     *)
THEOREM CollectorIsInvisible ==
  ASSUME ~LateInit, MaxLive <= SpaceCells, EnoughIds
  PROVE  Spec => ImplementsHeap
<1>1. Init => HeapInv /\ Fits /\ Identified
  BY InitHeap, InitFits, InitIds
<1>2. HeapInv /\ Fits /\ Identified /\ [Next]_vars => HeapInv' /\ Fits' /\ Identified'
  BY HeapStep, FitsStep, IdsStep
<1>3. HeapInv /\ Fits /\ Identified /\ [Next]_vars => [Heap!HeapNext]_(Heap!heapVars)
  <2> SUFFICES ASSUME HeapInv, Fits, Identified, [Next]_vars
               PROVE  Heap!HeapNext \/ (HeldIds' = HeldIds /\ FieldIds' = FieldIds)
    BY DEF Heap!heapVars
  <2> QED BY <1>2, StepInHeap
<1>4. Init => Heap!HeapInit
  BY InitInHeap
<1> QED BY <1>1, <1>2, <1>3, <1>4, PTL DEF Spec, ImplementsHeap, Heap!HeapSpec
=============================================================================

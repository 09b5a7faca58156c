-------------------------- MODULE BlockDequeProofs --------------------------
(***************************************************************************)
(* For every block size and every set of values and blocks: the deque's    *)
(* blocks stay one doubly linked list and its positions and size agree,    *)
(* the deque is the sequence AbstractDeque describes, its iterators return *)
(* the elements in order, and a copy of the rest copies exactly the rest.  *)
(***************************************************************************)
EXTENDS BlockDeque, SequenceTheorems, TLAPS

(* The types, the links and the counts support one another: a pop follows  *)
(* a link only because the counts say that there is a block to leave.      *)
IInv == TypeOK /\ WellLinked /\ SizeIsExact

-----------------------------------------------------------------------------
(* The sequences of blocks the operations make: with a block at the start *)
LEMMA ConsFacts ==
    ASSUME NEW c \in Seq(Block), NEW b \in Block
    PROVE  /\ <<b>> \o c \in Seq(Block)
           /\ <<b>> \o c # <<>>
           /\ Len(<<b>> \o c) = Len(c) + 1
           /\ (<<b>> \o c)[1] = b
           /\ \A i \in 1..Len(c) : (<<b>> \o c)[i + 1] = c[i]
  OBVIOUS

(* ... at the end *)
LEMMA AppendFacts ==
    ASSUME NEW c \in Seq(Block), NEW b \in Block
    PROVE  /\ Append(c, b) \in Seq(Block)
           /\ Append(c, b) # <<>>
           /\ Len(Append(c, b)) = Len(c) + 1
           /\ Append(c, b)[Len(c) + 1] = b
           /\ \A i \in 1..Len(c) : Append(c, b)[i] = c[i]
  OBVIOUS

(* ... without the first *)
LEMMA TailFacts ==
    ASSUME NEW c \in Seq(Block), c # <<>>
    PROVE  /\ Tail(c) \in Seq(Block)
           /\ Len(Tail(c)) = Len(c) - 1
           /\ \A i \in 1..(Len(c) - 1) : Tail(c)[i] = c[i + 1]
  BY HeadTailProperties

(* ... and without the last *)
LEMMA FrontFacts ==
    ASSUME NEW c \in Seq(Block), c # <<>>
    PROVE  /\ Front(c) \in Seq(Block)
           /\ Len(Front(c)) = Len(c) - 1
           /\ \A i \in 1..(Len(c) - 1) : Front(c)[i] = c[i]
<1>1. SubSeq(c, 1, Len(c) - 1) \in Seq(Block)
  OBVIOUS
<1>2. Len(SubSeq(c, 1, Len(c) - 1)) = Len(c) - 1
  <2>1. Len(c) \in Nat \ {0} /\ \A i \in 1..(Len(c) - 1) : c[i] \in Block
    OBVIOUS
  <2> DEFINE n == Len(c) - 1
  <2>2. n \in Nat
    BY <2>1
  <2>3. \A i \in 1..n : c[i] \in Block
    BY <2>1
  <2> HIDE DEF n
  <2>4. Len(SubSeq(c, 1, n)) = IF 1 <= n THEN n - 1 + 1 ELSE 0
    BY <2>2, <2>3, SubSeqProperties
  <2>5. Len(SubSeq(c, 1, n)) = n
    BY <2>2, <2>4
  <2> QED BY <2>5 DEF n
<1>3. \A i \in 1..(Len(c) - 1) : SubSeq(c, 1, Len(c) - 1)[i] = c[i]
  OBVIOUS
<1> QED BY <1>1, <1>2, <1>3, Zenon DEF Front

(* A list with elements starts and ends in blocks *)
LEMMA ChainFacts ==
    ASSUME NEW c \in Seq(Block)
    PROVE  /\ Len(c) \in Nat
           /\ DOMAIN c = 1..Len(c)
           /\ c = <<>> <=> Len(c) = 0
           /\ \A i \in 1..Len(c) : c[i] \in Block
  OBVIOUS

(* The end of a block in a list of blocks *)
LEMMA Products ==
    ASSUME NEW n \in Nat
    PROVE  /\ n * BlockSize \in Nat
           /\ (n + 1) * BlockSize = n * BlockSize + BlockSize
           /\ 0 * BlockSize = 0
  BY DequeAssumption

(* A list of more than one block *)
LEMMA Several ==
    ASSUME NEW n \in Nat, 1 <= n, n # 1
    PROVE  /\ 2 \in 1..n /\ 1 \in 1..(n - 1) /\ n - 1 \in 1..(n - 1) /\ (n - 1) + 1 = n
           /\ n - 2 \in Nat /\ n - 1 = (n - 2) + 1 /\ (n - 1) - 1 = n - 2
  OBVIOUS

(* A deque in use has a first and a last block *)
LEMMA InUse ==
    ASSUME IInv, chain # <<>>
    PROVE  /\ Len(chain) \in Nat \ {0} /\ DOMAIN chain = 1..Len(chain)
           /\ headBlk = chain[1] /\ tailBlk = chain[Len(chain)]
           /\ headBlk \in Block /\ tailBlk \in Block
           /\ headBlk # Nil /\ tailBlk # Nil
           /\ \A i \in 1..Len(chain) : chain[i] \in Block /\ chain[i] # Nil
<1>1. /\ Len(chain) \in Nat \ {0} /\ DOMAIN chain = 1..Len(chain)
      /\ \A i \in 1..Len(chain) : chain[i] \in Block
  BY DEF IInv, TypeOK
<1>2. headBlk = chain[1] /\ tailBlk = chain[Len(chain)]
  BY DEF IInv, WellLinked, Last
<1> QED BY <1>1, <1>2, DequeAssumption

(* An empty list of blocks is an empty deque *)
LEMMA NotInUse ==
    ASSUME IInv, chain = <<>>
    PROVE  headBlk = Nil /\ tailBlk = Nil /\ size = 0
  BY DEF IInv, WellLinked, SizeIsExact

(* An item is set in its block *)
LEMMA SetItem ==
    ASSUME items \in [Block -> Items], NEW b \in Block, NEW i \in 0..(BlockSize - 1),
           NEW v \in Value
    PROVE  /\ [items EXCEPT ![b][i] = v] \in [Block -> Items]
           /\ [items EXCEPT ![b] = OneItem(i, v)] \in [Block -> Items]
<1>1. OneItem(i, v) \in Items
  BY DEF OneItem, Items
<1>2. [items[b] EXCEPT ![i] = v] \in Items
  BY DEF Items
<1> QED BY <1>1, <1>2
-----------------------------------------------------------------------------
(* A new first block: the blocks in use move up by one in the list *)
LEMMA PushFrontNewBlockStep ==
    ASSUME IInv, NEW v \in Value, NEW b \in Unused, PushFrontNewBlock(v, b)
    PROVE  IInv'
<1>1. b \in Block /\ b # Nil /\ \A i \in 1..Len(chain) : chain[i] # b
  BY DequeAssumption DEF Unused, IInv, TypeOK
<1>2. /\ chain \in Seq(Block) /\ Len(chain) \in Nat /\ DOMAIN chain = 1..Len(chain)
      /\ chain = <<>> <=> Len(chain) = 0
      /\ \A i \in 1..Len(chain) : chain[i] \in Block
  BY ChainFacts DEF IInv, TypeOK
<1>3. /\ chain' \in Seq(Block) /\ chain' # <<>> /\ Len(chain') = Len(chain) + 1
      /\ chain'[1] = b /\ \A i \in 1..Len(chain) : chain'[i + 1] = chain[i]
  BY <1>1, <1>2, ConsFacts DEF PushFrontNewBlock
<1>4. DOMAIN chain' = 1..(Len(chain) + 1)
  BY <1>2, <1>3
<1>5. /\ chain = <<>> => headBlk = Nil /\ tailBlk = Nil /\ size = 0
      /\ chain # <<>> => headBlk = chain[1] /\ tailBlk = chain[Len(chain)]
                         /\ headBlk # Nil /\ tailBlk # Nil
  BY InUse, NotInUse
<1>6. Len(chain) \in Nat
  BY <1>2
<1>7. TypeOK'
  <2>1. items' \in [Block -> Items]
    <3>1. BlockSize - 1 \in 0..(BlockSize - 1)
      BY DequeAssumption
    <3>2. items' = [items EXCEPT ![b] = OneItem(BlockSize - 1, v)]
      BY DEF PushFrontNewBlock
    <3>3. items \in [Block -> Items]
      BY DEF IInv, TypeOK
    <3> QED BY <1>1, <3>1, <3>2, <3>3, SetItem
  <2>2. next' \in [Block -> Block \cup {Nil}] /\ prev' \in [Block -> Block \cup {Nil}]
    BY <1>1 DEF PushFrontNewBlock, IInv, TypeOK
  <2>3. /\ headBlk' \in Block \cup {Nil} /\ tailBlk' \in Block \cup {Nil}
    BY <1>1 DEF PushFrontNewBlock, IInv, TypeOK
  <2>4. headPos' \in 0..(BlockSize - 1) /\ tailPos' \in 0..BlockSize
    BY DequeAssumption DEF PushFrontNewBlock, IInv, TypeOK
  <2>5. size' \in Nat /\ mutationIndex' \in Nat
    BY DEF PushFrontNewBlock, Grow, Mutate, IInv, TypeOK
  <2> QED BY <2>1, <2>2, <2>3, <2>4, <2>5, <1>3 DEF TypeOK
<1>8. WellLinked'
  <2>1. headBlk' = chain'[1]
    BY <1>3 DEF PushFrontNewBlock
  <2>2. tailBlk' = chain'[Len(chain')]
    BY <1>2, <1>3, <1>5 DEF PushFrontNewBlock
  <2>3. \A i \in 2..(Len(chain) + 1) : i - 1 \in 1..Len(chain) /\ chain'[i] = chain[i - 1]
    BY <1>2, <1>3
  <2>4. ASSUME NEW i \in DOMAIN chain', NEW j \in DOMAIN chain', chain'[i] = chain'[j]
        PROVE  i = j
    <3>1. i = 1 <=> j = 1
      BY <2>3, <2>4, <1>1, <1>2, <1>3, <1>4
    <3>2. ASSUME i # 1 PROVE i = j
      <4>1. i \in 2..(Len(chain) + 1) /\ j \in 2..(Len(chain) + 1)
        BY <3>1, <3>2, <1>4, <1>6
      <4>2. i - 1 = j - 1
        <5>1. /\ i - 1 \in DOMAIN chain /\ j - 1 \in DOMAIN chain
              /\ chain[i - 1] = chain[j - 1]
          BY <4>1, <2>3, <2>4, <1>2
        <5> QED BY <5>1 DEF IInv, WellLinked
      <4> QED BY <4>1, <4>2
    <3> QED BY <3>1, <3>2
  <2>5. ASSUME NEW i \in DOMAIN chain'
        PROVE  /\ next'[chain'[i]] = IF i = Len(chain') THEN Nil ELSE chain'[i + 1]
               /\ prev'[chain'[i]] = IF i = 1 THEN Nil ELSE chain'[i - 1]
    <3>1. CASE i = 1
      BY <3>1, <1>1, <1>2, <1>3, <1>5 DEF PushFrontNewBlock, IInv, TypeOK
    <3>2. CASE i # 1
      <4> DEFINE k == i - 1
      <4>1. /\ k \in 1..Len(chain) /\ i = k + 1 /\ i \in 2..(Len(chain) + 1)
            /\ i = Len(chain') <=> k = Len(chain)
        BY <3>2, <1>4, <1>6, <1>3
      <4>2. chain'[i] = chain[k] /\ chain[k] # b /\ chain[k] \in Block
        BY <4>1, <1>1, <1>2, <2>3
      <4>3. /\ next[chain[k]] = IF k = Len(chain) THEN Nil ELSE chain[k + 1]
            /\ prev[chain[k]] = IF k = 1 THEN Nil ELSE chain[k - 1]
            /\ chain[k] = chain[1] => k = 1
        <5>1. k \in DOMAIN chain /\ 1 \in DOMAIN chain
          BY <4>1, <1>2, <1>6
        <5> QED BY <5>1 DEF IInv, WellLinked
      <4>4. next'[chain[k]] = next[chain[k]]
        BY <4>2 DEF PushFrontNewBlock, IInv, TypeOK
      <4>5. prev'[chain[k]] = IF chain[k] = headBlk THEN b ELSE prev[chain[k]]
        BY <4>2 DEF PushFrontNewBlock
      <4>6. ASSUME k # Len(chain) PROVE chain'[i + 1] = chain[k + 1]
        <5>1. i + 1 \in 2..(Len(chain) + 1) /\ (i + 1) - 1 = k + 1
          BY <4>1, <4>6, <1>6
        <5> QED BY <5>1, <2>3
      <4>7. ASSUME k # 1 PROVE chain'[i - 1] = chain[k - 1]
        <5>1. i - 1 \in 2..(Len(chain) + 1) /\ (i - 1) - 1 = k - 1
          BY <4>1, <4>7, <1>6
        <5> QED BY <5>1, <2>3
      <4>8. headBlk = chain[1]
        BY <4>1, <1>2, <1>5, <1>6
      <4> HIDE DEF k
      <4>9. next'[chain'[i]] = IF i = Len(chain') THEN Nil ELSE chain'[i + 1]
        BY <4>1, <4>2, <4>3, <4>4, <4>6
      <4>10. CASE k = 1
        <5>1. i - 1 = 1 /\ chain[k] = headBlk
          BY <4>1, <4>8, <4>10
        <5> QED BY <3>2, <4>2, <4>5, <4>9, <5>1, <1>3
      <4>11. CASE k # 1
        BY <3>2, <4>2, <4>3, <4>5, <4>7, <4>8, <4>9, <4>11
      <4> QED BY <4>10, <4>11
    <3> QED BY <3>1, <3>2
  <2> QED BY <2>1, <2>2, <2>4, <2>5, <1>3 DEF WellLinked, Last
<1>9. SizeIsExact'
  <2>1. CASE chain = <<>>
    BY <2>1, <1>2, <1>3, <1>5, Products, DequeAssumption DEF PushFrontNewBlock, Grow, SizeIsExact
  <2>2. CASE chain # <<>>
    <3>1. /\ size = (Len(chain) - 1) * BlockSize + tailPos - headPos
          /\ tailPos > 0 /\ headPos = 0 /\ tailPos \in Nat
      BY <2>2, <1>5 DEF IInv, SizeIsExact, TypeOK, PushFrontNewBlock
    <3>2. Len(chain) * BlockSize = (Len(chain) - 1) * BlockSize + BlockSize
          /\ (Len(chain) - 1) * BlockSize \in Nat
      <4>1. PICK n \in Nat : Len(chain) = n + 1
        <5>1. Len(chain) # 0
          BY <2>2, <1>2
        <5> QED BY <5>1, <1>6
      <4>2. Len(chain) - 1 = n
        BY <4>1
      <4> QED BY <4>1, <4>2, Products
    <3>3. size' = size + 1 /\ headPos' = BlockSize - 1 /\ tailPos' = tailPos
      BY <2>2, <1>5 DEF PushFrontNewBlock, Grow
    <3>4. size' = Len(chain) * BlockSize + tailPos' - headPos'
      BY <3>1, <3>2, <3>3, DequeAssumption
    <3>5. Len(chain') - 1 = Len(chain)
      BY <1>2, <1>3
    <3> QED BY <3>1, <3>3, <3>4, <3>5, <1>3 DEF SizeIsExact
  <2> QED BY <2>1, <2>2
<1> QED BY <1>7, <1>8, <1>9 DEF IInv
-----------------------------------------------------------------------------
(* A new last block: the blocks in use keep their places *)
LEMMA PushBackNewBlockStep ==
    ASSUME IInv, NEW v \in Value, NEW b \in Unused, PushBackNewBlock(v, b)
    PROVE  IInv'
<1>1. b \in Block /\ b # Nil /\ \A i \in 1..Len(chain) : chain[i] # b
  BY DequeAssumption DEF Unused, IInv, TypeOK
<1>2. /\ chain \in Seq(Block) /\ Len(chain) \in Nat /\ DOMAIN chain = 1..Len(chain)
      /\ chain = <<>> <=> Len(chain) = 0
      /\ \A i \in 1..Len(chain) : chain[i] \in Block
  BY ChainFacts DEF IInv, TypeOK
<1>3. /\ chain' \in Seq(Block) /\ chain' # <<>> /\ Len(chain') = Len(chain) + 1
      /\ chain'[Len(chain) + 1] = b /\ \A i \in 1..Len(chain) : chain'[i] = chain[i]
  BY <1>1, <1>2, AppendFacts DEF PushBackNewBlock
<1>4. DOMAIN chain' = 1..(Len(chain) + 1)
  BY <1>2, <1>3
<1>5. /\ chain = <<>> => headBlk = Nil /\ tailBlk = Nil /\ size = 0
      /\ chain # <<>> => headBlk = chain[1] /\ tailBlk = chain[Len(chain)]
                         /\ headBlk # Nil /\ tailBlk # Nil
  BY InUse, NotInUse
<1>6. Len(chain) \in Nat
  BY <1>2
<1>7. TypeOK'
  <2>1. items' \in [Block -> Items]
    <3>1. 0 \in 0..(BlockSize - 1)
      BY DequeAssumption
    <3>2. items' = [items EXCEPT ![b] = OneItem(0, v)]
      BY DEF PushBackNewBlock
    <3>3. items \in [Block -> Items]
      BY DEF IInv, TypeOK
    <3> QED BY <1>1, <3>1, <3>2, <3>3, SetItem
  <2>2. next' \in [Block -> Block \cup {Nil}] /\ prev' \in [Block -> Block \cup {Nil}]
    BY <1>1 DEF PushBackNewBlock, IInv, TypeOK
  <2>3. /\ headBlk' \in Block \cup {Nil} /\ tailBlk' \in Block \cup {Nil}
    BY <1>1 DEF PushBackNewBlock, IInv, TypeOK
  <2>4. headPos' \in 0..(BlockSize - 1) /\ tailPos' \in 0..BlockSize
    BY DequeAssumption DEF PushBackNewBlock, IInv, TypeOK
  <2>5. size' \in Nat /\ mutationIndex' \in Nat
    BY DEF PushBackNewBlock, Grow, Mutate, IInv, TypeOK
  <2> QED BY <2>1, <2>2, <2>3, <2>4, <2>5, <1>3 DEF TypeOK
<1>8. WellLinked'
  <2>1. headBlk' = chain'[1]
    <3>1. CASE chain = <<>>
      BY <3>1, <1>2, <1>3, <1>5 DEF PushBackNewBlock
    <3>2. CASE chain # <<>>
      BY <3>2, <1>2, <1>3, <1>5 DEF PushBackNewBlock
    <3> QED BY <3>1, <3>2
  <2>2. tailBlk' = chain'[Len(chain')]
    BY <1>3 DEF PushBackNewBlock
  <2>3. ASSUME NEW i \in DOMAIN chain', NEW j \in DOMAIN chain', chain'[i] = chain'[j]
        PROVE  i = j
    <3>1. i = Len(chain) + 1 <=> j = Len(chain) + 1
      BY <2>3, <1>1, <1>3, <1>4, <1>6
    <3>2. ASSUME i # Len(chain) + 1 PROVE i = j
      <4>1. i \in 1..Len(chain) /\ j \in 1..Len(chain)
        BY <3>1, <3>2, <1>4, <1>6
      <4>2. i \in DOMAIN chain /\ j \in DOMAIN chain /\ chain[i] = chain[j]
        BY <4>1, <2>3, <1>2, <1>3
      <4> QED BY <4>2 DEF IInv, WellLinked
    <3> QED BY <3>1, <3>2
  <2>4. ASSUME NEW i \in DOMAIN chain'
        PROVE  /\ next'[chain'[i]] = IF i = Len(chain') THEN Nil ELSE chain'[i + 1]
               /\ prev'[chain'[i]] = IF i = 1 THEN Nil ELSE chain'[i - 1]
    <3>1. CASE i = Len(chain) + 1
      <4>1. chain'[i] = b /\ i = Len(chain')
        BY <3>1, <1>3
      <4>2. next'[b] = Nil /\ prev'[b] = tailBlk
        BY <1>1 DEF PushBackNewBlock, IInv, TypeOK
      <4>3. CASE chain = <<>>
        <5>1. i = 1
          BY <3>1, <4>3, <1>2
        <5> QED BY <4>1, <4>2, <4>3, <5>1, <1>5
      <4>4. CASE chain # <<>>
        <5>1. i # 1 /\ i - 1 = Len(chain) /\ Len(chain) \in 1..Len(chain)
          BY <3>1, <4>4, <1>2
        <5>2. chain'[i - 1] = chain[Len(chain)]
          BY <5>1, <1>3
        <5> QED BY <4>1, <4>2, <4>4, <5>1, <5>2, <1>5
      <4> QED BY <4>3, <4>4
    <3>2. CASE i # Len(chain) + 1
      <4>1. i \in 1..Len(chain) /\ i # Len(chain')
        BY <3>2, <1>3, <1>4, <1>6
      <4>2. chain'[i] = chain[i] /\ chain[i] # b /\ chain[i] \in Block
        BY <4>1, <1>1, <1>2, <1>3
      <4>3. /\ next[chain[i]] = IF i = Len(chain) THEN Nil ELSE chain[i + 1]
            /\ prev[chain[i]] = IF i = 1 THEN Nil ELSE chain[i - 1]
            /\ chain[i] = chain[Len(chain)] => i = Len(chain)
        <5>1. i \in DOMAIN chain /\ Len(chain) \in DOMAIN chain
          BY <4>1, <1>2, <1>6
        <5> QED BY <5>1 DEF IInv, WellLinked
      <4>4. prev'[chain[i]] = prev[chain[i]]
        BY <4>2 DEF PushBackNewBlock, IInv, TypeOK
      <4>5. next'[chain[i]] = IF chain[i] = tailBlk THEN b ELSE next[chain[i]]
        BY <4>2 DEF PushBackNewBlock
      <4>6. ASSUME i # Len(chain) PROVE chain'[i + 1] = chain[i + 1]
        <5>1. i + 1 \in 1..Len(chain)
          BY <4>1, <4>6, <1>6
        <5> QED BY <5>1, <1>3
      <4>7. ASSUME i # 1 PROVE chain'[i - 1] = chain[i - 1]
        <5>1. i - 1 \in 1..Len(chain)
          BY <4>1, <4>7, <1>6
        <5> QED BY <5>1, <1>3
      <4>8. tailBlk = chain[Len(chain)]
        BY <4>1, <1>2, <1>5, <1>6
      <4>9. prev'[chain'[i]] = IF i = 1 THEN Nil ELSE chain'[i - 1]
        BY <4>2, <4>3, <4>4, <4>7
      <4>10. CASE i = Len(chain)
        BY <4>1, <4>2, <4>5, <4>8, <4>9, <4>10, <1>3
      <4>11. CASE i # Len(chain)
        BY <4>1, <4>2, <4>3, <4>5, <4>6, <4>8, <4>9, <4>11
      <4> QED BY <4>10, <4>11
    <3> QED BY <3>1, <3>2
  <2> QED BY <2>1, <2>2, <2>3, <2>4, <1>3 DEF WellLinked, Last
<1>9. SizeIsExact'
  <2>1. CASE chain = <<>>
    BY <2>1, <1>2, <1>3, <1>5, Products, DequeAssumption DEF PushBackNewBlock, Grow, SizeIsExact
  <2>2. CASE chain # <<>>
    <3>1. /\ size = (Len(chain) - 1) * BlockSize + tailPos - headPos
          /\ tailPos = BlockSize /\ headPos \in Nat
      BY <2>2, <1>5 DEF IInv, SizeIsExact, TypeOK, PushBackNewBlock
    <3>2. Len(chain) * BlockSize = (Len(chain) - 1) * BlockSize + BlockSize
          /\ (Len(chain) - 1) * BlockSize \in Nat
      <4>1. PICK n \in Nat : Len(chain) = n + 1
        <5>1. Len(chain) # 0
          BY <2>2, <1>2
        <5> QED BY <5>1, <1>6
      <4>2. Len(chain) - 1 = n
        BY <4>1
      <4> QED BY <4>1, <4>2, Products
    <3>3. size' = size + 1 /\ headPos' = headPos /\ tailPos' = 1
      BY <2>2, <1>5 DEF PushBackNewBlock, Grow
    <3>4. size' = Len(chain) * BlockSize + tailPos' - headPos'
      BY <3>1, <3>2, <3>3, DequeAssumption
    <3>5. Len(chain') - 1 = Len(chain)
      BY <1>2, <1>3
    <3> QED BY <3>3, <3>4, <3>5, <1>3 DEF SizeIsExact
  <2> QED BY <2>1, <2>2
<1> QED BY <1>7, <1>8, <1>9 DEF IInv
-----------------------------------------------------------------------------
(* The first block goes: the counts say that there is one, and that it is   *)
(* the last one only if the deque is empty now                              *)
LEMMA PopFrontBlockStep ==
    ASSUME IInv, PopFrontBlock
    PROVE  IInv'
<1>1. chain # <<>>
  BY NotInUse DEF PopFrontBlock, Shrink
<1>2. /\ chain \in Seq(Block) /\ Len(chain) \in Nat \ {0} /\ DOMAIN chain = 1..Len(chain)
      /\ headBlk = chain[1] /\ tailBlk = chain[Len(chain)]
      /\ \A i \in 1..Len(chain) : chain[i] \in Block /\ chain[i] # Nil
  BY <1>1, InUse DEF IInv, TypeOK
<1>3. /\ chain' \in Seq(Block) /\ Len(chain') = Len(chain) - 1
      /\ \A i \in 1..(Len(chain) - 1) : chain'[i] = chain[i + 1]
  BY <1>1, <1>2, TailFacts DEF PopFrontBlock
<1>4. DOMAIN chain' = 1..(Len(chain) - 1) /\ (chain' = <<>> <=> Len(chain) = 1)
  <2>1. DOMAIN chain' = 1..Len(chain') /\ (chain' = <<>> <=> Len(chain') = 0)
    BY <1>3, ChainFacts
  <2>2. Len(chain) \in Nat /\ Len(chain') = Len(chain) - 1
    BY <1>2, <1>3
  <2> QED BY <2>1, <2>2
<1>5. Len(chain) \in Nat /\ 1 <= Len(chain)
  BY <1>2
<1>6. \A i, j \in 1..Len(chain) : chain[i] = chain[j] => i = j
  BY <1>2 DEF IInv, WellLinked
<1>7. \A i \in 1..Len(chain) :
         /\ next[chain[i]] = IF i = Len(chain) THEN Nil ELSE chain[i + 1]
         /\ prev[chain[i]] = IF i = 1 THEN Nil ELSE chain[i - 1]
  BY <1>2 DEF IInv, WellLinked
<1>8. next[headBlk] = IF Len(chain) = 1 THEN Nil ELSE chain[2]
  <2>1. 1 \in 1..Len(chain)
    BY <1>5
  <2>2. next[chain[1]] = IF 1 = Len(chain) THEN Nil ELSE chain[1 + 1]
    BY <2>1, <1>7
  <2> QED BY <2>2, <1>2
<1>9. Len(chain) # 1 => 2 \in 1..Len(chain)
  BY <1>5, Several
<1>10. Len(chain) # 1 => next[headBlk] = chain[2] /\ chain[2] \in Block /\ chain[2] # Nil
  BY <1>2, <1>8, <1>9
<1>11. /\ Len(chain) = 1 => headBlk' = Nil /\ tailBlk' = Nil
       /\ Len(chain) # 1 => /\ headBlk' = chain[2] /\ tailBlk' = tailBlk
                            /\ prev' = [prev EXCEPT ![chain[2]] = Nil]
  BY <1>8, <1>10 DEF PopFrontBlock
<1>12. size = (Len(chain) - 1) * BlockSize + tailPos - headPos /\ tailPos > 0
  BY <1>1 DEF IInv, SizeIsExact
<1>13. /\ size' = size - 1 /\ headPos + 1 = BlockSize /\ headPos' = 0 /\ tailPos' = tailPos
       /\ headPos \in Nat /\ tailPos \in 0..BlockSize /\ size \in Nat \ {0}
  BY DEF PopFrontBlock, Shrink, IInv, TypeOK
<1>14. TypeOK'
  <2>1. items' \in [Block -> Items] /\ next' \in [Block -> Block \cup {Nil}]
    BY DEF PopFrontBlock, Shrink, IInv, TypeOK
  <2>2. prev' \in [Block -> Block \cup {Nil}]
    BY <1>10, <1>11 DEF PopFrontBlock, IInv, TypeOK
  <2>3. headBlk' \in Block \cup {Nil} /\ tailBlk' \in Block \cup {Nil}
    BY <1>10, <1>11 DEF IInv, TypeOK
  <2>4. headPos' \in 0..(BlockSize - 1) /\ tailPos' \in 0..BlockSize
    BY <1>13, DequeAssumption
  <2>5. size' \in Nat /\ mutationIndex' \in Nat
    BY <1>13 DEF PopFrontBlock, Shrink, Mutate, IInv, TypeOK
  <2> QED BY <2>1, <2>2, <2>3, <2>4, <2>5, <1>3 DEF TypeOK
<1>15. WellLinked'
  <2>1. headBlk' = IF chain' = <<>> THEN Nil ELSE chain'[1]
    <3>1. Len(chain) # 1 => 1 \in 1..(Len(chain) - 1)
      BY <1>5, Several
    <3>2. Len(chain) # 1 => chain'[1] = chain[2]
      BY <3>1, <1>3
    <3> QED BY <3>2, <1>4, <1>11
  <2>2. tailBlk' = IF chain' = <<>> THEN Nil ELSE chain'[Len(chain')]
    <3>1. Len(chain) # 1 => Len(chain) - 1 \in 1..(Len(chain) - 1) /\ (Len(chain) - 1) + 1 = Len(chain)
      BY <1>5, Several
    <3>2. Len(chain) # 1 => chain'[Len(chain) - 1] = chain[Len(chain)]
      BY <3>1, <1>3
    <3> QED BY <3>2, <1>2, <1>3, <1>4, <1>11
  <2>3. ASSUME NEW i \in DOMAIN chain', NEW j \in DOMAIN chain', chain'[i] = chain'[j]
        PROVE  i = j
    <3>1. /\ i + 1 \in 1..Len(chain) /\ j + 1 \in 1..Len(chain)
          /\ i \in Nat /\ j \in Nat
      BY <1>4, <1>5
    <3>2. chain[i + 1] = chain[j + 1]
      BY <2>3, <1>3, <1>4
    <3>3. i + 1 = j + 1
      BY <3>1, <3>2, <1>6
    <3> QED BY <3>1, <3>3
  <2>4. ASSUME NEW i \in DOMAIN chain'
        PROVE  /\ next'[chain'[i]] = IF i = Len(chain') THEN Nil ELSE chain'[i + 1]
               /\ prev'[chain'[i]] = IF i = 1 THEN Nil ELSE chain'[i - 1]
    <3> DEFINE k == i + 1
    <3>1. /\ k \in 1..Len(chain) /\ k # 1 /\ i = k - 1 /\ i \in 1..(Len(chain) - 1)
          /\ Len(chain) # 1 /\ (k = Len(chain) <=> i = Len(chain')) /\ (k = 2 <=> i = 1)
      BY <1>3, <1>4, <1>5
    <3>2. chain'[i] = chain[k] /\ chain[k] \in Block
      BY <3>1, <1>2, <1>3
    <3>3. ASSUME k # Len(chain) PROVE chain'[i + 1] = chain[k + 1]
      <4>1. i + 1 \in 1..(Len(chain) - 1) /\ (i + 1) + 1 = k + 1
        BY <3>1, <3>3, <1>5
      <4> QED BY <4>1, <1>3
    <3>4. ASSUME i # 1 PROVE chain'[i - 1] = chain[k - 1]
      <4>1. i - 1 \in 1..(Len(chain) - 1) /\ (i - 1) + 1 = k - 1
        BY <3>1, <3>4, <1>5
      <4> QED BY <4>1, <1>3
    <3>5. chain[k] = chain[2] <=> k = 2
      BY <3>1, <1>6, <1>9
    <3> HIDE DEF k
    <3>6. next'[chain'[i]] = IF i = Len(chain') THEN Nil ELSE chain'[i + 1]
      BY <3>1, <3>2, <3>3, <1>7 DEF PopFrontBlock
    <3>7. prev'[chain[k]] = IF k = 2 THEN Nil ELSE prev[chain[k]]
      BY <3>1, <3>2, <3>5, <1>10, <1>11 DEF IInv, TypeOK
    <3>8. prev'[chain'[i]] = IF i = 1 THEN Nil ELSE chain'[i - 1]
      BY <3>1, <3>2, <3>4, <3>7, <1>7
    <3> QED BY <3>6, <3>8
  <2> QED BY <2>1, <2>2, <2>3, <2>4 DEF WellLinked, Last
<1>16. SizeIsExact'
  <2>1. CASE Len(chain) = 1
    <3>1. (Len(chain) - 1) * BlockSize = 0
      BY <2>1, DequeAssumption
    <3> QED BY <2>1, <3>1, <1>4, <1>12, <1>13, DequeAssumption DEF SizeIsExact
  <2>2. CASE Len(chain) # 1
    <3> DEFINE n == Len(chain) - 2
    <3>1. n \in Nat /\ Len(chain) - 1 = n + 1 /\ (Len(chain) - 1) - 1 = n
      BY <2>2, <1>5, Several
    <3> HIDE DEF n
    <3>2. (Len(chain) - 1) * BlockSize = n * BlockSize + BlockSize /\ n * BlockSize \in Nat
      BY <3>1, Products
    <3>3. size' = n * BlockSize + tailPos' - headPos'
      BY <3>2, <1>12, <1>13, DequeAssumption
    <3>4. Len(chain') - 1 = n
      BY <3>1, <1>3
    <3> QED BY <2>2, <3>3, <3>4, <1>4, <1>12, <1>13 DEF SizeIsExact
  <2> QED BY <2>1, <2>2
<1> QED BY <1>14, <1>15, <1>16 DEF IInv
-----------------------------------------------------------------------------
(* The last block goes when its first item does *)
LEMMA PopBackBlockStep ==
    ASSUME IInv, PopBackBlock
    PROVE  IInv'
<1>1. chain # <<>>
  BY NotInUse DEF PopBackBlock, Shrink
<1>2. /\ chain \in Seq(Block) /\ Len(chain) \in Nat \ {0} /\ DOMAIN chain = 1..Len(chain)
      /\ headBlk = chain[1] /\ tailBlk = chain[Len(chain)]
      /\ \A i \in 1..Len(chain) : chain[i] \in Block /\ chain[i] # Nil
  BY <1>1, InUse DEF IInv, TypeOK
<1>3. /\ chain' \in Seq(Block) /\ Len(chain') = Len(chain) - 1
      /\ \A i \in 1..(Len(chain) - 1) : chain'[i] = chain[i]
  BY <1>1, <1>2, FrontFacts DEF PopBackBlock
<1>4. DOMAIN chain' = 1..(Len(chain) - 1) /\ (chain' = <<>> <=> Len(chain) = 1)
  <2>1. DOMAIN chain' = 1..Len(chain') /\ (chain' = <<>> <=> Len(chain') = 0)
    BY <1>3, ChainFacts
  <2>2. Len(chain) \in Nat /\ Len(chain') = Len(chain) - 1
    BY <1>2, <1>3
  <2> QED BY <2>1, <2>2
<1>5. Len(chain) \in Nat /\ 1 <= Len(chain)
  BY <1>2
<1>6. \A i, j \in 1..Len(chain) : chain[i] = chain[j] => i = j
  BY <1>2 DEF IInv, WellLinked
<1>7. \A i \in 1..Len(chain) :
         /\ next[chain[i]] = IF i = Len(chain) THEN Nil ELSE chain[i + 1]
         /\ prev[chain[i]] = IF i = 1 THEN Nil ELSE chain[i - 1]
  BY <1>2 DEF IInv, WellLinked
<1>8. prev[tailBlk] = IF Len(chain) = 1 THEN Nil ELSE chain[Len(chain) - 1]
  <2>1. Len(chain) \in 1..Len(chain)
    BY <1>5
  <2> QED BY <2>1, <1>2, <1>7
<1>9. Len(chain) # 1 => /\ Len(chain) - 1 \in 1..(Len(chain) - 1) /\ 1 \in 1..(Len(chain) - 1)
                        /\ Len(chain) - 1 \in 1..Len(chain)
  <2>1. 1..(Len(chain) - 1) \subseteq 1..Len(chain)
    BY <1>5
  <2> QED BY <2>1, <1>5, Several
<1>10. Len(chain) # 1 => /\ chain[Len(chain) - 1] \in Block /\ chain[Len(chain) - 1] # Nil
  BY <1>2, <1>9
<1>11. /\ Len(chain) = 1 => headBlk' = Nil /\ tailBlk' = Nil
       /\ Len(chain) # 1 => /\ tailBlk' = chain[Len(chain) - 1] /\ headBlk' = headBlk
                            /\ next' = [next EXCEPT ![chain[Len(chain) - 1]] = Nil]
  BY <1>8, <1>10 DEF PopBackBlock
<1>12. size = (Len(chain) - 1) * BlockSize + tailPos - headPos
  BY <1>1 DEF IInv, SizeIsExact
<1>13. /\ size' = size - 1 /\ tailPos = 1 /\ tailPos' = BlockSize /\ headPos' = headPos
       /\ headPos \in 0..(BlockSize - 1) /\ size \in Nat \ {0}
  BY DEF PopBackBlock, Shrink, IInv, TypeOK
<1>14. TypeOK'
  <2>1. items' \in [Block -> Items] /\ prev' \in [Block -> Block \cup {Nil}]
    BY DEF PopBackBlock, Shrink, IInv, TypeOK
  <2>2. next' \in [Block -> Block \cup {Nil}]
    BY <1>10, <1>11 DEF PopBackBlock, IInv, TypeOK
  <2>3. headBlk' \in Block \cup {Nil} /\ tailBlk' \in Block \cup {Nil}
    BY <1>10, <1>11 DEF IInv, TypeOK
  <2>4. headPos' \in 0..(BlockSize - 1) /\ tailPos' \in 0..BlockSize
    BY <1>13, DequeAssumption
  <2>5. size' \in Nat /\ mutationIndex' \in Nat
    BY <1>13 DEF PopBackBlock, Shrink, Mutate, IInv, TypeOK
  <2> QED BY <2>1, <2>2, <2>3, <2>4, <2>5, <1>3 DEF TypeOK
<1>15. WellLinked'
  <2>1. headBlk' = IF chain' = <<>> THEN Nil ELSE chain'[1]
    <3>1. Len(chain) # 1 => chain'[1] = chain[1]
      BY <1>3, <1>9
    <3> QED BY <3>1, <1>2, <1>4, <1>11
  <2>2. tailBlk' = IF chain' = <<>> THEN Nil ELSE chain'[Len(chain')]
    <3>1. Len(chain) # 1 => chain'[Len(chain) - 1] = chain[Len(chain) - 1]
      BY <1>3, <1>9
    <3> QED BY <3>1, <1>3, <1>4, <1>11
  <2>3. ASSUME NEW i \in DOMAIN chain', NEW j \in DOMAIN chain', chain'[i] = chain'[j]
        PROVE  i = j
    <3>1. i \in 1..Len(chain) /\ j \in 1..Len(chain)
      BY <1>4, <1>5
    <3>2. chain[i] = chain[j]
      BY <2>3, <1>3, <1>4
    <3> QED BY <3>1, <3>2, <1>6
  <2>4. ASSUME NEW i \in DOMAIN chain'
        PROVE  /\ next'[chain'[i]] = IF i = Len(chain') THEN Nil ELSE chain'[i + 1]
               /\ prev'[chain'[i]] = IF i = 1 THEN Nil ELSE chain'[i - 1]
    <3>1. /\ i \in 1..Len(chain) /\ i \in 1..(Len(chain) - 1) /\ i # Len(chain)
          /\ Len(chain) # 1 /\ (i = Len(chain) - 1 <=> i = Len(chain'))
      BY <1>3, <1>4, <1>5
    <3>2. chain'[i] = chain[i] /\ chain[i] \in Block
      BY <3>1, <1>2, <1>3
    <3>3. ASSUME i # Len(chain) - 1 PROVE chain'[i + 1] = chain[i + 1]
      <4>1. i + 1 \in 1..(Len(chain) - 1)
        BY <3>1, <3>3, <1>5
      <4> QED BY <4>1, <1>3
    <3>4. ASSUME i # 1 PROVE chain'[i - 1] = chain[i - 1]
      <4>1. i - 1 \in 1..(Len(chain) - 1)
        BY <3>1, <3>4, <1>5
      <4> QED BY <4>1, <1>3
    <3>5. chain[i] = chain[Len(chain) - 1] <=> i = Len(chain) - 1
      BY <3>1, <1>6, <1>9
    <3>6. prev'[chain'[i]] = IF i = 1 THEN Nil ELSE chain'[i - 1]
      BY <3>1, <3>2, <3>4, <1>7 DEF PopBackBlock
    <3>7. next'[chain[i]] = IF i = Len(chain) - 1 THEN Nil ELSE next[chain[i]]
      BY <3>1, <3>2, <3>5, <1>10, <1>11 DEF IInv, TypeOK
    <3>8. next[chain[i]] = chain[i + 1]
      BY <3>1, <1>7
    <3>9. next'[chain'[i]] = IF i = Len(chain') THEN Nil ELSE chain'[i + 1]
      BY <3>1, <3>2, <3>3, <3>7, <3>8
    <3> QED BY <3>6, <3>9
  <2> QED BY <2>1, <2>2, <2>3, <2>4 DEF WellLinked, Last
<1>16. SizeIsExact'
  <2>1. CASE Len(chain) = 1
    <3>1. (Len(chain) - 1) * BlockSize = 0
      BY <2>1, DequeAssumption
    <3> QED BY <2>1, <3>1, <1>4, <1>12, <1>13, DequeAssumption DEF SizeIsExact
  <2>2. CASE Len(chain) # 1
    <3> DEFINE n == Len(chain) - 2
    <3>1. n \in Nat /\ Len(chain) - 1 = n + 1 /\ (Len(chain) - 1) - 1 = n
      BY <2>2, <1>5, Several
    <3> HIDE DEF n
    <3>2. (Len(chain) - 1) * BlockSize = n * BlockSize + BlockSize /\ n * BlockSize \in Nat
      BY <3>1, Products
    <3>3. size' = n * BlockSize + tailPos' - headPos' /\ tailPos' > 0
      BY <3>2, <1>12, <1>13, DequeAssumption
    <3>4. Len(chain') - 1 = n
      BY <3>1, <1>3
    <3> QED BY <2>2, <3>3, <3>4, <1>4 DEF SizeIsExact
  <2> QED BY <2>1, <2>2
<1> QED BY <1>14, <1>15, <1>16 DEF IInv

-----------------------------------------------------------------------------
(* An operation within a block leaves the links as they are *)
LEMMA LinksUnchanged ==
    ASSUME WellLinked, UNCHANGED <<next, prev, headBlk, tailBlk, chain>>
    PROVE  WellLinked'
  BY DEF WellLinked, Last

(* pushFront() and pushBack() when the block has room *)
LEMMA PushInBlockStep ==
    ASSUME IInv, NEW v \in Value, PushFrontInBlock(v) \/ PushBackInBlock(v)
    PROVE  IInv'
<1>1. chain # <<>>
  BY NotInUse DEF PushFrontInBlock, PushBackInBlock
<1>2. /\ size \in Nat /\ size' = size + 1 /\ mutationIndex \in Nat /\ mutationIndex' \in Nat
      /\ headPos \in 0..(BlockSize - 1) /\ tailPos \in 0..BlockSize
      /\ size = (Len(chain) - 1) * BlockSize + tailPos - headPos /\ tailPos > 0
  BY <1>1 DEF IInv, TypeOK, SizeIsExact, PushFrontInBlock, PushBackInBlock, Grow, Mutate
<1>3. headBlk \in Block /\ tailBlk \in Block /\ items \in [Block -> Items]
  BY <1>1, InUse DEF IInv, TypeOK
<1>4. (Len(chain) - 1) * BlockSize \in Nat
  <2>1. Len(chain) - 1 \in Nat
    BY <1>1, InUse
  <2> QED BY <2>1, Products
<1>5. CASE PushFrontInBlock(v)
  <2>1. headPos - 1 \in 0..(BlockSize - 1)
    BY <1>2, <1>5, DequeAssumption DEF PushFrontInBlock
  <2>2. items' \in [Block -> Items]
    BY <1>3, <1>5, <2>1, SetItem DEF PushFrontInBlock
  <2>3. headPos' \in 0..(BlockSize - 1)
    BY <1>5, <2>1 DEF PushFrontInBlock
  <2>4. TypeOK'
    BY <1>2, <1>5, <2>2, <2>3 DEF IInv, TypeOK, PushFrontInBlock
  <2>5. WellLinked'
    BY <1>5, LinksUnchanged DEF IInv, PushFrontInBlock
  <2>6. SizeIsExact'
    <3>1. size' = (Len(chain) - 1) * BlockSize + tailPos - (headPos - 1)
      BY <1>2, <1>4
    <3> QED BY <1>1, <1>2, <1>5, <3>1 DEF SizeIsExact, PushFrontInBlock
  <2> QED BY <2>4, <2>5, <2>6 DEF IInv
<1>6. CASE PushBackInBlock(v)
  <2>1. tailPos \in 0..(BlockSize - 1) /\ tailPos + 1 \in 0..BlockSize /\ tailPos + 1 > 0
    <3>1. tailPos \in 0..BlockSize /\ tailPos # BlockSize
      BY <1>2, <1>6 DEF PushBackInBlock
    <3> QED BY <3>1, DequeAssumption
  <2>2. items' \in [Block -> Items]
    BY <1>3, <1>6, <2>1, SetItem DEF PushBackInBlock
  <2>3. TypeOK'
    BY <1>2, <1>6, <2>1, <2>2 DEF IInv, TypeOK, PushBackInBlock
  <2>4. WellLinked'
    BY <1>6, LinksUnchanged DEF IInv, PushBackInBlock
  <2>5. SizeIsExact'
    <3>1. size' = (Len(chain) - 1) * BlockSize + (tailPos + 1) - headPos
      BY <1>2, <1>4
    <3> QED BY <1>1, <1>6, <2>1, <3>1 DEF SizeIsExact, PushBackInBlock
  <2> QED BY <2>3, <2>4, <2>5 DEF IInv
<1> QED BY <1>5, <1>6

(* popFront() and popBack() when the block keeps an item *)
LEMMA PopInBlockStep ==
    ASSUME IInv, PopFrontInBlock \/ PopBackInBlock
    PROVE  IInv'
<1>1. chain # <<>>
  BY NotInUse DEF PopFrontInBlock, PopBackInBlock, Shrink
<1>2. /\ size \in Nat /\ size > 0 /\ size' = size - 1 /\ mutationIndex' \in Nat
      /\ headPos \in 0..(BlockSize - 1) /\ tailPos \in 0..BlockSize
      /\ size = (Len(chain) - 1) * BlockSize + tailPos - headPos /\ tailPos > 0
  BY <1>1 DEF IInv, TypeOK, SizeIsExact, PopFrontInBlock, PopBackInBlock, Shrink, Mutate
<1>3. size' \in Nat
  BY <1>2
<1>4. (Len(chain) - 1) * BlockSize \in Nat
  <2>1. Len(chain) - 1 \in Nat
    BY <1>1, InUse
  <2> QED BY <2>1, Products
<1>5. UNCHANGED <<next, prev, items, headBlk, tailBlk, chain>>
  BY DEF PopFrontInBlock, PopBackInBlock, Shrink
<1>6. WellLinked'
  BY <1>5, LinksUnchanged DEF IInv
<1>7. CASE PopFrontInBlock
  <2>1. headPos' = headPos + 1 /\ headPos' \in 0..(BlockSize - 1) /\ tailPos' = tailPos
    <3>1. /\ headPos' = headPos + 1 /\ tailPos' = tailPos
          /\ headPos \in 0..(BlockSize - 1) /\ headPos + 1 # BlockSize
      BY <1>2, <1>7 DEF PopFrontInBlock
    <3> QED BY <3>1, DequeAssumption
  <2>2. TypeOK'
    BY <1>2, <1>3, <1>5, <2>1 DEF IInv, TypeOK
  <2>3. size' = (Len(chain) - 1) * BlockSize + tailPos - (headPos + 1)
    BY <1>2, <1>4
  <2> QED BY <1>1, <1>2, <1>5, <1>6, <2>1, <2>2, <2>3 DEF IInv, SizeIsExact
<1>8. CASE PopBackInBlock
  <2>1. tailPos' = tailPos - 1 /\ tailPos' \in 0..BlockSize /\ tailPos' > 0 /\ headPos' = headPos
    BY <1>2, <1>8, DequeAssumption DEF PopBackInBlock
  <2>2. TypeOK'
    BY <1>2, <1>3, <1>5, <2>1 DEF IInv, TypeOK
  <2>3. size' = (Len(chain) - 1) * BlockSize + (tailPos - 1) - headPos
    BY <1>2, <1>4
  <2> QED BY <1>1, <1>5, <1>6, <2>1, <2>2, <2>3 DEF IInv, SizeIsExact
<1> QED BY <1>7, <1>8

-----------------------------------------------------------------------------
(* The operations that leave the blocks alone, or drop all of them *)
LEMMA ClearStep ==
    ASSUME IInv, Clear
    PROVE  IInv'
<1>1. chain' = <<>> /\ DOMAIN chain' = {}
  BY DEF Clear
<1>2. TypeOK'
  BY <1>1, DequeAssumption DEF IInv, TypeOK, Clear, Mutate
<1>3. WellLinked' /\ SizeIsExact'
  BY <1>1 DEF WellLinked, SizeIsExact, Clear
<1> QED BY <1>2, <1>3 DEF IInv

(* A failed pop, the iterator and the tracing read only *)
LEMMA OtherSteps ==
    ASSUME IInv,
           PopEmpty \/ Iterate \/ NextStops \/ NextItem \/ BeginTrace \/ TraceStep
             \/ UNCHANGED vars
    PROVE  IInv'
<1>1. UNCHANGED <<next, prev, items, headBlk, headPos, tailBlk, tailPos, size, chain>>
  BY DEF PopEmpty, Iterate, NextStops, NextItem, BeginTrace, TraceStep, TraceItem, TraceAgain,
         vars, dequeVars
<1>2. mutationIndex' \in Nat
  BY DEF IInv, TypeOK, PopEmpty, Mutate, Iterate, NextStops, NextItem, BeginTrace, TraceStep,
         TraceItem, TraceAgain, vars, dequeVars
<1>3. TypeOK'
  BY <1>1, <1>2 DEF IInv, TypeOK
<1>4. WellLinked' /\ SizeIsExact'
  BY <1>1, LinksUnchanged DEF IInv, SizeIsExact
<1> QED BY <1>3, <1>4 DEF IInv

(* construct() *)
LEMMA InitStep ==
    ASSUME Init
    PROVE  IInv
<1>1. chain = <<>> /\ DOMAIN chain = {}
  BY DEF Init
<1>2. TypeOK
  BY <1>1, DequeAssumption DEF Init, TypeOK, Items
<1> QED BY <1>1, <1>2 DEF IInv, WellLinked, SizeIsExact, Init

(* The types, links and counts hold in every state the deque can reach     *)
LEMMA Inductive == Spec => []IInv
<1>1. Init => IInv
  BY InitStep
<1>2. IInv /\ [Next]_vars => IInv'
  <2> SUFFICES ASSUME IInv, [Next]_vars PROVE IInv'
    OBVIOUS
  <2>1. ASSUME NEW v \in Value, PushFrontInBlock(v) \/ PushBackInBlock(v) PROVE IInv'
    BY <2>1, PushInBlockStep
  <2>2. ASSUME NEW v \in Value, NEW b \in Unused, PushFrontNewBlock(v, b) PROVE IInv'
    BY <2>2, PushFrontNewBlockStep
  <2>3. ASSUME NEW v \in Value, NEW b \in Unused, PushBackNewBlock(v, b) PROVE IInv'
    BY <2>3, PushBackNewBlockStep
  <2>4. CASE PopFrontInBlock \/ PopBackInBlock
    BY <2>4, PopInBlockStep
  <2>5. CASE PopFrontBlock
    BY <2>5, PopFrontBlockStep
  <2>6. CASE PopBackBlock
    BY <2>6, PopBackBlockStep
  <2>7. CASE Clear
    BY <2>7, ClearStep
  <2>8. CASE PopEmpty \/ Iterate \/ NextStops \/ NextItem \/ BeginTrace \/ TraceStep
               \/ UNCHANGED vars
    BY <2>8, OtherSteps
  <2> QED BY <2>1, <2>2, <2>3, <2>4, <2>5, <2>6, <2>7, <2>8 DEF Next
<1> QED BY <1>1, <1>2, PTL DEF Spec

(* What refers to blocks and counts items stays in its type: no position is *)
(* ever outside a block, for any block size.                                *)
THEOREM TypesAreCorrect == Spec => []TypeOK
<1>1. IInv => TypeOK
  BY DEF IInv
<1> QED BY <1>1, Inductive, PTL

(* pushFront(), pushBack(), popFront(), popBack() and clear() keep one      *)
(* doubly linked list from _headBlk to _tailBlk, for any number of blocks.  *)
THEOREM BlocksStayLinked == Spec => []WellLinked
<1>1. IInv => WellLinked
  BY DEF IInv
<1> QED BY <1>1, Inductive, PTL

(* _size is what the positions and the number of blocks say, so an operation *)
(* that finds _size above 0 finds an item.                                   *)
THEOREM SizeMatchesPositions == Spec => []SizeIsExact
<1>1. IInv => SizeIsExact
  BY DEF IInv
<1> QED BY <1>1, Inductive, PTL

-----------------------------------------------------------------------------
(* The sequences an operation at an end makes, element by element.         *)

(* A sequence with an element more at the start                             *)
LEMMA ConsIs ==
    ASSUME NEW V, NEW n \in Nat, NEW s, s \in [1..n -> V], NEW v \in V,
           NEW s2, s2 \in [1..(n + 1) -> V], s2[1] = v, \A i \in 1..n : s2[i + 1] = s[i]
    PROVE  s2 = <<v>> \o s
<1>1. s \in Seq(V) /\ Len(s) = n
  OBVIOUS
<1>2. s2 \in Seq(V) /\ Len(s2) = n + 1
  OBVIOUS
<1>3. <<v>> \o s \in Seq(V) /\ Len(<<v>> \o s) = n + 1
  BY <1>1
<1>4. ASSUME NEW i \in 1..(n + 1) PROVE s2[i] = (<<v>> \o s)[i]
  <2>1. CASE i = 1
    BY <2>1, <1>1
  <2>2. CASE i # 1
    <3>1. i - 1 \in 1..n /\ (i - 1) + 1 = i
      BY <2>2
    <3>2. s2[i] = s[i - 1]
      BY <3>1
    <3>3. (<<v>> \o s)[i] = s[i - 1]
      BY <1>1, <2>2
    <3> QED BY <3>2, <3>3
  <2> QED BY <2>1, <2>2
<1> QED BY <1>2, <1>3, <1>4, SeqEqual

(* ... at the end                                                           *)
LEMMA AppendIs ==
    ASSUME NEW V, NEW n \in Nat, NEW s, s \in [1..n -> V], NEW v \in V,
           NEW s2, s2 \in [1..(n + 1) -> V], s2[n + 1] = v, \A i \in 1..n : s2[i] = s[i]
    PROVE  s2 = Append(s, v)
<1>1. s \in Seq(V) /\ Len(s) = n
  OBVIOUS
<1>2. s2 \in Seq(V) /\ Len(s2) = n + 1
  OBVIOUS
<1>3. Append(s, v) \in Seq(V) /\ Len(Append(s, v)) = n + 1
  BY <1>1
<1>4. ASSUME NEW i \in 1..(n + 1) PROVE s2[i] = Append(s, v)[i]
  BY <1>1
<1> QED BY <1>2, <1>3, <1>4, SeqEqual

(* ... and without the first                                                *)
LEMMA TailIs ==
    ASSUME NEW V, NEW n \in Nat \ {0}, NEW s, s \in [1..n -> V],
           NEW s2, s2 \in [1..(n - 1) -> V], \A i \in 1..(n - 1) : s2[i] = s[i + 1]
    PROVE  s2 = Tail(s) /\ s # <<>>
<1>1. s \in Seq(V) /\ Len(s) = n /\ n \in Nat /\ n # 0 /\ n - 1 \in Nat
  OBVIOUS
<1>2. s2 \in Seq(V) /\ Len(s2) = n - 1
  BY <1>1
<1>0. s # <<>>
  BY <1>1
<1>3. Tail(s) \in Seq(V) /\ Len(Tail(s)) = n - 1 /\ \A i \in 1..(n - 1) : Tail(s)[i] = s[i + 1]
  BY <1>0, <1>1, HeadTailProperties
<1> QED BY <1>0, <1>2, <1>3, SeqEqual

(* A sequence that another one starts with                                  *)
LEMMA PrefixIs ==
    ASSUME NEW V, NEW n \in Nat, NEW s, s \in [1..n -> V],
           NEW m \in 0..n, NEW s2, s2 \in [1..m -> V], \A i \in 1..m : s2[i] = s[i]
    PROVE  s2 = SubSeq(s, 1, m) /\ Len(s) = n
<1>1. s \in Seq(V) /\ Len(s) = n
  OBVIOUS
<1>2. s2 = [i \in 1..m |-> s2[i]]
  OBVIOUS
<1>3. SubSeq(s, 1, m) = [i \in 1..m |-> s[i]]
  BY <1>1
<1> QED BY <1>1, <1>2, <1>3

-----------------------------------------------------------------------------
(* Positions.                                                              *)

(* A block more is further on.                                             *)
LEMMA Above ==
    ASSUME NEW B \in Nat \ {0}, NEW q \in Nat, NEW k \in Nat, q < k
    PROVE  q * B + B <= k * B /\ q * B \in Nat /\ k * B \in Nat
  OBVIOUS

(* Every position is in a block and at a place in it,                      *)
LEMMA Division ==
    ASSUME NEW B \in Nat \ {0}, NEW x \in Nat
    PROVE  \E q \in Nat, r \in 0..(B - 1) : x \div B = q /\ x % B = r /\ x = q * B + r
<1> DEFINE k == x \div B
           m == x % B
<1>1. k \in Nat /\ m \in 0..(B - 1)
  OBVIOUS
<1>2. x = k * B + m
  OBVIOUS
<1> QED BY <1>1, <1>2

(* and only in that one.                                                   *)
LEMMA Divided ==
    ASSUME NEW B \in Nat \ {0}, NEW q \in Nat, NEW r \in 0..(B - 1)
    PROVE  (q * B + r) \div B = q /\ (q * B + r) % B = r /\ q * B + r \in Nat
<1> DEFINE x == q * B + r
           k == x \div B
           m == x % B
<1>1. x \in Nat
  <2>1. q * B \in Nat
    OBVIOUS
  <2> QED BY <2>1
<1> HIDE DEF x
<1>2. k \in Nat /\ m \in 0..(B - 1) /\ x = k * B + m
  BY <1>1, Division
<1>0. x = q * B + r
  BY DEF x
<1> HIDE DEF k, m
<1>3. ~(q < k)
  <2> SUFFICES ASSUME q < k PROVE FALSE
    OBVIOUS
  <2>1. q * B + B <= k * B /\ q * B \in Nat /\ k * B \in Nat
    BY <1>2, Above
  <2> QED BY <1>0, <1>2, <2>1
<1>4. ~(k < q)
  <2> SUFFICES ASSUME k < q PROVE FALSE
    OBVIOUS
  <2>1. k * B + B <= q * B /\ q * B \in Nat /\ k * B \in Nat
    BY <1>2, Above
  <2> QED BY <1>0, <1>2, <2>1
<1>5. k = q
  BY <1>2, <1>3, <1>4
<1>6. m = r
  <2>1. q * B \in Nat
    OBVIOUS
  <2> QED BY <1>0, <1>2, <1>5, <2>1
<1> QED BY <1>0, <1>1, <1>5, <1>6 DEF k, m

(* The item at a position of any blocks, and n of them from h on *)
ItemAt(c, t, p) == t[c[p \div BlockSize + 1]][p % BlockSize]
ElementsOf(c, t, h, n) == [i \in 1..n |-> ItemAt(c, t, h + i - 1)]

(* The elements of the deque, before and after a step                       *)
LEMMA ElementsAre ==
    /\ Elements = ElementsOf(chain, items, headPos, size)
    /\ Elements' = ElementsOf(chain', items', headPos', size')
  BY DEF Elements, ElementsOf, At, ItemAt

(* p is place r of the block q after the first *)
Place(p, q, r) == q \in Nat /\ r \in 0..(BlockSize - 1) /\ p = q * BlockSize + r

(* The item at that place of that block *)
Cell(c, t, q, r) == t[c[q + 1]][r]

(* What is at a position is in the block and at the place it stands for     *)
LEMMA ItemIs ==
    ASSUME NEW c, NEW t, NEW p, NEW q, NEW r, Place(p, q, r)
    PROVE  ItemAt(c, t, p) = Cell(c, t, q, r)
<1>1. /\ q \in Nat /\ r \in 0..(BlockSize - 1) /\ p = q * BlockSize + r
      /\ BlockSize \in Nat \ {0}
  BY DequeAssumption DEF Place
<1>2. p \div BlockSize = q /\ p % BlockSize = r
  BY <1>1, Divided
<1> QED BY <1>2 DEF ItemAt, Cell

(* Where the elements are *)
LEMMA Position ==
    ASSUME IInv, NEW p \in Nat, headPos <= p, p < headPos + size
    PROVE  /\ chain # <<>>
           /\ \E q \in 0..(Len(chain) - 1), r \in 0..(BlockSize - 1) :
                /\ Place(p, q, r)
                /\ q = 0 => headPos <= r
                /\ q = Len(chain) - 1 => r < tailPos
                /\ q + 1 \in 1..Len(chain)
<1>1. /\ size \in Nat /\ headPos \in 0..(BlockSize - 1) /\ tailPos \in 0..BlockSize
      /\ BlockSize \in Nat \ {0}
  BY DequeAssumption DEF IInv, TypeOK
<1>2. chain # <<>>
  BY <1>1, NotInUse
<1>3. Len(chain) \in Nat \ {0} /\ size = (Len(chain) - 1) * BlockSize + tailPos - headPos
  BY <1>2, InUse DEF IInv, SizeIsExact
<1>4. PICK q \in Nat, r \in 0..(BlockSize - 1) : p = q * BlockSize + r
  BY <1>1, Division
<1> DEFINE n == Len(chain) - 1
<1>5. n \in Nat /\ Len(chain) = n + 1
  BY <1>3
<1> HIDE DEF n
<1>6. n * BlockSize \in Nat /\ q * BlockSize \in Nat /\ p < n * BlockSize + tailPos
  <2>1. n * BlockSize \in Nat /\ q * BlockSize \in Nat
    BY <1>1, <1>4, <1>5
  <2>2. size = n * BlockSize + tailPos - headPos
    BY <1>3 DEF n
  <2> QED BY <1>1, <2>1, <2>2
<1>7. ~(n < q)
  <2> SUFFICES ASSUME n < q PROVE FALSE
    OBVIOUS
  <2>1. n * BlockSize + BlockSize <= q * BlockSize
    BY <1>1, <1>4, <1>5, Above
  <2> QED BY <1>1, <1>4, <1>6, <2>1
<1>8. q \in 0..n /\ q + 1 \in 1..Len(chain)
  BY <1>4, <1>5, <1>7
<1>9. q = 0 => headPos <= r
  <2>1. q = 0 => q * BlockSize = 0
    BY <1>1
  <2> QED BY <1>4, <2>1
<1>10. q = n => r < tailPos
  BY <1>1, <1>4, <1>6
<1> QED BY <1>2, <1>4, <1>8, <1>9, <1>10 DEF n, Place

(* The position after the last element *)
LEMMA EndPosition ==
    ASSUME IInv, chain # <<>>
    PROVE  /\ headPos + size = (Len(chain) - 1) * BlockSize + tailPos
           /\ Len(chain) - 1 \in Nat /\ (Len(chain) - 1) * BlockSize \in Nat
           /\ Len(chain) * BlockSize = (Len(chain) - 1) * BlockSize + BlockSize
           /\ tailPos > 0 /\ tailPos \in 0..BlockSize /\ size \in Nat
           /\ headPos \in 0..(BlockSize - 1) /\ BlockSize \in Nat \ {0}
<1>1. /\ size \in Nat /\ headPos \in 0..(BlockSize - 1) /\ tailPos \in 0..BlockSize
      /\ BlockSize \in Nat \ {0}
  BY DequeAssumption DEF IInv, TypeOK
<1>2. /\ Len(chain) \in Nat \ {0} /\ size = (Len(chain) - 1) * BlockSize + tailPos - headPos
      /\ tailPos > 0
  BY InUse DEF IInv, SizeIsExact
<1> DEFINE n == Len(chain) - 1
<1>3. n \in Nat /\ Len(chain) = n + 1
  BY <1>2
<1>4. n * BlockSize \in Nat /\ (n + 1) * BlockSize = n * BlockSize + BlockSize
  <2> HIDE DEF n
  <2> QED BY <1>3, Products
<1>5. size = n * BlockSize + tailPos - headPos
  BY <1>2
<1> HIDE DEF n
<1>6. headPos + size = n * BlockSize + tailPos
  BY <1>1, <1>4, <1>5
<1> QED BY <1>1, <1>2, <1>3, <1>4, <1>6 DEF n

(* After an operation n2 items from h2 on: v, and the n items from h on     *)
FrontAdded(c, t, h, n, c2, t2, h2, n2, v) ==
    /\ h \in Int /\ n \in Nat /\ h2 \in Int /\ n2 = n + 1
    /\ ItemAt(c2, t2, h2) = v
    /\ \A i \in 1..n : ItemAt(c2, t2, h2 + i) = ItemAt(c, t, h + i - 1)

(* The elements after one was added in front                                *)
LEMMA FrontGrows ==
    ASSUME NEW c, NEW t, NEW h, NEW n, NEW c2, NEW t2, NEW h2, NEW n2, NEW v,
           FrontAdded(c, t, h, n, c2, t2, h2, n2, v)
    PROVE  ElementsOf(c2, t2, h2, n2) = <<v>> \o ElementsOf(c, t, h, n)
<1> DEFINE s == ElementsOf(c, t, h, n)
           s2 == ElementsOf(c2, t2, h2, n + 1)
           W == {ItemAt(c, t, h + i - 1) : i \in 1..n} \cup {v}
<1>9. /\ h \in Int /\ n \in Nat /\ h2 \in Int /\ n2 = n + 1
      /\ ItemAt(c2, t2, h2) = v
      /\ \A i \in 1..n : ItemAt(c2, t2, h2 + i) = ItemAt(c, t, h + i - 1)
  BY DEF FrontAdded
<1> USE <1>9
<1>1. v \in W /\ \A i \in 1..n : ItemAt(c, t, h + i - 1) \in W
  OBVIOUS
<1> HIDE DEF W
<1>2. \A i \in 1..(n + 1) : /\ ItemAt(c2, t2, h2 + i - 1) \in W
                            /\ i = 1 => ItemAt(c2, t2, h2 + i - 1) = v
  <2> SUFFICES ASSUME NEW i \in 1..(n + 1)
               PROVE  /\ ItemAt(c2, t2, h2 + i - 1) \in W
                      /\ i = 1 => ItemAt(c2, t2, h2 + i - 1) = v
    OBVIOUS
  <2>1. CASE i = 1
    <3>1. h2 + i - 1 = h2
      BY <2>1
    <3> QED BY <1>1, <3>1
  <2>2. CASE i # 1
    <3>1. i - 1 \in 1..n /\ h2 + i - 1 = h2 + (i - 1)
      BY <2>2
    <3>2. ItemAt(c2, t2, h2 + (i - 1)) = ItemAt(c, t, h + (i - 1) - 1)
      BY <3>1
    <3> QED BY <1>1, <2>2, <3>1, <3>2
  <2> QED BY <2>1, <2>2
<1>3. s \in [1..n -> W] /\ \A i \in 1..n : s[i] = ItemAt(c, t, h + i - 1)
  BY <1>1 DEF ElementsOf
<1>4. s2 \in [1..(n + 1) -> W] /\ \A i \in 1..(n + 1) : s2[i] = ItemAt(c2, t2, h2 + i - 1)
  BY <1>2 DEF ElementsOf
<1> HIDE DEF s, s2
<1>5. s2[1] = v
  BY <1>2, <1>4
<1>6. ASSUME NEW i \in 1..n PROVE s2[i + 1] = s[i]
  <2>1. i + 1 \in 1..(n + 1) /\ h2 + (i + 1) - 1 = h2 + i
    OBVIOUS
  <2>2. s2[i + 1] = ItemAt(c2, t2, h2 + (i + 1) - 1)
    BY <1>4, <2>1
  <2> QED BY <1>3, <2>1, <2>2
<1>7. s2 = <<v>> \o s
  BY <1>1, <1>3, <1>4, <1>5, <1>6, ConsIs
<1> QED BY <1>7 DEF s, s2

(* ... the n items from h on, and v                                         *)
BackAdded(c, t, h, n, c2, t2, h2, n2, v) ==
    /\ h \in Int /\ n \in Nat /\ h2 \in Int /\ n2 = n + 1
    /\ ItemAt(c2, t2, h2 + n) = v
    /\ \A i \in 1..n : ItemAt(c2, t2, h2 + i - 1) = ItemAt(c, t, h + i - 1)

(* ... behind                                                               *)
LEMMA BackGrows ==
    ASSUME NEW c, NEW t, NEW h, NEW n, NEW c2, NEW t2, NEW h2, NEW n2, NEW v,
           BackAdded(c, t, h, n, c2, t2, h2, n2, v)
    PROVE  ElementsOf(c2, t2, h2, n2) = Append(ElementsOf(c, t, h, n), v)
<1> DEFINE s == ElementsOf(c, t, h, n)
           s2 == ElementsOf(c2, t2, h2, n + 1)
           W == {ItemAt(c, t, h + i - 1) : i \in 1..n} \cup {v}
<1>9. /\ h \in Int /\ n \in Nat /\ h2 \in Int /\ n2 = n + 1
      /\ ItemAt(c2, t2, h2 + n) = v
      /\ \A i \in 1..n : ItemAt(c2, t2, h2 + i - 1) = ItemAt(c, t, h + i - 1)
  BY DEF BackAdded
<1> USE <1>9
<1>1. v \in W /\ \A i \in 1..n : ItemAt(c, t, h + i - 1) \in W
  OBVIOUS
<1> HIDE DEF W
<1>2. \A i \in 1..(n + 1) : /\ ItemAt(c2, t2, h2 + i - 1) \in W
                            /\ i = n + 1 => ItemAt(c2, t2, h2 + i - 1) = v
  <2> SUFFICES ASSUME NEW i \in 1..(n + 1)
               PROVE  /\ ItemAt(c2, t2, h2 + i - 1) \in W
                      /\ i = n + 1 => ItemAt(c2, t2, h2 + i - 1) = v
    OBVIOUS
  <2>1. CASE i = n + 1
    <3>1. h2 + i - 1 = h2 + n
      BY <2>1
    <3> QED BY <1>1, <3>1
  <2>2. CASE i # n + 1
    <3>1. i \in 1..n
      BY <2>2
    <3> QED BY <1>1, <2>2, <3>1
  <2> QED BY <2>1, <2>2
<1>3. s \in [1..n -> W] /\ \A i \in 1..n : s[i] = ItemAt(c, t, h + i - 1)
  BY <1>1 DEF ElementsOf
<1>4. s2 \in [1..(n + 1) -> W] /\ \A i \in 1..(n + 1) : s2[i] = ItemAt(c2, t2, h2 + i - 1)
  BY <1>2 DEF ElementsOf
<1> HIDE DEF s, s2
<1>5. s2[n + 1] = v
  BY <1>2, <1>4
<1>6. ASSUME NEW i \in 1..n PROVE s2[i] = s[i]
  <2>1. i \in 1..(n + 1)
    OBVIOUS
  <2> QED BY <1>3, <1>4, <2>1
<1>7. s2 = Append(s, v)
  BY <1>1, <1>3, <1>4, <1>5, <1>6, AppendIs
<1> QED BY <1>7 DEF s, s2

(* ... the n items from h on but the first                                  *)
FrontRemoved(c, t, h, n, c2, t2, h2, n2) ==
    /\ h \in Int /\ n \in Nat \ {0} /\ h2 \in Int /\ n2 = n - 1
    /\ \A i \in 1..(n - 1) : ItemAt(c2, t2, h2 + i - 1) = ItemAt(c, t, h + i)

(* ... and after the first was removed                                      *)
LEMMA FrontShrinks ==
    ASSUME NEW c, NEW t, NEW h, NEW n, NEW c2, NEW t2, NEW h2, NEW n2,
           FrontRemoved(c, t, h, n, c2, t2, h2, n2)
    PROVE  /\ ElementsOf(c2, t2, h2, n2) = Tail(ElementsOf(c, t, h, n))
           /\ ElementsOf(c, t, h, n)[1] = ItemAt(c, t, h)
           /\ ElementsOf(c, t, h, n) # <<>>
<1> DEFINE s == ElementsOf(c, t, h, n)
           s2 == ElementsOf(c2, t2, h2, n - 1)
           W == {ItemAt(c, t, h + i - 1) : i \in 1..n}
<1>10. n \in Nat \ {0}
  BY DEF FrontRemoved
<1>0. n \in Nat /\ n - 1 \in Nat
  BY <1>10
<1>9. /\ h \in Int /\ n \in Nat \ {0} /\ h2 \in Int /\ n2 = n - 1
      /\ \A i \in 1..(n - 1) : ItemAt(c2, t2, h2 + i - 1) = ItemAt(c, t, h + i)
  BY DEF FrontRemoved
<1> USE <1>9
<1>1. \A i \in 1..n : ItemAt(c, t, h + i - 1) \in W
  OBVIOUS
<1> HIDE DEF W
<1>2. ASSUME NEW i \in 1..(n - 1)
      PROVE  /\ ItemAt(c2, t2, h2 + i - 1) = ItemAt(c, t, h + (i + 1) - 1)
             /\ i + 1 \in 1..n
  <2>1. h + (i + 1) - 1 = h + i /\ i + 1 \in 1..n
    OBVIOUS
  <2> QED BY <2>1
<1>3. s \in [1..n -> W] /\ \A i \in 1..n : s[i] = ItemAt(c, t, h + i - 1)
  BY <1>1 DEF ElementsOf
<1>4. \A i \in 1..(n - 1) : ItemAt(c2, t2, h2 + i - 1) \in W
  BY <1>1, <1>2
<1>5. /\ s2 \in [1..(n - 1) -> W]
      /\ \A i \in 1..(n - 1) : s2[i] = ItemAt(c2, t2, h2 + i - 1)
  BY <1>4 DEF ElementsOf
<1> HIDE DEF s, s2
<1>6. \A i \in 1..(n - 1) : s2[i] = s[i + 1]
  BY <1>2, <1>3, <1>5
<1>7. s2 = Tail(s) /\ s # <<>>
  BY <1>3, <1>5, <1>6, TailIs
<1>8. s[1] = ItemAt(c, t, h)
  <2>1. 1 \in 1..n /\ h + 1 - 1 = h
    OBVIOUS
  <2>2. s[1] = ItemAt(c, t, h + 1 - 1)
    BY <1>3, <2>1
  <2> QED BY <2>1, <2>2
<1> QED BY <1>7, <1>8 DEF s, s2

(* ... or but the last, x                                                   *)
BackRemoved(c, t, h, n, c2, t2, h2, n2, x) ==
    /\ h \in Int /\ n \in Nat \ {0} /\ h2 \in Int /\ n2 = n - 1
    /\ x = ItemAt(c, t, h + n - 1)
    /\ \A i \in 1..(n - 1) : ItemAt(c2, t2, h2 + i - 1) = ItemAt(c, t, h + i - 1)

(* e2 is e without its last element x *)
WithoutLast(e2, e, x) == e2 = SubSeq(e, 1, Len(e) - 1) /\ e # <<>> /\ e[Len(e)] = x

(* ... or the last                                                          *)
LEMMA BackShrinks ==
    ASSUME NEW c, NEW t, NEW h, NEW n, NEW c2, NEW t2, NEW h2, NEW n2, NEW x,
           BackRemoved(c, t, h, n, c2, t2, h2, n2, x)
    PROVE  WithoutLast(ElementsOf(c2, t2, h2, n2), ElementsOf(c, t, h, n), x)
<1> DEFINE s == ElementsOf(c, t, h, n)
           s2 == ElementsOf(c2, t2, h2, n - 1)
           W == {ItemAt(c, t, h + i - 1) : i \in 1..n}
<1>10. n \in Nat \ {0}
  BY DEF BackRemoved
<1>0. n \in Nat /\ n - 1 \in Nat /\ n - 1 \in 0..n /\ n \in 1..n
      /\ \A i \in 1..(n - 1) : i \in 1..n
  BY <1>10
<1>9. /\ h \in Int /\ n \in Nat \ {0} /\ h2 \in Int /\ n2 = n - 1
      /\ x = ItemAt(c, t, h + n - 1)
      /\ \A i \in 1..(n - 1) : ItemAt(c2, t2, h2 + i - 1) = ItemAt(c, t, h + i - 1)
  BY DEF BackRemoved
<1> USE <1>9
<1>1. \A i \in 1..n : ItemAt(c, t, h + i - 1) \in W
  OBVIOUS
<1> HIDE DEF W
<1>3. s \in [1..n -> W] /\ \A i \in 1..n : s[i] = ItemAt(c, t, h + i - 1)
  BY <1>1 DEF ElementsOf
<1>4. \A i \in 1..(n - 1) : ItemAt(c2, t2, h2 + i - 1) \in W
  BY <1>0, <1>1
<1>5. /\ s2 \in [1..(n - 1) -> W]
      /\ \A i \in 1..(n - 1) : s2[i] = ItemAt(c2, t2, h2 + i - 1)
  BY <1>4 DEF ElementsOf
<1> HIDE DEF s, s2
<1>6. \A i \in 1..(n - 1) : s2[i] = s[i]
  BY <1>0, <1>3, <1>5
<1>7. s2 = SubSeq(s, 1, n - 1) /\ Len(s) = n
  BY <1>0, <1>3, <1>5, <1>6, PrefixIs
<1>8. s # <<>>
  BY <1>7
<1> QED BY <1>0, <1>3, <1>7, <1>8 DEF s, s2, WithoutLast

-----------------------------------------------------------------------------
(* The elements, after each operation.                                     *)

(* The blocks in use, by their index in the list *)
LEMMA Blocks ==
    ASSUME IInv, chain # <<>>
    PROVE  /\ Len(chain) - 1 \in Nat /\ Len(chain) - 1 + 1 = Len(chain)
           /\ Len(chain) \in 1..Len(chain) /\ 1 \in 1..Len(chain)
           /\ headBlk = chain[1] /\ tailBlk = chain[Len(chain)]
           /\ \A i \in 1..Len(chain) : chain[i] \in Block
           /\ \A i, j \in 1..Len(chain) : chain[i] = chain[j] => i = j
           /\ items \in [Block -> Items]
<1>1. /\ Len(chain) \in Nat \ {0} /\ DOMAIN chain = 1..Len(chain)
      /\ headBlk = chain[1] /\ tailBlk = chain[Len(chain)]
      /\ \A i \in 1..Len(chain) : chain[i] \in Block
  BY InUse
<1>2. Len(chain) - 1 \in Nat /\ Len(chain) - 1 + 1 = Len(chain)
      /\ Len(chain) \in 1..Len(chain) /\ 1 \in 1..Len(chain)
  BY <1>1
<1>3. \A i, j \in 1..Len(chain) : chain[i] = chain[j] => i = j
  BY <1>1 DEF IInv, WellLinked
<1> QED BY <1>1, <1>2, <1>3 DEF IInv, TypeOK

(* pushFront() with room in the block: only a place before the first is set *)
LEMMA PushFrontInBlockElements ==
    ASSUME IInv, NEW v \in Value, PushFrontInBlock(v)
    PROVE  Elements' = <<v>> \o Elements
<1>1. chain # <<>>
  BY NotInUse DEF PushFrontInBlock
<1>2. /\ headPos \in 1..(BlockSize - 1) /\ headPos \in Int /\ headPos' = headPos - 1
      /\ headPos' \in 0..(BlockSize - 1)
      /\ size \in Nat /\ size' = size + 1 /\ chain' = chain
      /\ items' = [items EXCEPT ![headBlk][headPos - 1] = v]
  BY DequeAssumption DEF PushFrontInBlock, Grow, IInv, TypeOK
<1>3. ItemAt(chain', items', headPos') = v
  <2>1. Place(headPos', 0, headPos') /\ 0 + 1 = 1
    BY <1>2, DequeAssumption DEF Place
  <2>2. ItemAt(chain', items', headPos') = items'[chain'[1]][headPos']
    <3>1. ItemAt(chain', items', headPos') = Cell(chain', items', 0, headPos')
      BY <2>1, ItemIs
    <3> QED BY <2>1, <3>1 DEF Cell
  <2>3. headBlk = chain[1] /\ headBlk \in Block /\ items \in [Block -> Items]
    BY <1>1, Blocks
  <2>4. items'[headBlk][headPos - 1] = v
    BY <1>2, <2>3 DEF Items
  <2> QED BY <1>2, <2>2, <2>3, <2>4
<1>4. ASSUME NEW i \in 1..size
      PROVE  ItemAt(chain', items', headPos' + i) = ItemAt(chain, items, headPos + i - 1)
  <2> DEFINE p == headPos + i - 1
  <2>1. headPos' + i = p /\ p \in Nat /\ headPos <= p /\ p < headPos + size
    BY <1>2
  <2> HIDE DEF p
  <2>2. PICK q \in 0..(Len(chain) - 1), r \in 0..(BlockSize - 1) :
          Place(p, q, r) /\ (q = 0 => headPos <= r) /\ q + 1 \in 1..Len(chain)
    BY <2>1, Position
  <2>3. ItemAt(chain', items', p) = items'[chain[q + 1]][r]
        /\ ItemAt(chain, items, p) = items[chain[q + 1]][r]
    <3>1. ItemAt(chain', items', p) = Cell(chain', items', q, r)
          /\ ItemAt(chain, items, p) = Cell(chain, items, q, r)
      BY <2>2, ItemIs
    <3> QED BY <1>2, <3>1 DEF Cell
  <2>4. chain[q + 1] = headBlk => r # headPos - 1
    <3>1. chain[q + 1] = headBlk => q + 1 = 1
      BY <1>1, <2>2, Blocks
    <3>2. q + 1 = 1 => q = 0
      OBVIOUS
    <3>3. headPos <= r => r # headPos - 1
      BY <1>2
    <3> QED BY <2>2, <3>1, <3>2, <3>3
  <2>5. chain[q + 1] \in Block /\ headBlk \in Block /\ items \in [Block -> Items]
    BY <1>1, <2>2, Blocks
  <2>6. items'[chain[q + 1]][r] = items[chain[q + 1]][r]
    BY <1>2, <2>2, <2>4, <2>5 DEF Items
  <2>7. ItemAt(chain', items', p) = ItemAt(chain, items, p)
    BY <2>3, <2>6
  <2> QED BY <2>1, <2>7 DEF p
<1>5. FrontAdded(chain, items, headPos, size, chain', items', headPos', size', v)
  <2>1. headPos \in Int /\ size \in Nat /\ headPos' \in Int /\ size' = size + 1
    BY <1>2
  <2> QED BY <1>3, <1>4, <2>1, Zenon DEF FrontAdded
<1> QED BY <1>5, FrontGrows, ElementsAre

(* pushFront() with a new block: every element is a block further on        *)
LEMMA PushFrontNewBlockElements ==
    ASSUME IInv, NEW v \in Value, NEW b \in Unused, PushFrontNewBlock(v, b)
    PROVE  Elements' = <<v>> \o Elements
<1>1. /\ b \in Block /\ chain \in Seq(Block) /\ \A i \in 1..Len(chain) : chain[i] # b
      /\ items \in [Block -> Items] /\ headPos \in Nat /\ size \in Nat
  BY DEF Unused, IInv, TypeOK
<1>2. chain'[1] = b /\ \A i \in 1..Len(chain) : chain'[i + 1] = chain[i]
  BY <1>1, ConsFacts DEF PushFrontNewBlock
<1>3. /\ headPos' = BlockSize - 1 /\ size' = size + 1 /\ headPos' \in 0..(BlockSize - 1)
      /\ items' = [items EXCEPT ![b] = OneItem(BlockSize - 1, v)]
  BY DequeAssumption DEF PushFrontNewBlock, Grow
<1>4. ItemAt(chain', items', headPos') = v
  <2>1. Place(headPos', 0, headPos') /\ 0 + 1 = 1
    BY <1>3, DequeAssumption DEF Place
  <2>2. ItemAt(chain', items', headPos') = items'[chain'[1]][headPos']
    <3>1. ItemAt(chain', items', headPos') = Cell(chain', items', 0, headPos')
      BY <2>1, ItemIs
    <3> QED BY <2>1, <3>1 DEF Cell
  <2>3. items'[b][headPos'] = v
    BY <1>1, <1>3 DEF OneItem
  <2> QED BY <1>2, <2>2, <2>3
<1>5. ASSUME NEW i \in 1..size
      PROVE  ItemAt(chain', items', headPos' + i) = ItemAt(chain, items, headPos + i - 1)
  <2> DEFINE p == headPos + i - 1
  <2>1. p \in Nat /\ headPos <= p /\ p < headPos + size
    BY <1>1
  <2> HIDE DEF p
  <2>2. chain # <<>>
    BY <2>1, Position
  <2>3. PICK q \in 0..(Len(chain) - 1), r \in 0..(BlockSize - 1) :
          Place(p, q, r) /\ q + 1 \in 1..Len(chain)
    BY <2>1, Position
  <2>4. headPos = 0
    <3>1. headBlk # Nil
      BY <2>2, InUse
    <3> QED BY <3>1 DEF PushFrontNewBlock
  <2>5. q \in Nat /\ r \in 0..(BlockSize - 1) /\ p = q * BlockSize + r
    BY <2>3 DEF Place
  <2>6. headPos' + i = p + BlockSize
    BY <1>1, <1>3, <2>4, DequeAssumption DEF p
  <2>7. Place(headPos' + i, q + 1, r)
    <3>1. (q + 1) * BlockSize = q * BlockSize + BlockSize /\ q * BlockSize \in Nat
      BY <2>5, Products
    <3>2. p + BlockSize = (q + 1) * BlockSize + r
      BY <2>5, <3>1, DequeAssumption
    <3> QED BY <2>5, <2>6, <3>2 DEF Place
  <2>8. ItemAt(chain', items', headPos' + i) = items'[chain'[q + 1 + 1]][r]
        /\ ItemAt(chain, items, p) = items[chain[q + 1]][r]
    <3>1. ItemAt(chain', items', headPos' + i) = Cell(chain', items', q + 1, r)
          /\ ItemAt(chain, items, p) = Cell(chain, items, q, r)
      BY <2>3, <2>7, ItemIs
    <3> QED BY <3>1 DEF Cell
  <2>9. chain'[q + 1 + 1] = chain[q + 1] /\ chain[q + 1] # b /\ chain[q + 1] \in Block
    BY <1>1, <1>2, <2>2, <2>3, Blocks
  <2>10. items'[chain[q + 1]] = items[chain[q + 1]]
    BY <1>1, <1>3, <2>9
  <2> QED BY <2>8, <2>9, <2>10 DEF p
<1>6. FrontAdded(chain, items, headPos, size, chain', items', headPos', size', v)
  <2>1. headPos \in Int /\ size \in Nat /\ headPos' \in Int /\ size' = size + 1
    BY <1>1, <1>3
  <2> QED BY <1>4, <1>5, <2>1, Zenon DEF FrontAdded
<1> QED BY <1>6, FrontGrows, ElementsAre

(* pushBack() with room in the block: only a place behind the last is set *)
LEMMA PushBackInBlockElements ==
    ASSUME IInv, NEW v \in Value, PushBackInBlock(v)
    PROVE  Elements' = Append(Elements, v)
<1>1. chain # <<>>
  BY NotInUse DEF PushBackInBlock
<1>2. /\ headPos \in Nat /\ headPos' = headPos /\ tailPos # BlockSize
      /\ size \in Nat /\ size' = size + 1 /\ chain' = chain
      /\ items' = [items EXCEPT ![tailBlk][tailPos] = v]
  BY DEF PushBackInBlock, Grow, IInv, TypeOK
<1>3. /\ headPos + size = (Len(chain) - 1) * BlockSize + tailPos
      /\ tailPos \in 0..(BlockSize - 1)
  <2>1. tailPos \in 0..BlockSize /\ headPos + size = (Len(chain) - 1) * BlockSize + tailPos
    BY <1>1, EndPosition
  <2> QED BY <1>2, <2>1, DequeAssumption
<1>4. /\ Len(chain) - 1 \in Nat /\ Len(chain) - 1 + 1 = Len(chain)
      /\ tailBlk = chain[Len(chain)] /\ tailBlk \in Block /\ items \in [Block -> Items]
      /\ Len(chain) \in 1..Len(chain)
  BY <1>1, Blocks
<1>5. ItemAt(chain', items', headPos' + size) = v
  <2>1. Place(headPos' + size, Len(chain) - 1, tailPos)
    BY <1>2, <1>3, <1>4 DEF Place
  <2>2. ItemAt(chain', items', headPos' + size) = items'[chain'[Len(chain)]][tailPos]
    <3>1. ItemAt(chain', items', headPos' + size) = Cell(chain', items', Len(chain) - 1, tailPos)
      BY <2>1, ItemIs
    <3> QED BY <1>4, <3>1 DEF Cell
  <2>3. items'[tailBlk][tailPos] = v
    BY <1>2, <1>3, <1>4 DEF Items
  <2> QED BY <1>2, <1>4, <2>2, <2>3
<1>6. ASSUME NEW i \in 1..size
      PROVE  ItemAt(chain', items', headPos' + i - 1) = ItemAt(chain, items, headPos + i - 1)
  <2> DEFINE p == headPos + i - 1
  <2>1. headPos' + i - 1 = p /\ p \in Nat /\ headPos <= p /\ p < headPos + size
    BY <1>2
  <2> HIDE DEF p
  <2>2. PICK q \in 0..(Len(chain) - 1), r \in 0..(BlockSize - 1) :
          Place(p, q, r) /\ (q = Len(chain) - 1 => r < tailPos) /\ q + 1 \in 1..Len(chain)
    BY <2>1, Position
  <2>3. ItemAt(chain', items', p) = items'[chain[q + 1]][r]
        /\ ItemAt(chain, items, p) = items[chain[q + 1]][r]
    <3>1. ItemAt(chain', items', p) = Cell(chain', items', q, r)
          /\ ItemAt(chain, items, p) = Cell(chain, items, q, r)
      BY <2>2, ItemIs
    <3> QED BY <1>2, <3>1 DEF Cell
  <2>4. chain[q + 1] = tailBlk => r # tailPos
    <3>1. chain[q + 1] = tailBlk => q + 1 = Len(chain)
      BY <1>1, <2>2, Blocks
    <3>2. q + 1 = Len(chain) => q = Len(chain) - 1
      <4>1. Len(chain) \in Nat
        BY <1>1, InUse
      <4> QED BY <4>1
    <3>3. r < tailPos => r # tailPos
      BY <1>3
    <3> QED BY <2>2, <3>1, <3>2, <3>3
  <2>5. chain[q + 1] \in Block
    BY <1>1, <2>2, Blocks
  <2>6. items'[chain[q + 1]][r] = items[chain[q + 1]][r]
    BY <1>2, <1>4, <2>2, <2>4, <2>5 DEF Items
  <2>7. ItemAt(chain', items', p) = ItemAt(chain, items, p)
    BY <2>3, <2>6
  <2> QED BY <2>1, <2>7 DEF p
<1>7. BackAdded(chain, items, headPos, size, chain', items', headPos', size', v)
  <2>1. headPos \in Int /\ size \in Nat /\ headPos' \in Int /\ size' = size + 1
    BY <1>2
  <2> QED BY <1>5, <1>6, <2>1, Zenon DEF BackAdded
<1> QED BY <1>7, BackGrows, ElementsAre

(* pushBack() with a new block: every element stays where it is             *)
LEMMA PushBackNewBlockElements ==
    ASSUME IInv, NEW v \in Value, NEW b \in Unused, PushBackNewBlock(v, b)
    PROVE  Elements' = Append(Elements, v)
<1>1. /\ b \in Block /\ chain \in Seq(Block) /\ \A i \in 1..Len(chain) : chain[i] # b
      /\ items \in [Block -> Items] /\ headPos \in Nat /\ size \in Nat
      /\ headPos \in 0..(BlockSize - 1)
  BY DEF Unused, IInv, TypeOK
<1>2. chain'[Len(chain) + 1] = b /\ \A i \in 1..Len(chain) : chain'[i] = chain[i]
  BY <1>1, AppendFacts DEF PushBackNewBlock
<1>3. /\ size' = size + 1 /\ items' = [items EXCEPT ![b] = OneItem(0, v)]
      /\ items'[b][0] = v
  <2>1. 0 \in 0..(BlockSize - 1)
    BY DequeAssumption
  <2> QED BY <1>1, <2>1 DEF PushBackNewBlock, Grow, OneItem
<1>4. /\ headPos' \in Nat /\ (chain # <<>> => headPos' = headPos)
      /\ Place(headPos' + size, Len(chain), 0)
  <2>1. CASE chain = <<>>
    <3>1. tailBlk = Nil /\ size = 0 /\ Len(chain) = 0
      BY <2>1, NotInUse
    <3>2. headPos' = 0
      BY <2>1, <3>1, InUse DEF PushBackNewBlock
    <3> QED BY <2>1, <3>1, <3>2, DequeAssumption DEF Place
  <2>2. CASE chain # <<>>
    <3>1. tailBlk # Nil
      BY <2>2, InUse
    <3>2. tailPos = BlockSize /\ headPos' = headPos
      BY <3>1 DEF PushBackNewBlock
    <3>3. /\ headPos + size = (Len(chain) - 1) * BlockSize + tailPos
          /\ Len(chain) * BlockSize = (Len(chain) - 1) * BlockSize + BlockSize
          /\ Len(chain) - 1 \in Nat /\ (Len(chain) - 1) * BlockSize \in Nat
      BY <2>2, EndPosition
    <3>4. Len(chain) \in Nat
      BY <1>1
    <3>5. headPos + size = Len(chain) * BlockSize + 0
      BY <3>2, <3>3, DequeAssumption
    <3>6. 0 \in 0..(BlockSize - 1)
      BY DequeAssumption
    <3> QED BY <1>1, <3>2, <3>4, <3>5, <3>6 DEF Place
  <2> QED BY <2>1, <2>2
<1>5. ItemAt(chain', items', headPos' + size) = v
  <2>1. ItemAt(chain', items', headPos' + size) = Cell(chain', items', Len(chain), 0)
    BY <1>4, ItemIs
  <2> QED BY <1>2, <1>3, <2>1 DEF Cell
<1>6. ASSUME NEW i \in 1..size
      PROVE  ItemAt(chain', items', headPos' + i - 1) = ItemAt(chain, items, headPos + i - 1)
  <2> DEFINE p == headPos + i - 1
  <2>1. p \in Nat /\ headPos <= p /\ p < headPos + size
    BY <1>1
  <2>2. chain # <<>>
    <3> HIDE DEF p
    <3> QED BY <2>1, Position
  <2>3. headPos' + i - 1 = p
    BY <1>4, <2>2
  <2> HIDE DEF p
  <2>4. PICK q \in 0..(Len(chain) - 1), r \in 0..(BlockSize - 1) :
          Place(p, q, r) /\ q + 1 \in 1..Len(chain)
    BY <2>1, Position
  <2>5. chain'[q + 1] = chain[q + 1] /\ chain[q + 1] # b /\ chain[q + 1] \in Block
    BY <1>1, <1>2, <2>2, <2>4, Blocks
  <2>6. items'[chain[q + 1]] = items[chain[q + 1]]
    BY <1>1, <1>3, <2>5
  <2>7. ItemAt(chain', items', p) = ItemAt(chain, items, p)
    <3>1. ItemAt(chain', items', p) = Cell(chain', items', q, r)
          /\ ItemAt(chain, items, p) = Cell(chain, items, q, r)
      BY <2>4, ItemIs
    <3> QED BY <2>5, <2>6, <3>1 DEF Cell
  <2> QED BY <2>3, <2>7 DEF p
<1>7. BackAdded(chain, items, headPos, size, chain', items', headPos', size', v)
  <2>1. headPos \in Int /\ size \in Nat /\ headPos' \in Int /\ size' = size + 1
    BY <1>1, <1>3, <1>4
  <2> QED BY <1>5, <1>6, <2>1, Zenon DEF BackAdded
<1> QED BY <1>7, BackGrows, ElementsAre

(* popFront() within a block: the first element is one place further on     *)
LEMMA PopFrontInBlockElements ==
    ASSUME IInv, PopFrontInBlock
    PROVE  Elements # <<>> /\ Elements' = Tail(Elements) /\ result' = Elements[1]
<1>1. chain # <<>>
  BY NotInUse DEF PopFrontInBlock, Shrink
<1>2. /\ headPos \in 0..(BlockSize - 1) /\ headPos \in Int /\ headPos' = headPos + 1
      /\ headPos' \in Int /\ size \in Nat \ {0} /\ size' = size - 1
      /\ chain' = chain /\ items' = items /\ result' = items[headBlk][headPos]
  BY DEF PopFrontInBlock, Shrink, IInv, TypeOK
<1>3. ItemAt(chain, items, headPos) = items[headBlk][headPos]
  <2>1. Place(headPos, 0, headPos) /\ 0 + 1 = 1
    BY <1>2, DequeAssumption DEF Place
  <2>2. ItemAt(chain, items, headPos) = Cell(chain, items, 0, headPos)
    BY <2>1, ItemIs
  <2>3. headBlk = chain[1]
    BY <1>1, Blocks
  <2> QED BY <2>1, <2>2, <2>3 DEF Cell
<1>4. ASSUME NEW i \in 1..(size - 1)
      PROVE  ItemAt(chain', items', headPos' + i - 1) = ItemAt(chain, items, headPos + i)
  <2>1. headPos' + i - 1 = headPos + i
    BY <1>2
  <2> QED BY <1>2, <2>1
<1>5. FrontRemoved(chain, items, headPos, size, chain', items', headPos', size')
  BY <1>2, <1>4, Zenon DEF FrontRemoved
<1>6. /\ Elements' = Tail(Elements) /\ Elements # <<>>
      /\ Elements[1] = ItemAt(chain, items, headPos)
  BY <1>5, FrontShrinks, ElementsAre
<1> QED BY <1>2, <1>3, <1>6

(* popFront() of the last item of a block: every element is a block nearer  *)
LEMMA PopFrontBlockElements ==
    ASSUME IInv, PopFrontBlock
    PROVE  Elements # <<>> /\ Elements' = Tail(Elements) /\ result' = Elements[1]
<1>1. chain # <<>>
  BY NotInUse DEF PopFrontBlock, Shrink
<1>2. /\ headPos \in 0..(BlockSize - 1) /\ headPos \in Int /\ headPos' = 0 /\ headPos + 1 = BlockSize
      /\ headPos' \in Int /\ size \in Nat \ {0} /\ size' = size - 1
      /\ chain' = Tail(chain) /\ items' = items /\ result' = items[headBlk][headPos]
      /\ chain \in Seq(Block)
  BY DEF PopFrontBlock, Shrink, IInv, TypeOK
<1>3. ItemAt(chain, items, headPos) = items[headBlk][headPos]
  <2>1. Place(headPos, 0, headPos) /\ 0 + 1 = 1
    BY <1>2, DequeAssumption DEF Place
  <2>2. ItemAt(chain, items, headPos) = Cell(chain, items, 0, headPos)
    BY <2>1, ItemIs
  <2>3. headBlk = chain[1]
    BY <1>1, Blocks
  <2> QED BY <2>1, <2>2, <2>3 DEF Cell
<1>4. ASSUME NEW i \in 1..(size - 1)
      PROVE  ItemAt(chain', items', headPos' + i - 1) = ItemAt(chain, items, headPos + i)
  <2> DEFINE p == headPos + i
  <2>1. /\ p \in Nat /\ headPos <= p /\ p < headPos + size /\ p >= BlockSize
        /\ headPos' + i - 1 = p - BlockSize
    BY <1>2, DequeAssumption
  <2> HIDE DEF p
  <2>2. PICK q \in 0..(Len(chain) - 1), r \in 0..(BlockSize - 1) :
          Place(p, q, r) /\ q + 1 \in 1..Len(chain)
    BY <2>1, Position
  <2>3. q \in Nat /\ p = q * BlockSize + r
    BY <2>2 DEF Place
  <2>4. q # 0
    <3>1. q = 0 => q * BlockSize = 0
      BY DequeAssumption
    <3> QED BY <2>1, <2>3, <3>1, DequeAssumption
  <2>5. Place(p - BlockSize, q - 1, r)
    <3>1. q - 1 \in Nat /\ q - 1 + 1 = q
      BY <2>3, <2>4
    <3>2. q * BlockSize = (q - 1) * BlockSize + BlockSize /\ (q - 1) * BlockSize \in Nat
      <4> DEFINE k == q - 1
      <4>1. k \in Nat /\ q = k + 1
        BY <3>1
      <4> HIDE DEF k
      <4>2. q * BlockSize = k * BlockSize + BlockSize /\ k * BlockSize \in Nat
        BY <4>1, Products
      <4> QED BY <4>2 DEF k
    <3>3. p - BlockSize = (q - 1) * BlockSize + r
      BY <2>3, <3>2, DequeAssumption
    <3> QED BY <3>1, <3>3 DEF Place
  <2>6. chain'[q - 1 + 1] = chain[q + 1]
    <3>1. q \in 1..(Len(chain) - 1) /\ q - 1 + 1 = q
      BY <2>2, <2>3, <2>4
    <3>2. Tail(chain)[q] = chain[q + 1]
      BY <1>1, <1>2, <3>1, TailFacts
    <3> QED BY <1>2, <3>1, <3>2
  <2>7. ItemAt(chain', items', p - BlockSize) = Cell(chain', items', q - 1, r)
        /\ ItemAt(chain, items, p) = Cell(chain, items, q, r)
    BY <2>2, <2>5, ItemIs
  <2>8. ItemAt(chain', items', p - BlockSize) = ItemAt(chain, items, p)
    BY <1>2, <2>6, <2>7 DEF Cell
  <2> QED BY <2>1, <2>8 DEF p
<1>5. FrontRemoved(chain, items, headPos, size, chain', items', headPos', size')
  BY <1>2, <1>4, Zenon DEF FrontRemoved
<1>6. /\ Elements' = Tail(Elements) /\ Elements # <<>>
      /\ Elements[1] = ItemAt(chain, items, headPos)
  BY <1>5, FrontShrinks, ElementsAre
<1> QED BY <1>2, <1>3, <1>6

(* The last element is before _tailPos in the last block                    *)
LEMMA LastElement ==
    ASSUME IInv, chain # <<>>, tailPos - 1 \in 0..(BlockSize - 1)
    PROVE  ItemAt(chain, items, headPos + size - 1) = items[tailBlk][tailPos - 1]
<1>1. /\ headPos + size = (Len(chain) - 1) * BlockSize + tailPos
      /\ (Len(chain) - 1) * BlockSize \in Nat /\ tailPos \in 0..BlockSize
      /\ headPos \in 0..(BlockSize - 1) /\ size \in Nat
  BY EndPosition
<1>2. /\ Len(chain) - 1 \in Nat /\ Len(chain) - 1 + 1 = Len(chain) /\ tailBlk = chain[Len(chain)]
  BY Blocks
<1>3. headPos + size - 1 = (Len(chain) - 1) * BlockSize + (tailPos - 1)
  BY <1>1
<1>4. Place(headPos + size - 1, Len(chain) - 1, tailPos - 1)
  BY <1>2, <1>3 DEF Place
<1>5. ItemAt(chain, items, headPos + size - 1) = Cell(chain, items, Len(chain) - 1, tailPos - 1)
  BY <1>4, ItemIs
<1> QED BY <1>2, <1>5 DEF Cell

(* popBack() within a block: every element stays where it is                *)
LEMMA PopBackInBlockElements ==
    ASSUME IInv, PopBackInBlock
    PROVE  /\ Elements # <<>> /\ Elements' = SubSeq(Elements, 1, Len(Elements) - 1)
           /\ result' = Elements[Len(Elements)]
<1>1. chain # <<>>
  BY NotInUse DEF PopBackInBlock, Shrink
<1>2. /\ headPos \in Int /\ headPos' = headPos /\ size \in Nat \ {0} /\ size' = size - 1
      /\ chain' = chain /\ items' = items /\ result' = items[tailBlk][tailPos - 1]
  BY DEF PopBackInBlock, Shrink, IInv, TypeOK
<1>3. ItemAt(chain, items, headPos + size - 1) = items[tailBlk][tailPos - 1]
  <2>1. tailPos \in 0..BlockSize /\ tailPos > 0
    BY <1>1, EndPosition
  <2>2. tailPos - 1 \in 0..(BlockSize - 1)
    BY <2>1, DequeAssumption
  <2> QED BY <1>1, <2>2, LastElement
<1>4. ASSUME NEW i \in 1..(size - 1)
      PROVE  ItemAt(chain', items', headPos' + i - 1) = ItemAt(chain, items, headPos + i - 1)
  BY <1>2
<1>5. BackRemoved(chain, items, headPos, size, chain', items', headPos', size',
                 ItemAt(chain, items, headPos + size - 1))
  <2>1. headPos' \in Int
    BY <1>2
  <2> QED BY <1>2, <1>4, <2>1, Zenon DEF BackRemoved
<1>6. /\ Elements' = SubSeq(Elements, 1, Len(Elements) - 1) /\ Elements # <<>>
      /\ Elements[Len(Elements)] = ItemAt(chain, items, headPos + size - 1)
  <2> DEFINE e == ElementsOf(chain, items, headPos, size)
             e2 == ElementsOf(chain', items', headPos', size')
  <2>1. WithoutLast(e2, e, ItemAt(chain, items, headPos + size - 1))
    BY <1>5, BackShrinks
  <2>2. Elements = e /\ Elements' = e2
    BY ElementsAre
  <2> HIDE DEF e, e2
  <2> QED BY <2>1, <2>2, Zenon DEF WithoutLast
<1> QED BY <1>2, <1>3, <1>6

(* popBack() of the first item of a block: no element is in that block      *)
LEMMA PopBackBlockElements ==
    ASSUME IInv, PopBackBlock
    PROVE  /\ Elements # <<>> /\ Elements' = SubSeq(Elements, 1, Len(Elements) - 1)
           /\ result' = Elements[Len(Elements)]
<1>1. chain # <<>>
  BY NotInUse DEF PopBackBlock, Shrink
<1>2. /\ headPos \in Nat /\ headPos' = headPos /\ size \in Nat \ {0} /\ size' = size - 1
      /\ chain' = Front(chain) /\ items' = items /\ result' = items[tailBlk][tailPos - 1]
      /\ chain \in Seq(Block)
  BY DEF PopBackBlock, Shrink, IInv, TypeOK
<1>3. tailPos = 1
  <2>1. tailPos \in 0..BlockSize /\ tailPos - 1 = 0
    BY <1>1, EndPosition DEF PopBackBlock
  <2> QED BY <2>1
<1>4. ItemAt(chain, items, headPos + size - 1) = items[tailBlk][tailPos - 1]
  <2>1. tailPos - 1 \in 0..(BlockSize - 1)
    BY <1>3, DequeAssumption
  <2> QED BY <1>1, <2>1, LastElement
<1>5. ASSUME NEW i \in 1..(size - 1)
      PROVE  ItemAt(chain', items', headPos' + i - 1) = ItemAt(chain, items, headPos + i - 1)
  <2> DEFINE p == headPos + i - 1
  <2>1. p \in Nat /\ headPos <= p /\ p < headPos + size /\ p < headPos + size - 1
    BY <1>2
  <2> HIDE DEF p
  <2>2. PICK q \in 0..(Len(chain) - 1), r \in 0..(BlockSize - 1) :
          /\ Place(p, q, r) /\ q + 1 \in 1..Len(chain)
          /\ q = Len(chain) - 1 => r < tailPos
    BY <2>1, Position
  <2>3. p = q * BlockSize + r
    BY <2>2 DEF Place
  <2>4. q # Len(chain) - 1
    <3> SUFFICES ASSUME q = Len(chain) - 1 PROVE FALSE
      OBVIOUS
    <3>1. r = 0
      BY <1>3, <2>2
    <3>2. headPos + size = (Len(chain) - 1) * BlockSize + tailPos
          /\ (Len(chain) - 1) * BlockSize \in Nat
      BY <1>1, EndPosition
    <3>3. p = (Len(chain) - 1) * BlockSize
      BY <2>3, <3>1, <3>2
    <3> QED BY <1>2, <1>3, <2>1, <3>2, <3>3
  <2>5. chain'[q + 1] = chain[q + 1]
    <3>1. Len(chain) - 1 \in Nat /\ Len(chain) - 1 + 1 = Len(chain)
      BY <1>1, Blocks
    <3>2. q + 1 \in 1..(Len(chain) - 1)
      <4>1. /\ Len(chain) \in Nat /\ q + 1 \in 1..Len(chain)
            /\ q + 1 # Len(chain)
        <5>1. Len(chain) \in Nat
          BY <1>1, InUse
        <5> QED BY <2>2, <2>4, <5>1
      <4> QED BY <4>1
    <3>3. Front(chain)[q + 1] = chain[q + 1]
      BY <1>1, <1>2, <3>2, FrontFacts
    <3> QED BY <1>2, <3>3
  <2>6. ItemAt(chain', items', p) = Cell(chain', items', q, r)
        /\ ItemAt(chain, items, p) = Cell(chain, items, q, r)
    BY <2>2, ItemIs
  <2>7. ItemAt(chain', items', p) = ItemAt(chain, items, p)
    BY <1>2, <2>5, <2>6 DEF Cell
  <2> QED BY <1>2, <2>7 DEF p
<1>6. BackRemoved(chain, items, headPos, size, chain', items', headPos', size',
                 ItemAt(chain, items, headPos + size - 1))
  <2>1. headPos \in Int /\ headPos' \in Int
    BY <1>2
  <2> QED BY <1>2, <1>5, <2>1, Zenon DEF BackRemoved
<1>7. /\ Elements' = SubSeq(Elements, 1, Len(Elements) - 1) /\ Elements # <<>>
      /\ Elements[Len(Elements)] = ItemAt(chain, items, headPos + size - 1)
  <2> DEFINE e == ElementsOf(chain, items, headPos, size)
             e2 == ElementsOf(chain', items', headPos', size')
  <2>1. WithoutLast(e2, e, ItemAt(chain, items, headPos + size - 1))
    BY <1>6, BackShrinks
  <2>2. Elements = e /\ Elements' = e2
    BY ElementsAre
  <2> HIDE DEF e, e2
  <2> QED BY <2>1, <2>2, Zenon DEF WithoutLast
<1> QED BY <1>2, <1>4, <1>7

(* No elements *)
LEMMA Empty ==
    /\ size = 0 => Elements = <<>>
    /\ size' = 0 => Elements' = <<>>
<1>1. ASSUME NEW f(_), NEW n, n = 0 PROVE [i \in 1..n |-> f(i)] = <<>>
  BY <1>1
<1> QED BY DEF Elements

(* What leaves positions and items alone leaves the elements alone          *)
LEMMA SameElements ==
    ASSUME UNCHANGED <<items, headPos, size, chain>>
    PROVE  Elements' = Elements
  BY ElementsAre

(* A step of the deque is a step of the abstract one *)
LEMMA StepImplements ==
    ASSUME IInv, [Next]_vars
    PROVE  [Abstract!DequeNext]_(Abstract!dequeVars)
<1> USE DEF Abstract!DequeNext, Abstract!Changes
<1>1. ASSUME NEW v \in Value, PushFrontInBlock(v) PROVE Abstract!DequeNext
  <2>1. result' = Nothing /\ Elements' = <<v>> \o Elements
    BY <1>1, PushFrontInBlockElements DEF PushFrontInBlock, Grow
  <2> QED BY <2>1
<1>2. ASSUME NEW v \in Value, PushBackInBlock(v) PROVE Abstract!DequeNext
  <2>1. result' = Nothing /\ Elements' = Append(Elements, v)
    BY <1>2, PushBackInBlockElements DEF PushBackInBlock, Grow
  <2> QED BY <2>1
<1>3. ASSUME NEW v \in Value, NEW b \in Unused, PushFrontNewBlock(v, b) PROVE Abstract!DequeNext
  <2>1. result' = Nothing /\ Elements' = <<v>> \o Elements
    BY <1>3, PushFrontNewBlockElements DEF PushFrontNewBlock, Grow
  <2> QED BY <2>1
<1>4. ASSUME NEW v \in Value, NEW b \in Unused, PushBackNewBlock(v, b) PROVE Abstract!DequeNext
  <2>1. result' = Nothing /\ Elements' = Append(Elements, v)
    BY <1>4, PushBackNewBlockElements DEF PushBackNewBlock, Grow
  <2> QED BY <2>1
<1>5. CASE PopEmpty
  <2>1. size = 0 /\ result' = IndexError /\ UNCHANGED <<items, headPos, size, chain>>
    BY <1>5 DEF PopEmpty
  <2>2. Elements = <<>> /\ Elements' = Elements
    BY <2>1, Empty, SameElements
  <2> QED BY <2>1, <2>2
<1>6. CASE PopFrontInBlock
  BY <1>6, PopFrontInBlockElements
<1>7. CASE PopFrontBlock
  BY <1>7, PopFrontBlockElements
<1>8. CASE PopBackInBlock
  BY <1>8, PopBackInBlockElements
<1>9. CASE PopBackBlock
  BY <1>9, PopBackBlockElements
<1>10. CASE Clear
  <2>1. size' = 0 /\ result' = Nothing
    BY <1>10 DEF Clear
  <2>2. Elements' = <<>>
    BY <2>1, Empty
  <2> QED BY <2>1, <2>2
<1>11. CASE Iterate \/ NextStops \/ NextItem \/ BeginTrace \/ TraceStep \/ UNCHANGED vars
  <2>1. UNCHANGED <<result, items, headPos, size, chain>>
    BY <1>11 DEF Iterate, NextStops, NextItem, BeginTrace, TraceStep, TraceItem, TraceAgain,
       vars, dequeVars
  <2>2. Elements' = Elements
    BY <2>1, SameElements
  <2> QED BY <2>1, <2>2 DEF Abstract!dequeVars
<1> HIDE DEF Abstract!DequeNext
<1> QED BY <1>1, <1>2, <1>3, <1>4, <1>5, <1>6, <1>7, <1>8, <1>9, <1>10, <1>11 DEF Next

(* For every block size, the deque is the sequence its operations describe. *)
THEOREM DequeIsASequence == Spec => ImplementsDeque
<1>1. Init => Abstract!DequeInit
  BY Empty DEF Init, Abstract!DequeInit
<1>2. IInv /\ [Next]_vars => [Abstract!DequeNext]_(Abstract!dequeVars)
  BY StepImplements
<1> QED BY <1>1, <1>2, Inductive, PTL DEF Spec, ImplementsDeque, Abstract!DequeSpec

-----------------------------------------------------------------------------
(* The iterators: whatever was returned is what the deque starts with.     *)

(* Where a valid iterator is: k elements were returned, and it is at the     *)
(* next one, or after the last                                               *)
AtElement(k) ==
    /\ produced = ElementsOf(chain, items, headPos, k)
    /\ iterator.blk = Nil => k = size
    /\ iterator.blk # Nil =>
          /\ k < size
          /\ \E q \in 0..(Len(chain) - 1) :
                iterator.blk = chain[q + 1] /\ Place(headPos + k, q, iterator.pos)

(* What an iterator can be                                                  *)
IterSet == [blk : Block \cup {Nil}, pos : Nat, mutationIndex : Nat, open : BOOLEAN]

(* The iterator was opened after no more mutations than there were           *)
IterInv ==
    /\ iterator \in IterSet
    /\ iterator.open => iterator.mutationIndex <= mutationIndex
    /\ Valid /\ size > 0 => \E k \in 0..size : AtElement(k)

(* The first k elements                                                     *)
LEMMA Prefix ==
    ASSUME size \in Nat, headPos \in Nat, NEW k \in 0..size
    PROVE  /\ ElementsOf(chain, items, headPos, k) = SubSeq(Elements, 1, k)
           /\ Len(ElementsOf(chain, items, headPos, k)) = k
<1> DEFINE s == ElementsOf(chain, items, headPos, size)
           s2 == ElementsOf(chain, items, headPos, k)
           W == {ItemAt(chain, items, headPos + i - 1) : i \in 1..size}
<1>1. \A i \in 1..size : ItemAt(chain, items, headPos + i - 1) \in W
  OBVIOUS
<1> HIDE DEF W
<1>2. s \in [1..size -> W] /\ \A i \in 1..size : s[i] = ItemAt(chain, items, headPos + i - 1)
  BY <1>1 DEF ElementsOf
<1>3. k \in Nat /\ \A i \in 1..k : i \in 1..size
  OBVIOUS
<1>4. s2 \in [1..k -> W] /\ \A i \in 1..k : s2[i] = ItemAt(chain, items, headPos + i - 1)
  BY <1>1, <1>3 DEF ElementsOf
<1> HIDE DEF s, s2
<1>5. \A i \in 1..k : s2[i] = s[i]
  BY <1>2, <1>3, <1>4
<1>6. s2 = SubSeq(s, 1, k)
  BY <1>2, <1>4, <1>5, PrefixIs
<1>7. Len(s2) = k
  BY <1>3, <1>4
<1>8. Elements = s
  BY ElementsAre DEF s
<1> QED BY <1>6, <1>7, <1>8 DEF s2

(* An iterator at an element returned those before it                       *)
LEMMA Faithful ==
    ASSUME IInv, IterInv
    PROVE  IterationIsFaithful
<1> SUFFICES ASSUME Valid, size > 0
             PROVE  /\ Len(produced) <= size
                    /\ produced = SubSeq(Elements, 1, Len(produced))
                    /\ iterator.blk = Nil => produced = Elements
  BY DEF IterationIsFaithful
<1>1. PICK k \in 0..size : AtElement(k)
  BY DEF IterInv
<1>2. size \in Nat /\ headPos \in Nat
  BY DEF IInv, TypeOK
<1>3. produced = SubSeq(Elements, 1, k) /\ Len(produced) = k
  BY <1>1, <1>2, Prefix DEF AtElement
<1>4. iterator.blk = Nil => produced = Elements
  BY <1>1, ElementsAre DEF AtElement
<1>5. k <= size
  BY <1>2
<1> QED BY <1>3, <1>4, <1>5

(* An operation that counts a mutation makes the open iterator invalid *)
LEMMA MutationInvalidates ==
    ASSUME IInv, IterInv, Mutate
    PROVE  IterInv'
<1>1. /\ mutationIndex \in Nat /\ mutationIndex' = mutationIndex + 1
      /\ iterator' = iterator /\ iterator \in IterSet
      /\ iterator.open => iterator.mutationIndex <= mutationIndex
  BY DEF IInv, TypeOK, IterInv, Mutate, iterVars
<1>2. iterator.mutationIndex \in Nat
  BY <1>1 DEF IterSet
<1>3. iterator'.open => iterator'.mutationIndex <= mutationIndex' /\ iterator'.mutationIndex # mutationIndex'
  BY <1>1, <1>2
<1> QED BY <1>1, <1>3 DEF IterInv, Valid

(* iterate() starts at the first element                                    *)
LEMMA IterateStep ==
    ASSUME IInv, IterInv, Iterate
    PROVE  IterInv'
<1>1. /\ UNCHANGED <<items, headPos, size, chain, mutationIndex>> /\ produced' = <<>>
      /\ iterator' = [blk |-> headBlk, pos |-> headPos,
                      mutationIndex |-> mutationIndex, open |-> TRUE]
  BY DEF Iterate, dequeVars
<1>2. /\ headBlk \in Block \cup {Nil} /\ headPos \in 0..(BlockSize - 1) /\ mutationIndex \in Nat
      /\ headPos \in Nat /\ size \in Nat
  BY DEF IInv, TypeOK
<1>3. /\ iterator' \in IterSet /\ iterator'.mutationIndex = mutationIndex
      /\ iterator'.blk = headBlk /\ iterator'.pos = headPos
  BY <1>1, <1>2 DEF IterSet
<1>4. ASSUME size > 0 PROVE AtElement(0)'
  <2>1. chain # <<>>
    BY <1>4, NotInUse
  <2>2. headBlk = chain[1] /\ headBlk # Nil /\ Len(chain) \in Nat \ {0}
    BY <2>1, InUse
  <2>3. 0 \in 0..(Len(chain) - 1) /\ 0 + 1 = 1
    BY <2>2
  <2>4. Place(headPos + 0, 0, headPos)
    BY <1>2, DequeAssumption DEF Place
  <2>5. ElementsOf(chain, items, headPos, 0) = <<>>
    BY DEF ElementsOf
  <2> QED BY <1>1, <1>3, <1>4, <2>2, <2>3, <2>4, <2>5 DEF AtElement
<1>5. mutationIndex <= mutationIndex
  BY <1>2
<1>6. 0 \in 0..size
  BY <1>2
<1> QED BY <1>1, <1>3, <1>4, <1>5, <1>6 DEF IterInv

(* next() at the end, or after a mutation, closes the iterator              *)
LEMMA NextStopsStep ==
    ASSUME IInv, IterInv, NextStops
    PROVE  IterInv'
  BY DequeAssumption DEF NextStops, NoIterator, IterInv, IterSet, Valid

(* Tracing does not move the iterator                                       *)
LEMMA NothingIterated ==
    ASSUME IInv, IterInv, UNCHANGED <<dequeVars, iterVars>>
    PROVE  IterInv'
  BY DEF IterInv, AtElement, Valid, dequeVars, iterVars

(* next() returns the element it is at, and goes to the one after it        *)
LEMMA NextItemStep ==
    ASSUME IInv, IterInv, NextItem
    PROVE  IterInv'
<1>1. /\ UNCHANGED <<items, headPos, size, chain, mutationIndex>>
      /\ produced' = Append(produced, items[iterator.blk][iterator.pos])
      /\ iterator' = IF iterator.pos + 1 >= EndOf(iterator.blk)
                     THEN [iterator EXCEPT !.blk = next[iterator.blk], !.pos = 0]
                     ELSE [iterator EXCEPT !.pos = @ + 1]
      /\ Valid /\ iterator.blk # Nil
  BY DEF NextItem, dequeVars
<1>2. /\ iterator \in IterSet /\ iterator.blk \in Block /\ iterator.pos \in Nat
      /\ iterator.mutationIndex \in Nat
      /\ iterator.open => iterator.mutationIndex <= mutationIndex
      /\ next[iterator.blk] \in Block \cup {Nil}
  BY <1>1 DEF IterInv, IterSet, IInv, TypeOK
<1>3. /\ iterator' \in IterSet
      /\ iterator'.open = iterator.open /\ iterator'.mutationIndex = iterator.mutationIndex
      /\ iterator.pos + 1 >= EndOf(iterator.blk) =>
            iterator'.blk = next[iterator.blk] /\ iterator'.pos = 0
      /\ ~(iterator.pos + 1 >= EndOf(iterator.blk)) =>
            iterator'.blk = iterator.blk /\ iterator'.pos = iterator.pos + 1
  <2>1. CASE iterator.pos + 1 >= EndOf(iterator.blk)
    <3>1. iterator' = [iterator EXCEPT !.blk = next[iterator.blk], !.pos = 0]
      BY <1>1, <2>1
    <3> QED BY <1>2, <2>1, <3>1 DEF IterSet
  <2>2. CASE ~(iterator.pos + 1 >= EndOf(iterator.blk))
    <3>1. iterator' = [iterator EXCEPT !.pos = @ + 1] /\ iterator.pos + 1 \in Nat
      BY <1>1, <1>2, <2>2
    <3> QED BY <1>2, <2>2, <3>1 DEF IterSet
  <2> QED BY <2>1, <2>2
<1>4. ASSUME size > 0 PROVE \E k \in 0..size : AtElement(k)'
  <2>1. PICK k \in 0..size : AtElement(k)
    BY <1>1, <1>4 DEF IterInv
  <2>2. /\ produced = ElementsOf(chain, items, headPos, k) /\ k < size
    BY <1>1, <2>1 DEF AtElement
  <2>3. PICK q \in 0..(Len(chain) - 1) :
          iterator.blk = chain[q + 1] /\ Place(headPos + k, q, iterator.pos)
    BY <1>1, <2>1 DEF AtElement
  <2>4. chain # <<>>
    BY <1>4, NotInUse
  <2> DEFINE n == Len(chain) - 1
             pos == iterator.pos
  <2>5. /\ n \in Nat /\ Len(chain) = n + 1 /\ q \in 0..n /\ q \in Nat
    <3>1. Len(chain) \in Nat \ {0}
      BY <2>4, InUse
    <3> QED BY <3>1
  <2>6. /\ headPos + size = n * BlockSize + tailPos /\ n * BlockSize \in Nat
        /\ tailPos \in 0..BlockSize /\ tailPos > 0 /\ size \in Nat /\ headPos \in Nat
        /\ BlockSize \in Nat \ {0}
    BY <2>4, EndPosition
  <2>7. headPos + k = q * BlockSize + pos /\ pos \in 0..(BlockSize - 1) /\ q * BlockSize \in Nat
    BY <2>3, <2>5, Products DEF Place
  <2>8. k + 1 \in 0..size /\ headPos + (k + 1) = q * BlockSize + pos + 1
    BY <2>2, <2>6, <2>7
  <2>9. produced' = ElementsOf(chain, items, headPos, k + 1)
    <3> DEFINE v == items[iterator.blk][iterator.pos]
               m == k + 1
    <3>1. ItemAt(chain, items, headPos + k) = v
      <4>1. ItemAt(chain, items, headPos + k) = Cell(chain, items, q, iterator.pos)
        BY <2>3, ItemIs
      <4> QED BY <2>3, <4>1 DEF Cell
    <3>2. headPos \in Int /\ k \in Nat /\ m = k + 1
      BY <2>6
    <3> HIDE DEF v, m
    <3>3. BackAdded(chain, items, headPos, k, chain, items, headPos, m, v)
      BY <3>1, <3>2, Zenon DEF BackAdded
    <3>4. ElementsOf(chain, items, headPos, m) = Append(ElementsOf(chain, items, headPos, k), v)
      BY <3>3, BackGrows
    <3> QED BY <1>1, <2>2, <3>4 DEF v, m
  <2>10. \A j \in 1..Len(chain) : next[chain[j]] = IF j = Len(chain) THEN Nil ELSE chain[j + 1]
    <3>1. DOMAIN chain = 1..Len(chain)
      BY <2>4, InUse
    <3> QED BY <3>1 DEF IInv, WellLinked
  <2>11. iterator.blk = tailBlk <=> q = n
    <3>1. q + 1 \in 1..Len(chain) /\ (q + 1 = Len(chain) <=> q = n)
      BY <2>5
    <3>2. chain[q + 1] = tailBlk <=> q + 1 = Len(chain)
      BY <2>4, <3>1, Blocks
    <3> QED BY <2>3, <3>1, <3>2
  <2>12. q # n => q * BlockSize + BlockSize <= n * BlockSize
    <3> HIDE DEF n
    <3>1. q # n => q < n
      BY <2>5
    <3> QED BY <2>5, <2>6, <3>1, Above
  <2>13. chain[q + 1] # Nil /\ q + 1 \in 1..Len(chain)
    <3>1. q + 1 \in 1..Len(chain)
      BY <2>5
    <3> QED BY <2>4, <3>1, InUse
  <2>14. next[iterator.blk] = IF q = n THEN Nil ELSE chain[q + 1 + 1]
    <3>1. q + 1 = Len(chain) <=> q = n
      BY <2>5
    <3> QED BY <2>3, <2>10, <2>13, <3>1
  <2> HIDE DEF n, pos
  <2>15. ASSUME q = n, pos + 1 >= tailPos
         PROVE  k + 1 = size
    BY <2>2, <2>6, <2>7, <2>8, <2>15
  <2>16. ASSUME q = n, ~(pos + 1 >= tailPos)
         PROVE  k + 1 < size /\ pos + 1 \in 0..(BlockSize - 1)
    BY <2>6, <2>7, <2>8, <2>16
  <2>17. ASSUME q # n, pos + 1 >= BlockSize
         PROVE  /\ k + 1 < size /\ Place(headPos + (k + 1), q + 1, 0)
                /\ q + 1 \in 0..n /\ chain[q + 1 + 1] # Nil
    <3>1. pos + 1 = BlockSize
      BY <2>6, <2>7, <2>17
    <3>2. (q + 1) * BlockSize = q * BlockSize + BlockSize
      BY <2>5, Products
    <3>3. headPos + (k + 1) = (q + 1) * BlockSize + 0
      BY <2>6, <2>7, <2>8, <3>1, <3>2
    <3>4. k + 1 < size
      BY <2>6, <2>7, <2>8, <2>12, <2>17, <3>1
    <3>5. q + 1 \in 0..n /\ q + 1 \in Nat /\ q + 1 + 1 \in 1..Len(chain) /\ 0 \in 0..(BlockSize - 1)
      BY <2>5, <2>6, <2>17
    <3>6. chain[q + 1 + 1] # Nil
      BY <2>4, <3>5, InUse
    <3> QED BY <3>3, <3>4, <3>5, <3>6 DEF Place
  <2>18. ASSUME q # n, ~(pos + 1 >= BlockSize)
         PROVE  k + 1 < size /\ pos + 1 \in 0..(BlockSize - 1)
    BY <2>6, <2>7, <2>8, <2>12, <2>18
  <2>19. pos + 1 \in 0..(BlockSize - 1) => Place(headPos + (k + 1), q, pos + 1)
    BY <2>5, <2>6, <2>7, <2>8 DEF Place
  <2>20. /\ EndOf(iterator.blk) = IF q = n THEN tailPos ELSE BlockSize
    BY <2>11 DEF EndOf
  <2>21. /\ iterator'.blk = Nil => k + 1 = size
         /\ iterator'.blk # Nil =>
             /\ k + 1 < size
             /\ \E p \in 0..n : iterator'.blk = chain[p + 1]
                                  /\ Place(headPos + (k + 1), p, iterator'.pos)
    <3>1. CASE pos + 1 >= EndOf(iterator.blk)
      <4>1. iterator'.blk = next[iterator.blk] /\ iterator'.pos = 0
        BY <1>3, <3>1 DEF pos
      <4>2. CASE q = n
        BY <2>14, <2>15, <2>20, <3>1, <4>1, <4>2
      <4>3. CASE q # n
        BY <2>14, <2>17, <2>20, <3>1, <4>1, <4>3
      <4> QED BY <4>2, <4>3
    <3>2. CASE ~(pos + 1 >= EndOf(iterator.blk))
      <4>1. iterator'.blk = chain[q + 1] /\ iterator'.pos = pos + 1 /\ chain[q + 1] # Nil
        BY <1>3, <2>3, <2>13, <3>2 DEF pos
      <4>2. k + 1 < size /\ pos + 1 \in 0..(BlockSize - 1)
        BY <2>16, <2>18, <2>20, <3>2
      <4>3. Place(headPos + (k + 1), q, pos + 1)
        BY <2>19, <4>2
      <4> QED BY <2>5, <4>1, <4>2, <4>3
    <3> QED BY <3>1, <3>2
  <2>22. AtElement(k + 1)'
    BY <1>1, <2>9, <2>21 DEF AtElement, n
  <2> QED BY <1>1, <2>8, <2>22
<1>5. (Valid /\ size > 0)' => \E k \in 0..size' : AtElement(k)'
  BY <1>1, <1>4
<1> QED BY <1>1, <1>2, <1>3, <1>5 DEF IterInv

(* next() goes from element to element, whatever the blocks are *)
LEMMA IterInductive == Spec => [](IInv /\ IterInv)
<1>1. Init => IterInv
  BY DequeAssumption DEF Init, IterInv, IterSet, NoIterator, Valid
<1>2. IInv /\ IterInv /\ [Next]_vars => IterInv'
  <2> SUFFICES ASSUME IInv, IterInv, [Next]_vars PROVE IterInv'
    OBVIOUS
  <2>1. CASE Mutate
    BY <2>1, MutationInvalidates
  <2>2. CASE Iterate
    BY <2>2, IterateStep
  <2>3. CASE NextStops
    BY <2>3, NextStopsStep
  <2>4. CASE NextItem
    BY <2>4, NextItemStep
  <2>5. CASE BeginTrace \/ TraceStep \/ UNCHANGED vars
    <3>1. UNCHANGED <<dequeVars, iterVars>>
      BY <2>5 DEF BeginTrace, TraceStep, TraceItem, TraceAgain, vars
    <3> QED BY <3>1, NothingIterated
  <2>6. ASSUME NEW v \in Value, PushFrontInBlock(v) \/ PushBackInBlock(v) PROVE Mutate
    BY <2>6 DEF PushFrontInBlock, PushBackInBlock, Grow
  <2>7. ASSUME NEW v \in Value, NEW b \in Unused,
               PushFrontNewBlock(v, b) \/ PushBackNewBlock(v, b)
        PROVE  Mutate
    BY <2>7 DEF PushFrontNewBlock, PushBackNewBlock, Grow
  <2>8. PopEmpty \/ Clear => Mutate
    BY DEF PopEmpty, Clear
  <2>9. PopFrontInBlock \/ PopFrontBlock \/ PopBackInBlock \/ PopBackBlock => Mutate
    BY DEF PopFrontInBlock, PopFrontBlock, PopBackInBlock, PopBackBlock, Shrink
  <2> QED BY <2>1, <2>2, <2>3, <2>4, <2>5, <2>6, <2>7, <2>8, <2>9 DEF Next
<1> QED BY <1>1, <1>2, Inductive, PTL DEF Spec

(* An iterator over a deque that does not change returns each element once, *)
(* from the front on, and ends after the last one.                          *)
THEOREM IteratorsReturnTheElements == Spec => []IterationIsFaithful
<1>1. IInv /\ IterInv => IterationIsFaithful
  BY Faithful
<1> QED BY <1>1, IterInductive, PTL

-----------------------------------------------------------------------------
(* copyElements().                                                         *)

(* n items from the position s after the first on are a part of the elements *)
LEMMA Suffix ==
    ASSUME size \in Nat, headPos \in Nat, NEW s \in 0..size
    PROVE  [i \in 1..(size - s) |-> At(headPos + s + i - 1)] = SubSeq(Elements, s + 1, size)
<1> DEFINE e == ElementsOf(chain, items, headPos, size)
           f == [i \in 1..(size - s) |-> At(headPos + s + i - 1)]
           W == {ItemAt(chain, items, headPos + i - 1) : i \in 1..size}
<1>1. \A i \in 1..size : ItemAt(chain, items, headPos + i - 1) \in W
  OBVIOUS
<1> HIDE DEF W
<1>2. /\ e \in [1..size -> W] /\ e \in Seq(W) /\ Len(e) = size
      /\ \A i \in 1..size : e[i] = ItemAt(chain, items, headPos + i - 1)
  <2>1. e \in [1..size -> W] /\ \A i \in 1..size : e[i] = ItemAt(chain, items, headPos + i - 1)
    BY <1>1 DEF ElementsOf
  <2> HIDE DEF e
  <2> QED BY <2>1
<1> HIDE DEF e
<1>3. \A i \in 1..(size - s) : s + i \in 1..size /\ i + (s + 1) - 1 = s + i /\ s + 1 + i - 1 = s + i
  OBVIOUS
<1>4. SubSeq(e, s + 1, size) = [i \in 1..(size - s) |-> e[s + i]]
  <2>1. \A i \in (s + 1)..size : e[i] \in W
    BY <1>2
  <2>2. s + 1 \in Nat /\ size - (s + 1) + 1 = size - s
    OBVIOUS
  <2>3. SubSeq(e, s + 1, size) \in Seq(W)
    BY <1>2, <2>1, <2>2
  <2>4. Len(SubSeq(e, s + 1, size)) = size - s
    BY <1>2, <2>1, <2>2
  <2>5. \A i \in 1..(size - s) : SubSeq(e, s + 1, size)[i] = e[s + i]
    BY <1>2, <1>3, <2>1, <2>2
  <2> QED BY <2>3, <2>4, <2>5
<1>5. \A i \in 1..(size - s) : At(headPos + s + i - 1) = e[s + i]
  <2> SUFFICES ASSUME NEW i \in 1..(size - s) PROVE At(headPos + s + i - 1) = e[s + i]
    OBVIOUS
  <2>1. e[s + i] = ItemAt(chain, items, headPos + (s + i) - 1)
    BY <1>2, <1>3
  <2>2. headPos + (s + i) - 1 = headPos + s + i - 1
    OBVIOUS
  <2>3. At(headPos + s + i - 1) = ItemAt(chain, items, headPos + s + i - 1)
    BY DEF At, ItemAt
  <2> QED BY <2>1, <2>2, <2>3
<1>6. Elements = e
  BY ElementsAre DEF e
<1> QED BY <1>4, <1>5, <1>6

(* copyElements() copies as many items as it was asked for *)
LEMMA Copied ==
    ASSUME IInv, chain # <<>>, NEW s \in 0..size
    PROVE  Written(s, size) = [i \in 1..(size - s) |-> At(headPos + s + i - 1)]
<1> DEFINE last == (Len(chain) - 1) * BlockSize
           start == headPos + s
           n == Least(size, size - s)
           early == Least(n, Most(last - start, 0))
           rest == Most(start, last)
           late == IF n > early /\ rest < last + tailPos THEN last + tailPos - rest ELSE 0
           count == IF start \div BlockSize < Len(chain) THEN early + late ELSE 0
<1>1. /\ headPos + size = last + tailPos /\ last \in Nat
      /\ Len(chain) * BlockSize = last + BlockSize
      /\ tailPos > 0 /\ tailPos \in 0..BlockSize /\ size \in Nat
      /\ headPos \in 0..(BlockSize - 1) /\ BlockSize \in Nat \ {0}
  BY EndPosition
<1>2. Len(chain) \in Nat
  BY InUse
<1> HIDE DEF last
<1>3. n = size - s /\ n \in Nat /\ start \in Nat /\ n = last + tailPos - start
  BY <1>1 DEF Least
<1>4. early + late = n
  <2> HIDE DEF n, start
  <2>1. CASE start < last
    <3>1. Most(last - start, 0) = last - start /\ rest = last
      BY <1>1, <1>3, <2>1 DEF Most
    <3>2. early = last - start
      BY <1>1, <1>3, <2>1, <3>1 DEF Least
    <3>3. late = tailPos
      BY <1>1, <1>3, <2>1, <3>1, <3>2
    <3> HIDE DEF early, late
    <3> QED BY <1>1, <1>3, <3>2, <3>3
  <2>2. CASE ~(start < last)
    <3>1. Most(last - start, 0) = 0 /\ rest = start
      BY <1>1, <1>3, <2>2 DEF Most
    <3>2. early = 0
      BY <1>3, <3>1 DEF Least
    <3>3. late = n
      BY <1>1, <1>3, <3>1, <3>2
    <3> HIDE DEF early, late
    <3> QED BY <1>3, <3>2, <3>3
  <2> QED BY <2>1, <2>2
<1>5. start \div BlockSize >= Len(chain) => n = 0
  <2> HIDE DEF n, start
  <2> SUFFICES ASSUME start \div BlockSize >= Len(chain) PROVE n = 0
    OBVIOUS
  <2>1. PICK q \in Nat, r \in 0..(BlockSize - 1) :
          start \div BlockSize = q /\ start = q * BlockSize + r
    BY <1>1, <1>3, Division
  <2>2. q * BlockSize \in Nat /\ q * BlockSize >= Len(chain) * BlockSize
    <3>1. CASE q = Len(chain)
      BY <1>1, <1>2, <3>1
    <3>2. CASE Len(chain) < q
      BY <1>1, <1>2, <3>2, Above
    <3> QED BY <1>2, <2>1, <3>1, <3>2
  <2> QED BY <1>1, <1>3, <2>1, <2>2
<1>6. count = size - s
  <2>1. start \div BlockSize \in Int
    <3> HIDE DEF start
    <3> QED BY <1>1, <1>3
  <2> HIDE DEF n, start, early, late
  <2> QED BY <1>2, <1>3, <1>4, <1>5, <2>1
<1>7. Written(s, size) = [i \in 1..count |-> At(start + i - 1)]
  BY DEF Written, last
<1> HIDE DEF count
<1> QED BY <1>6, <1>7

(* Copying what follows an offset copies exactly the elements there, for    *)
(* every number of blocks and every place they start and end at.            *)
THEOREM CopiesAreExact == Spec => []CopyOfRestIsExact
<1>1. IInv => CopyOfRestIsExact
  <2> SUFFICES ASSUME IInv, NEW s \in 0..size
               PROVE  Written(s, size) = SubSeq(Elements, s + 1, size)
    BY DEF CopyOfRestIsExact
  <2>1. size \in Nat /\ headPos \in Nat /\ headPos \in 0..(BlockSize - 1)
    BY DEF IInv, TypeOK
  <2>2. CASE chain # <<>>
    BY <2>1, <2>2, Copied, Suffix
  <2>3. CASE chain = <<>>
    <3>1. size = 0 /\ s = 0 /\ Len(chain) = 0
      BY <2>3, NotInUse
    <3>2. Written(s, size) = [i \in 1..(size - s) |-> At(headPos + s + i - 1)]
      <4>1. ~((headPos + s) \div BlockSize < Len(chain))
        <5>1. headPos + s \in Nat
          BY <2>1
        <5>2. (headPos + s) \div BlockSize \in Nat
          BY <5>1, Division, DequeAssumption
        <5> QED BY <3>1, <5>2
      <4>2. 1..(size - s) = 1..0
        BY <3>1
      <4> QED BY <4>1, <4>2 DEF Written
    <3> QED BY <2>1, <3>2, Suffix
  <2> QED BY <2>2, <2>3
<1> QED BY <1>1, Inductive, PTL
=============================================================================

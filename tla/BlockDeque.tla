----------------------------- MODULE BlockDeque -----------------------------
(***************************************************************************)
(* The double-ended queue of the Tart library (lib/std/tart/collections/   *)
(* Deque.tart): a doubly linked list of blocks of BlockSize items, of      *)
(* which the first is used from _headPos on and the last up to _tailPos.   *)
(* One iterator may be open while the program goes on to push and pop, and *)
(* the collector may call __trace().                                       *)
(***************************************************************************)
EXTENDS Integers, SequencesExt

CONSTANTS
    Block,          \* the addresses blocks may be given
    Value,
    BlockSize,
    Nil,            \* the null block
    Junk,           \* what an item that was never set holds
    IndexError, Nothing,
    MaxSize,        \* bound: elements in the deque
    MaxMutations    \* bound: operations that change it

ASSUME DequeAssumption ==
    /\ BlockSize \in Nat \ {0}
    /\ Nil \notin Block
    /\ Junk \notin Value
    /\ MaxSize \in Nat /\ MaxMutations \in Nat

VARIABLES
    next, prev, items,               \* the fields of every block
    headBlk, headPos, tailBlk, tailPos, size, mutationIndex,
    result,                          \* what the last operation returned or threw
    iterator,                        \* the open iterator, or NoIterator
    produced,                        \* history: what it returned so far
    traced,                          \* the block and position __trace() is at
    chain                            \* history: the blocks in use, in order

dequeVars == <<next, prev, items, headBlk, headPos, tailBlk, tailPos, size,
               mutationIndex, result, chain>>
iterVars  == <<iterator, produced>>
vars      == <<dequeVars, iterVars, traced>>

NotTracing == [blk |-> Nil, pos |-> 0]
NoIterator == [blk |-> Nil, pos |-> 0, mutationIndex |-> 0, open |-> FALSE]

(* The item p places after the start of the first block, and the elements *)
At(p)    == items[chain[p \div BlockSize + 1]][p % BlockSize]
Elements == [i \in 1..size |-> At(headPos + i - 1)]

-----------------------------------------------------------------------------
Init ==
    /\ next = [b \in Block |-> Nil] /\ prev = [b \in Block |-> Nil]
    /\ items = [b \in Block |-> [i \in 0..(BlockSize - 1) |-> Junk]]
    /\ headBlk = Nil /\ headPos = 0
    /\ tailBlk = Nil /\ tailPos = 0
    /\ size = 0 /\ mutationIndex = 0
    /\ result = Nothing
    /\ iterator = NoIterator /\ produced = <<>>
    /\ traced = NotTracing
    /\ chain = <<>>

(* The program runs, and the bounds leave room for one more operation *)
Mutate == /\ traced = NotTracing
          /\ mutationIndex < MaxMutations
          /\ mutationIndex' = mutationIndex + 1
          /\ UNCHANGED <<iterVars, traced>>

Grow == Mutate /\ size < MaxSize /\ size' = size + 1 /\ result' = Nothing

(* A new block: one that neither the deque nor the iterator refers to *)
Unused == Block \ ({chain[i] : i \in DOMAIN chain} \cup {iterator.blk})

OneItem(i, v) == [j \in 0..(BlockSize - 1) |-> IF j = i THEN v ELSE Junk]

-----------------------------------------------------------------------------
(* Mutant: the first block of a deque does not set _tailPos *)
PushFrontForgetsTailPos(v, b) ==
    /\ Grow
    /\ headBlk = Nil \/ headPos = 0
    /\ headPos' = BlockSize - 1
    /\ next' = [next EXCEPT ![b] = headBlk]
    /\ items' = [items EXCEPT ![b] = OneItem(BlockSize - 1, v)]
    /\ prev' = [c \in Block |-> IF c = b THEN Nil ELSE IF c = headBlk THEN b ELSE prev[c]]
    /\ tailBlk' = IF headBlk = Nil THEN b ELSE tailBlk
    /\ headBlk' = b
    /\ chain' = <<b>> \o chain
    /\ UNCHANGED tailPos

(* pushFront() *)
PushFrontNewBlock(v, b) ==
    /\ Grow
    /\ headBlk = Nil \/ headPos = 0
    /\ headPos' = BlockSize - 1
    /\ next' = [next EXCEPT ![b] = headBlk]
    /\ items' = [items EXCEPT ![b] = OneItem(BlockSize - 1, v)]
    /\ prev' = [c \in Block |-> IF c = b THEN Nil ELSE IF c = headBlk THEN b ELSE prev[c]]
    /\ \/ headBlk = Nil /\ tailBlk' = b /\ tailPos' = BlockSize
       \/ headBlk # Nil /\ UNCHANGED <<tailBlk, tailPos>>
    /\ headBlk' = b
    /\ chain' = <<b>> \o chain

PushFrontInBlock(v) ==
    /\ Grow
    /\ headBlk # Nil /\ headPos # 0
    /\ headPos' = headPos - 1
    /\ items' = [items EXCEPT ![headBlk][headPos - 1] = v]
    /\ UNCHANGED <<next, prev, headBlk, tailBlk, tailPos, chain>>

(* pushBack() *)
PushBackNewBlock(v, b) ==
    /\ Grow
    /\ tailBlk = Nil \/ tailPos = BlockSize
    /\ tailPos' = 1
    /\ prev' = [prev EXCEPT ![b] = tailBlk]
    /\ items' = [items EXCEPT ![b] = OneItem(0, v)]
    /\ next' = [c \in Block |-> IF c = b THEN Nil ELSE IF c = tailBlk THEN b ELSE next[c]]
    /\ \/ tailBlk = Nil /\ headBlk' = b /\ headPos' = 0
       \/ tailBlk # Nil /\ UNCHANGED <<headBlk, headPos>>
    /\ tailBlk' = b
    /\ chain' = Append(chain, b)

PushBackInBlock(v) ==
    /\ Grow
    /\ tailBlk # Nil /\ tailPos # BlockSize
    /\ tailPos' = tailPos + 1
    /\ items' = [items EXCEPT ![tailBlk][tailPos] = v]
    /\ UNCHANGED <<next, prev, headBlk, headPos, tailBlk, chain>>

(* popFront() and popBack() of an empty deque throw, but have counted a     *)
(* mutation                                                                 *)
PopEmpty ==
    /\ Mutate
    /\ size = 0
    /\ result' = IndexError
    /\ UNCHANGED <<next, prev, items, headBlk, headPos, tailBlk, tailPos, size, chain>>

Shrink == Mutate /\ size > 0 /\ size' = size - 1 /\ UNCHANGED items

(* Mutant: a block that is used up stays the tail                          *)
PopFrontKeepsTail ==
    /\ Shrink
    /\ result' = items[headBlk][headPos]
    /\ headPos + 1 = BlockSize
    /\ prev' = [b \in Block |-> IF b = next[headBlk] THEN Nil ELSE prev[b]]
    /\ headBlk' = next[headBlk] /\ headPos' = 0
    /\ chain' = Tail(chain)
    /\ UNCHANGED <<next, tailBlk, tailPos>>

(* popFront(): the first block goes when its last item does *)
PopFrontInBlock ==
    /\ Shrink
    /\ result' = items[headBlk][headPos]
    /\ headPos + 1 # BlockSize
    /\ headPos' = headPos + 1
    /\ UNCHANGED <<next, prev, headBlk, tailBlk, tailPos, chain>>

PopFrontBlock ==
    /\ Shrink
    /\ result' = items[headBlk][headPos]
    /\ headPos + 1 = BlockSize
    /\ \/ next[headBlk] = Nil /\ tailBlk' = Nil /\ UNCHANGED prev
       \/ /\ next[headBlk] # Nil
          /\ prev' = [prev EXCEPT ![next[headBlk]] = Nil]
          /\ UNCHANGED tailBlk
    /\ headBlk' = next[headBlk] /\ headPos' = 0
    /\ chain' = Tail(chain)
    /\ UNCHANGED <<next, tailPos>>

(* Mutant: the position is decremented after the item was read *)
PopBackReadsNext ==
    /\ Shrink
    /\ tailPos - 1 # 0
    /\ result' = IF tailPos < BlockSize THEN items[tailBlk][tailPos] ELSE Junk
    /\ tailPos' = tailPos - 1
    /\ UNCHANGED <<next, prev, headBlk, headPos, tailBlk, chain>>

(* popBack(): the last block goes when its first item does *)
PopBackInBlock ==
    /\ Shrink
    /\ result' = items[tailBlk][tailPos - 1]
    /\ tailPos - 1 # 0
    /\ tailPos' = tailPos - 1
    /\ UNCHANGED <<next, prev, headBlk, headPos, tailBlk, chain>>

PopBackBlock ==
    /\ Shrink
    /\ result' = items[tailBlk][tailPos - 1]
    /\ tailPos - 1 = 0
    /\ \/ prev[tailBlk] = Nil /\ headBlk' = Nil /\ UNCHANGED next
       \/ /\ prev[tailBlk] # Nil
          /\ next' = [next EXCEPT ![prev[tailBlk]] = Nil]
          /\ UNCHANGED headBlk
    /\ tailBlk' = prev[tailBlk] /\ tailPos' = BlockSize
    /\ chain' = Front(chain)
    /\ UNCHANGED <<prev, headPos>>

Clear ==
    /\ Mutate
    /\ headBlk' = Nil /\ tailBlk' = Nil /\ headPos' = 0 /\ tailPos' = 0
    /\ size' = 0 /\ result' = Nothing
    /\ chain' = <<>>
    /\ UNCHANGED <<next, prev, items>>

-----------------------------------------------------------------------------
(* iterate(), and next() on the iterator: it throws once the deque changed, *)
(* and returns void when it has left the last block.                        *)
Iterate ==
    /\ traced = NotTracing
    /\ iterator' = [blk |-> headBlk, pos |-> headPos,
                    mutationIndex |-> mutationIndex, open |-> TRUE]
    /\ produced' = <<>>
    /\ UNCHANGED <<dequeVars, traced>>

Valid == iterator.open /\ iterator.mutationIndex = mutationIndex

NextStops ==
    /\ traced = NotTracing
    /\ iterator.open /\ (~Valid \/ iterator.blk = Nil)
    /\ iterator' = NoIterator /\ produced' = <<>>
    /\ UNCHANGED <<dequeVars, traced>>

EndOf(b) == IF b = tailBlk THEN tailPos ELSE BlockSize

(* Mutant: the last block is taken to be full *)
NextItemIgnoresTail ==
    /\ traced = NotTracing
    /\ Valid /\ iterator.blk # Nil
    /\ produced' = Append(produced, items[iterator.blk][iterator.pos])
    /\ iterator' = IF iterator.pos + 1 >= BlockSize
                   THEN [iterator EXCEPT !.blk = next[iterator.blk], !.pos = 0]
                   ELSE [iterator EXCEPT !.pos = @ + 1]
    /\ UNCHANGED <<dequeVars, traced>>

NextItem ==
    /\ traced = NotTracing
    /\ Valid /\ iterator.blk # Nil
    /\ produced' = Append(produced, items[iterator.blk][iterator.pos])
    /\ iterator' = IF iterator.pos + 1 >= EndOf(iterator.blk)
                   THEN [iterator EXCEPT !.blk = next[iterator.blk], !.pos = 0]
                   ELSE [iterator EXCEPT !.pos = @ + 1]
    /\ UNCHANGED <<dequeVars, traced>>

(* __trace(), during a collection: the items of the first block, and then  *)
(* those of the block it is at, which never changes.                       *)
BeginTrace ==
    /\ traced = NotTracing /\ headBlk # Nil
    /\ traced' = [blk |-> headBlk, pos |-> headPos]
    /\ UNCHANGED <<dequeVars, iterVars>>

TraceItem ==
    /\ traced # NotTracing /\ traced.pos < EndOf(traced.blk)
    /\ traced' = [traced EXCEPT !.pos = @ + 1]
    /\ UNCHANGED <<dequeVars, iterVars>>

TraceAgain ==
    /\ traced # NotTracing /\ traced.pos >= EndOf(traced.blk)
    /\ traced' = [traced EXCEPT !.pos = IF traced.blk = headBlk THEN headPos ELSE 0]
    /\ UNCHANGED <<dequeVars, iterVars>>

TraceStep == TraceItem \/ TraceAgain

Next ==
    \/ \E v \in Value : PushFrontInBlock(v) \/ PushBackInBlock(v)
    \/ \E v \in Value, b \in Unused : PushFrontNewBlock(v, b) \/ PushBackNewBlock(v, b)
    \/ PopEmpty \/ PopFrontInBlock \/ PopFrontBlock \/ PopBackInBlock \/ PopBackBlock
    \/ Clear
    \/ Iterate \/ NextStops \/ NextItem
    \/ BeginTrace \/ TraceStep

Spec == Init /\ [][Next]_vars

-----------------------------------------------------------------------------
(* The blocks, and what refers to them and counts them, stay in their type. *)
Items == [0..(BlockSize - 1) -> Value \cup {Junk}]

TypeOK ==
    /\ next \in [Block -> Block \cup {Nil}] /\ prev \in [Block -> Block \cup {Nil}]
    /\ items \in [Block -> Items]
    /\ headBlk \in Block \cup {Nil} /\ headPos \in 0..(BlockSize - 1)
    /\ tailBlk \in Block \cup {Nil} /\ tailPos \in 0..BlockSize
    /\ size \in Nat /\ mutationIndex \in Nat
    /\ chain \in Seq(Block)

(* The blocks in use form one doubly linked list, without repetition, from *)
(* _headBlk to _tailBlk, and both are null together.                       *)
WellLinked ==
    /\ headBlk = IF chain = <<>> THEN Nil ELSE chain[1]
    /\ tailBlk = IF chain = <<>> THEN Nil ELSE Last(chain)
    /\ \A i, j \in DOMAIN chain : chain[i] = chain[j] => i = j
    /\ \A i \in DOMAIN chain :
          /\ next[chain[i]] = IF i = Len(chain) THEN Nil ELSE chain[i + 1]
          /\ prev[chain[i]] = IF i = 1 THEN Nil ELSE chain[i - 1]

(* _size counts the places from _headPos in the first block to _tailPos in *)
(* the last one, which is never left without a place in use or given up.   *)
SizeIsExact ==
    /\ chain = <<>> => size = 0
    /\ chain # <<>> => /\ size = (Len(chain) - 1) * BlockSize + tailPos - headPos
                       /\ tailPos > 0

(* The deque is the sequence its operations describe, whatever blocks they *)
(* were placed in.                                                         *)
Abstract == INSTANCE AbstractDeque WITH queue <- Elements
ImplementsDeque == Abstract!DequeSpec

(* An iterator that does not throw returns the elements from the front on, *)
(* each once, and ends after the last.  Over an empty deque that kept a    *)
(* block it returns one item that is no element, so that case is left out. *)
IterationIsFaithful ==
    Valid /\ size > 0 =>
        /\ Len(produced) <= size
        /\ produced = SubSeq(Elements, 1, Len(produced))
        /\ iterator.blk = Nil => produced = Elements

(* What copyElements() writes, given how many elements to skip and to copy *)
Least(m, n) == IF m <= n THEN m ELSE n
Most(m, n)  == IF m >= n THEN m ELSE n

(* Mutant: _headPos is not skipped *)
WrittenFromBlockStart(srcOffset, count) ==
    [i \in 1..Least(count, size - srcOffset) |-> At(srcOffset + i - 1)]

Written(srcOffset, count) ==
    LET n       == Least(count, size - srcOffset)
        start   == headPos + srcOffset
        last    == (Len(chain) - 1) * BlockSize     \* where the last block begins
        early   == Least(n, Most(last - start, 0))
        rest    == Most(start, last)
        late    == IF n > early /\ rest < last + tailPos THEN last + tailPos - rest ELSE 0
    IN  [i \in 1..(IF start \div BlockSize < Len(chain) THEN early + late ELSE 0)
            |-> At(start + i - 1)]

(* Copying all that follows an offset writes exactly the elements there.   *)
(* With a smaller count the last block is copied to its end all the same.  *)
CopyOfRestIsExact ==
    \A srcOffset \in 0..size :
        Written(srcOffset, size) = SubSeq(Elements, srcOffset + 1, size)
=============================================================================

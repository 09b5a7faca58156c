---------------------------- MODULE AbstractDeque ---------------------------
(***************************************************************************)
(* What a Deque (lib/std/tart/collections/Deque.tart) promises: a sequence *)
(* that grows and shrinks at both ends, and an error, which changes        *)
(* nothing, for a pop of an empty one.                                     *)
(***************************************************************************)
EXTENDS Integers, Sequences

CONSTANTS Value, IndexError, Nothing

VARIABLES
    queue,    \* the elements, front first
    result    \* what the last operation returned or threw

dequeVars == <<queue, result>>

DequeInit == queue = <<>> /\ result = Nothing

Changes(q, r) == queue' = q /\ result' = r

DequeNext ==
    \/ \E v \in Value : \/ Changes(<<v>> \o queue, Nothing)
                        \/ Changes(Append(queue, v), Nothing)
    \/ queue # <<>> /\ Changes(Tail(queue), queue[1])
    \/ queue # <<>> /\ Changes(SubSeq(queue, 1, Len(queue) - 1), queue[Len(queue)])
    \/ queue = <<>> /\ Changes(queue, IndexError)
    \/ Changes(<<>>, Nothing)

DequeSpec == DequeInit /\ [][DequeNext]_dequeVars
=============================================================================

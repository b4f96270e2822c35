------------------------------ MODULE InputQueue -------------------------------
(* What the image may rely on of its input: a queue of bounded length that   *)
(* forgets the oldest event, and no other, when one more arrives.            *)
EXTENDS Integers, Sequences

CONSTANTS Events, Capacity

VARIABLE queue

Init == queue = <<>>

Record(e) ==
  queue' = IF Len(queue) = Capacity THEN Append(Tail(queue), e) ELSE Append(queue, e)

Get ==
  /\ queue # <<>>
  /\ queue' = Tail(queue)

Next == (\E e \in Events : Record(e)) \/ Get

Spec == Init /\ [][Next]_queue
=============================================================================

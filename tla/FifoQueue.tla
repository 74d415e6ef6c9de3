----------------------------- MODULE FifoQueue -----------------------------
(***************************************************************************)
(* What the write buffer promises its two users, the RTS threads that      *)
(* queue eventlog blocks and the worker thread that sends them: a first-in *)
(* first-out queue of blocks.  A block is [val, data, size], the payload   *)
(* it was queued with, how many of its bytes were sent already and how     *)
(* many are left.                                                          *)
(***************************************************************************)
EXTENDS Naturals, Sequences

CONSTANTS Payload, MaxSize

VARIABLE queue

Init == queue = <<>>

\* A block goes to the back with none of its bytes sent.
Push == \E v \in Payload, n \in 1..MaxSize :
          queue' = Append(queue, [val |-> v, data |-> 0, size |-> n])

\* The first block leaves.
Pop == queue # <<>> /\ queue' = Tail(queue)

\* A proper part of the first block was sent.
Advance == /\ queue # <<>>
           /\ \E k \in 1..(queue[1].size - 1) :
                queue' = [queue EXCEPT ![1] =
                            [val |-> @.val, data |-> @.data + k, size |-> @.size - k]]

Next == Push \/ Pop \/ Advance

Spec == Init /\ [][Next]_queue
=============================================================================

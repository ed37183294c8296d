----------------------------- MODULE SampleStream -----------------------------
(***************************************************************************)
(* What complex_manager promises to the block: a queue of samples.  The    *)
(* samples of a packet join at the end all together; a call of             *)
(* fill_buffers is handed samples from the front, in order and each once;  *)
(* and the only way to lose any is to drop everything that waits, which an *)
(* update does.  A sample is its number in the order of arrival.           *)
(***************************************************************************)
EXTENDS Integers, Sequences

CONSTANT Capacity       \* more samples than can ever wait

VARIABLES
  arrived,              \* samples that have arrived so far
  queue,                \* samples that wait
  handed                \* samples in the hands of a caller of fill_buffers

vars == <<arrived, queue, handed>>

\* The samples from number first on, n of them.
Samples(first, n) == [k \in 1 .. n |-> first + k - 1]

Init == arrived = 0 /\ queue = << >> /\ handed = << >>

\* A packet of n samples arrives.
Arrive(n) == /\ Len(queue) + n < Capacity
             /\ queue' = queue \o Samples(arrived + 1, n)
             /\ arrived' = arrived + n
             /\ UNCHANGED handed

\* A caller with nothing in its hands is given the first n samples.
Hand(n) == /\ handed = << >>
           /\ handed' = SubSeq(queue, 1, n)
           /\ queue' = SubSeq(queue, n + 1, Len(queue))
           /\ UNCHANGED arrived

Return == handed' = << >> /\ UNCHANGED <<arrived, queue>>

Drop == queue' = << >> /\ UNCHANGED <<arrived, handed>>

Next == \/ \E n \in 0 .. Capacity : Arrive(n)
        \/ \E n \in 1 .. Len(queue) : Hand(n)
        \/ Return
        \/ Drop

Spec == Init /\ [][Next]_vars
=============================================================================

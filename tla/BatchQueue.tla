------------------------------ MODULE BatchQueue ------------------------------
(***************************************************************************)
(* What udp_listener promises to the thread that parses its data: a queue  *)
(* of datagrams that is emptied a whole batch at a time.  Datagrams leave  *)
(* in the order they arrived, none is handed over twice, the batch in the  *)
(* reader's hands does not change while it is being read, and the only way *)
(* to lose data is to drop everything that is waiting.                     *)
(***************************************************************************)
EXTENDS Naturals, Sequences

CONSTANT Datagrams      \* everything the network may hand to recv()

VARIABLES
  pending,              \* datagrams stored and not yet handed over
  batch                 \* datagrams in the hands of the reader

vars == <<pending, batch>>

Init == pending = << >> /\ batch = << >>

Arrive(d) == /\ pending' = Append(pending, d)
             /\ UNCHANGED batch

\* The datagram that fills the buffer takes everything waiting with it.
ArriveAndDrop == pending' = << >> /\ UNCHANGED batch

\* The reader has nothing in its hands and is given all there is.
Take == /\ batch = << >>
        /\ batch' = pending
        /\ pending' = << >>

Release == batch' = << >> /\ UNCHANGED pending

Next == \/ \E d \in Datagrams : Arrive(d)
        \/ ArriveAndDrop
        \/ Take
        \/ Release

Spec == Init /\ [][Next]_vars
=============================================================================

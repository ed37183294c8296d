------------------------------ MODULE MCPicoSink -------------------------------
(* Two bandwidths: the wide one has a rate that is too high for the block. *)
EXTENDS PicoSink, TLC

MCAvailable == (1 :> {1, 2}) @@ (2 :> {2, 4})

MCPowerUp == {[rate |-> 2, bw |-> 1]}

=============================================================================

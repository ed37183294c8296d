------------------------------- MODULE MCPicoSrc -------------------------------
(* One restart, and a rate that is too high for the block.                 *)
EXTENDS PicoSrc

=============================================================================

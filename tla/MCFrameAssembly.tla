--------------------------- MODULE MCFrameAssembly ----------------------------
(* Frames of five and seven words, datagrams that end anywhere in them.    *)
EXTENDS FrameAssembly

MCSizes == <<7, 5, 5, 7, 5>>

WordsOfFrames ==
  FlattenSeq([f \in DOMAIN MCSizes |-> [i \in 1 .. MCSizes[f] |-> [f |-> f, k |-> i - 1]]])

\* TLC keeps the value of a definition, but not of the one a constant is given.
MCStream == WordsOfFrames

MCMisreadings == [size : {3, 12}, outcome : {"done", "index_error", "runtime_error"}]

=============================================================================

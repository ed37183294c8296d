--------------------------- MODULE MCComplexManager ---------------------------
(***************************************************************************)
(* ComplexManager on buffers of three or four samples and packets of one   *)
(* or two: the write side fills up, packets are looked at again, and the   *)
(* two sides are swapped several times.                                    *)
(***************************************************************************)
EXTENDS ComplexManager

\* A tuner is chosen or none is; a .cfg file has no negative numbers.
OnOrOff == {-1, 1}
=============================================================================

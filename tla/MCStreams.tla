------------------------------ MODULE MCStreams ------------------------------
(* Small instances of Streams for TLC. *)
EXTENDS Streams, TLC

CONSTANTS p1, p2, d1, d2

\* Two configurations that differ in everything.
TwoSettings == {[bin |-> p1, dir |-> d1], [bin |-> p2, dir |-> d2]}
=============================================================================

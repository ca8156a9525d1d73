----------------------------- MODULE MCSkytraq -----------------------------
(* The instance of Skytraq that is checked. *)
EXTENDS Skytraq

\* Two positions with the same checksum that could be mixed.
TwoPositions == {<<1, 2>>, <<2, 1>>}
=============================================================================

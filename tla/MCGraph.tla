------------------------------ MODULE MCGraph ------------------------------
(* The instance of Graph that is checked. *)
EXTENDS Graph

BothPlugins == {"sqlite", "postgres"}
OnlySqlite == {"sqlite"}

\* A row that only a wider time span reaches, and three of the last seconds.
SomeAges == {<<8>>, <<4, 1, 1>>}
OnlyFilled == {<<4, 1>>}

EastAndWest == {-1, 1}
=============================================================================

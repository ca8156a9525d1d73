------------------------------ MODULE MCValues ------------------------------
(* The instance of Values that is checked. *)
EXTENDS Values

BothPlugins == {"sqlite", "postgres"}

Row(numbers, mode, lat, lng, near_lat, near_lng) ==
    [numbers |-> numbers, mode |-> mode, lat |-> lat, lng |-> lng,
     near_lat |-> near_lat, near_lng |-> near_lng]

All == {"consumption_per_100km", "consumption_per_h", "speed"}

\* Driving; further north, standing; a fix that is poor in one coordinate; no ECU
\* and no GPS, as SQLite gives it; no GPS, as PostgreSQL gives it, where an empty
\* column is read as 0; a location that is not known yet.
SomeRows ==
    { Row(All, 3, 1, 1, TRUE, TRUE),
      Row(All \ {"consumption_per_100km"}, 2, 2, 1, TRUE, TRUE),
      Row(All, 2, 3, 3, TRUE, FALSE),
      Row({}, 0, NaN, NaN, FALSE, FALSE),
      Row({"speed"}, 0, NaN, NaN, TRUE, TRUE),
      Row({"speed"}, 0, 0, 0, TRUE, TRUE) }
=============================================================================

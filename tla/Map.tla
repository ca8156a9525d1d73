-------------------------------- MODULE Map --------------------------------
(***************************************************************************)
(* The map of the web client (html/js/map.js): a marker for the car, moved   *)
(* by setLocation.  What leaflet draws is not modelled; a location is a pair  *)
(* of coordinates in small numbers.                                          *)
(***************************************************************************)
EXTENDS Integers

VARIABLES
    lastLocation,   \* the location the map was last moved to
    marker          \* where the marker is

mapVars == <<lastLocation, marker>>

NaN == -1           \* no coordinate is negative here
Nowhere == <<0, 0>>
Frankfurt == <<9, 9>>

MapInit == lastLocation = Nowhere /\ marker = Frankfurt

IsLocation_NotZero(lat, lng) == <<lat, lng>> # Nowhere
IsLocation(lat, lng) == lat # NaN /\ lng # NaN /\ <<lat, lng>> # Nowhere

\* The location counts as new only when both coordinates have changed: while the
\* car drives due north or due east the marker stays behind.
Moved(lat, lng) == lat # lastLocation[1] /\ lng # lastLocation[2]

SetLocation(lat, lng) ==
    IF IsLocation(lat, lng) /\ Moved(lat, lng)
    THEN lastLocation' = <<lat, lng>> /\ marker' = <<lat, lng>>
    ELSE UNCHANGED mapVars
=============================================================================

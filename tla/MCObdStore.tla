----------------------------- MODULE MCObdStore -----------------------------
(* The instance of ObdStore that is checked: the three writers of the code  *)
(* with their own layouts, but only two of the fields of each.              *)
EXTENDS ObdStore

SmallFields == {"rpm", "speed", "latitude", "longitude", "fuel_level", "temp_oil"}

Kept(S) == S \subseteq SmallFields
Keep(S) == S \cap SmallFields
SmallLayouts ==
    [w \in Writers |->
        CASE w = "main"    -> { SelectSeq(l, Kept) : l \in SerialLayouts }
          [] w = "gps"     -> { << Keep(S[1]) >> : S \in GpsLayouts }
          [] w = "arduino" -> { << Keep(S[1]) >> : S \in ArduinoLayouts }]
=============================================================================

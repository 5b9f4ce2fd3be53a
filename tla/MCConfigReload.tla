--------------------------- MODULE MCConfigReload ---------------------------
(* The file names one of two providers, and a model of it.                 *)
EXTENDS ConfigReload

MCSeedProviders == [n \in Providers |-> IF n = "a" THEN "v1" ELSE Absent]
MCSeedModels == [m \in Models |-> "a"]
=============================================================================

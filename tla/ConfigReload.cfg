SPECIFICATION ConfigSpec
CONSTANTS
    Pods = {p1, p2}
    Providers = {"a", "b"}
    Models = {"m"}
    GoodEntries = {"v1", "v2"}
    BadEntry = "bad"
    SeedProviders <- MCSeedProviders
    SeedModels <- MCSeedModels
    Versions = {1, 2}
    MaxEdits = 3
    MaxCrashes = 2
PROPERTIES
    RowsSurviveSeeding
    PodsConverge

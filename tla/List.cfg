SPECIFICATION ListSpec
CONSTANTS
    small = small
    big = big
    Items = {small, big}
    Sizes <- MCSizes
    Providers = {p1}
    NoProvider = NoProvider
    InitialItems <- MCItems
    MaxCount = 4
    Lengths = {3, 4}
    Steps = 3
    MaxPosted = 2
    NoIndex = 99
    FarScrolls = FALSE
INVARIANTS ShowsItems RecyclesByIndex CoversList
PROPERTIES ScrollsToEnds FactorIsKept

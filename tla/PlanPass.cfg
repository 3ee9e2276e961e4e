SPECIFICATION Spec
CONSTANTS
    Modules <- Four
    Declared <- Builds
    Lifted <- Couplings
    DevOnlys <- Tracks
    Sizes <- Counts
    MinUnit = 3
    MaxUnit = 5
    Features <- Three
    FeatureGraphs <- FeatureCouplings
    MaxRests = 1
INVARIANTS
    ComponentsExact
    WavesAreDepths
    UnitsSound
    NeverThrows
    PlanKeepsDependencies
PROPERTIES
    PlanningEnds
CHECK_DEADLOCK FALSE

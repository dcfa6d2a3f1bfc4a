CONSTANTS
    Distances <- MCDistances
    Ranges <- MCRanges
    Stations <- MCStations
    AveragePrice = 2
    Cent = 4
SPECIFICATION Spec
INVARIANTS
    TypeOK
    LegsWithinRange
    NoRegret
    StrandedIffInfeasible
    ShownCostsAddUp
PROPERTY ImplementsPlan
CHECK_DEADLOCK FALSE

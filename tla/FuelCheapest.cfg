CONSTANTS
    Distances <- MCDistances
    Ranges <- MCRanges
    Stations <- FewStations
    AveragePrice = 2
    Cent = 4
SPECIFICATION Spec
INVARIANT CheapestPlan
CHECK_DEADLOCK FALSE

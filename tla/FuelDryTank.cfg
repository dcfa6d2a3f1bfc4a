CONSTANTS
    Distances <- MCDistances
    Ranges <- MCRanges
    Stations <- MCStations
    AveragePrice = 2
    Cent = 4
SPECIFICATION Spec
INVARIANT NeverRunsOutOfFuel
CHECK_DEADLOCK FALSE

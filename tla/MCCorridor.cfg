CONSTANTS
    Routes <- MCRoutes
    Stations <- MCStations
    Interval = 2
    Radius = 1
    Segment = 4
    Limit = 1
    Ranges <- MCRanges
    Mismatches <- MCMismatches
    Vehicles <- MCVehicles
    AveragePrice = 2
    Cent = 1
SPECIFICATION PlanSpec
INVARIANTS
    TypeOK
    CheckpointsSpanTheRoute
    OnlyPointsFail
    StationsStayInPlace
    ReductionCostsTwoSegments
    RoadLegsAreBounded
    GivesUpOnlyWithoutMargin
    NoTripIsLost
PROPERTY Terminates
CHECK_DEADLOCK FALSE

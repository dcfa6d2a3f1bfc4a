CONSTANTS
    w1 = w1
    w2 = w2
    oneTrip = oneTrip
    coupe = coupe
    truck = truck
    NoAnswer = NoAnswer
    Workers <- MCWorkers
    Trips <- MCTrips
    Configs <- MCConfigs
    RouteTTL = 2
    PlanTTL = 1
    WorkerTimeout = 1
SPECIFICATION Spec
INVARIANTS
    TypeOK
    StampedeBound
    UnusableRoutesExpire
PROPERTIES
    ImplementsService
    EveryRequestEnds

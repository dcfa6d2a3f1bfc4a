--------------------------- MODULE MCTripPlanner ---------------------------
EXTENDS TripPlanner, TLC

CONSTANTS w1, w2, oneTrip, coupe, truck

MCWorkers == {w1, w2}
MCTrips == {oneTrip}
MCConfigs == {coupe, truck}
=============================================================================

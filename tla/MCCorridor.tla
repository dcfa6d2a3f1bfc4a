---------------------------- MODULE MCCorridor ----------------------------
EXTENDS RoadPlan

\* Long routes, on which the cheap stations of two segments are as far apart as
\* they can be, and all routes of up to five points at most three miles apart.
MCRoutes ==
    {<<0, 2, 4, 7, 12, 15, 17>>, <<0, 2, 4, 6, 8, 10, 12, 14, 16>>, <<0>>} \cup {<<0, a>> : a \in 0..3} \cup
    {<<0, a, a + b, a + b + c, a + b + c + d>> : a, b, c, d \in {0, 1, 3}}

MCStations ==
    [mile : {2, 4, 15}, price : {1}] \cup [mile : {-1, 3, 7, 11}, price : {2}]

MCRanges == {1, 2, 3, 5}

\* A length that is right, and one that is wrong either way.
MCMismatches == {-1, 0, 1}

\* Vehicles that need stops, with and without the margin.
MCVehicles == {2, 3, 7, 12}
=============================================================================

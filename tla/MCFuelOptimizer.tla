-------------------------- MODULE MCFuelOptimizer --------------------------
EXTENDS FuelOptimizer

MCDistances == {0, 3, 6, 7}
MCRanges == {2, 3, 4}
MCStations == [at : {0, 1, 2, 4, 5}, price : {1, 3}]

\* One dear and one cheap station, for the runs that enumerate every fuelling.
FewStations == {[at |-> 2, price |-> 3], [at |-> 4, price |-> 1], [at |-> 5, price |-> 3]}
=============================================================================

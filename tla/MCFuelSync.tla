----------------------------- MODULE MCFuelSync -----------------------------
EXTENDS FuelSync, TLC

CONSTANTS p1, p2

MCProcesses == {p1, p2}
MCStates == <<"NY", "CA">>

City(c, p, ok) == [what |-> c, price |-> p, valid |-> ok]

\* NY has two cities, of which the second may be unreadable; CA has none.
MCAnswers ==
    [NY |-> {<<City("Albany", 1, TRUE), City("Utica", 1, b)>> : b \in BOOLEAN},
     CA |-> {<<>>}]

MCCapital == [NY |-> City("Capital NY", 1, TRUE), CA |-> City("Capital CA", 1, TRUE)]

Stop1(id, p, ok) == [id |-> id, what |-> "truckstop", price |-> p, valid |-> ok]

\* A file with a duplicate and an unreadable line, as in apps/fuel/tests.py.
MCFiles ==
    {<<Stop1(1, 1, TRUE), Stop1(1, 2, TRUE), Stop1(2, 1, FALSE)>>}

MCIds == 1..3

\* Two salts: without a collision, and with one.
MCHashes ==
    {("Albany" :> 1 @@ "Utica" :> 2 @@ "Capital CA" :> 3 @@ "Capital NY" :> 3),
     ("Albany" :> 2 @@ "Utica" :> 3 @@ "Capital CA" :> 3 @@ "Capital NY" :> 1)}
=============================================================================

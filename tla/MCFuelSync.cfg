CONSTANTS
    p1 = p1
    p2 = p2
    Empty = Empty
    Processes <- MCProcesses
    StateList <- MCStates
    Answers <- MCAnswers
    Capital <- MCCapital
    Files <- MCFiles
    Ids <- MCIds
    Hashes <- MCHashes
SPECIFICATION Spec
INVARIANTS
    TypeOK
    TableFollowsTheBatch
    OneRowPerCityAndSalt
PROPERTY EveryCommandEnds

------------------------------ MODULE FuelSync ------------------------------
(***************************************************************************)
(* The management commands that fill the FuelStation table:                *)
(* sync_fuel_prices asks CollectAPI for the prices of one state,           *)
(* import_all_usa_fuel calls it for state after state, and                 *)
(* import_fuel_prices reads a CSV file.  Operators may run several of them *)
(* at once.  Each row is written by an update_or_create of its own: the    *)
(* only transaction is that of one row.                                    *)
(*                                                                         *)
(* A row keeps what it is about (a city, or a truck stop of the file) and  *)
(* its price.  A city's id is hash("<state>-<city>") % 1000000, and Python *)
(* salts hash() anew in every process: any of Hashes.                      *)
(***************************************************************************)
EXTENDS Integers, Sequences, FiniteSets, Functions

CONSTANTS
    Processes,      \* running commands
    StateList,      \* the states, in the order of import_all_usa_fuel
    Answers,        \* state -> the lists of cities that CollectAPI may send
    Capital,        \* state -> the row made up for a list without cities
    Files,          \* the contents of CSV files
    Ids,            \* values of station_id
    Hashes,         \* city -> id, one for each salt
    Empty           \* no row

States == {StateList[k] : k \in DOMAIN StateList}
Cities == UNION {DOMAIN h : h \in Hashes}
NoHash == <<>>
Rows == [what : Cities \cup {"truckstop"}, price : Nat]

\* The price of a city may be unreadable, as may be any field of a file's line.
CityPrices == [what : Cities, price : Nat, valid : BOOLEAN]
Lines == [id : Ids, what : Cities \cup {"truckstop"}, price : Nat, valid : BOOLEAN]

ASSUME FuelSyncAssumption ==
    /\ StateList \in Seq(States) /\ StateList # <<>>
    /\ \A s \in States : Answers[s] \subseteq Seq(CityPrices) /\ Capital[s] \in CityPrices
    /\ \A h \in Hashes : h \in [Cities -> Ids]
    /\ "truckstop" \notin Cities
    /\ \A f \in Files :
          f \in Seq([id : Ids, what : {"truckstop"}, price : Nat, valid : BOOLEAN])

VARIABLES
    table,          \* station_id -> [what, price], or Empty
    pc,             \* "off" | "fetch" | "write" of each process
    job,            \* "sync" | "bulk" | "import"
    todo,           \* the states it has to sync, the current one first
    hash,           \* its salted hash
    batch,          \* the list or file it is writing
    written,        \* how many lines of batch it is done with
    before,         \* the table when it got batch, but for the ids that other
                    \* processes have written since
    hashes          \* the hashes of all syncs so far

work == <<batch, written, before>>
vars == <<table, pc, job, todo, hash, work, hashes>>

TypeOK ==
    /\ table \in [Ids -> Rows \cup {Empty}]
    /\ pc \in [Processes -> {"off", "fetch", "write"}]
    /\ job \in [Processes -> {"sync", "bulk", "import"}]
    /\ todo \in [Processes -> Seq(States)]
    /\ hash \in [Processes -> Hashes \cup {NoHash}]
    /\ batch \in [Processes -> Seq(Lines)]
    /\ written \in [Processes -> Nat]
    /\ DOMAIN before = Processes
    /\ hashes \subseteq Hashes
    /\ \A p \in Processes :
          /\ written[p] <= Len(batch[p])
          /\ pc[p] = "fetch" => todo[p] # <<>>
          /\ todo[p] # <<>> => job[p] # "import" /\ hash[p] \in hashes
          /\ DOMAIN before[p] \subseteq Ids

Init ==
    /\ table = [id \in Ids |-> Empty]
    /\ pc = [p \in Processes |-> "off"]
    /\ job = [p \in Processes |-> "sync"]
    /\ todo = [p \in Processes |-> <<>>]
    /\ hash = [p \in Processes |-> NoHash]
    /\ batch = [p \in Processes |-> <<>>]
    /\ written = [p \in Processes |-> 0]
    /\ before = [p \in Processes |-> <<>>]
    /\ hashes = {}

-----------------------------------------------------------------------------

\* p has a new list or file to write.
Take(p, lines) ==
    /\ pc' = [pc EXCEPT ![p] = "write"]
    /\ batch' = [batch EXCEPT ![p] = lines]
    /\ written' = [written EXCEPT ![p] = 0]
    /\ before' = [before EXCEPT ![p] = table]
    /\ UNCHANGED <<table, hashes>>

\* A command that asks CollectAPI is started, in a process with its own salt.
StartSync(p) ==
    /\ pc[p] = "off"
    /\ \/ \E s \in States : /\ job' = [job EXCEPT ![p] = "sync"]
                            /\ todo' = [todo EXCEPT ![p] = <<s>>]
       \/ /\ job' = [job EXCEPT ![p] = "bulk"]
          /\ todo' = [todo EXCEPT ![p] = StateList]
    /\ \E h \in Hashes : /\ hash' = [hash EXCEPT ![p] = h]
                         /\ hashes' = hashes \cup {h}
    /\ pc' = [pc EXCEPT ![p] = "fetch"]
    /\ UNCHANGED <<table, work>>

StartImport(p) ==
    /\ pc[p] = "off"
    /\ \E f \in Files : Take(p, f)
    /\ job' = [job EXCEPT ![p] = "import"]
    /\ todo' = [todo EXCEPT ![p] = <<>>]
    /\ UNCHANGED hash

\* Faulty: a row of its own for every answer.
FreshPlace(p, city) ==
    IF \E id \in Ids : table[id] = Empty THEN CHOOSE id \in Ids : table[id] = Empty
    ELSE hash[p][city]

\* Where p stores a city, whatever is there.
Place(p, city) == hash[p][city]

\* CollectAPI answers.  Without cities, one is made up from the state's average.
Fetch(p) ==
    /\ pc[p] = "fetch"
    /\ \E answer \in Answers[Head(todo[p])] :
          LET cities == IF answer = <<>> THEN <<Capital[Head(todo[p])]>> ELSE answer
          IN  Take(p, [k \in DOMAIN cities |->
                 [id |-> Place(p, cities[k].what), what |-> cities[k].what,
                  price |-> cities[k].price, valid |-> cities[k].valid]])
    /\ UNCHANGED <<job, todo, hash>>

\* p is done with its batch.
Drop(p) ==
    /\ batch' = [batch EXCEPT ![p] = <<>>]
    /\ written' = [written EXCEPT ![p] = 0]
    /\ before' = [before EXCEPT ![p] = <<>>]

\* The process ends, and its locals are gone.
Stop(p) ==
    /\ pc' = [pc EXCEPT ![p] = "off"]
    /\ job' = [job EXCEPT ![p] = "sync"]
    /\ todo' = [todo EXCEPT ![p] = <<>>]
    /\ hash' = [hash EXCEPT ![p] = NoHash]
    /\ Drop(p)
    /\ UNCHANGED <<table, hashes>>

\* The next state's turn, or the end of the command.
GoOn(p) ==
    IF Len(todo[p]) <= 1 THEN Stop(p)
    ELSE /\ pc' = [pc EXCEPT ![p] = "fetch"]
         /\ todo' = [todo EXCEPT ![p] = Tail(@)]
         /\ Drop(p)
         /\ UNCHANGED <<table, job, hash, hashes>>

\* Faulty: the state that failed is tried again, over and over.
GiveUpNever(p) ==
    IF job[p] = "import" THEN Stop(p)
    ELSE /\ pc' = [pc EXCEPT ![p] = "fetch"]
         /\ Drop(p)
         /\ UNCHANGED <<table, job, todo, hash, hashes>>

\* A CommandError: the bulk command goes on with the next state, unless the
\* message tells of a rate limit (429).
GiveUp(p) ==
    \/ Stop(p)
    \/ job[p] = "bulk" /\ GoOn(p)

FetchFails(p) ==
    /\ pc[p] = "fetch"
    /\ GiveUp(p)

Line(p) == batch[p][written[p] + 1]

\* Faulty: get_or_create, an existing row is left as it is.
StoreNew(line) ==
    table' = [table EXCEPT ![line.id] =
        IF @ = Empty THEN [what |-> line.what, price |-> line.price] ELSE @]

\* update_or_create, whatever the row was about.
Store(line) ==
    table' = [table EXCEPT ![line.id] = [what |-> line.what, price |-> line.price]]

Writing(p) == pc[p] = "write" /\ written[p] < Len(batch[p])

\* Faulty: every second line.
AdvanceTwo(p) == written' = [written EXCEPT ![p] = @ + 2]

Advance(p) == written' = [written EXCEPT ![p] = @ + 1]

Write(p) ==
    /\ Writing(p)
    /\ Line(p).valid
    /\ Store(Line(p))
    /\ Advance(p)
    /\ before' = [q \in Processes |->
          IF q = p THEN before[q] ELSE Restrict(before[q], DOMAIN before[q] \ {Line(p).id})]
    /\ UNCHANGED <<pc, job, todo, hash, batch, hashes>>

\* A line of a file that cannot be read is skipped.
SkipLine(p) ==
    /\ Writing(p)
    /\ job[p] = "import"
    /\ ~Line(p).valid
    /\ Advance(p)
    /\ UNCHANGED <<table, pc, job, todo, hash, batch, before, hashes>>

\* A city whose price cannot be read, text that is not CSV, a write the database
\* refuses, or an interrupt ends the batch: what was written stays.
WriteFails(p) ==
    /\ Writing(p)
    /\ GiveUp(p)

Finish(p) ==
    /\ pc[p] = "write"
    /\ written[p] = Len(batch[p])
    /\ GoOn(p)

Run(p) ==
    \/ Fetch(p) \/ FetchFails(p) \/ Write(p) \/ SkipLine(p)
    \/ WriteFails(p) \/ Finish(p)

Next == \E p \in Processes : StartSync(p) \/ StartImport(p) \/ Run(p)

\* A command waits only for CollectAPI (timeout=10) and for the database.
Spec == Init /\ [][Next]_vars /\ \A p \in Processes : WF_vars(Run(p))

-----------------------------------------------------------------------------

\* The lines of p's batch about id that are in the table by now.
Done(p, id) == {k \in 1..written[p] : batch[p][k].id = id /\ batch[p][k].valid}

\* Wherever a command stands in a batch, each row that no other command has
\* written since it began is that of a good line so far with its id, and as it was
\* before if there is none.  For a sync it is the last such line: of two cities with
\* one hash, the later.  Which of a file's duplicates stays is left open: the code
\* takes the last here too, apps/fuel/tests.py:89 says that duplicates are ignored.
TableFollowsTheBatch ==
    \A p \in Processes : \A id \in DOMAIN before[p] :
        \/ Done(p, id) = {} /\ table[id] = before[p][id]
        \/ \E k \in Done(p, id) :
              /\ job[p] = "import" \/ \A j \in Done(p, id) : j <= k
              /\ table[id] = [what |-> batch[p][k].what, price |-> batch[p][k].price]

\* Syncs leave old rows behind, but no more than one for a city and a salt: of the
\* prices the table holds for a city, each is from a process of its own.
OneRowPerCityAndSalt ==
    \A c \in Cities :
        Cardinality({id \in Ids : table[id] # Empty /\ table[id].what = c})
            <= Cardinality(hashes)

\* Every command ends.
EveryCommandEnds == \A p \in Processes : pc[p] # "off" ~> pc[p] = "off"

\* PRODUCTION_READINESS.md:12 "Bulk ingestion uses `transaction.atomic()`": a batch
\* that fails leaves the table as it was, where no other command has written.
AllOrNothing ==
    [][\A p \in Processes :
          Writing(p) /\ pc'[p] # "write" =>
              \A id \in DOMAIN before[p] : table'[id] = before[p][id]]_vars
=============================================================================

-------------------------- MODULE FuelSync_proofs --------------------------
(***************************************************************************)
(* Proofs about FuelSync, for any number of commands, states, cities,      *)
(* files and salts.                                                        *)
(***************************************************************************)
EXTENDS FuelSync, FiniteSetTheorems, FunctionTheorems, SequenceTheorems, TLAPS

\* Every row of a city, in the table or still to be written, is where the salt
\* of some sync puts it.
RowsInv ==
    /\ IsFiniteSet(hashes)
    /\ \A id \in Ids :
          table[id] # Empty /\ table[id].what \in Cities
             => \E h \in hashes : h[table[id].what] = id
    /\ \A p \in Processes : \A k \in 1..Len(batch[p]) :
          batch[p][k].what \in Cities
             => \E h \in hashes : h[batch[p][k].what] = batch[p][k].id

\* What the code keeps, in a sync and an import alike: the row of the last line of p
\* with its id.
Follows(p, id) ==
    \/ Done(p, id) = {} /\ table[id] = before[p][id]
    \/ \E k \in Done(p, id) :
          /\ \A j \in Done(p, id) : j <= k
          /\ table[id] = [what |-> batch[p][k].what, price |-> batch[p][k].price]

RowsFollow == \A p \in Processes : \A id \in DOMAIN before[p] : Follows(p, id)

IInv == TypeOK /\ RowsInv /\ RowsFollow

-----------------------------------------------------------------------------

LEMMA InitIInv == Init => IInv
  <1> SUFFICES ASSUME Init PROVE IInv
    OBVIOUS
  <1>1. TypeOK
    BY DEF Init, TypeOK
  <1>2. RowsInv
    BY FS_EmptySet DEF Init, RowsInv
  <1>3. RowsFollow
    BY DEF Init, RowsFollow, Follows, Done
  <1> QED
    BY <1>1, <1>2, <1>3 DEF IInv

\* It stays true while neither the row nor the process moves.
LEMMA FollowsStays ==
    ASSUME NEW p, NEW id, Follows(p, id), table'[id] = table[id],
           before'[p][id] = before[p][id], batch'[p] = batch[p], written'[p] = written[p]
    PROVE  Follows(p, id)'
  <1>1. Done(p, id)' = Done(p, id)
    BY DEF Done
  <1> QED
    BY <1>1 DEF Follows

\* A process that has nothing to write yet.
LEMMA TakeKeepsIInv ==
    ASSUME IInv, NEW p \in Processes, NEW lines \in Seq(Lines), Take(p, lines),
           job' \in [Processes -> {"sync", "bulk", "import"}],
           todo' \in [Processes -> Seq(States)], UNCHANGED hash,
           \A q \in Processes : todo'[q] # <<>> => todo'[q] = todo[q] /\ job'[q] = job[q],
           \A q \in Processes \ {p} : todo'[q] = todo[q],
           \A k \in 1..Len(lines) :
              lines[k].what \in Cities => \E h \in hashes : h[lines[k].what] = lines[k].id
    PROVE  IInv'
  <1>1. /\ pc' = [pc EXCEPT ![p] = "write"] /\ batch' = [batch EXCEPT ![p] = lines]
        /\ written' = [written EXCEPT ![p] = 0] /\ before' = [before EXCEPT ![p] = table]
        /\ table' = table /\ hashes' = hashes /\ hash' = hash
    BY DEF Take
  <1>2. TypeOK'
    BY <1>1 DEF IInv, TypeOK
  <1>3. RowsInv'
    <2>1. ASSUME NEW q \in Processes, NEW k \in 1..Len(batch'[q]), batch'[q][k].what \in Cities
          PROVE  \E h \in hashes : h[batch'[q][k].what] = batch'[q][k].id
      <3>1. CASE q = p
        <4>1. batch'[q] = lines
          BY <1>1, <3>1 DEF IInv, TypeOK
        <4> QED
          BY <2>1, <4>1
      <3>2. CASE q # p
        <4>1. batch'[q] = batch[q]
          BY <1>1, <3>2 DEF IInv, TypeOK
        <4> QED
          BY <2>1, <4>1 DEF IInv, RowsInv
      <3> QED
        BY <3>1, <3>2
    <2> QED
      BY <1>1, <2>1 DEF IInv, RowsInv
  <1>4. RowsFollow'
    <2> SUFFICES ASSUME NEW q \in Processes, NEW id \in DOMAIN before'[q]
                 PROVE  Follows(q, id)'
      BY DEF RowsFollow, Follows
    <2>1. CASE q = p
      <3>1. Done(p, id)' = {}
        BY <1>1, <2>1 DEF IInv, TypeOK, Done
      <3> QED
        BY <1>1, <2>1, <3>1 DEF IInv, TypeOK, Follows
    <2>2. CASE q # p
      <3>1. /\ written'[q] = written[q] /\ batch'[q] = batch[q] /\ before'[q] = before[q]
        BY <1>1, <2>2 DEF IInv, TypeOK
      <3>2. Follows(q, id)
        BY <3>1 DEF IInv, RowsFollow, Follows
      <3> QED
        BY <1>1, <3>1, <3>2, FollowsStays
    <2> QED
      BY <2>1, <2>2
  <1> QED
    BY <1>2, <1>3, <1>4 DEF IInv

\* A process whose batch is over, whatever it does next.
LEMMA DropKeepsIInv ==
    ASSUME IInv, NEW p \in Processes, Drop(p), UNCHANGED <<table, hashes>>, TypeOK'
    PROVE  IInv'
  <1>1. /\ batch' = [batch EXCEPT ![p] = <<>>] /\ before' = [before EXCEPT ![p] = <<>>]
        /\ written' = [written EXCEPT ![p] = 0] /\ table' = table /\ hashes' = hashes
    BY DEF Drop
  <1>2. /\ batch'[p] = <<>> /\ before'[p] = <<>>
        /\ \A q \in Processes \ {p} : /\ batch'[q] = batch[q] /\ before'[q] = before[q]
                                      /\ written'[q] = written[q]
    BY <1>1 DEF IInv, TypeOK
  <1>3. RowsInv'
    <2>1. ASSUME NEW q \in Processes, NEW k \in 1..Len(batch'[q]), batch'[q][k].what \in Cities
          PROVE  \E h \in hashes : h[batch'[q][k].what] = batch'[q][k].id
      <3>1. q # p /\ batch'[q] = batch[q]
        BY <1>2, <2>1
      <3> QED
        BY <2>1, <3>1 DEF IInv, RowsInv
    <2> QED
      BY <1>1, <2>1 DEF IInv, RowsInv
  <1>4. RowsFollow'
    <2> SUFFICES ASSUME NEW q \in Processes, NEW id \in DOMAIN before'[q]
                 PROVE  Follows(q, id)'
      BY DEF RowsFollow, Follows
    <2>1. q # p
      BY <1>2
    <2>2. Follows(q, id)
      BY <1>2, <2>1 DEF IInv, RowsFollow, Follows
    <2> QED
      BY <1>1, <1>2, <2>1, <2>2, FollowsStays
  <1> QED
    BY <1>3, <1>4 DEF IInv

LEMMA StopKeepsIInv == \A p \in Processes : IInv /\ Stop(p) => IInv'
  <1> SUFFICES ASSUME IInv, NEW p \in Processes, Stop(p) PROVE IInv'
    OBVIOUS
  <1>1. TypeOK'
    BY DEF IInv, TypeOK, Stop, Drop
  <1> QED
    BY <1>1, DropKeepsIInv DEF Stop

LEMMA GoOnKeepsIInv == \A p \in Processes : IInv /\ GoOn(p) => IInv'
  <1> SUFFICES ASSUME IInv, NEW p \in Processes, GoOn(p) PROVE IInv'
    OBVIOUS
  <1>1. todo[p] \in Seq(States) /\ Len(todo[p]) \in Nat
    BY DEF IInv, TypeOK
  <1>2. CASE Len(todo[p]) <= 1
    BY <1>2, StopKeepsIInv DEF GoOn
  <1>3. CASE ~(Len(todo[p]) <= 1)
    <2>1. /\ pc' = [pc EXCEPT ![p] = "fetch"] /\ todo' = [todo EXCEPT ![p] = Tail(todo[p])]
          /\ Drop(p) /\ UNCHANGED <<table, job, hash, hashes>>
      BY <1>3 DEF GoOn, IInv, TypeOK
    <2>2. todo[p] # <<>> /\ Len(todo[p]) - 1 # 0
      <3>1. Len(todo[p]) - 1 # 0 /\ Len(todo[p]) # 0
        <4>1. \A k \in Nat : ~(k <= 1) => k - 1 # 0 /\ k # 0
          OBVIOUS
        <4> QED
          BY <1>1, <1>3, <4>1
      <3>2. ASSUME todo[p] = <<>> PROVE FALSE
        BY <3>1, <3>2
      <3> QED
        BY <3>1, <3>2
    <2>3. Tail(todo[p]) \in Seq(States) /\ Len(Tail(todo[p])) = Len(todo[p]) - 1
      BY <1>1, <2>2
    <2>4. Tail(todo[p]) # <<>>
      BY <2>2, <2>3
    <2>5. TypeOK'
      BY <2>1, <2>2, <2>3, <2>4 DEF IInv, TypeOK, Drop
    <2> QED
      BY <2>1, <2>5, DropKeepsIInv
  <1> QED
    BY <1>2, <1>3

LEMMA GiveUpKeepsIInv == \A p \in Processes : IInv /\ GiveUp(p) => IInv'
  BY StopKeepsIInv, GoOnKeepsIInv DEF GiveUp

\* A command that asks CollectAPI has a salt and states to ask for.
LEMMA StartSyncKeepsIInv == \A p \in Processes : IInv /\ StartSync(p) => IInv'
  <1> SUFFICES ASSUME IInv, NEW p \in Processes, StartSync(p) PROVE IInv'
    OBVIOUS
  <1>1. PICK h \in Hashes : hash' = [hash EXCEPT ![p] = h] /\ hashes' = hashes \cup {h}
    BY DEF StartSync
  <1>2. /\ pc' = [pc EXCEPT ![p] = "fetch"]
        /\ table' = table /\ batch' = batch /\ written' = written /\ before' = before
    BY DEF StartSync, work
  <1>3. PICK j \in {"sync", "bulk"}, S \in Seq(States) :
           S # <<>> /\ job' = [job EXCEPT ![p] = j] /\ todo' = [todo EXCEPT ![p] = S]
    <2>1. \A s \in States : <<s>> \in Seq(States) /\ <<s>> # <<>>
      OBVIOUS
    <2> QED
      BY <2>1, FuelSyncAssumption DEF StartSync
  <1>4. TypeOK'
    <2>1. /\ hash' \in [Processes -> Hashes \cup {NoHash}] /\ hashes' \subseteq Hashes
          /\ hash'[p] \in hashes' /\ \A q \in Processes \ {p} : hash'[q] = hash[q]
      BY <1>1 DEF IInv, TypeOK
    <2>2. /\ todo' \in [Processes -> Seq(States)] /\ todo'[p] # <<>>
          /\ job' \in [Processes -> {"sync", "bulk", "import"}] /\ job'[p] # "import"
          /\ \A q \in Processes \ {p} : todo'[q] = todo[q] /\ job'[q] = job[q]
      BY <1>3 DEF IInv, TypeOK
    <2> QED
      BY <1>1, <1>2, <2>1, <2>2 DEF IInv, TypeOK
  <1>5. RowsInv'
    <2>1. IsFiniteSet(hashes')
      BY <1>1, FS_AddElement DEF IInv, RowsInv
    <2> QED
      BY <1>1, <1>2, <2>1 DEF IInv, RowsInv
  <1>6. RowsFollow'
    <2> SUFFICES ASSUME NEW q \in Processes, NEW id \in DOMAIN before'[q]
                 PROVE  Follows(q, id)'
      BY DEF RowsFollow, Follows
    <2>1. Follows(q, id)
      BY <1>2 DEF IInv, RowsFollow, Follows
    <2> QED
      BY <1>2, <2>1, FollowsStays
  <1> QED
    BY <1>4, <1>5, <1>6 DEF IInv

LEMMA StartImportKeepsIInv == \A p \in Processes : IInv /\ StartImport(p) => IInv'
  <1> SUFFICES ASSUME IInv, NEW p \in Processes, StartImport(p) PROVE IInv'
    OBVIOUS
  <1>1. PICK f \in Files : Take(p, f)
    BY DEF StartImport
  <1>2. f \in Seq(Lines) /\ \A k \in 1..Len(f) : f[k].what \notin Cities
    <2>1. f \in Seq([id : Ids, what : {"truckstop"}, price : Nat, valid : BOOLEAN])
      BY FuelSyncAssumption
    <2>2. \A k \in 1..Len(f) : f[k] \in [id : Ids, what : {"truckstop"}, price : Nat, valid : BOOLEAN]
      BY <2>1, ElementOfSeq
    <2>3. \A k \in 1..Len(f) : f[k] \in Lines /\ f[k].what = "truckstop"
      BY <2>2 DEF Lines
    <2>4. f = [k \in 1..Len(f) |-> f[k]] /\ Len(f) \in Nat
      BY <2>1
    <2>5. f \in Seq(Lines)
      BY <2>3, <2>4
    <2> QED
      BY <2>3, <2>5, FuelSyncAssumption
  <1>3. /\ job' = [job EXCEPT ![p] = "import"] /\ todo' = [todo EXCEPT ![p] = <<>>]
        /\ UNCHANGED hash
    BY DEF StartImport
  <1>4. /\ job' \in [Processes -> {"sync", "bulk", "import"}]
        /\ todo' \in [Processes -> Seq(States)]
        /\ \A q \in Processes : todo'[q] # <<>> => todo'[q] = todo[q] /\ job'[q] = job[q]
        /\ \A q \in Processes \ {p} : todo'[q] = todo[q]
    BY <1>3 DEF IInv, TypeOK
  <1> QED
    BY <1>1, <1>2, <1>3, <1>4, TakeKeepsIInv

LEMMA FetchKeepsIInv == \A p \in Processes : IInv /\ Fetch(p) => IInv'
  <1> SUFFICES ASSUME IInv, NEW p \in Processes, Fetch(p) PROVE IInv'
    OBVIOUS
  <1> DEFINE s == Head(todo[p])
  <1>1. /\ todo[p] \in Seq(States) /\ todo[p] # <<>> /\ hash[p] \in hashes
        /\ hashes \subseteq Hashes
    BY DEF IInv, TypeOK, Fetch
  <1>2. s \in States
    BY <1>1
  <1>3. PICK answer \in Answers[s] :
           LET cities == IF answer = <<>> THEN <<Capital[s]>> ELSE answer
           IN  Take(p, [k \in DOMAIN cities |->
                  [id |-> Place(p, cities[k].what), what |-> cities[k].what,
                   price |-> cities[k].price, valid |-> cities[k].valid]])
    BY DEF Fetch
  <1> DEFINE cities == IF answer = <<>> THEN <<Capital[s]>> ELSE answer
             lines == [k \in DOMAIN cities |->
                  [id |-> Place(p, cities[k].what), what |-> cities[k].what,
                   price |-> cities[k].price, valid |-> cities[k].valid]]
  <1>4. cities \in Seq(CityPrices)
    BY <1>2, FuelSyncAssumption
  <1>5. \A k \in DOMAIN cities : cities[k] \in CityPrices
    BY <1>4
  <1>6. \A c \in Cities : Place(p, c) \in Ids /\ hash[p][c] = Place(p, c)
    BY <1>1, FuelSyncAssumption DEF Place
  <1>7. /\ lines \in Seq(Lines) /\ Len(lines) = Len(cities)
        /\ \A k \in 1..Len(lines) : hash[p][lines[k].what] = lines[k].id
    <2> HIDE DEF cities
    <2>1. DOMAIN cities = 1..Len(cities) /\ Len(cities) \in Nat
      BY <1>4
    <2>2. \A k \in 1..Len(cities) :
             lines[k] \in Lines /\ hash[p][lines[k].what] = lines[k].id
      BY <2>1, <1>5, <1>6 DEF CityPrices, Lines
    <2> QED
      BY <2>1, <2>2
  <1>8. UNCHANGED <<job, todo, hash>>
    BY DEF Fetch
  <1>9. Take(p, lines)
    BY <1>3
  <1>10. /\ job' \in [Processes -> {"sync", "bulk", "import"}]
         /\ todo' \in [Processes -> Seq(States)]
    BY <1>8 DEF IInv, TypeOK
  <1> HIDE DEF cities, lines
  <1> QED
    BY <1>1, <1>7, <1>8, <1>9, <1>10, TakeKeepsIInv

\* The next line of a batch that p is writing.
LEMMA NextLine ==
    ASSUME IInv, NEW p \in Processes, Writing(p)
    PROVE  /\ written[p] \in Nat /\ written[p] + 1 \in 1..Len(batch[p])
           /\ Line(p) \in Lines
           /\ Line(p).what \in Cities => \E h \in hashes : h[Line(p).what] = Line(p).id
  <1>1. batch[p] \in Seq(Lines) /\ written[p] \in Nat /\ Len(batch[p]) \in Nat
    BY DEF IInv, TypeOK
  <1>2. written[p] + 1 \in 1..Len(batch[p])
    BY <1>1 DEF Writing
  <1>3. Line(p) \in Lines
    BY <1>1, <1>2, ElementOfSeq DEF Line
  <1> QED
    BY <1>1, <1>2, <1>3 DEF IInv, RowsInv, Line

\* A good line becomes the last one of its id, and no longer counts for the others.
LEMMA WriteKeepsIInv == \A p \in Processes : IInv /\ Write(p) => IInv'
  <1> SUFFICES ASSUME IInv, NEW p \in Processes, Write(p) PROVE IInv'
    OBVIOUS
  <1> DEFINE n == written[p] + 1
             line == Line(p)
             row == [what |-> line.what, price |-> line.price]
  <1>1. /\ written[p] \in Nat /\ n \in 1..Len(batch[p]) /\ line \in Lines
        /\ line.what \in Cities => \E h \in hashes : h[line.what] = line.id
    BY NextLine DEF Write
  <1>2. /\ line.valid
        /\ table' = [table EXCEPT ![line.id] = row]
        /\ written' = [written EXCEPT ![p] = n]
        /\ before' = [q \in Processes |->
              IF q = p THEN before[q] ELSE [x \in DOMAIN before[q] \ {line.id} |-> before[q][x]]]
        /\ UNCHANGED <<pc, job, todo, hash, batch, hashes>>
    BY DEF Write, Store, Advance, Restrict
  <1>3. batch[p][n] = line
    BY DEF Line
  <1>4. line.id \in Ids /\ row \in Rows /\ row.what = line.what
    BY <1>1 DEF Lines, Rows
  <1> HIDE DEF line, row, n
  <1>5. /\ table'[line.id] = row
        /\ \A id \in Ids \ {line.id} : table'[id] = table[id]
        /\ table' \in [Ids -> Rows \cup {Empty}]
    BY <1>2, <1>4 DEF IInv, TypeOK
  <1>6. /\ written'[p] = n /\ written' \in [Processes -> Nat]
        /\ \A q \in Processes \ {p} : written'[q] = written[q]
    BY <1>1, <1>2 DEF IInv, TypeOK
  <1>7. /\ before'[p] = before[p]
        /\ \A q \in Processes \ {p} :
              /\ DOMAIN before'[q] = DOMAIN before[q] \ {line.id}
              /\ \A x \in DOMAIN before'[q] : before'[q][x] = before[q][x]
    BY <1>2
  <1>8. TypeOK'
    <2>1. \A q \in Processes : written[q] <= Len(batch[q]) /\ DOMAIN before[q] \subseteq Ids
      BY DEF IInv, TypeOK
    <2>3. written'[p] <= Len(batch[p])
      BY <1>1, <1>6
    <2>4. \A q \in Processes : written'[q] <= Len(batch[q]) /\ DOMAIN before'[q] \subseteq Ids
      BY <1>6, <1>7, <2>1, <2>3
    <2>2. DOMAIN before' = Processes
      BY <1>2
    <2> QED
      BY <1>2, <1>5, <1>6, <2>2, <2>4 DEF IInv, TypeOK
  <1>9. RowsInv'
    <2>1. ASSUME NEW id \in Ids, table'[id] # Empty, table'[id].what \in Cities
          PROVE  \E h \in hashes : h[table'[id].what] = id
      <3>1. CASE id = line.id
        BY <1>1, <1>4, <1>5, <2>1, <3>1
      <3>2. CASE id # line.id
        <4>1. table'[id] = table[id]
          BY <1>5, <3>2
        <4> QED
          BY <2>1, <4>1 DEF IInv, RowsInv
      <3> QED
        BY <3>1, <3>2
    <2> QED
      BY <1>2, <2>1 DEF IInv, RowsInv
  <1>10. RowsFollow'
    <2> SUFFICES ASSUME NEW q \in Processes, NEW id \in DOMAIN before'[q]
                 PROVE  Follows(q, id)'
      BY DEF RowsFollow, Follows
    <2>1. id \in DOMAIN before[q] /\ before'[q][id] = before[q][id]
      BY <1>7
    <2>2. id \in Ids
      BY <2>1 DEF IInv, TypeOK
    <2>3. Follows(q, id)
      BY <2>1 DEF IInv, RowsFollow, Follows
    <2>4. batch' = batch
      BY <1>2
    <2>5. CASE q # p
      <3>1. id # line.id
        BY <1>7, <2>5
      <3>2. table'[id] = table[id] /\ written'[q] = written[q] /\ batch'[q] = batch[q]
        BY <1>5, <1>6, <2>2, <2>4, <2>5, <3>1
      <3> QED
        BY <2>1, <2>3, <3>2, FollowsStays
    <2>6. CASE q = p /\ id = line.id
      <3>1. Done(p, id)' = {k \in 1..n : batch[p][k].id = id /\ batch[p][k].valid}
        BY <1>6, <2>4 DEF Done
      <3>2. n \in Done(p, id)' /\ \A j \in Done(p, id)' : j <= n
        BY <1>1, <1>2, <1>3, <2>6, <3>1
      <3>3. table'[id] = [what |-> batch'[p][n].what, price |-> batch'[p][n].price]
        BY <1>3, <1>5, <2>4, <2>6 DEF row
      <3> QED
        BY <2>6, <3>2, <3>3 DEF Follows
    <2>7. CASE q = p /\ id # line.id
      <3>1. Done(p, id)' = {k \in 1..n : batch[p][k].id = id /\ batch[p][k].valid}
        BY <1>6, <2>4 DEF Done
      <3>2. Done(p, id)' = Done(p, id)
        <4>1. \A k \in 1..n : batch[p][k].id = id => k \in 1..written[p]
          BY <1>1, <1>3, <2>7 DEF n
        <4>2. \A k \in 1..written[p] : k \in 1..n
          BY <1>1 DEF n
        <4> QED
          BY <3>1, <4>1, <4>2 DEF Done
      <3>3. table'[id] = table[id]
        BY <1>5, <2>2, <2>7
      <3> QED
        BY <2>1, <2>3, <2>4, <2>7, <3>2, <3>3 DEF Follows
    <2> QED
      BY <2>5, <2>6, <2>7
  <1> QED
    BY <1>8, <1>9, <1>10 DEF IInv

\* A line that cannot be read counts for no row.
LEMMA SkipLineKeepsIInv == \A p \in Processes : IInv /\ SkipLine(p) => IInv'
  <1> SUFFICES ASSUME IInv, NEW p \in Processes, SkipLine(p) PROVE IInv'
    OBVIOUS
  <1>1. written[p] \in Nat /\ written[p] + 1 \in 1..Len(batch[p])
    BY NextLine DEF SkipLine
  <1>2. /\ written' = [written EXCEPT ![p] = written[p] + 1]
        /\ UNCHANGED <<table, pc, job, todo, hash, batch, before, hashes>>
        /\ ~batch[p][written[p] + 1].valid
    BY DEF SkipLine, Advance, Line
  <1>3. /\ written'[p] = written[p] + 1 /\ written' \in [Processes -> Nat]
        /\ \A q \in Processes \ {p} : written'[q] = written[q]
    BY <1>1, <1>2 DEF IInv, TypeOK
  <1>4. TypeOK'
    <2>1. \A q \in Processes : written[q] <= Len(batch[q])
      BY DEF IInv, TypeOK
    <2>2. written'[p] <= Len(batch[p])
      BY <1>1, <1>3
    <2>3. \A q \in Processes : written'[q] <= Len(batch[q])
      BY <1>3, <2>1, <2>2
    <2> QED
      BY <1>2, <1>3, <2>3 DEF IInv, TypeOK
  <1>5. RowsInv'
    BY <1>2 DEF IInv, RowsInv
  <1>6. RowsFollow'
    <2> SUFFICES ASSUME NEW q \in Processes, NEW id \in DOMAIN before'[q]
                 PROVE  Follows(q, id)'
      BY DEF RowsFollow, Follows
    <2>1. Follows(q, id)
      BY <1>2 DEF IInv, RowsFollow, Follows
    <2>2. CASE q # p
      BY <1>2, <1>3, <2>1, <2>2, FollowsStays
    <2>3. CASE q = p
      <3>1. Done(p, id)' =
               {k \in 1..written[p] + 1 : batch[p][k].id = id /\ batch[p][k].valid}
        BY <1>2, <1>3 DEF Done
      <3>2. \A k \in 1..written[p] + 1 : batch[p][k].valid <=> k \in 1..written[p] /\ batch[p][k].valid
        BY <1>1, <1>2
      <3>3. \A k \in 1..written[p] : k \in 1..written[p] + 1
        BY <1>1
      <3>4. Done(p, id)' = Done(p, id)
        BY <3>1, <3>2, <3>3 DEF Done
      <3> QED
        BY <1>2, <2>1, <2>3, <3>4 DEF Follows
    <2> QED
      BY <2>2, <2>3
  <1> QED
    BY <1>4, <1>5, <1>6 DEF IInv

LEMMA NextIInv == IInv /\ [Next]_vars => IInv'
  <1> SUFFICES ASSUME IInv, [Next]_vars PROVE IInv'
    OBVIOUS
  <1>1. CASE Next
    <2>1. PICK p \in Processes : StartSync(p) \/ StartImport(p) \/ Run(p)
      BY <1>1 DEF Next
    <2>2. CASE StartSync(p)
      BY <2>2, StartSyncKeepsIInv
    <2>3. CASE StartImport(p)
      BY <2>3, StartImportKeepsIInv
    <2>4. CASE Run(p)
      BY <2>4, FetchKeepsIInv, GiveUpKeepsIInv, WriteKeepsIInv, SkipLineKeepsIInv,
         GoOnKeepsIInv DEF Run, FetchFails, WriteFails, Finish
    <2> QED
      BY <2>1, <2>2, <2>3, <2>4
  <1>2. CASE UNCHANGED vars
    <2>1. /\ table' = table /\ pc' = pc /\ job' = job /\ todo' = todo /\ hash' = hash
          /\ batch' = batch /\ written' = written /\ before' = before /\ hashes' = hashes
      BY <1>2 DEF vars, work
    <2>2. TypeOK'
      BY <2>1 DEF IInv, TypeOK
    <2>3. RowsInv'
      BY <2>1 DEF IInv, RowsInv
    <2>4. RowsFollow'
      BY <2>1 DEF IInv, RowsFollow, Follows, Done
    <2> QED
      BY <2>2, <2>3, <2>4 DEF IInv
  <1> QED
    BY <1>1, <1>2

\* The inductive invariant, through every step of every command.
LEMMA Invariance == Spec => []IInv
  BY InitIInv, NextIInv, PTL DEF Spec

-----------------------------------------------------------------------------

\* The rows of a city are the places of the salts: no more than these.
LEMMA RowsOfACity == IInv => OneRowPerCityAndSalt
  <1> SUFFICES ASSUME IInv, NEW c \in Cities
               PROVE  Cardinality({id \in Ids : table[id] # Empty /\ table[id].what = c})
                         <= Cardinality(hashes)
    BY DEF OneRowPerCityAndSalt
  <1> DEFINE rows == {id \in Ids : table[id] # Empty /\ table[id].what = c}
             places == {h[c] : h \in hashes}
             f == [h \in hashes |-> h[c]]
  <1>1. IsFiniteSet(hashes) /\ Cardinality(hashes) \in Nat
    BY FS_CardinalityType DEF IInv, RowsInv
  <1>2. f \in Surjection(hashes, places)
    BY DEF Surjection
  <1>3. IsFiniteSet(places) /\ Cardinality(places) <= Cardinality(hashes)
    <2> HIDE DEF f, places
    <2>1. \A g \in Surjection(hashes, places) :
             IsFiniteSet(places) /\ Cardinality(places) <= Cardinality(hashes)
      BY <1>1, FS_Surjection
    <2> QED
      BY <1>2, <2>1
  <1>4. rows \subseteq places
    BY DEF IInv, RowsInv
  <1>5. Cardinality(rows) <= Cardinality(places) /\ IsFiniteSet(rows)
    <2> HIDE DEF rows, places
    <2> QED
      BY <1>3, <1>4, FS_Subset
  <1>6. Cardinality(rows) \in Nat /\ Cardinality(places) \in Nat
    BY <1>3, <1>5, FS_CardinalityType
  <1>7. Cardinality(rows) <= Cardinality(hashes)
    <2> HIDE DEF rows, places
    <2> QED
      BY <1>1, <1>3, <1>5, <1>6
  <1> QED
    BY <1>7

\* A command with a state to ask for has its salt, a place in its batch never beyond
\* the end, and only ids of the table in what it remembers of it.
THEOREM TypeCorrect == Spec => []TypeOK
  BY Invariance, PTL DEF IInv

\* The commands of sync_fuel_prices.py and import_fuel_prices.py: the rows that only
\* p has written are those of good lines of its batch so far, a sync's of the last.
THEOREM TableFollows == Spec => []TableFollowsTheBatch
  <1>1. IInv => TableFollowsTheBatch
    BY DEF IInv, RowsFollow, Follows, TableFollowsTheBatch
  <1> QED
    BY <1>1, Invariance, PTL

\* hash() of sync_fuel_prices.py: a row of its own for each city and salt at most,
\* for any number of commands, however their writes are interleaved.
THEOREM OneRow == Spec => []OneRowPerCityAndSalt
  BY Invariance, RowsOfACity, PTL

-----------------------------------------------------------------------------
(* The half of EveryCommandEnds that needs no fairness.                     *)

\* Lines of p's batch that are still to be written.
LinesLeft(p) == Len(batch[p]) - written[p]

\* What a command does, by the states it has left, the batch it has or has not,
\* and the lines left of that: it ends, or has fewer of one and no more of those
\* before it.
Advances(p) ==
    \/ pc'[p] = "off"
    \/ Len(todo'[p]) < Len(todo[p])
    \/ todo'[p] = todo[p] /\ pc[p] = "fetch" /\ pc'[p] = "write"
    \/ /\ todo'[p] = todo[p] /\ pc[p] = "write" /\ pc'[p] = "write"
       /\ LinesLeft(p)' < LinesLeft(p)

\* The locals Advances speaks of.
Waits(p) ==
    /\ pc'[p] = pc[p] /\ todo'[p] = todo[p]
    /\ batch'[p] = batch[p] /\ written'[p] = written[p]

\* A step of one process leaves the locals of the others alone.
LEMMA OthersWait ==
    ASSUME TypeOK, NEW p \in Processes, NEW q \in Processes, p # q,
           StartSync(q) \/ StartImport(q) \/ Run(q)
    PROVE  Waits(p)
  <1> USE DEF TypeOK, Waits
  <1>1. Stop(q) \/ GoOn(q) => Waits(p)
    BY DEF Stop, GoOn, Drop
  <1>2. StartSync(q) => Waits(p)
    BY DEF StartSync, work
  <1>3. StartImport(q) => Waits(p)
    BY DEF StartImport, Take
  <1>4. Fetch(q) => Waits(p)
    BY DEF Fetch, Take
  <1>5. FetchFails(q) \/ WriteFails(q) \/ Finish(q) => Waits(p)
    BY <1>1 DEF FetchFails, WriteFails, Finish, GiveUp
  <1>6. Write(q) \/ SkipLine(q) => Waits(p)
    BY DEF Write, SkipLine, Advance
  <1> QED
    BY <1>2, <1>3, <1>4, <1>5, <1>6 DEF Run

\* A step of its own takes a command on.
LEMMA RunAdvances ==
    ASSUME IInv, NEW p \in Processes, Run(p)
    PROVE  Advances(p)
  <1>1. /\ p \in DOMAIN pc /\ p \in DOMAIN todo /\ p \in DOMAIN batch /\ p \in DOMAIN written
        /\ todo[p] \in Seq(States) /\ Len(todo[p]) \in Nat
        /\ written[p] \in Nat /\ Len(batch[p]) \in Nat
    BY DEF IInv, TypeOK
  <1>2. Stop(p) => pc'[p] = "off"
    BY <1>1 DEF Stop
  <1>3. GoOn(p) => pc'[p] = "off" \/ Len(todo'[p]) < Len(todo[p])
    <2> SUFFICES ASSUME GoOn(p), Len(todo[p]) > 1 PROVE Len(todo'[p]) < Len(todo[p])
      BY <1>1, <1>2 DEF GoOn
    <2>1. todo'[p] = Tail(todo[p])
      BY <1>1 DEF GoOn
    <2>2. Len(Tail(todo[p])) = Len(todo[p]) - 1
      BY <1>1
    <2> QED
      BY <2>1, <2>2, <1>1
  <1>4. CASE Fetch(p)
    BY <1>1, <1>4 DEF Fetch, Take, Advances
  <1>5. CASE FetchFails(p) \/ WriteFails(p) \/ Finish(p)
    BY <1>2, <1>3, <1>5 DEF FetchFails, WriteFails, Finish, GiveUp, Advances
  <1>6. CASE Write(p) \/ SkipLine(p)
    <2>1. /\ pc[p] = "write" /\ pc' = pc /\ todo' = todo /\ batch' = batch
          /\ written'[p] = written[p] + 1
      BY <1>1, <1>6 DEF Write, SkipLine, Writing, Advance
    <2>2. LinesLeft(p)' = Len(batch[p]) - (written[p] + 1)
      BY <2>1 DEF LinesLeft
    <2> QED
      BY <1>1, <2>1, <2>2 DEF Advances, LinesLeft
  <1> QED
    BY <1>4, <1>5, <1>6 DEF Run

\* No answer of CollectAPI and no other process sends a command back: it ends, goes
\* on to fewer states, or to its batch, or to fewer lines of it
\* (import_all_usa_fuel.py:19-30, sync_fuel_prices.py:83-100).
THEOREM CommandsAdvance ==
    Spec => [][\A p \in Processes : pc[p] # "off" => Waits(p) \/ Advances(p)]_vars
  <1>1. IInv /\ [Next]_vars =>
            [\A p \in Processes : pc[p] # "off" => Waits(p) \/ Advances(p)]_vars
    <2> SUFFICES ASSUME IInv, Next, NEW p \in Processes, pc[p] # "off"
                 PROVE  Waits(p) \/ Advances(p)
      BY DEF vars
    <2>1. PICK q \in Processes : StartSync(q) \/ StartImport(q) \/ Run(q)
      BY DEF Next
    <2>2. CASE q = p
      <3>1. Run(p)
        BY <2>1, <2>2 DEF StartSync, StartImport
      <3> QED
        BY <3>1, RunAdvances
    <2>3. CASE q # p
      BY <2>1, <2>3, OthersWait DEF IInv
    <2> QED
      BY <2>2, <2>3
  <1> QED
    BY <1>1, Invariance, PTL DEF Spec

=============================================================================

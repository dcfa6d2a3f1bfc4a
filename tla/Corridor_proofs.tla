-------------------------- MODULE Corridor_proofs --------------------------
(***************************************************************************)
(* Proofs about Corridor, for every route, table of stations, interval,    *)
(* radius, segment and limit.                                              *)
(***************************************************************************)
EXTENDS Corridor, FiniteSetTheorems, FunctionTheorems, WellFoundedInduction, TLAPS

-----------------------------------------------------------------------------
(* The inductive invariant.                                                 *)

\* The checkpoints so far, and, while the loop runs, how they lie between the
\* points already passed and those to come.
SampleInv ==
    /\ Len(checkpoints) >= 1 /\ checkpoints[1] = 0
    /\ \A k, l \in 1..Len(checkpoints) : k < l => checkpoints[k] < checkpoints[l]
    /\ \A k \in 1..(Len(checkpoints) - 1) :
          /\ \A j \in 1..Len(points) :
                points[j] >= checkpoints[k] + Interval => points[j] >= checkpoints[k + 1]
          /\ \/ checkpoints[k + 1] >= checkpoints[k] + Interval
             \/ stage # "sample" /\ k = Len(checkpoints) - 1
    /\ IF stage = "sample"
       THEN /\ checkpoints[Len(checkpoints)] = lastDist
            /\ i > 1 /\ lastDist <= Length
            /\ \A j \in 1..Len(points) :
                  IF j < i THEN points[j] < lastDist + Interval ELSE lastDist <= points[j]
       ELSE checkpoints[Len(checkpoints)] = Length

\* Stations are assigned once, from checkpoints that stay as they are.
FoundInv ==
    /\ IsFiniteSet(found)
    /\ \A c \in found : stage \in {"filter", "done"} /\ c.at = NearestCheckpoint(c.mile)

\* Each segment that is done has kept a station.
KeptInv ==
    /\ \A c \in found \ todo : \E d \in kept : SegmentOf(d) = SegmentOf(c)
    /\ stage = "done" => todo = {}

IInv == TypeOK /\ SampleInv /\ FoundInv /\ KeptInv /\ OnlyPointsFail

-----------------------------------------------------------------------------
(* Facts about routes, numbers and checkpoints.                             *)

\* The points of a route, in order, up to its length.
LEMMA PointFacts ==
    ASSUME points \in Routes
    PROVE  /\ points \in Seq(Nat) /\ Len(points) \in Nat \ {0}
           /\ DOMAIN points = 1..Len(points)
           /\ points[1] = 0 /\ Length \in Nat
           /\ \A j \in 1..Len(points) : points[j] \in Nat /\ points[j] <= Length
           /\ \A j, l \in 1..Len(points) : j <= l => points[j] <= points[l]
  <1>1. /\ points \in Seq(Nat) /\ points # <<>> /\ points[1] = 0
        /\ \A j, l \in DOMAIN points : j < l => points[j] <= points[l]
    BY CorridorAssumption
  <1>2. Len(points) \in Nat \ {0} /\ DOMAIN points = 1..Len(points)
    BY <1>1
  <1>3. \A j \in 1..Len(points) : points[j] \in Nat
    BY <1>1
  <1>4. \A j, l \in 1..Len(points) : j <= l => points[j] <= points[l]
    BY <1>1, <1>2, <1>3
  <1> QED
    BY <1>1, <1>2, <1>3, <1>4 DEF Length

\* A set of naturals that is not empty has a least element.
LEMMA Least ==
    ASSUME NEW S \in SUBSET Nat, S # {}
    PROVE  \E m \in S : \A x \in S : m <= x
  <1>1. PICK m \in S : \A x \in S : ~(<<x, m>> \in OpToRel(<, Nat))
    BY WFMin, NatLessThanWellFounded
  <1>2. ASSUME NEW x \in S, x < m PROVE FALSE
    <2>1. <<x, m>> \in {ss \in Nat \X Nat : ss[1] < ss[2]}
      BY <1>2
    <2> QED
      BY <1>1, <2>1 DEF OpToRel
  <1> QED
    BY <1>2

\* And a last one, if it is bounded.
LEMMA Last ==
    ASSUME NEW p \in Nat, NEW S \in SUBSET Nat, S # {}, \A x \in S : x <= p
    PROVE  \E m \in S : \A x \in S : x <= m
  <1> DEFINE T == {p - x : x \in S}
  <1>1. \A x \in S : p - x \in Nat
    OBVIOUS
  <1>2. T \in SUBSET Nat /\ T # {}
    BY <1>1
  <1>a. PICK t \in T : \A u \in T : t <= u
    BY <1>2, Least
  <1>3. PICK m \in S : t = p - m
    BY <1>a
  <1>4. \A x \in S : p - m <= p - x
    BY <1>a, <1>3
  <1> QED
    BY <1>4

\* What _find_nearest_checkpoint returns: a checkpoint that is nearest, and the
\* first of those.
LEMMA NearestIsNearest ==
    ASSUME checkpoints \in Seq(Nat), Len(checkpoints) >= 1, NEW mile \in Int
    PROVE  \E k \in 1..Len(checkpoints) :
              /\ NearestCheckpoint(mile) = checkpoints[k]
              /\ \A j \in 1..Len(checkpoints) :
                    \/ Gap(checkpoints[k], mile) < Gap(checkpoints[j], mile)
                    \/ Gap(checkpoints[k], mile) = Gap(checkpoints[j], mile) /\ k <= j
  <1> DEFINE D == DOMAIN checkpoints
             G(k) == Gap(checkpoints[k], mile)
             Nearest(k) == \A j \in D : G(k) < G(j) \/ (G(k) = G(j) /\ k <= j)
  <1>1. D = 1..Len(checkpoints) /\ Len(checkpoints) \in Nat /\ 1 \in D
    OBVIOUS
  <1>2. \A k \in D : G(k) \in Nat
    BY <1>1 DEF Gap
  <1>3. PICK g \in {G(k) : k \in D} : \A h \in {G(k) : k \in D} : g <= h
    <2>1. {G(k) : k \in D} \in SUBSET Nat /\ {G(k) : k \in D} # {}
      BY <1>1, <1>2
    <2> QED
      BY <2>1, Least
  <1>4. PICK k \in {j \in D : G(j) = g} : \A j \in {j \in D : G(j) = g} : k <= j
    <2>1. {j \in D : G(j) = g} \in SUBSET Nat /\ {j \in D : G(j) = g} # {}
      BY <1>1, <1>3
    <2> QED
      BY <2>1, Least
  <1>5. \A j \in D : G(k) <= G(j) /\ G(k) \in Nat /\ G(j) \in Nat
    BY <1>2, <1>3, <1>4
  <1>6. k \in D /\ Nearest(k)
    <2> SUFFICES ASSUME NEW j \in D PROVE G(k) < G(j) \/ (G(k) = G(j) /\ k <= j)
      BY <1>4
    <2>1. CASE G(j) = g
      BY <2>1, <1>4
    <2>2. CASE G(j) # g
      <3>1. G(k) = g /\ G(k) <= G(j) /\ G(k) \in Nat /\ G(j) \in Nat
        BY <1>4, <1>5
      <3> HIDE DEF G
      <3> QED
        BY <3>1, <2>2
    <2> QED
      BY <2>1, <2>2
  <1>7. PICK l \in D : l = (CHOOSE m \in D : Nearest(m)) /\ Nearest(l)
    <2> HIDE DEF Nearest
    <2> QED
      BY <1>6
  <1> QED
    BY <1>1, <1>7 DEF NearestCheckpoint

-----------------------------------------------------------------------------
(* The invariant holds.                                                     *)

LEMMA InitIInv == Init => IInv
  <1> SUFFICES ASSUME Init PROVE IInv
    OBVIOUS
  <1>1. TypeOK
    BY PointFacts DEF Init, TypeOK
  <1>2. SampleInv
    BY PointFacts, CorridorAssumption DEF Init, SampleInv
  <1>3. FoundInv /\ KeptInv /\ OnlyPointsFail
    BY FS_EmptySet DEF Init, FoundInv, KeptInv, OnlyPointsFail
  <1> QED
    BY <1>1, <1>2, <1>3 DEF IInv

\* A point far enough becomes the last checkpoint.
LEMMA SampleKeepsIInv == IInv /\ Sample => IInv'
  <1> SUFFICES ASSUME IInv, Sample PROVE IInv'
    OBVIOUS
  <1> DEFINE n == Len(checkpoints)
             d == points[i]
  <1>1. /\ points \in Routes /\ checkpoints \in Seq(Nat) /\ n \in Nat /\ n >= 1
        /\ stage = "sample" /\ i \in 1..Len(points) /\ d \in Nat /\ lastDist \in Nat
        /\ d - lastDist >= Interval /\ Interval \in Nat \ {0}
        /\ d <= Length /\ Length \in Nat
    BY PointFacts, CorridorAssumption DEF IInv, TypeOK, SampleInv, Sample, Far
  <1>2. /\ checkpoints' = Append(checkpoints, d) /\ lastDist' = d /\ i' = i + 1
        /\ points' = points /\ stations' = stations /\ stage' = stage
        /\ found' = found /\ todo' = todo /\ kept' = kept
    BY DEF Sample, Advance, inputs
  <1>3. Length' = Length
    BY <1>2 DEF Length
  <1>4. TypeOK'
    BY <1>1, <1>2, PointFacts DEF IInv, TypeOK
  <1>5. /\ Len(checkpoints') = n + 1 /\ checkpoints'[n + 1] = d
        /\ \A k \in 1..n : checkpoints'[k] = checkpoints[k] /\ checkpoints[k] \in Nat
    BY <1>1, <1>2
  <1>6. /\ checkpoints[n] = lastDist
        /\ \A k \in 1..n : checkpoints[k] <= lastDist
    BY <1>1, <1>5 DEF IInv, SampleInv
  <1>7. \A k, l \in 1..(n + 1) : k < l => checkpoints'[k] < checkpoints'[l]
    <2> SUFFICES ASSUME NEW k \in 1..(n + 1), NEW l \in 1..(n + 1), k < l
                 PROVE  checkpoints'[k] < checkpoints'[l]
      OBVIOUS
    <2>0. k \in 1..n
      BY <1>1
    <2>1. CASE l = n + 1
      BY <2>0, <2>1, <1>1, <1>5, <1>6
    <2>2. CASE l \in 1..n
      BY <2>0, <2>2, <1>5 DEF IInv, SampleInv
    <2> QED
      BY <2>1, <2>2, <1>1
  <1>8. \A j \in 1..Len(points) :
           /\ points[j] \in Nat
           /\ IF j < i THEN points[j] < lastDist + Interval ELSE d <= points[j]
    BY <1>1, PointFacts DEF IInv, SampleInv
  <1>9. ASSUME NEW k \in 1..n
        PROVE  /\ \A j \in 1..Len(points) :
                     points[j] >= checkpoints'[k] + Interval => points[j] >= checkpoints'[k + 1]
               /\ checkpoints'[k + 1] >= checkpoints'[k] + Interval
    <2>1. CASE k = n
      BY <2>1, <1>1, <1>5, <1>6, <1>8
    <2>2. CASE k # n
      <3>1. k \in 1..(n - 1) /\ k + 1 \in 1..n
        BY <1>1, <2>2
      <3> QED
        BY <3>1, <1>1, <1>5 DEF IInv, SampleInv
    <2> QED
      BY <2>1, <2>2
  <1>10. \A j \in 1..Len(points) : IF j < i + 1 THEN points[j] < d + Interval ELSE d <= points[j]
    BY <1>1, <1>8
  <1>11. SampleInv'
    <2>1. checkpoints'[1] = 0 /\ n + 1 >= 1
      BY <1>1, <1>5 DEF IInv, SampleInv
    <2>2. Len(checkpoints') = n + 1 /\ Len(checkpoints') - 1 = n
      BY <1>1, <1>5
    <2>3. /\ checkpoints'[Len(checkpoints')] = lastDist'
          /\ i' > 1 /\ lastDist' <= Length'
      BY <1>1, <1>2, <1>3, <1>5
    <2> HIDE DEF n, d
    <2> QED
      BY <2>1, <2>2, <2>3, <1>1, <1>2, <1>7, <1>9, <1>10 DEF SampleInv
  <1>12. found = {}
    BY <1>1 DEF IInv, FoundInv
  <1>13. FoundInv' /\ KeptInv' /\ OnlyPointsFail'
    BY <1>1, <1>2, <1>12, FS_EmptySet DEF FoundInv, KeptInv, OnlyPointsFail
  <1> QED
    BY <1>4, <1>11, <1>13 DEF IInv

\* A point too near is passed.
LEMMA PassKeepsIInv == IInv /\ Pass => IInv'
  <1> SUFFICES ASSUME IInv, Pass PROVE IInv'
    OBVIOUS
  <1>1. /\ stage = "sample" /\ i \in 1..Len(points) /\ points[i] - lastDist < Interval
        /\ points \in Routes /\ lastDist \in Nat /\ Interval \in Nat
        /\ points[i] \in Nat /\ Len(points) \in Nat
    BY PointFacts, CorridorAssumption DEF IInv, TypeOK, SampleInv, Pass, Far
  <1>2. /\ i' = i + 1 /\ checkpoints' = checkpoints /\ lastDist' = lastDist
        /\ points' = points /\ stations' = stations /\ stage' = stage
        /\ found' = found /\ todo' = todo /\ kept' = kept /\ Length' = Length
    BY DEF Pass, Advance, inputs, Length
  <1>3. TypeOK'
    BY <1>1, <1>2 DEF IInv, TypeOK
  <1>4. \A j \in 1..Len(points) :
           IF j < i + 1 THEN points[j] < lastDist + Interval ELSE lastDist <= points[j]
    <2> SUFFICES ASSUME NEW j \in 1..Len(points)
                 PROVE  IF j < i + 1 THEN points[j] < lastDist + Interval
                        ELSE lastDist <= points[j]
      OBVIOUS
    <2>1. IF j < i THEN points[j] < lastDist + Interval ELSE lastDist <= points[j]
      BY <1>1 DEF IInv, SampleInv
    <2> QED
      BY <2>1, <1>1
  <1>5. SampleInv'
    BY <1>1, <1>2, <1>4 DEF IInv, SampleInv
  <1>6. FoundInv' /\ KeptInv' /\ OnlyPointsFail'
    <2>1. UNCHANGED <<found, todo, kept, stage, checkpoints>>
      BY <1>2
    <2> QED
      BY <2>1, <1>1 DEF IInv, FoundInv, KeptInv, OnlyPointsFail, NearestCheckpoint
  <1> QED
    BY <1>3, <1>5, <1>6 DEF IInv

\* The end of the route becomes the last checkpoint, if it is not one already.
LEMMA SampleEndKeepsIInv == IInv /\ SampleEnd => IInv'
  <1> SUFFICES ASSUME IInv, SampleEnd PROVE IInv'
    OBVIOUS
  <1> DEFINE n == Len(checkpoints)
  <1>1. /\ points \in Routes /\ checkpoints \in Seq(Nat) /\ n \in Nat /\ n >= 1
        /\ stage = "sample" /\ lastDist \in Nat /\ Length \in Nat /\ lastDist <= Length
        /\ Interval \in Nat \ {0} /\ checkpoints[n] = lastDist
    BY PointFacts, CorridorAssumption DEF IInv, TypeOK, SampleInv, SampleEnd
  <1>2. /\ checkpoints' = WithEnd /\ lastDist' = lastDist /\ i' = i
        /\ points' = points /\ stations' = stations /\ stage' = "search"
        /\ found' = found /\ todo' = todo /\ kept' = kept /\ Length' = Length
    BY DEF SampleEnd, inputs, Length
  <1>3. TypeOK'
    BY <1>1, <1>2 DEF IInv, TypeOK, WithEnd
  <1>4. \A j \in 1..Len(points) : points[j] \in Nat /\ points[j] < lastDist + Interval
    <2>1. i > Len(points) /\ i \in Nat /\ Len(points) \in Nat
      BY <1>1, PointFacts DEF SampleEnd, IInv, TypeOK
    <2> QED
      BY <1>1, <2>1, PointFacts DEF IInv, SampleInv
  <1>5. SampleInv'
    <2>1. CASE lastDist < Length
      <3>1. checkpoints' = Append(checkpoints, Length)
        BY <1>2, <2>1 DEF WithEnd
      <3>2. /\ Len(checkpoints') = n + 1 /\ Len(checkpoints') - 1 = n
            /\ checkpoints'[n + 1] = Length
            /\ \A k \in 1..n : checkpoints'[k] = checkpoints[k] /\ checkpoints[k] \in Nat
        BY <1>1, <3>1
      <3>3. \A k \in 1..n : checkpoints[k] <= lastDist
        BY <1>1, <3>2 DEF IInv, SampleInv
      <3>4. ASSUME NEW k \in 1..(n + 1), NEW l \in 1..(n + 1), k < l
            PROVE  checkpoints'[k] < checkpoints'[l]
        <4>0. k \in 1..n
          BY <1>1, <3>4
        <4>1. CASE l = n + 1
          BY <4>0, <4>1, <1>1, <2>1, <3>2, <3>3
        <4>2. CASE l \in 1..n
          BY <4>0, <4>2, <3>2, <3>4 DEF IInv, SampleInv
        <4> QED
          BY <4>1, <4>2, <1>1
      <3>5. ASSUME NEW k \in 1..n
            PROVE  /\ \A j \in 1..Len(points) :
                         points[j] >= checkpoints'[k] + Interval
                            => points[j] >= checkpoints'[k + 1]
                   /\ checkpoints'[k + 1] >= checkpoints'[k] + Interval \/ k = n
        <4>1. CASE k = n
          BY <4>1, <1>1, <1>4, <3>2
        <4>2. CASE k # n
          <5>1. k \in 1..(n - 1) /\ k + 1 \in 1..n
            BY <1>1, <4>2
          <5> QED
            BY <5>1, <1>1, <3>2 DEF IInv, SampleInv
        <4> QED
          BY <4>1, <4>2
      <3>6. checkpoints'[1] = 0 /\ n + 1 >= 1 /\ checkpoints'[Len(checkpoints')] = Length'
        BY <1>1, <1>2, <3>2 DEF IInv, SampleInv
      <3> HIDE DEF n
      <3> QED
        BY <1>2, <3>2, <3>4, <3>5, <3>6 DEF SampleInv
    <2>2. CASE ~(lastDist < Length)
      <3>1. checkpoints' = checkpoints /\ lastDist = Length
        BY <1>1, <1>2, <2>2 DEF WithEnd
      <3> QED
        BY <3>1, <1>1, <1>2 DEF IInv, SampleInv
    <2> QED
      BY <2>1, <2>2
  <1>6. found = {}
    BY <1>1 DEF IInv, FoundInv
  <1>7. FoundInv' /\ KeptInv' /\ OnlyPointsFail'
    BY <1>2, <1>6, FS_EmptySet DEF FoundInv, KeptInv, OnlyPointsFail
  <1> QED
    BY <1>3, <1>5, <1>7 DEF IInv

\* What does not touch the checkpoints keeps what is known of them.
LEMMA SampledStays ==
    ASSUME IInv, UNCHANGED <<inputs, sampling>>, stage # "sample", stage' # "sample"
    PROVE  /\ SampleInv' /\ Length' = Length
           /\ \A mile \in Int : NearestCheckpoint(mile)' = NearestCheckpoint(mile)
  <1>1. /\ points' = points /\ checkpoints' = checkpoints
        /\ i' = i /\ lastDist' = lastDist
    BY DEF inputs, sampling
  <1> QED
    BY <1>1 DEF IInv, SampleInv, Length, NearestCheckpoint

LEMMA SearchKeepsIInv == IInv /\ Search => IInv'
  <1> SUFFICES ASSUME IInv, Search PROVE IInv'
    OBVIOUS
  <1>1. /\ stage = "search" /\ stage' = "filter" /\ todo' = found' /\ kept' = kept
        /\ UNCHANGED <<inputs, sampling>>
    BY DEF Search
  <1>2. /\ SampleInv'
        /\ \A mile \in Int : NearestCheckpoint(mile)' = NearestCheckpoint(mile)
    BY <1>1, SampledStays
  <1> DEFINE F(s) == [mile |-> s.mile, price |-> s.price, at |-> NearestCheckpoint(s.mile)]
  <1>3. /\ InCorridor \subseteq stations /\ stations \subseteq Stations
        /\ \A s \in stations : s.mile \in Int /\ s.price \in Nat
        /\ found' = {F(s) : s \in InCorridor}
    BY CorridorAssumption DEF InCorridor, IInv, TypeOK, Search
  <1>4. \A s \in InCorridor : F(s) \in Candidates
    <2> SUFFICES ASSUME NEW s \in InCorridor PROVE NearestCheckpoint(s.mile) \in Nat
      BY <1>3 DEF Candidates
    <2>1. checkpoints \in Seq(Nat) /\ Len(checkpoints) >= 1
      BY DEF IInv, TypeOK, SampleInv
    <2>2. PICK k \in 1..Len(checkpoints) : NearestCheckpoint(s.mile) = checkpoints[k]
      BY <1>3, <2>1, NearestIsNearest
    <2> QED
      BY <2>1, <2>2
  <1>5. IsFiniteSet(found')
    <2>1. IsFiniteSet(InCorridor)
      BY <1>3, CorridorAssumption, FS_Subset
    <2> DEFINE f == [s \in InCorridor |-> F(s)]
    <2>2. f \in Surjection(InCorridor, found')
      BY <1>3 DEF Surjection
    <2> QED
      BY <2>1, <2>2, FS_Surjection
  <1>6. found = {} /\ kept = {}
    BY <1>1 DEF IInv, TypeOK, FoundInv
  <1>7. TypeOK'
    BY <1>1, <1>3, <1>4, <1>6 DEF IInv, TypeOK, inputs, sampling
  <1>8. FoundInv'
    BY <1>1, <1>2, <1>3, <1>5 DEF FoundInv
  <1> QED
    BY <1>1, <1>2, <1>7, <1>8 DEF IInv, KeptInv, OnlyPointsFail

LEMMA SearchFailsKeepsIInv == IInv /\ SearchFails => IInv'
  <1> SUFFICES ASSUME IInv, SearchFails PROVE IInv'
    OBVIOUS
  <1>1. /\ stage = "search" /\ stage' = "failed" /\ Len(checkpoints) = 1
        /\ UNCHANGED <<inputs, sampling, found, todo, kept>>
    BY DEF SearchFails
  <1>2. SampleInv' /\ Length' = Length
    BY <1>1, SampledStays
  <1>3. TypeOK'
    BY <1>1 DEF IInv, TypeOK, inputs, sampling
  <1>4. found = {} /\ found' = {}
    BY <1>1 DEF IInv, FoundInv
  <1>5. Length = 0
    BY <1>1 DEF IInv, SampleInv
  <1> QED
    BY <1>1, <1>2, <1>3, <1>4, <1>5, FS_EmptySet DEF IInv, FoundInv, KeptInv, OnlyPointsFail

\* Of a segment that has stations, some are kept.
LEMMA BestOfSome ==
    ASSUME NEW S, IsFiniteSet(S), S # {}, NEW K \in SUBSET S, IsBest(K, S)
    PROVE  K # {}
  <1>1. Cardinality(S) \in Nat /\ Cardinality(S) # 0 /\ Cardinality({}) = 0
    BY FS_CardinalityType, FS_EmptySet
  <1>2. Limit \in Nat \ {0}
    BY CorridorAssumption
  <1> QED
    BY <1>1, <1>2 DEF IsBest

LEMMA FilterSegmentKeepsIInv == IInv /\ FilterSegment => IInv'
  <1> SUFFICES ASSUME IInv, FilterSegment PROVE IInv'
    OBVIOUS
  <1>1. PICK c \in todo :
           LET S == {d \in todo : SegmentOf(d) = SegmentOf(c)}
           IN  /\ \E K \in SUBSET S : IsBest(K, S) /\ kept' = kept \cup K
               /\ todo' = todo \ S
    BY DEF FilterSegment
  <1> DEFINE S == {d \in todo : SegmentOf(d) = SegmentOf(c)}
  <1>2. PICK K \in SUBSET S : IsBest(K, S) /\ kept' = kept \cup K
    BY <1>1
  <1>3. /\ stage = "filter" /\ stage' = "filter" /\ found' = found /\ todo' = todo \ S
        /\ UNCHANGED <<inputs, sampling>>
    BY <1>1 DEF FilterSegment
  <1>4. /\ SampleInv'
        /\ \A mile \in Int : NearestCheckpoint(mile)' = NearestCheckpoint(mile)
    BY <1>3, SampledStays
  <1>5. todo \subseteq found /\ S \subseteq found /\ found \subseteq Candidates
    BY DEF IInv, TypeOK
  <1>6. TypeOK'
    BY <1>2, <1>3, <1>5 DEF IInv, TypeOK, inputs, sampling
  <1>7. FoundInv'
    BY <1>3, <1>4, <1>5 DEF IInv, FoundInv, Candidates
  <1>8. PICK k \in K : SegmentOf(k) = SegmentOf(c)
    <2>1. IsFiniteSet(S) /\ c \in S
      BY <1>5, FS_Subset DEF IInv, FoundInv
    <2>2. K # {}
      BY <1>2, <2>1, BestOfSome
    <2> QED
      BY <2>2
  <1>9. KeptInv'
    <2> SUFFICES ASSUME NEW e \in found \ todo' PROVE \E d \in kept' : SegmentOf(d) = SegmentOf(e)
      BY <1>3 DEF KeptInv, SegmentOf
    <2>1. CASE e \in S
      BY <2>1, <1>2, <1>8
    <2>2. CASE e \notin S
      BY <2>2, <1>2, <1>3 DEF IInv, KeptInv
    <2> QED
      BY <2>1, <2>2
  <1> QED
    BY <1>3, <1>4, <1>6, <1>7, <1>9 DEF IInv, OnlyPointsFail

LEMMA NextIInv == IInv /\ [Next]_vars => IInv'
  <1> SUFFICES ASSUME IInv, [Next]_vars PROVE IInv'
    OBVIOUS
  <1>1. CASE Finish
    <2>1. /\ stage = "filter" /\ stage' = "done" /\ todo = {}
          /\ UNCHANGED <<inputs, sampling, found, todo, kept>>
      BY <1>1 DEF Finish
    <2>2. /\ SampleInv'
          /\ \A mile \in Int : NearestCheckpoint(mile)' = NearestCheckpoint(mile)
      BY <2>1, SampledStays
    <2>3. TypeOK'
      BY <2>1 DEF IInv, TypeOK, inputs, sampling
    <2>4. FoundInv'
      BY <2>1, <2>2 DEF IInv, TypeOK, FoundInv, Candidates
    <2> QED
      BY <2>1, <2>2, <2>3, <2>4 DEF IInv, KeptInv, OnlyPointsFail, SegmentOf
  <1>2. CASE UNCHANGED vars
    <2>1. UNCHANGED <<points, stations, stage, i, lastDist, checkpoints, found, todo, kept>>
      BY <1>2 DEF vars, inputs, sampling
    <2>2. TypeOK'
      BY <2>1 DEF IInv, TypeOK
    <2>3. SampleInv'
      BY <2>1 DEF IInv, SampleInv, Length
    <2>4. FoundInv' /\ KeptInv' /\ OnlyPointsFail'
      BY <2>1 DEF IInv, FoundInv, KeptInv, OnlyPointsFail, Length, NearestCheckpoint, SegmentOf
    <2> QED
      BY <2>2, <2>3, <2>4 DEF IInv
  <1> QED
    BY <1>1, <1>2, SampleKeepsIInv, PassKeepsIInv, SampleEndKeepsIInv, SearchKeepsIInv,
       SearchFailsKeepsIInv, FilterSegmentKeepsIInv DEF Next

\* The inductive invariant: the checkpoints so far, the stations found among them, and
\* one kept in each segment that is done, through every step of the pipeline.
THEOREM Invariance == Spec => []IInv
  BY InitIInv, NextIInv, PTL DEF Spec

-----------------------------------------------------------------------------

\* The loop over the points and the reduction keep their types.
THEOREM TypeCorrect == Spec => []TypeOK
  BY Invariance, PTL DEF IInv

\* Only a route without length has no corridor (fuel_station_repository.py:68).
THEOREM PointsFail == Spec => []OnlyPointsFail
  BY Invariance, PTL DEF IInv

\* The checkpoints of downsample_route run from the start to the end of the route,
\* at least Interval apart, and no gap passes over a point that could end it.
THEOREM CheckpointsSpan == Spec => []CheckpointsSpanTheRoute
  <1>1. IInv => CheckpointsSpanTheRoute
    <2> SUFFICES ASSUME IInv, stage \notin {"sample", "failed"}
                 PROVE  CheckpointsSpanTheRoute
      BY DEF CheckpointsSpanTheRoute
    <2>1. checkpoints \in Seq(Nat) /\ Len(checkpoints) \in Nat
      BY DEF IInv, TypeOK
    <2>2. DOMAIN points = 1..Len(points)
      BY PointFacts DEF IInv, TypeOK
    <2> QED
      BY <2>1, <2>2 DEF IInv, SampleInv, CheckpointsSpanTheRoute
  <1> QED
    BY <1>1, Invariance, PTL

\* The last checkpoint not beyond a mile of the route, and the one after it.
LEMMA Around ==
    ASSUME IInv, stage # "sample", NEW mile \in Int, 0 <= mile, mile <= Length
    PROVE  \E k \in 1..Len(checkpoints) :
              /\ checkpoints[k] <= mile
              /\ \/ checkpoints[k] = mile
                 \/ k + 1 \in 1..Len(checkpoints) /\ mile < checkpoints[k + 1]
  <1> DEFINE n == Len(checkpoints)
             S == {k \in 1..n : checkpoints[k] <= mile}
  <1>1. /\ n \in Nat /\ n >= 1 /\ checkpoints[1] = 0 /\ checkpoints[n] = Length
        /\ \A k \in 1..n : checkpoints[k] \in Nat
        /\ Length \in Nat
    BY PointFacts DEF IInv, TypeOK, SampleInv
  <1>2. S \in SUBSET Nat /\ 1 \in S /\ \A k \in S : k <= n
    BY <1>1
  <1>3. PICK k \in S : \A l \in S : l <= k
    BY <1>1, <1>2, Last
  <1>4. CASE k = n
    BY <1>1, <1>3, <1>4
  <1>5. CASE k # n
    <2>1. k + 1 \in 1..n /\ k + 1 \notin S
      BY <1>1, <1>3, <1>5
    <2> QED
      BY <1>1, <1>3, <2>1
  <1> QED
    BY <1>4, <1>5

LEMMA GapIsNat == \A x, y \in Int : Gap(x, y) \in Nat
  BY DEF Gap

\* Of two places, the later is not nearer to what comes earlier.
LEMMA NearerInOrder ==
    ASSUME NEW a \in Int, NEW b \in Int, NEW x \in Int, NEW y \in Int,
           a < b, x <= y, Gap(b, x) < Gap(a, x)
    PROVE  Gap(b, y) < Gap(a, y)
  BY DEF Gap

\* Nearest checkpoints, between the last one not beyond a station and the next.
LEMMA StaysInPlace == IInv => StationsStayInPlace
  <1> SUFFICES ASSUME IInv PROVE StationsStayInPlace
    OBVIOUS
  <1>1. /\ checkpoints \in Seq(Nat) /\ Len(checkpoints) >= 1 /\ Len(checkpoints) \in Nat
        /\ \A k \in 1..Len(checkpoints) : checkpoints[k] \in Nat
        /\ \A k, l \in 1..Len(checkpoints) : k < l => checkpoints[k] < checkpoints[l]
        /\ found \subseteq Candidates /\ points \in Routes
    BY DEF IInv, TypeOK, SampleInv
  <1>2. \A c \in found : /\ c.mile \in Int /\ c.at = NearestCheckpoint(c.mile)
                         /\ stage # "sample"
    BY <1>1 DEF IInv, FoundInv, Candidates
  <1>3. ASSUME NEW c \in found, NEW d \in found, c.mile <= d.mile
        PROVE  c.at <= d.at
    <2>1. PICK k \in 1..Len(checkpoints) :
             /\ c.at = checkpoints[k]
             /\ \A j \in 1..Len(checkpoints) :
                   \/ Gap(checkpoints[k], c.mile) < Gap(checkpoints[j], c.mile)
                   \/ Gap(checkpoints[k], c.mile) = Gap(checkpoints[j], c.mile) /\ k <= j
      BY <1>1, <1>2, NearestIsNearest
    <2>2. PICK m \in 1..Len(checkpoints) :
             /\ d.at = checkpoints[m]
             /\ \A j \in 1..Len(checkpoints) :
                   \/ Gap(checkpoints[m], d.mile) < Gap(checkpoints[j], d.mile)
                   \/ Gap(checkpoints[m], d.mile) = Gap(checkpoints[j], d.mile) /\ m <= j
      BY <1>1, <1>2, NearestIsNearest
    <2>3. CASE k <= m
      <3>1. k = m \/ k < m
        BY <2>3
      <3> QED
        BY <3>1, <1>1, <2>1, <2>2
    <2>4. CASE m < k
      <3>1. checkpoints[m] < checkpoints[k]
        BY <1>1, <2>4
      <3>2. /\ Gap(checkpoints[k], c.mile) < Gap(checkpoints[m], c.mile)
            /\ Gap(checkpoints[m], d.mile) <= Gap(checkpoints[k], d.mile)
        <4>1. ~(k <= m)
          BY <2>4
        <4>2. /\ Gap(checkpoints[m], d.mile) \in Nat /\ Gap(checkpoints[k], d.mile) \in Nat
          <5>1. d.mile \in Int /\ checkpoints[k] \in Int /\ checkpoints[m] \in Int
            BY <1>1, <1>2
          <5> QED
            BY <5>1, GapIsNat
        <4> QED
          BY <2>1, <2>2, <4>1, <4>2
      <3>3. c.mile \in Int /\ d.mile \in Int /\ checkpoints[k] \in Int /\ checkpoints[m] \in Int
        BY <1>1, <1>2
      <3>4. Gap(checkpoints[k], d.mile) < Gap(checkpoints[m], d.mile)
        BY <3>1, <3>2, <3>3, <1>3, NearerInOrder
      <3>5. /\ Gap(checkpoints[k], d.mile) \in Nat /\ Gap(checkpoints[m], d.mile) \in Nat
        BY <3>3, GapIsNat
      <3> QED
        BY <3>2, <3>4, <3>5
    <2> QED
      BY <2>3, <2>4
  <1>4. ASSUME NEW c \in found, NEW w \in 0..Length, 0 <= c.mile, c.mile <= Length,
               NoWiderThan(w)
        PROVE  2 * Gap(c.at, c.mile) <= w
    <2>1. PICK k \in 1..Len(checkpoints) :
             /\ checkpoints[k] <= c.mile
             /\ \/ checkpoints[k] = c.mile
                \/ k + 1 \in 1..Len(checkpoints) /\ c.mile < checkpoints[k + 1]
      BY <1>2, <1>4, Around
    <2>2. PICK m \in 1..Len(checkpoints) :
             /\ c.at = checkpoints[m]
             /\ \A j \in 1..Len(checkpoints) :
                   \/ Gap(checkpoints[m], c.mile) < Gap(checkpoints[j], c.mile)
                   \/ Gap(checkpoints[m], c.mile) = Gap(checkpoints[j], c.mile) /\ m <= j
      BY <1>1, <1>2, NearestIsNearest
    <2>3. c.mile \in Int /\ w \in Nat /\ checkpoints[m] \in Nat /\ checkpoints[k] \in Nat
      BY <1>1, <1>2, PointFacts
    <2>4. \A j \in 1..Len(checkpoints) :
             Gap(checkpoints[m], c.mile) <= Gap(checkpoints[j], c.mile)
      <3>1. \A j \in 1..Len(checkpoints) : Gap(checkpoints[j], c.mile) \in Nat
        <4>1. c.mile \in Int /\ \A j \in 1..Len(checkpoints) : checkpoints[j] \in Int
          BY <2>3, <1>1
        <4> QED
          BY <4>1, GapIsNat
      <3> QED
        BY <2>2, <3>1
    <2>5. CASE checkpoints[k] = c.mile
      BY <2>2, <2>3, <2>4, <2>5 DEF Gap
    <2>6. CASE k + 1 \in 1..Len(checkpoints) /\ c.mile < checkpoints[k + 1]
      <3>1. checkpoints[k + 1] \in Nat /\ checkpoints[k + 1] - checkpoints[k] <= w
        BY <1>1, <1>4, <2>6 DEF NoWiderThan
      <3>2. /\ Gap(checkpoints[m], c.mile) <= Gap(checkpoints[k], c.mile)
            /\ Gap(checkpoints[m], c.mile) <= Gap(checkpoints[k + 1], c.mile)
        BY <2>4, <2>6
      <3> QED
        BY <3>1, <3>2, <2>1, <2>2, <2>3, <2>6 DEF Gap
    <2> QED
      BY <2>1, <2>5, <2>6
  <1> QED
    BY <1>3, <1>4 DEF StationsStayInPlace

\* _find_nearest_checkpoint keeps stations in order and moves none by more than
\* half the widest gap.
THEOREM InPlace == Spec => []StationsStayInPlace
  BY StaysInPlace, Invariance, PTL

-----------------------------------------------------------------------------
(* What the reduction costs.                                                *)

\* Places of one segment are less than a segment apart, and those of a later one
\* come later.
LEMMA SegmentFacts ==
    ASSUME NEW a \in Nat, NEW b \in Nat
    PROVE  /\ a \div Segment \in Nat
           /\ a \div Segment = b \div Segment => b <= a + (Segment - 1)
           /\ a \div Segment < b \div Segment => a < b
  <1> DEFINE x == a \div Segment
             y == b \div Segment
  <1>1. Segment \in Nat \ {0}
    BY CorridorAssumption
  <1>2. /\ x \in Nat /\ Segment * x <= a /\ a < Segment * x + Segment
        /\ y \in Nat /\ Segment * y <= b /\ b < Segment * y + Segment
    BY <1>1
  <1>3. x = y => b <= a + (Segment - 1)
    BY <1>1, <1>2
  <1>4. ASSUME x < y PROVE a < b
    <2>1. y - (x + 1) \in Nat
      BY <1>2, <1>4
    <2>2. Segment * (y - (x + 1)) >= 0
      BY <1>1, <2>1
    <2>3. Segment * y = Segment * x + Segment + Segment * (y - (x + 1))
      BY <1>1, <1>2
    <2> QED
      BY <1>1, <1>2, <2>2, <2>3
  <1> QED
    BY <1>2, <1>3, <1>4

\* What it means for a trip to be feasible, for a vehicle and its stations.
LEMMA TripFeasible ==
    ASSUME NEW r, NEW S
    PROVE  Trip(r, S)!Feasible <=>
              \E P \in SUBSET S :
                 \A x \in P \cup {0} :
                    x + r < Length => \E y \in P : x < y /\ y <= x + r
  BY DEF Trip!Feasible

\* Candidates are near the stations kept of their segments: with two segments
\* more range, any way along the candidates can be followed along those.
THEOREM ReductionIsBounded == Spec => []ReductionCostsTwoSegments
  <1>1. IInv => ReductionCostsTwoSegments
    <2> SUFFICES ASSUME IInv, stage = "done", NEW r \in Ranges,
                        Trip(r, {c.at : c \in found})!Feasible
                 PROVE  Trip(r + 2 * (Segment - 1), {c.at : c \in kept})!Feasible
      BY DEF ReductionCostsTwoSegments
    <2> DEFINE far == r + 2 * (Segment - 1)
               Q == {c.at : c \in kept}
    <2>1. PICK P \in SUBSET {c.at : c \in found} :
             \A x \in P \cup {0} : x + r < Length => \E y \in P : x < y /\ y <= x + r
      BY TripFeasible
    <2>2. /\ r \in Nat /\ Segment \in Nat \ {0} /\ Length \in Nat
          /\ \A c \in found : c.at \in Nat
          /\ kept \subseteq found
      BY CorridorAssumption, PointFacts DEF IInv, TypeOK, Candidates
    <2>3. \A x \in P : x \in Nat /\ \E c \in found : c.at = x
      BY <2>2
    <2>4. ASSUME NEW x \in Q \cup {0}, x + far < Length
          PROVE  \E y \in Q : x < y /\ y <= x + far
      <3>1. x \in Nat
        BY <2>2
      \* The last place of P up to the end of x's segment.
      <3>2. PICK p \in P \cup {0} :
               /\ p \in Nat /\ p \div Segment <= x \div Segment
               /\ \A q \in P : q \div Segment <= x \div Segment => q <= p
        <4> DEFINE S == {q \in P \cup {0} : q \div Segment <= x \div Segment}
        <4>1. \A q \in P \cup {0} : q \in Nat /\ q \div Segment \in Nat
          BY <2>3, SegmentFacts
        <4>2. x \div Segment \in Nat /\ 0 \div Segment = 0
          BY <2>2, <3>1, SegmentFacts
        <4>3. \A q \in S : q <= x + (Segment - 1)
          <5> SUFFICES ASSUME NEW q \in S PROVE q <= x + (Segment - 1)
            OBVIOUS
          <5>1. q \in Nat /\ q \div Segment \in Nat /\ q \div Segment <= x \div Segment
            BY <4>1
          <5>2. CASE q \div Segment = x \div Segment
            BY <5>1, <5>2, <3>1, SegmentFacts
          <5>3. CASE q \div Segment < x \div Segment
            <6>1. q < x
              BY <5>1, <5>3, <3>1, SegmentFacts
            <6> QED
              BY <6>1, <5>1, <3>1, <2>2
          <5> QED
            BY <4>2, <5>1, <5>2, <5>3
        <4>4. S \in SUBSET Nat /\ 0 \in S /\ x + (Segment - 1) \in Nat
          BY <2>2, <3>1, <4>1, <4>2
        <4>5. PICK p \in S : \A q \in S : q <= p
          BY <4>3, <4>4, Last
        <4> QED
          BY <4>1, <4>5
      <3>3. p <= x + (Segment - 1)
        <4>1. p \div Segment \in Nat /\ x \div Segment \in Nat
          BY <3>1, <3>2, SegmentFacts
        <4>2. CASE p \div Segment = x \div Segment
          BY <3>1, <3>2, <4>2, SegmentFacts
        <4>3. CASE p \div Segment < x \div Segment
          <5>1. p < x
            BY <3>1, <3>2, <4>3, SegmentFacts
          <5> QED
            BY <5>1, <3>1, <3>2, <2>2
        <4> QED
          BY <3>2, <4>1, <4>2, <4>3
      <3>4. p + r < Length
        BY <2>2, <2>4, <3>1, <3>2, <3>3
      <3>5. PICK q \in P : p < q /\ q <= p + r
        BY <2>1, <3>2, <3>4
      <3>6. q \in Nat /\ x \div Segment < q \div Segment
        BY <2>3, <3>1, <3>2, <3>5, SegmentFacts
      <3>7. PICK c \in found : c.at = q
        BY <2>3
      <3>8. PICK d \in kept : d.at \div Segment = q \div Segment
        BY <2>4, <3>7 DEF IInv, KeptInv, SegmentOf
      <3>9. d.at \in Nat /\ x < d.at /\ d.at <= q + (Segment - 1)
        BY <2>2, <3>1, <3>6, <3>8, SegmentFacts
      <3>10. d.at \in Q /\ x < d.at /\ d.at <= x + far
        BY <2>2, <3>1, <3>2, <3>3, <3>5, <3>6, <3>8, <3>9
      <3> QED
        BY <3>10
    <2>5. Q \in SUBSET Q /\ \A x \in Q \cup {0} : x + far < Length => \E y \in Q : x < y /\ y <= x + far
      BY <2>4
    <2> HIDE DEF far, Q
    <2>6. Trip(far, Q)!Feasible
      BY <2>5, TripFeasible
    <2> QED
      BY <2>6 DEF far, Q
  <1> QED
    BY <1>1, Invariance, PTL

-----------------------------------------------------------------------------
(* The two halves of Terminates that need no fairness: every step leaves     *)
(* fewer, and until the end there is one to take.                           *)

\* Turns of the loops of geometry.py:101 and candidate_reduction.py:138 that may
\* still come, and the steps between them.
TurnsLeft ==
    CASE stage = "sample" -> Len(points) + 1 - i + Cardinality(Stations) + 3
      [] stage = "search" -> Cardinality(Stations) + 2
      [] stage = "filter" -> Cardinality(todo) + 1
      [] OTHER -> 0

\* Some step is possible: the guards of Next, with a choice for FilterSegment.
CanGoOn ==
    \/ stage = "sample"
    \/ stage = "search" /\ Len(checkpoints) >= 1
    \/ stage = "filter" /\ \/ todo = {}
                           \/ \E c \in todo :
                                 LET S == {d \in todo : SegmentOf(d) = SegmentOf(c)}
                                 IN  /\ \A d \in todo : SegmentOf(c) <= SegmentOf(d)
                                     /\ \E K \in SUBSET S : IsBest(K, S)

LEMMA StationsFinite == IsFiniteSet(Stations) /\ Cardinality(Stations) \in Nat
  BY CorridorAssumption, FS_CardinalityType

\* Every station is assigned to one checkpoint.
LEMMA FoundNoMore ==
    ASSUME IInv, Search
    PROVE  Cardinality(found') <= Cardinality(Stations) /\ IsFiniteSet(found')
  <1> DEFINE F(s) == [mile |-> s.mile, price |-> s.price, at |-> NearestCheckpoint(s.mile)]
             f == [s \in InCorridor |-> F(s)]
  <1>1. InCorridor \in SUBSET Stations /\ found' = {F(s) : s \in InCorridor}
    BY DEF InCorridor, IInv, TypeOK, Search
  <1>2. /\ IsFiniteSet(InCorridor) /\ Cardinality(InCorridor) \in Nat
        /\ Cardinality(InCorridor) <= Cardinality(Stations)
    BY <1>1, StationsFinite, FS_Subset, FS_CardinalityType
  <1>3. f \in Surjection(InCorridor, found')
    BY <1>1 DEF Surjection
  <1>4. IsFiniteSet(found') /\ Cardinality(found') <= Cardinality(InCorridor)
    BY <1>2, <1>3, FS_Surjection
  <1> QED
    BY <1>2, <1>4, StationsFinite, FS_CardinalityType

\* What is still to be filtered can be counted.
LEMMA TodoFinite ==
    IInv => /\ IsFiniteSet(todo) /\ Cardinality(todo) \in Nat
            /\ todo \subseteq Candidates
  BY FS_Subset, FS_CardinalityType DEF IInv, TypeOK, FoundInv

LEMMA TurnsLeftIsNat == IInv => TurnsLeft \in Nat
  <1> SUFFICES ASSUME IInv PROVE TurnsLeft \in Nat
    OBVIOUS
  <1>1. Len(points) \in Nat /\ i \in 1..(Len(points) + 1)
    BY PointFacts DEF IInv, TypeOK
  <1> QED
    BY <1>1, StationsFinite, TodoFinite DEF TurnsLeft

\* Each step leaves fewer turns: no route and no table of stations keeps the
\* sampling loop or the reduction turning.
THEOREM TurnsCountDown == Spec => [](TurnsLeft \in Nat) /\ [][TurnsLeft' < TurnsLeft]_vars
  <1>1. IInv /\ [Next]_vars => [TurnsLeft' < TurnsLeft]_vars
    <2> SUFFICES ASSUME IInv, Next PROVE TurnsLeft' < TurnsLeft
      BY DEF vars
    <2> DEFINE s == Cardinality(Stations)
    <2>1. /\ Len(points) \in Nat /\ i \in 1..(Len(points) + 1)
          /\ s \in Nat /\ Cardinality(todo) \in Nat
      BY PointFacts, StationsFinite, TodoFinite DEF IInv, TypeOK
    <2> HIDE DEF s
    <2>2. CASE Sample \/ Pass
      <3>1. stage = "sample" /\ stage' = "sample" /\ i' = i + 1 /\ points' = points
        BY <2>2 DEF Sample, Pass, Advance, inputs
      <3>2. TurnsLeft = Len(points) + 1 - i + s + 3 /\ TurnsLeft' = Len(points) + 1 - (i + 1) + s + 3
        BY <3>1 DEF TurnsLeft, s
      <3> QED
        BY <3>2, <2>1
    <2>3. CASE SampleEnd
      <3>1. stage = "sample" /\ stage' = "search"
        BY <2>3 DEF SampleEnd
      <3>2. TurnsLeft = Len(points) + 1 - i + s + 3 /\ TurnsLeft' = s + 2
        BY <3>1 DEF TurnsLeft, s
      <3> QED
        BY <3>2, <2>1
    <2>4. CASE Search
      <3>1. stage = "search" /\ stage' = "filter" /\ todo' = found'
        BY <2>4 DEF Search
      <3>2. TurnsLeft = s + 2 /\ TurnsLeft' = Cardinality(found') + 1
        BY <3>1 DEF TurnsLeft, s
      <3>3. Cardinality(found') \in Nat /\ Cardinality(found') <= s
        BY <2>4, FoundNoMore, FS_CardinalityType DEF s
      <3> QED
        BY <3>2, <3>3, <2>1
    <2>5. CASE SearchFails
      <3>1. stage = "search" /\ stage' = "failed"
        BY <2>5 DEF SearchFails
      <3>2. TurnsLeft = s + 2 /\ TurnsLeft' = 0
        BY <3>1 DEF TurnsLeft, s
      <3> QED
        BY <3>2, <2>1
    <2>6. CASE FilterSegment
      <3>1. stage = "filter" /\ stage' = "filter" /\ todo' \in SUBSET todo /\ todo' # todo
        BY <2>6 DEF FilterSegment
      <3>2. IsFiniteSet(todo) /\ Cardinality(todo') \in Nat /\ Cardinality(todo') <= Cardinality(todo)
            /\ Cardinality(todo) # Cardinality(todo')
        BY <3>1, TodoFinite, FS_Subset, FS_CardinalityType
      <3>3. TurnsLeft = Cardinality(todo) + 1 /\ TurnsLeft' = Cardinality(todo') + 1
        BY <3>1 DEF TurnsLeft
      <3> QED
        BY <3>2, <3>3, <2>1
    <2>7. CASE Finish
      <3>1. stage = "filter" /\ stage' = "done"
        BY <2>7 DEF Finish
      <3>2. TurnsLeft = Cardinality(todo) + 1 /\ TurnsLeft' = 0
        BY <3>1 DEF TurnsLeft
      <3> QED
        BY <3>2, <2>1
    <2> QED
      BY <2>2, <2>3, <2>4, <2>5, <2>6, <2>7 DEF Next
  <1> QED
    BY <1>1, Invariance, TurnsLeftIsNat, PTL DEF Spec

\* A set of candidates that is not empty has a first one, by price and then along
\* the road.
LEMMA FirstCandidate ==
    ASSUME NEW S \in SUBSET Candidates, S # {}
    PROVE  \E c \in S : \A d \in S : NotAfter(c, d)
  <1>1. PICK p \in {d.price : d \in S} : \A q \in {d.price : d \in S} : p <= q
    <2>1. {d.price : d \in S} \in SUBSET Nat /\ {d.price : d \in S} # {}
      BY DEF Candidates
    <2> QED
      BY <2>1, Least
  <1> DEFINE Cheap == {d \in S : d.price = p}
  <1>2. PICK a \in {d.at : d \in Cheap} : \A b \in {d.at : d \in Cheap} : a <= b
    <2>1. {d.at : d \in Cheap} \in SUBSET Nat /\ {d.at : d \in Cheap} # {}
      BY <1>1 DEF Candidates
    <2> QED
      BY <2>1, Least
  <1>3. PICK c \in Cheap : c.at = a
    BY <1>2
  <1>4. ASSUME NEW d \in S PROVE NotAfter(c, d)
    <2>1. c.price = p /\ p <= d.price /\ c.price \in Nat /\ d.price \in Nat
      BY <1>1 DEF Candidates
    <2>2. d.price = p => c.at <= d.at
      BY <1>2, <1>3
    <2> QED
      BY <2>1, <2>2 DEF NotAfter
  <1> QED
    BY <1>4

\* Every segment has its best: as many as the limit allows, found one by one.
LEMMA BestExists ==
    ASSUME NEW S \in SUBSET Candidates, IsFiniteSet(S)
    PROVE  \E K \in SUBSET S : IsBest(K, S)
  <1> DEFINE n == IF Cardinality(S) < Limit THEN Cardinality(S) ELSE Limit
             Best(K, m) == Cardinality(K) = m /\ \A c \in K, d \in S \ K : NotAfter(c, d)
             Sizes == {m \in 0..n : \E K \in SUBSET S : Best(K, m)}
  <1>1. n \in Nat /\ Cardinality(S) \in Nat /\ n <= Cardinality(S)
    BY CorridorAssumption, FS_CardinalityType
  <1>2. 0 \in Sizes
    <2>1. Best({}, 0) /\ {} \in SUBSET S
      BY FS_EmptySet
    <2> QED
      BY <2>1, <1>1
  <1>3. PICK m \in Sizes : \A l \in Sizes : l <= m
    <2>1. Sizes \in SUBSET Nat /\ Sizes # {} /\ \A l \in Sizes : l <= n
      BY <1>1, <1>2
    <2> HIDE DEF Sizes
    <2> QED
      BY <1>1, <2>1, Last
  <1>4. PICK K \in SUBSET S : Best(K, m)
    BY <1>3
  <1>5. CASE m = n
    BY <1>4, <1>5 DEF IsBest
  <1>6. ASSUME m # n PROVE FALSE
    <2>1. m \in Nat /\ m + 1 \in 0..n /\ m < Cardinality(S)
      BY <1>1, <1>3, <1>6
    <2>2. S \ K # {} /\ S \ K \in SUBSET Candidates
      BY <1>4, <2>1
    <2>3. PICK c \in S \ K : \A d \in S \ K : NotAfter(c, d)
      BY <2>2, FirstCandidate
    <2>4. Cardinality(K \cup {c}) = m + 1
      <3>1. IsFiniteSet(K)
        BY FS_Subset
      <3> QED
        BY <3>1, <2>3, <1>4, FS_AddElement
    <2>5. \A e \in K \cup {c}, d \in S \ (K \cup {c}) : NotAfter(e, d)
      BY <1>4, <2>3
    <2>6. m + 1 \in Sizes
      <3>1. K \cup {c} \in SUBSET S /\ Best(K \cup {c}, m + 1)
        BY <2>3, <2>4, <2>5
      <3> QED
        BY <2>1, <3>1
    <2>7. m + 1 <= m
      <3> HIDE DEF Sizes
      <3> QED
        BY <2>6, <1>3
    <2> QED
      BY <2>1, <2>7
  <1> QED
    BY <1>5, <1>6

\* The pipeline is never stuck before its end: there is a first segment, and it
\* has its best stations.
THEOREM GoesOn == Spec => [](stage \notin {"done", "failed"} => CanGoOn)
  <1>1. IInv => (stage \notin {"done", "failed"} => CanGoOn)
    <2> SUFFICES ASSUME IInv, stage = "filter", todo # {} PROVE CanGoOn
      BY DEF CanGoOn, IInv, TypeOK, SampleInv
    <2>1. IsFiniteSet(todo) /\ todo \subseteq Candidates
      BY TodoFinite
    <2>2. \A d \in todo : SegmentOf(d) \in Nat
      <3> SUFFICES ASSUME NEW d \in todo PROVE d.at \div Segment \in Nat
        BY DEF SegmentOf
      <3>1. d.at \in Nat
        BY <2>1 DEF Candidates
      <3> QED
        BY <3>1, SegmentFacts
    <2>3. PICK m \in {SegmentOf(d) : d \in todo} : \A l \in {SegmentOf(d) : d \in todo} : m <= l
      <3>1. {SegmentOf(d) : d \in todo} \in SUBSET Nat /\ {SegmentOf(d) : d \in todo} # {}
        BY <2>2
      <3> QED
        BY <3>1, Least
    <2>4. PICK c \in todo : SegmentOf(c) = m
      BY <2>3
    <2> DEFINE S == {d \in todo : SegmentOf(d) = SegmentOf(c)}
    <2>5. \E K \in SUBSET S : IsBest(K, S)
      <3>1. S \in SUBSET Candidates /\ IsFiniteSet(S)
        BY <2>1, FS_Subset
      <3> QED
        BY <3>1, BestExists
    <2> QED
      BY <2>3, <2>4, <2>5 DEF CanGoOn
  <1> QED
    BY <1>1, Invariance, PTL

=============================================================================

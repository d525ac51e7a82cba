-------------------------- MODULE AllCarInfoProofs --------------------------
(***************************************************************************)
(* Theorems about CarInfo, for any number of cars, any track and any facts  *)
(* the other packets may bring: where the camera may turn, and when, and    *)
(* that a race's gaps are the times between the cars.  Then those of the    *)
(* other two views, LapDetails and LapGaps, for AllCarInfo.                 *)
(***************************************************************************)
EXTENDS AllCarInfo, FiniteSetTheorems, TLAPS

(* In a race every car has a position, and outside a race the part of rankList_
   that rank_num_ counts holds cars of the last packet only. *)
RankedOnTrack ==
    /\ racing \subseteq Cars
    /\ race => \A c \in Cars : position[c] # 0
    /\ ~race => \A i \in 1..rank_num_ :
                   rankList_[i] \in Cars /\ position[rankList_[i]] # 0

(* Only a timed session has a flying lap in focus, and then it has a car. *)
FlyLapInFocus == scenes_ = "fly_lap" => ~race /\ cur_ # NoCar

(* The inductive invariant behind the two theorems on the camera. *)
IInv == RankedOnTrack /\ FlyLapInFocus

(* Initially nothing is ranked and nobody is followed. *)
LEMMA InitIInv == Init => IInv
<1> SUFFICES ASSUME Init PROVE IInv
    OBVIOUS
<1> USE DEF Init
<1>1. RankedOnTrack
    <2>1. \A c \in Cars : position[c] # 0
        BY TrackAssumption DEF Cars
    <2>2. 1..rank_num_ = {}
        OBVIOUS
    <2> QED
        BY <2>1, <2>2 DEF RankedOnTrack
<1>2. FlyLapInFocus
    BY DEF FlyLapInFocus
<1> QED
    BY <1>1, <1>2 DEF IInv

(* A race packet gives every car a position: one more than the cars ahead. *)
LEMMA RacePositions ==
    ASSUME RacePacket PROVE \A c \in Cars : position'[c] # 0
<1> TAKE c \in Cars
<1> DEFINE A == {d \in Cars \ {c} : Ahead(d, c)}
<1>1. IsFiniteSet(Cars)
    BY TrackAssumption, FS_Interval DEF Cars
<1>2. A \in SUBSET Cars
    OBVIOUS
<1>3. IsFiniteSet(A)
    BY <1>1, <1>2, FS_Subset
<1>4. Cardinality(A) \in Nat
    BY <1>3, FS_CardinalityType
<1>5. position'[c] = 1 + Cardinality(A)
    BY DEF RacePacket
<1> QED
    BY <1>4, <1>5

(* After a packet of a timed session the first rank_num_ entries of rankList_
   are the cars of that packet, whatever was there before. *)
LEMMA LapRanking ==
    ASSUME LapPacket, FillLapData
    PROVE  \A i \in 1..rank_num_' : rankList_'[i] \in Cars /\ position'[rankList_'[i]] # 0
<1>1. PICK present \in SUBSET Cars :
          /\ position' \in [Cars -> 0..NumCars]
          /\ \A c \in Cars : c \in present <=> position'[c] # 0
          /\ {position'[c] : c \in present} = 1..Cardinality(present)
    BY DEF LapPacket
<1>2. InPacket = present
    BY <1>1 DEF InPacket
<1>3. rank_num_' = Cardinality(present)
    BY <1>2 DEF FillLapData, CountRanked
<1> SUFFICES ASSUME NEW i \in 1..rank_num_'
             PROVE  rankList_'[i] \in Cars /\ position'[rankList_'[i]] # 0
    OBVIOUS
<1>4. PICK c \in present : position'[c] = i
    BY <1>1, <1>3
<1>5. c \in Cars /\ i # 0 /\ i \in Cars
    BY <1>1, <1>4, TrackAssumption DEF Cars
<1>6. rankList_'[i] = CHOOSE d \in Cars : position'[d] = i
    BY <1>4, <1>5 DEF FillLapData
<1>7. rankList_'[i] \in Cars /\ position'[rankList_'[i]] = i
    BY <1>4, <1>5, <1>6
<1> QED
    BY <1>5, <1>7

(* In a race the focus stays, or goes to an active car in a race scene. *)
LEMMA RaceFocus ==
    ASSUME RaceSQL
    PROVE  \/ UNCHANGED <<cur_, scenes_>>
           \/ cur_' \in Active /\ scenes_' # "fly_lap"
<1>1. CASE Stay
    BY <1>1 DEF Stay, StayOnCar
<1>2. ASSUME NEW gap, NEW facts, NEW forming, reCalcuteRaceFocus(gap, facts, forming)
      PROVE  \/ UNCHANGED <<cur_, scenes_>>
             \/ cur_' \in Active /\ scenes_' # "fly_lap"
    <2> DEFINE cars(i) == PickForRace(RaceScenes[i][1], gap, facts, forming)
    <2>1. CASE NobodyToFollow
        BY <2>1 DEF NobodyToFollow
    <2>2. ASSUME NEW i \in DOMAIN RaceScenes,
                 NEW c \in Candidates(RaceScenes[i][1], cars(i), gap),
                 SwitchCar(c, RaceScenes[i][1], RaceScenes[i][2])
          PROVE  cur_' \in Active /\ scenes_' # "fly_lap"
        <3>1. cars(i) \subseteq Active
            BY DEF PickForRace, FirstInRank
        <3>2. c \in cars(i)
            BY <2>2 DEF Candidates, FirstInRank
        <3>3. RaceScenes[i][1] # "fly_lap"
            BY DEF RaceScenes
        <3> QED
            BY <2>2, <3>1, <3>2, <3>3 DEF SwitchCar
    <2> QED
        BY <1>2, <2>1, <2>2 DEF reCalcuteRaceFocus
<1> QED
    BY <1>1, <1>2 DEF RaceSQL

(* In a timed session the focus stays on its car, or goes to a listed one and
   then does not leave a flying lap. *)
LEMMA LapFocus ==
    ASSUME LapSQL
    PROVE  \/ UNCHANGED <<cur_, scenes_>>
           \/ cur_' = cur_ /\ scenes_' # "fly_lap"
           \/ cur_' \in Listed /\ (cur_' # cur_ => scenes_ # "fly_lap" \/ cur_ = NoCar)
<1> DEFINE Goal ==
           \/ UNCHANGED <<cur_, scenes_>>
           \/ cur_' = cur_ /\ scenes_' # "fly_lap"
           \/ cur_' \in Listed /\ (cur_' # cur_ => scenes_ # "fly_lap" \/ cur_ = NoCar)
<1>1. CASE Stay
    BY <1>1 DEF Stay, StayOnCar
<1>2. ASSUME NEW doing, reCalcuteLapFocus(doing) PROVE Goal
    <2>1. CASE NobodyToFollow
        BY <2>1 DEF NobodyToFollow
    <2>2. ASSUME NEW c \in Listed, NEW scene, FollowLap(c, scene) PROVE Goal
        BY <2>2 DEF FollowLap, SwitchCar
    <2> QED
        BY <1>2, <2>1, <2>2 DEF reCalcuteLapFocus, FirstInRank
<1> QED
    BY <1>1, <1>2 DEF LapSQL

(* A LapData packet ranks anew and leaves the focus alone. *)
LEMMA LapDataStep == IInv /\ LapData => IInv'
<1> SUFFICES ASSUME IInv, LapData PROVE IInv'
    OBVIOUS
<1>1. RankedOnTrack'
    <2>1. CASE RacePacket
        BY <2>1, RacePositions DEF IInv, RankedOnTrack, LapData, RacePacket
    <2>2. CASE LapPacket
        BY <2>2, LapRanking DEF IInv, RankedOnTrack, LapData, LapPacket
    <2> QED
        BY <2>1, <2>2 DEF LapData
<1>2. FlyLapInFocus'
    BY DEF IInv, FlyLapInFocus, LapData, focus_car_
<1> QED
    BY <1>1, <1>2 DEF IInv

(* What ToSQL may do to the focus, given the invariant. *)
LEMMA ToSQLFocus ==
    ASSUME IInv, ToSQL
    PROVE  /\ FlyLapInFocus'
           /\ cur_' # cur_ => scenes_ # "fly_lap"
           /\ cur_' # cur_ => position[cur_'] # 0 /\ (race => cur_' \in racing)
<1>1. race' = race
    BY DEF ToSQL, track
<1>2. CASE RaceSQL
    <2>1. race
        BY <1>2 DEF RaceSQL
    <2>2. CASE UNCHANGED <<cur_, scenes_>>
        BY <1>1, <2>2 DEF IInv, FlyLapInFocus
    <2>3. CASE cur_' \in Active /\ scenes_' # "fly_lap"
        BY <2>1, <2>3 DEF IInv, FlyLapInFocus, RankedOnTrack, Active
    <2> QED
        BY <1>2, <2>2, <2>3, RaceFocus
<1>3. CASE LapSQL
    <2>1. ~race
        BY <1>3 DEF LapSQL
    <2>2. CASE cur_' = cur_ /\ (scenes_' = scenes_ \/ scenes_' # "fly_lap")
        BY <1>1, <2>2 DEF IInv, FlyLapInFocus
    <2>3. CASE cur_' \in Listed /\ (cur_' # cur_ => scenes_ # "fly_lap" \/ cur_ = NoCar)
        <3>1. cur_' \in Cars /\ position[cur_'] # 0
            BY <2>1, <2>3 DEF IInv, RankedOnTrack, Listed
        <3>2. cur_' # NoCar
            BY <3>1, TrackAssumption DEF Cars, NoCar
        <3> QED
            BY <1>1, <2>1, <2>3, <3>1, <3>2 DEF IInv, FlyLapInFocus
    <2> QED
        BY <1>3, <2>2, <2>3, LapFocus
<1> QED
    BY <1>2, <1>3 DEF ToSQL

(* IInv is an invariant. *)
LEMMA AlwaysIInv == Spec => []IInv
<1>1. IInv /\ [Next]_vars => IInv'
    <2> SUFFICES ASSUME IInv, [Next]_vars PROVE IInv'
        OBVIOUS
    <2>1. CASE LapData
        BY <2>1, LapDataStep
    <2>2. CASE ToSQL
        <3>1. RankedOnTrack'
            BY <2>2 DEF IInv, RankedOnTrack, ToSQL, track, ranking
        <3> QED
            BY <2>2, <3>1, ToSQLFocus DEF IInv
    <2>3. CASE UNCHANGED vars
        BY <2>3 DEF vars, track, ranking, focus_car_, IInv, RankedOnTrack, FlyLapInFocus
    <2> QED
        BY <2>1, <2>2, <2>3 DEF Next
<1> QED
    BY InitIInv, <1>1, PTL DEF Spec

(* The camera never turns to a car that the last LapData packet leaves out, or
   in a race to a car that is out of it. *)
THEOREM TurnsToCarsOnTrack == Spec => FocusOnTrack
<1>1. IInv /\ [Next]_vars =>
          [cur_' # cur_ => position[cur_'] # 0 /\ (race => cur_' \in racing)]_vars
    <2> SUFFICES ASSUME IInv, Next
                 PROVE  cur_' # cur_ => position[cur_'] # 0 /\ (race => cur_' \in racing)
        OBVIOUS
    <2> QED
        BY ToSQLFocus DEF Next, LapData, focus_car_
<1> QED
    BY AlwaysIInv, <1>1, PTL DEF Spec, FocusOnTrack

(* A car followed on its flying lap is left by way of not_fly_lap only. *)
THEOREM LeavesFlyLapsInTwoStages == Spec => FlyLapReleased
<1>1. IInv /\ [Next]_vars => [cur_' # cur_ => scenes_ # "fly_lap"]_vars
    <2> SUFFICES ASSUME IInv, Next PROVE cur_' # cur_ => scenes_ # "fly_lap"
        OBVIOUS
    <2> QED
        BY ToSQLFocus DEF Next, LapData, focus_car_
<1> QED
    BY AlwaysIInv, <1>1, PTL DEF Spec, FlyLapReleased
----------------------------------------------------------------------------
(* The lap table against the true times, and the types. *)

(* Multiplying by a natural number keeps the order. *)
LEMMA TimesMonotonic ==
    ASSUME NEW m \in Nat, NEW x \in Int, NEW y \in Int, x <= y
    PROVE  m * x <= m * y
OBVIOUS

(* The points a car has passed are its full laps and the points of this one. *)
PointNo(l, k) == (l - 1) * Points + k + 1

(* Lap and slice index name the last point a car has passed. *)
LEMMA LapAndSlice ==
    ASSUME NEW d \in 0..MaxDriven
    PROVE  /\ LapOf(d) \in 1..MaxLap
           /\ SliceOf(d) \in -1..(Points - 2)
           /\ PointNo(LapOf(d), SliceOf(d)) = d
<1>1. Points \in Nat \ {0} /\ MaxLap \in Nat \ {0} /\ d \in Nat
    BY TrackAssumption DEF MaxDriven
<1>2. d \div Points \in Nat /\ d % Points \in 0..(Points - 1)
    BY <1>1
<1>3. d = (d \div Points) * Points + (d % Points)
    BY <1>1
<1>4. d < MaxLap * Points
    BY <1>1, MaxLap * Points \in Int DEF MaxDriven
<1>5. d \div Points < MaxLap
    <2>1. SUFFICES ASSUME MaxLap <= d \div Points PROVE FALSE
        BY <1>1, <1>2
    <2>2. Points * MaxLap <= Points * (d \div Points)
        BY <1>1, <1>2, <2>1, TimesMonotonic
    <2> QED
        BY <1>1, <1>2, <1>3, <1>4, <2>2
<1> QED
    BY <1>1, <1>2, <1>3, <1>5 DEF LapOf, SliceOf, PointNo

(* No two cells of the lap table are for the same point. *)
LEMMA PointNoInjective ==
    ASSUME NEW l \in 1..MaxLap, NEW m \in 1..MaxLap,
           NEW k \in 0..(Points - 1), NEW j \in 0..(Points - 1),
           PointNo(l, k) = PointNo(m, j)
    PROVE  l = m /\ k = j
<1>1. Points \in Nat
    BY TrackAssumption
<1>2. ASSUME NEW x \in Int, NEW y \in Int, x < y
      PROVE  x * Points + Points <= y * Points
    <2>1. Points * (x + 1) <= Points * y
        BY <1>1, <1>2, TimesMonotonic
    <2> QED
        BY <1>1, <2>1
<1>3. CASE l < m
    <2>1. (l - 1) * Points + Points <= (m - 1) * Points
        BY <1>2, <1>3
    <2> QED
        BY <1>1, <2>1 DEF PointNo
<1>4. CASE m < l
    <2>1. (m - 1) * Points + Points <= (l - 1) * Points
        BY <1>2, <1>4
    <2> QED
        BY <1>1, <2>1 DEF PointNo
<1>5. CASE l = m
    BY <1>1, <1>5 DEF PointNo
<1> QED
    BY <1>3, <1>4, <1>5

(* The true times: a point has one exactly if the car has passed it. *)
PassedOnce ==
    /\ passed \in [Cars -> [1..MaxDriven -> 0..MaxPackets]]
    /\ \A c \in Cars, d \in 1..MaxDriven : passed[c][d] = 0 <=> d > driven[c]

(* A car's lap and point are those of the last packet it was in, and it does
   not move in a packet it is not in. *)
LapsAsDriven ==
    /\ \A c \in Cars :
          \/ currentLapNum[c] = 0 /\ driven[c] = 0
          \/ currentLapNum[c] = LapOf(driven[c]) /\ sliceIndex[c] = SliceOf(driven[c])
    /\ race /\ fresh => \A c \in Cars : currentLapNum[c] # 0

(* The slices hold the true times. *)
TimeOfPoint(c, d) == IF d \in 1..MaxDriven THEN passed[c][d] ELSE 0

SlicesAsPassed ==
    \A c \in Cars, l \in 1..MaxLap, k \in 0..(Points - 1) :
       slice[c][l][k] = TimeOfPoint(c, PointNo(l, k))

(* In a race the positions are a permutation of the cars, and rankList_ its
   inverse. *)
RaceOrder ==
    race =>
       /\ position \in [Cars -> Cars]
       /\ \A c, d \in Cars : position[c] = position[d] => c = d
       /\ fresh => rank_num_ = NumCars /\ \A c \in Cars : rankList_[position[c]] = c

(* There are NumCars cars. *)
LEMMA CarsFinite == IsFiniteSet(Cars) /\ Cardinality(Cars) = NumCars
BY TrackAssumption, FS_Interval DEF Cars

(* A race packet orders the cars: no two of them, and no gap. *)
LEMMA RacePacketOrder ==
    ASSUME TypeOK, RacePacket, RaceOrder
    PROVE  /\ position' \in [Cars -> Cars]
           /\ \A c, d \in Cars : position'[c] = position'[d] => c = d
           /\ \A i \in Cars : \E c \in Cars : position'[c] = i
<1> DEFINE Front(c) == {d \in Cars \ {c} : Ahead(d, c)}
<1>0. /\ driven' \in [Cars -> Int]
      /\ position \in [Cars -> Int]
      /\ \A c, d \in Cars : position[c] = position[d] => c = d
    <2>1. race /\ driven \in [Cars -> 0..MaxDriven] /\ MaxDriven \in Int
        BY TrackAssumption DEF TypeOK, RacePacket, MaxDriven
    <2>2. PICK moving \in SUBSET {c \in racing : driven[c] < MaxDriven} :
             driven' = [c \in Cars |-> driven[c] + IF c \in moving THEN 1 ELSE 0]
        BY DEF RacePacket
    <2>3. position \in [Cars -> Cars]
        BY <2>1 DEF RaceOrder
    <2> QED
        BY <2>1, <2>2, <2>3 DEF RaceOrder, Cars
<1>1. ASSUME NEW c \in Cars
      PROVE  /\ IsFiniteSet(Front(c))
             /\ Cardinality(Front(c)) \in 0..(NumCars - 1)
             /\ position'[c] = 1 + Cardinality(Front(c))
    <2>1. Front(c) \in SUBSET (Cars \ {c})
        OBVIOUS
    <2>2. IsFiniteSet(Cars \ {c}) /\ Cardinality(Cars \ {c}) = NumCars - 1
        BY CarsFinite, FS_RemoveElement
    <2>3. IsFiniteSet(Front(c)) /\ Cardinality(Front(c)) <= NumCars - 1
        BY <2>1, <2>2, FS_Subset
    <2>4. Cardinality(Front(c)) \in Nat
        BY <2>3, FS_CardinalityType
    <2>5. position'[c] = 1 + Cardinality(Front(c))
        BY DEF RacePacket
    <2> QED
        BY <2>3, <2>4, <2>5, TrackAssumption
<1>2. position' \in [Cars -> Cars]
    <2>1. position' = [c \in Cars |-> 1 + Cardinality(Front(c))]
        BY DEF RacePacket
    <2>2. \A c \in Cars : 1 + Cardinality(Front(c)) \in Cars
        <3>1. NumCars \in Int /\ \A n \in 0..(NumCars - 1) : 1 + n \in Cars
            BY TrackAssumption DEF Cars
        <3> QED
            BY <1>1, <3>1
    <2> QED
        BY <2>1, <2>2
<1>3. ASSUME NEW c \in Cars, NEW d \in Cars, Ahead(c, d)
      PROVE  position'[c] < position'[d]
    <2>1. c # d
        BY <1>0, <1>3 DEF Ahead
    <2>2. ~Ahead(d, c)
        BY <1>0, <1>3, <2>1 DEF Ahead
    <2>3. \A e \in Cars : Ahead(e, c) => Ahead(e, d)
        BY <1>0, <1>3 DEF Ahead
    <2>4. Front(c) \cup {c} \in SUBSET Front(d)
        BY <1>3, <2>1, <2>2, <2>3
    <2>5. Cardinality(Front(c) \cup {c}) = Cardinality(Front(c)) + 1
        BY <1>1, FS_AddElement
    <2>6. Cardinality(Front(c) \cup {c}) <= Cardinality(Front(d))
        BY <1>1, <2>4, FS_Subset
    <2> QED
        <3> HIDE DEF Front
        <3> QED
            BY <1>1, <2>5, <2>6, TrackAssumption
<1>4. \A c, d \in Cars : position'[c] = position'[d] => c = d
    <2> SUFFICES ASSUME NEW c \in Cars, NEW d \in Cars, c # d
                 PROVE  position'[c] # position'[d]
        OBVIOUS
    <2>1. Ahead(c, d) \/ Ahead(d, c)
        BY <1>0 DEF Ahead
    <2>2. position'[c] \in Int /\ position'[d] \in Int
        <3> HIDE DEF Front
        <3> QED
            BY <1>1, TrackAssumption
    <2> QED
        BY <1>3, <2>1, <2>2
<1>5. position' \in Injection(Cars, Cars)
    BY <1>2, <1>4 DEF Injection, IsInjective
<1>6. position' \in Surjection(Cars, Cars)
    BY <1>5, CarsFinite, FS_Injection
<1> QED
    BY <1>2, <1>4, <1>6 DEF Surjection

(* The last point of a race has a number. *)
LEMMA LastPoint == MaxDriven \in Int
    BY TrackAssumption DEF MaxDriven

(* What a packet does to the drive: each car stays or goes on by a point, and
   outside a race nobody moves. *)
LEMMA PacketDrive ==
    ASSUME TypeOK, LapData
    PROVE  /\ driven' \in [Cars -> 0..MaxDriven]
           /\ \A c \in Cars : driven'[c] = driven[c] \/ driven'[c] = driven[c] + 1
           /\ ~race => driven' = driven
           /\ sessionTime' \in 1..MaxPackets
           /\ racing' \subseteq Cars
           /\ race' = race
<1>1. driven \in [Cars -> 0..MaxDriven] /\ MaxDriven \in Int /\ racing \subseteq Cars
    BY LastPoint DEF TypeOK
<1>2. CASE RacePacket
    <2>1. PICK moving \in SUBSET {c \in racing : driven[c] < MaxDriven} :
             driven' = [c \in Cars |-> driven[c] + IF c \in moving THEN 1 ELSE 0]
        BY <1>2 DEF RacePacket
    <2>2. \A c \in Cars : driven[c] \in 0..MaxDriven /\ driven'[c] \in 0..MaxDriven
        BY <1>1, <2>1
    <2>3. race /\ racing' \subseteq Cars
        BY <1>1, <1>2 DEF RacePacket
    <2> QED
        BY <1>1, <2>1, <2>2, <2>3, SceneAssumption DEF TypeOK, LapData
<1>3. CASE LapPacket
    BY <1>1, <1>3, SceneAssumption DEF TypeOK, LapData, LapPacket
<1> QED
    BY <1>2, <1>3 DEF LapData

(* A packet sets the time of the point a car has just come past, and no other. *)
LEMMA PassedStep ==
    ASSUME TypeOK, PassedOnce, LapData
    PROVE  /\ PassedOnce'
           /\ \A c \in Cars, d \in Nat :
                 TimeOfPoint(c, d)' =
                    IF driven'[c] > driven[c] /\ d = driven'[c]
                    THEN sessionTime' ELSE TimeOfPoint(c, d)
<1> DEFINE New(c) == IF driven'[c] > driven[c]
                     THEN [passed[c] EXCEPT ![driven'[c]] = sessionTime']
                     ELSE passed[c]
<1>1. /\ passed' = [c \in Cars |-> New(c)]
      /\ passed \in [Cars -> [1..MaxDriven -> 0..MaxPackets]]
      /\ \A c \in Cars : driven[c] \in 0..MaxDriven /\ MaxDriven \in Int
    <2>1. passed' = [c \in Cars |-> New(c)]
        BY DEF LapData
    <2>2. passed \in [Cars -> [1..MaxDriven -> 0..MaxPackets]]
        BY DEF PassedOnce
    <2>3. driven \in [Cars -> 0..MaxDriven] /\ MaxDriven \in Int
        BY LastPoint DEF TypeOK
    <2> QED
        BY <2>1, <2>2, <2>3
<1>2. \A c \in Cars : driven'[c] > driven[c] => driven'[c] \in 1..MaxDriven
    BY <1>1, PacketDrive
<1>3. \A c \in Cars : New(c) \in [1..MaxDriven -> 0..MaxPackets]
    BY <1>1, <1>2, PacketDrive
<1>4. \A c \in Cars, d \in 1..MaxDriven :
         passed'[c][d] = IF driven'[c] > driven[c] /\ d = driven'[c]
                         THEN sessionTime' ELSE passed[c][d]
    BY <1>1, <1>2
<1>5. \A c \in Cars, d \in 1..MaxDriven : passed'[c][d] = 0 <=> d > driven'[c]
    <2> SUFFICES ASSUME NEW c \in Cars, NEW d \in 1..MaxDriven
                 PROVE  passed'[c][d] = 0 <=> d > driven'[c]
        OBVIOUS
    <2>1. passed[c][d] = 0 <=> d > driven[c]
        BY DEF PassedOnce
    <2>2. /\ driven[c] \in Int /\ d \in Int
          /\ driven'[c] = driven[c] \/ driven'[c] = driven[c] + 1
          /\ sessionTime' # 0
        BY <1>1, PacketDrive, SceneAssumption
    <2> QED
        BY <1>4, <2>1, <2>2
<1> QED
    BY <1>1, <1>2, <1>3, <1>4, <1>5 DEF PassedOnce, TimeOfPoint

(* FillSlices writes the points passed since the packet before, and those only. *)
LEMMA FillStep ==
    ASSUME TypeOK, PassedOnce, LapsAsDriven, SlicesAsPassed, LapData,
           NEW c \in Cars
    PROVE  /\ FillSlices(c) \in [1..MaxLap -> [0..(Points - 1) -> 0..MaxPackets]]
           /\ \A l \in 1..MaxLap, k \in 0..(Points - 1) :
                 FillSlices(c)[l][k] = TimeOfPoint(c, PointNo(l, k))'
<1> DEFINE d == driven'[c]
           lap == LapOf(d)
           k0 == SliceOf(d)
           entered == currentLapNum[c] # lap /\ lap > 1
           last == IF entered
                   THEN [slice[c] EXCEPT ![lap - 1][Points - 1] = sessionTime']
                   ELSE slice[c]
<1>0. Points \in Nat \ {0, 1} /\ MaxLap \in Nat /\ MaxPackets \in Nat
    BY TrackAssumption, SceneAssumption
<1>1. /\ d \in 0..MaxDriven
      /\ driven[c] \in 0..MaxDriven
      /\ d = driven[c] \/ d = driven[c] + 1
      /\ sessionTime' \in 1..MaxPackets
    BY PacketDrive DEF TypeOK
<1>2. lap \in 1..MaxLap /\ k0 \in -1..(Points - 2) /\ PointNo(lap, k0) = d
    BY <1>1, LapAndSlice
<1>3. FillSlices(c) = IF k0 >= 0 /\ last[lap][k0] = 0
                      THEN [last EXCEPT ![lap][k0] = sessionTime']
                      ELSE last
    BY DEF FillSlices
<1>4. slice[c] \in [1..MaxLap -> [0..(Points - 1) -> 0..MaxPackets]]
    BY DEF TypeOK
<1>5. /\ last \in [1..MaxLap -> [0..(Points - 1) -> 0..MaxPackets]]
      /\ \A l \in 1..MaxLap, k \in 0..(Points - 1) :
            last[l][k] = IF entered /\ l = lap - 1 /\ k = Points - 1
                         THEN sessionTime' ELSE slice[c][l][k]
    <2>1. CASE entered
        <3>1. lap - 1 \in 1..MaxLap /\ Points - 1 \in 0..(Points - 1)
            BY <1>0, <1>2, <2>1
        <3>2. last = [slice[c] EXCEPT ![lap - 1][Points - 1] = sessionTime']
            BY <2>1
        <3>3. sessionTime' \in 0..MaxPackets
            BY <1>0, <1>1
        <3> HIDE DEF last, lap
        <3> QED
            BY <1>4, <2>1, <3>1, <3>2, <3>3
    <2>2. CASE ~entered
        BY <1>4, <2>2
    <2> QED
        BY <2>1, <2>2
<1>6. /\ FillSlices(c) \in [1..MaxLap -> [0..(Points - 1) -> 0..MaxPackets]]
      /\ \A l \in 1..MaxLap, k \in 0..(Points - 1) :
            FillSlices(c)[l][k] = IF l = lap /\ k = k0 /\ last[l][k] = 0
                                  THEN sessionTime' ELSE last[l][k]
    <2> HIDE DEF last, lap, k0
    <2>1. CASE k0 >= 0 /\ last[lap][k0] = 0
        <3>1. k0 \in 0..(Points - 1) /\ sessionTime' \in 0..MaxPackets
            BY <1>0, <1>1, <1>2, <2>1
        <3>2. FillSlices(c) = [last EXCEPT ![lap][k0] = sessionTime']
            BY <1>3, <2>1
        <3>3. last \in [1..MaxLap -> [0..(Points - 1) -> 0..MaxPackets]]
            BY <1>5
        <3>4. lap \in 1..MaxLap /\ last[lap][k0] = 0
            BY <1>2, <2>1
        <3> HIDE DEF entered, d
        <3>5. FillSlices(c) \in [1..MaxLap -> [0..(Points - 1) -> 0..MaxPackets]]
            BY <3>1, <3>2, <3>3, <3>4
        <3>6. \A l \in 1..MaxLap, k \in 0..(Points - 1) :
                 FillSlices(c)[l][k] = IF l = lap /\ k = k0 THEN sessionTime' ELSE last[l][k]
            <4> TAKE l \in 1..MaxLap, k \in 0..(Points - 1)
            <4>1. CASE l # lap
                BY <3>2, <3>3, <3>4, <4>1
            <4>2. CASE l = lap
                <5>1. FillSlices(c)[l] = [last[l] EXCEPT ![k0] = sessionTime']
                    BY <3>2, <3>3, <3>4, <4>2
                <5>2. last[l] \in [0..(Points - 1) -> 0..MaxPackets]
                    BY <3>3
                <5> QED
                    BY <3>1, <4>2, <5>1, <5>2
            <4> QED
                BY <4>1, <4>2
        <3> QED
            BY <3>4, <3>5, <3>6
    <2>2. CASE ~(k0 >= 0 /\ last[lap][k0] = 0)
        <3>1. FillSlices(c) = last
            BY <1>3, <2>2
        <3>2. \A l \in 1..MaxLap, k \in 0..(Points - 1) :
                 ~(l = lap /\ k = k0 /\ last[l][k] = 0)
            BY <1>0, <2>2
        <3> HIDE DEF entered
        <3> QED
            BY <1>5, <3>1, <3>2
    <2> QED
        BY <2>1, <2>2
<1>7. \A l \in 1..MaxLap, k \in 0..(Points - 1) : PointNo(l, k) \in Nat \ {0}
    <2> SUFFICES ASSUME NEW l \in 1..MaxLap, NEW k \in 0..(Points - 1)
                 PROVE  PointNo(l, k) \in Nat \ {0}
        OBVIOUS
    <2>1. Points * 0 <= Points * (l - 1)
        BY <1>0, TimesMonotonic
    <2> QED
        BY <1>0, <2>1 DEF PointNo
<1>8. entered => k0 = -1 /\ d = driven[c] + 1 /\ PointNo(lap - 1, Points - 1) = d
    <2>1. SUFFICES ASSUME entered
                   PROVE  k0 = -1 /\ d = driven[c] + 1 /\ PointNo(lap - 1, Points - 1) = d
        OBVIOUS
    <2>2. d # 0 /\ d # 1
        BY <1>0, <2>1 DEF LapOf
    <2>3. currentLapNum[c] = LapOf(driven[c]) /\ d = driven[c] + 1
        BY <1>1, <2>1, <2>2 DEF LapsAsDriven
    <2>4. k0 = -1
        BY <1>0, <1>1, <1>2, <2>1, <2>3 DEF LapOf, SliceOf
    <2> QED
        BY <1>0, <1>2, <2>3, <2>4 DEF PointNo
<1>9. \A l \in 1..MaxLap, k \in 0..(Points - 1) :
         /\ slice[c][l][k] = TimeOfPoint(c, PointNo(l, k))
         /\ TimeOfPoint(c, PointNo(l, k))' =
               IF d > driven[c] /\ PointNo(l, k) = d
               THEN sessionTime' ELSE TimeOfPoint(c, PointNo(l, k))
         /\ PointNo(l, k) = d /\ d = driven[c] => TimeOfPoint(c, PointNo(l, k)) # 0
         /\ PointNo(l, k) = d /\ d > driven[c] => TimeOfPoint(c, PointNo(l, k)) = 0
    <2> SUFFICES ASSUME NEW l \in 1..MaxLap, NEW k \in 0..(Points - 1)
                 PROVE
         /\ slice[c][l][k] = TimeOfPoint(c, PointNo(l, k))
         /\ TimeOfPoint(c, PointNo(l, k))' =
               IF d > driven[c] /\ PointNo(l, k) = d
               THEN sessionTime' ELSE TimeOfPoint(c, PointNo(l, k))
         /\ PointNo(l, k) = d /\ d = driven[c] => TimeOfPoint(c, PointNo(l, k)) # 0
         /\ PointNo(l, k) = d /\ d > driven[c] => TimeOfPoint(c, PointNo(l, k)) = 0
        OBVIOUS
    <2>1. slice[c][l][k] = TimeOfPoint(c, PointNo(l, k))
        BY DEF SlicesAsPassed
    <2>2. PointNo(l, k) \in Nat \ {0}
        BY <1>7
    <2>3. TimeOfPoint(c, PointNo(l, k))' =
               IF d > driven[c] /\ PointNo(l, k) = d
               THEN sessionTime' ELSE TimeOfPoint(c, PointNo(l, k))
        BY <2>2, PassedStep DEF PointNo
    <2>4. PointNo(l, k) = d => d \in 1..MaxDriven
        BY <1>1, <2>2
    <2>5. PointNo(l, k) = d => (passed[c][d] = 0 <=> d > driven[c])
        BY <2>4 DEF PassedOnce
    <2>6. PointNo(l, k) = d => (TimeOfPoint(c, PointNo(l, k)) = 0 <=> d > driven[c])
        BY <2>4, <2>5 DEF TimeOfPoint
    <2> QED
        BY <1>1, <2>1, <2>3, <2>6
<1>10. \A l \in 1..MaxLap, k \in 0..(Points - 1) :
          /\ k0 >= 0 => (PointNo(l, k) = d <=> l = lap /\ k = k0)
          /\ lap > 1 /\ k0 = -1 =>
                (PointNo(l, k) = d <=> l = lap - 1 /\ k = Points - 1)
          /\ lap = 1 /\ k0 = -1 => PointNo(l, k) # d
    <2> SUFFICES ASSUME NEW l \in 1..MaxLap, NEW k \in 0..(Points - 1)
                 PROVE
          /\ k0 >= 0 => (PointNo(l, k) = d <=> l = lap /\ k = k0)
          /\ lap > 1 /\ k0 = -1 =>
                (PointNo(l, k) = d <=> l = lap - 1 /\ k = Points - 1)
          /\ lap = 1 /\ k0 = -1 => PointNo(l, k) # d
        OBVIOUS
    <2>1. CASE k0 >= 0
        <3>1. k0 \in 0..(Points - 1)
            BY <1>0, <1>2, <2>1
        <3> HIDE DEF lap, k0, d
        <3> QED
            BY <1>2, <2>1, <3>1, PointNoInjective
    <2>2. CASE lap > 1 /\ k0 = -1
        <3>1. lap - 1 \in 1..MaxLap /\ Points - 1 \in 0..(Points - 1)
            BY <1>0, <1>2, <2>2
        <3>2. PointNo(lap - 1, Points - 1) = d
            <4> HIDE DEF lap, k0, d
            <4> QED
                BY <1>0, <1>2, <2>2 DEF PointNo
        <3>3. DEFINE m == lap - 1
                     j == Points - 1
        <3>4. m \in 1..MaxLap /\ j \in 0..(Points - 1) /\ PointNo(m, j) = d
            BY <3>1, <3>2
        <3> HIDE DEF lap, k0, d, m, j
        <3>5. PointNo(l, k) = d <=> l = m /\ k = j
            BY <3>4, PointNoInjective
        <3> QED
            BY <2>2, <3>5 DEF m, j
    <2>3. CASE lap = 1 /\ k0 = -1
        <3>1. d = 0
            BY <1>0, <1>2, <2>3 DEF PointNo
        <3> QED
            BY <1>7, <2>3, <3>1
    <2> QED
        BY <1>2, <2>1, <2>2, <2>3
<1>11. \A l \in 1..MaxLap, k \in 0..(Points - 1) :
          FillSlices(c)[l][k] = TimeOfPoint(c, PointNo(l, k))'
    <2> SUFFICES ASSUME NEW l \in 1..MaxLap, NEW k \in 0..(Points - 1)
                 PROVE  FillSlices(c)[l][k] = TimeOfPoint(c, PointNo(l, k))'
        OBVIOUS
    <2> HIDE DEF last
    <2>1. CASE PointNo(l, k) = d
        <3>1. CASE k0 >= 0
            <4>1. l = lap /\ k = k0 /\ ~entered
                BY <1>8, <1>10, <2>1, <3>1
            <4>2. last[l][k] = slice[c][l][k]
                BY <1>5, <4>1
            <4>3. FillSlices(c)[l][k] =
                     IF slice[c][l][k] = 0 THEN sessionTime' ELSE slice[c][l][k]
                BY <1>6, <4>1, <4>2
            <4> QED
                BY <1>1, <1>9, <2>1, <4>3
        <3>2. CASE k0 = -1
            <4>1. lap > 1 /\ l = lap - 1 /\ k = Points - 1
                BY <1>2, <1>10, <2>1, <3>2
            <4>2. FillSlices(c)[l][k] = last[l][k]
                <5>1. k # k0
                    BY <1>0, <3>2, <4>1
                <5> QED
                    BY <1>6, <5>1
            <4>3. CASE entered
                <5>1. last[l][k] = sessionTime' /\ d = driven[c] + 1
                    BY <1>5, <1>8, <4>1, <4>3
                <5> QED
                    BY <1>1, <1>9, <2>1, <4>2, <5>1
            <4>4. CASE ~entered
                <5>1. last[l][k] = slice[c][l][k]
                    BY <1>5, <4>4
                <5>2. d = driven[c]
                    <6>1. LapOf(driven[c]) = lap
                        BY <1>2, <4>1, <4>4 DEF LapsAsDriven
                    <6>2. PointNo(lap, SliceOf(driven[c])) = driven[c] /\ SliceOf(driven[c]) \in -1..(Points - 2)
                        BY <1>1, <6>1, LapAndSlice
                    <6>3. PointNo(lap, -1) = d
                        BY <1>2, <3>2
                    <6> HIDE DEF d, lap
                    <6> QED
                        BY <1>0, <1>1, <1>2, <6>2, <6>3 DEF PointNo
                <5> QED
                    BY <1>1, <1>9, <2>1, <4>2, <5>1, <5>2
            <4> QED
                BY <4>3, <4>4
        <3> QED
            BY <1>2, <3>1, <3>2
    <2>2. CASE PointNo(l, k) # d
        <3>1. ~(l = lap /\ k = k0)
            BY <1>2, <2>2
        <3>2. ~(entered /\ l = lap - 1 /\ k = Points - 1)
            BY <1>8, <2>2
        <3>3. FillSlices(c)[l][k] = slice[c][l][k]
            BY <1>5, <1>6, <3>1, <3>2
        <3> QED
            BY <1>9, <2>2, <3>3
    <2> QED
        BY <2>1, <2>2
<1> QED
    BY <1>6, <1>11

(* In a race every car is in the packet. *)
LEMMA RaceInPacket ==
    ASSUME TypeOK, RaceOrder, RacePacket PROVE InPacket = Cars
<1>1. \A c \in Cars : position'[c] \in Cars
    BY RacePacketOrder
<1>2. \A c \in Cars : c # 0
    BY TrackAssumption DEF Cars
<1> QED
    BY <1>1, <1>2 DEF InPacket

(* Who is in the packet or has not moved. *)
LEMMA InPacketOrStill ==
    ASSUME TypeOK, RaceOrder, LapData, NEW c \in Cars \ InPacket
    PROVE  ~race /\ driven'[c] = driven[c]
BY RaceInPacket, PacketDrive DEF LapData, LapPacket

(* A packet leaves a ranking of the cars, in a race of all of them. *)
LEMMA LapDataRanking ==
    ASSUME TypeOK, RaceOrder, LapData
    PROVE  /\ position' \in [Cars -> 0..NumCars]
           /\ rankList_' \in [Cars -> Cars \cup {NoCar}]
           /\ rank_num_' \in 0..NumCars
           /\ RaceOrder'
<1>1. position' \in [Cars -> 0..NumCars]
    BY RacePacketOrder DEF LapData, LapPacket, Cars
<1>2. rankList_' \in [Cars -> Cars \cup {NoCar}]
    <2>1. rankList_' = [i \in Cars |->
             IF \E c \in Cars : position'[c] = i
             THEN CHOOSE c \in Cars : position'[c] = i
             ELSE rankList_[i]]
        BY DEF LapData, FillLapData
    <2>2. \A i \in Cars : rankList_[i] \in Cars \cup {NoCar}
        BY DEF TypeOK
    <2> QED
        BY <2>1, <2>2
<1>3. rank_num_' \in 0..NumCars
    <2>1. rank_num_' = Cardinality(InPacket) /\ InPacket \in SUBSET Cars
        BY DEF LapData, FillLapData, CountRanked, InPacket
    <2>2. IsFiniteSet(InPacket) /\ Cardinality(InPacket) <= NumCars
        BY <2>1, CarsFinite, FS_Subset
    <2>3. Cardinality(InPacket) \in Nat
        BY <2>2, FS_CardinalityType
    <2> QED
        BY <2>1, <2>2, <2>3, TrackAssumption
<1>4. RaceOrder'
    <2>1. CASE LapPacket
        BY <2>1 DEF LapPacket, LapData, RaceOrder
    <2>2. CASE RacePacket
        <3>1. rank_num_' = NumCars
            BY <2>2, RaceInPacket, CarsFinite DEF LapData, FillLapData, CountRanked
        <3>2. ASSUME NEW c \in Cars PROVE rankList_'[position'[c]] = c
            <4>1. position'[c] \in Cars
                BY <2>2, RacePacketOrder
            <4>2. rankList_'[position'[c]] = CHOOSE d \in Cars : position'[d] = position'[c]
                BY <4>1 DEF LapData, FillLapData
            <4>3. (CHOOSE d \in Cars : position'[d] = position'[c]) \in
                     {d \in Cars : position'[d] = position'[c]}
                OBVIOUS
            <4> QED
                BY <2>2, <4>2, <4>3, RacePacketOrder
        <3> QED
            BY <2>2, <3>1, <3>2, RacePacketOrder DEF RaceOrder
    <2> QED
        BY <2>1, <2>2 DEF LapData
<1> QED
    BY <1>1, <1>2, <1>3, <1>4

(* The inductive invariant behind the types and the gaps. *)
TimedIInv == TypeOK /\ PassedOnce /\ LapsAsDriven /\ SlicesAsPassed /\ RaceOrder

(* A LapData packet keeps it. *)
LEMMA LapDataTimes ==
    ASSUME TimedIInv, LapData PROVE TimedIInv'
<1> USE DEF TimedIInv
<1>1. /\ currentLapNum' \in [Cars -> 0..MaxLap]
      /\ sliceIndex' \in [Cars -> -1..(Points - 1)]
    <2>1. \A c \in Cars : /\ LapOf(driven'[c]) \in 0..MaxLap
                          /\ SliceOf(driven'[c]) \in -1..(Points - 1)
        BY PacketDrive, LapAndSlice, TrackAssumption
    <2>2. currentLapNum \in [Cars -> 0..MaxLap] /\ sliceIndex \in [Cars -> -1..(Points - 1)]
        BY DEF TypeOK
    <2> QED
        BY <2>1, <2>2 DEF LapData, FillLapData
<1>2. slice' \in [Cars -> [1..MaxLap -> [0..(Points - 1) -> 0..MaxPackets]]]
    <2>1. \A c \in Cars : FillSlices(c) \in [1..MaxLap -> [0..(Points - 1) -> 0..MaxPackets]]
        BY FillStep
    <2>2. slice \in [Cars -> [1..MaxLap -> [0..(Points - 1) -> 0..MaxPackets]]]
        BY DEF TypeOK
    <2>3. slice' = [c \in Cars |-> IF c \in InPacket THEN FillSlices(c) ELSE slice[c]]
        BY DEF LapData, FillLapData
    <2> QED
        BY <2>1, <2>2, <2>3
<1>3. TypeOK'
    <2>1. /\ UNCHANGED <<diffBetweenFront, cur_, scenes_, hold>>
          /\ race' = race /\ fresh' = TRUE
        BY DEF LapData, focus_car_
    <2>2. /\ driven' \in [Cars -> 0..MaxDriven] /\ racing' \subseteq Cars
          /\ sessionTime' \in 0..MaxPackets
        BY PacketDrive
    <2>3. /\ position' \in [Cars -> 0..NumCars]
          /\ rankList_' \in [Cars -> Cars \cup {NoCar}]
          /\ rank_num_' \in 0..NumCars
        BY LapDataRanking
    <2> QED
        BY <1>1, <1>2, <2>1, <2>2, <2>3 DEF TypeOK
<1>4. LapsAsDriven'
    <2>1. ASSUME NEW c \in InPacket
          PROVE  /\ currentLapNum'[c] = LapOf(driven'[c]) /\ sliceIndex'[c] = SliceOf(driven'[c])
                 /\ currentLapNum'[c] # 0
        <3>1. c \in Cars
            BY DEF InPacket
        <3> QED
            BY <3>1, PacketDrive, LapAndSlice DEF LapData, FillLapData
    <2>2. ASSUME NEW c \in Cars \ InPacket
          PROVE  /\ currentLapNum'[c] = currentLapNum[c] /\ sliceIndex'[c] = sliceIndex[c]
                 /\ ~race /\ driven'[c] = driven[c]
        BY InPacketOrStill DEF LapData, FillLapData
    <2>3. race' = race
        BY PacketDrive
    <2> QED
        BY <2>1, <2>2, <2>3 DEF LapsAsDriven
<1>5. SlicesAsPassed'
    <2> SUFFICES ASSUME NEW c \in Cars, NEW l \in 1..MaxLap, NEW k \in 0..(Points - 1)
                 PROVE  slice'[c][l][k] = TimeOfPoint(c, PointNo(l, k))'
        BY DEF SlicesAsPassed
    <2>1. CASE c \in InPacket
        BY <2>1, FillStep DEF LapData, FillLapData
    <2>2. CASE c \notin InPacket
        <3>1. slice'[c] = slice[c]
            BY <2>2 DEF LapData, FillLapData
        <3>2. passed'[c] = passed[c]
            BY <2>2, InPacketOrStill, PacketDrive DEF LapData
        <3>3. TimeOfPoint(c, PointNo(l, k))' = TimeOfPoint(c, PointNo(l, k))
            BY <3>2 DEF TimeOfPoint, PointNo
        <3> QED
            BY <3>1, <3>3 DEF SlicesAsPassed
    <2> QED
        BY <2>1, <2>2
<1> QED
    BY <1>3, <1>4, <1>5, PassedStep, LapDataRanking

(* In a race ToSQL finds each car, and the one in front, by its position. *)
LEMMA RaceRank ==
    ASSUME TypeOK, RaceOrder, race, fresh, NEW c \in Cars
    PROVE  /\ c \in Listed
           /\ RankOf(c) = position[c]
           /\ position[c] # 1 =>
                 /\ rankList_[position[c] - 1] \in Cars
                 /\ position[rankList_[position[c] - 1]] = position[c] - 1
           /\ \A f \in Cars : position[f] = position[c] - 1 =>
                 rankList_[RankOf(c) - 1] = f
<1>1. /\ position \in [Cars -> Cars]
      /\ \A e, d \in Cars : position[e] = position[d] => e = d
      /\ rank_num_ = NumCars
      /\ \A d \in Cars : rankList_[position[d]] = d
    BY DEF RaceOrder
<1>2. position \in Injection(Cars, Cars)
    BY <1>1 DEF Injection, IsInjective
<1>3. \A i \in Cars : \E d \in Cars : position[d] = i
    BY <1>2, CarsFinite, FS_Injection DEF Surjection
<1>4. c \in Listed
    BY <1>1 DEF Listed, Cars
<1>5. \A i \in Cars : rankList_[i] = c => i = position[c]
    BY <1>1, <1>3
<1>6. RankOf(c) = position[c]
    <2>1. position[c] \in 1..rank_num_ /\ rankList_[position[c]] = c
        BY <1>1 DEF Cars
    <2>2. \A i \in 1..rank_num_ : rankList_[i] = c => i = position[c]
        BY <1>1, <1>5 DEF Cars
    <2> QED
        BY <2>1, <2>2 DEF RankOf
<1>7. position[c] # 1 => position[c] - 1 \in Cars
    BY <1>1, TrackAssumption DEF Cars
<1> QED
    BY <1>1, <1>3, <1>4, <1>6, <1>7

(* A gap is read at a point of the lap table, and it is the true one. *)
LEMMA GapRead ==
    ASSUME TimedIInv, race, fresh, NEW c \in Cars, NEW f \in Cars
    PROVE  /\ GapAtLastPoint(c, f) = TimeBehind(c, f)
           /\ GapAtLastPoint(c, f) \in 0..(Millis * MaxPackets)
<1> USE DEF TimedIInv
<1> DEFINE d == driven[c]
           n == currentLapNum[c]
           s == sliceIndex[c]
           lap == IF n > 1 /\ s < 0 THEN n - 1 ELSE n
           k == IF n = 1 THEN IF s > FirstPoint THEN s ELSE FirstPoint
                ELSE IF s < 0 THEN Points - 1 ELSE s
<1>0. /\ Points \in Nat \ {0, 1} /\ MaxLap \in Nat /\ MaxPackets \in Nat /\ Millis \in Nat
      /\ FirstPoint \in 0..(Points - 1)
    BY TrackAssumption, SceneAssumption
<1>1. /\ d \in 0..MaxDriven
      /\ n \in 1..MaxLap /\ s \in -1..(Points - 2) /\ PointNo(n, s) = d
    <2>1. d \in 0..MaxDriven
        BY DEF TypeOK
    <2>2. n = LapOf(d) /\ s = SliceOf(d)
        BY DEF LapsAsDriven
    <2> HIDE DEF d, n, s
    <2> QED
        BY <2>1, <2>2, LapAndSlice
<1>2. lap \in 1..MaxLap /\ k \in 0..(Points - 1)
    <2> HIDE DEF n, s
    <2> QED
        BY <1>0, <1>1
<1>3. /\ slice[c][lap][k] = TimeOfPoint(c, PointNo(lap, k))
      /\ slice[f][lap][k] = TimeOfPoint(f, PointNo(lap, k))
    BY <1>2 DEF SlicesAsPassed
<1>4. GapAtLastPoint(c, f) =
         NotNegative(Millis * (slice[c][lap][k] - slice[f][lap][k]))
    BY DEF GapAtLastPoint
<1>5. slice[c][lap][k] \in 0..MaxPackets /\ slice[f][lap][k] \in 0..MaxPackets
    <2>1. slice \in [Cars -> [1..MaxLap -> [0..(Points - 1) -> 0..MaxPackets]]]
        BY DEF TypeOK
    <2>2. \A e \in Cars : slice[e][lap][k] \in 0..MaxPackets
        <3> TAKE e \in Cars
        <3> HIDE DEF lap, k
        <3>1. slice[e][lap] \in [0..(Points - 1) -> 0..MaxPackets]
            BY <1>2, <2>1
        <3> QED
            BY <1>2, <3>1
    <2> QED
        BY <2>2
<1>6. GapAtLastPoint(c, f) \in 0..(Millis * MaxPackets)
    <2> DEFINE x == slice[c][lap][k] - slice[f][lap][k]
    <2>1. x \in Int /\ x <= MaxPackets
        BY <1>0, <1>5
    <2> HIDE DEF x
    <2>2. Millis * x <= Millis * MaxPackets /\ Millis * 0 <= Millis * MaxPackets
        BY <1>0, <2>1, TimesMonotonic
    <2>3. GapAtLastPoint(c, f) = NotNegative(Millis * x)
        BY <1>4 DEF x
    <2> QED
        BY <1>0, <2>1, <2>2, <2>3 DEF NotNegative
<1>7. CASE d <= FirstPoint
    <2>1. n = 1 /\ s = d - 1
        <3>1. CASE n > 1
            <4>1. Points * 1 <= Points * (n - 1)
                BY <1>0, <1>1, <3>1, TimesMonotonic
            <4> HIDE DEF d, n, s
            <4> QED
                BY <1>0, <1>1, <1>7, <4>1 DEF PointNo
        <3>2. CASE n = 1
            <4> HIDE DEF d, n, s
            <4> QED
                BY <1>0, <1>1, <3>2 DEF PointNo
        <3> QED
            BY <1>1, <3>1, <3>2
    <2>2. lap = 1 /\ k = FirstPoint
        BY <1>0, <1>1, <1>7, <2>1
    <2>3. PointNo(lap, k) = FirstPoint + 1
        BY <1>0, <2>2 DEF PointNo
    <2>4. TimeOfPoint(c, FirstPoint + 1) = 0
        BY <1>0, <1>1, <1>7 DEF TimeOfPoint, PassedOnce
    <2>5. slice[c][lap][k] = 0
        BY <1>3, <2>3, <2>4
    <2>6. Millis * (0 - slice[f][lap][k]) <= Millis * 0
        <3> HIDE DEF lap, k
        <3> QED
            BY <1>0, <1>5, TimesMonotonic
    <2>7. GapAtLastPoint(c, f) = 0
        <3> HIDE DEF lap, k
        <3> QED
            BY <1>0, <1>4, <1>5, <2>5, <2>6 DEF NotNegative
    <2> QED
        BY <1>6, <1>7, <2>7 DEF TimeBehind
<1>8. CASE d > FirstPoint
    <2>1. PointNo(lap, k) = d
        <3>1. CASE n = 1
            <4>1. s = d - 1
                <5> HIDE DEF d, n, s
                <5> QED
                    BY <1>0, <1>1, <3>1 DEF PointNo
            <4>2. lap = 1 /\ k = s
                BY <1>0, <1>1, <1>8, <3>1, <4>1
            <4> QED
                BY <1>1, <3>1, <4>2
        <3>2. CASE n > 1 /\ s < 0
            <4>1. lap = n - 1 /\ k = Points - 1 /\ s = -1
                BY <1>1, <3>2
            <4> HIDE DEF d, n, s, lap, k
            <4> QED
                BY <1>0, <1>1, <4>1 DEF PointNo
        <3>3. CASE n > 1 /\ s >= 0
            BY <1>1, <3>3
        <3> QED
            BY <1>1, <3>1, <3>2, <3>3
    <2>2. d \in 1..MaxDriven
        BY <1>0, <1>1, <1>8
    <2>3. slice[c][lap][k] = passed[c][d] /\ slice[f][lap][k] = passed[f][d]
        BY <1>3, <2>1, <2>2 DEF TimeOfPoint
    <2>4. ~(driven[c] <= FirstPoint)
        BY <1>0, <1>1, <1>8
    <2> QED
        BY <1>4, <1>6, <2>3, <2>4 DEF TimeBehind
<1> QED
    BY <1>0, <1>1, <1>7, <1>8

(* ToSQL of a race writes each car's gap to the car in front. *)
LEMMA RaceDiffs ==
    ASSUME TimedIInv, race, fresh
    PROVE  /\ reCalcuteRaceDiff \in [Cars -> 0..(Millis * MaxPackets)]
           /\ \A c, f \in Cars : position[f] = position[c] - 1 =>
                 reCalcuteRaceDiff[c] = TimeBehind(c, f)
<1> USE DEF TimedIInv
<1>1. ASSUME NEW c \in Cars
      PROVE  /\ reCalcuteRaceDiff[c] \in 0..(Millis * MaxPackets)
             /\ \A f \in Cars : position[f] = position[c] - 1 =>
                   reCalcuteRaceDiff[c] = TimeBehind(c, f)
    <2>1. reCalcuteRaceDiff[c] =
             IF position[c] = 1 THEN 0
             ELSE GapAtLastPoint(c, rankList_[position[c] - 1])
        BY RaceRank DEF reCalcuteRaceDiff
    <2>2. CASE position[c] = 1
        <3>1. 0 \in 0..(Millis * MaxPackets)
            <4>1. Millis * 0 <= Millis * MaxPackets
                BY SceneAssumption, TimesMonotonic
            <4> QED
                BY <4>1, SceneAssumption
        <3>2. \A f \in Cars : position[f] # 0
            BY TrackAssumption DEF RaceOrder, Cars
        <3> QED
            BY <2>1, <2>2, <3>1, <3>2
    <2>3. CASE position[c] # 1
        <3>1. rankList_[position[c] - 1] \in Cars
            BY <2>3, RaceRank
        <3>2. \A f \in Cars : position[f] = position[c] - 1 => rankList_[position[c] - 1] = f
            BY RaceRank
        <3> QED
            BY <2>1, <2>3, <3>1, <3>2, GapRead
    <2> QED
        BY <2>2, <2>3
<1>2. reCalcuteRaceDiff = [c \in Cars |-> reCalcuteRaceDiff[c]]
    BY DEF reCalcuteRaceDiff
<1> QED
    BY <1>1, <1>2

(* The scenes of a race are held for eight seconds at most. *)
LEMMA SceneTimes ==
    ASSUME NEW i \in DOMAIN RaceScenes PROVE RaceScenes[i][2] \in 0..8
BY DEF RaceScenes

(* What ToSQL leaves of the focus: a car or none, a scene it knows, and a hold
   that is not negative. *)
FocusTyped ==
    /\ cur_ \in Cars \cup {NoCar}
    /\ scenes_ \in LapScenes \cup {"last"} \cup {RaceScenes[i][1] : i \in DOMAIN RaceScenes}
    /\ hold \in 0..8

(* ToSQL keeps these. *)
LEMMA FocusStep ==
    ASSUME TypeOK, ToSQL PROVE FocusTyped'
<1>1. FocusTyped /\ Listed \subseteq Cars \cup {NoCar} /\ racing \subseteq Cars
    <2>1. FocusTyped /\ racing \subseteq Cars
        BY DEF TypeOK, FocusTyped
    <2>2. rank_num_ \in 0..NumCars /\ rankList_ \in [Cars -> Cars \cup {NoCar}]
        BY DEF TypeOK
    <2>3. \A i \in 1..rank_num_ : i \in Cars
        BY <2>2, TrackAssumption DEF Cars
    <2> QED
        BY <2>1, <2>2, <2>3 DEF Listed
<1>2. CASE Stay
    <2>1. PICK elapsed \in Elapsed : StayOnCar(elapsed)
        BY <1>2 DEF Stay
    <2>2. hold' = hold - elapsed /\ hold > elapsed /\ UNCHANGED <<cur_, scenes_>>
        BY <2>1, <1>1, SceneAssumption DEF StayOnCar, CanSwitch, FocusTyped
    <2>3. elapsed \in Nat
        BY SceneAssumption
    <2> QED
        BY <1>1, <2>2, <2>3 DEF FocusTyped
<1>3. CASE NobodyToFollow
    BY <1>1, <1>3 DEF NobodyToFollow, FocusTyped
<1>4. ASSUME NEW gap, NEW facts, NEW forming, reCalcuteRaceFocus(gap, facts, forming)
      PROVE  FocusTyped'
    <2> DEFINE cars(i) == PickForRace(RaceScenes[i][1], gap, facts, forming)
    <2>1. ASSUME NEW i \in DOMAIN RaceScenes,
                 NEW c \in Candidates(RaceScenes[i][1], cars(i), gap),
                 SwitchCar(c, RaceScenes[i][1], RaceScenes[i][2])
          PROVE  FocusTyped'
        <3>1. cars(i) \subseteq Active
            BY DEF PickForRace, FirstInRank
        <3>2. c \in cars(i)
            BY <2>1 DEF Candidates, FirstInRank
        <3>3. c \in Cars
            BY <1>1, <3>1, <3>2 DEF Active
        <3> QED
            BY <2>1, <3>3, SceneTimes DEF SwitchCar, FocusTyped
    <2> QED
        BY <1>3, <1>4, <2>1 DEF reCalcuteRaceFocus
<1>5. ASSUME NEW doing, reCalcuteLapFocus(doing) PROVE FocusTyped'
    <2>1. ASSUME NEW i \in DOMAIN LapOrder, NEW c \in Listed, FollowLap(c, LapOrder[i])
          PROVE  FocusTyped'
        <3>1. LapOrder[i] \in LapScenes /\ "not_fly_lap" \in LapScenes
            BY DEF LapOrder, LapScenes
        <3>2. /\ cur_' \in {c, cur_} /\ scenes_' \in {LapOrder[i], "not_fly_lap"}
              /\ hold' \in {1, 2}
            BY <2>1 DEF FollowLap, SwitchCar
        <3> QED
            BY <1>1, <3>1, <3>2 DEF FocusTyped
    <2> QED
        BY <1>3, <1>5, <2>1 DEF reCalcuteLapFocus, FirstInRank
<1> QED
    BY <1>2, <1>4, <1>5 DEF ToSQL, RaceSQL, LapSQL

(* ToSQL keeps the inductive invariant: it writes the gaps and the focus only. *)
LEMMA ToSQLTimes ==
    ASSUME TimedIInv, ToSQL PROVE TimedIInv'
<1>1. UNCHANGED <<track, laps, ranking>> /\ fresh /\ fresh' = FALSE
    BY DEF ToSQL
<1>2. diffBetweenFront' \in [Cars -> 0..(Millis * MaxPackets)]
    BY <1>1, RaceDiffs DEF TimedIInv, TypeOK, ToSQL, RaceSQL, LapSQL
<1>3. TypeOK'
    BY <1>1, <1>2, FocusStep DEF TimedIInv, TypeOK, FocusTyped, track, laps, ranking
<1>4. PassedOnce' /\ LapsAsDriven' /\ RaceOrder'
    BY <1>1 DEF TimedIInv, PassedOnce, LapsAsDriven, RaceOrder, track, laps, ranking
<1>5. SlicesAsPassed'
    BY <1>1 DEF TimedIInv, SlicesAsPassed, TimeOfPoint, PointNo, track, laps
<1> QED
    BY <1>3, <1>4, <1>5 DEF TimedIInv

(* Nobody has moved: no point has a time. *)
LEMMA InitTimes == Init => TimedIInv
<1> SUFFICES ASSUME Init PROVE TimedIInv
    OBVIOUS
<1> USE DEF Init
<1>1. TypeOK
    <2>1. NumCars \in Nat /\ MaxLap \in Nat /\ MaxPackets \in Nat /\ Points \in Nat \ {0}
        BY TrackAssumption, SceneAssumption
    <2>2. 0 \in 0..MaxDriven
        <3>1. Points * 1 <= Points * MaxLap
            BY TrackAssumption, TimesMonotonic
        <3> QED
            BY <2>1, <3>1 DEF MaxDriven
    <2>3. 0 \in 0..(Millis * MaxPackets)
        <3>1. Millis * 0 <= Millis * MaxPackets
            BY SceneAssumption, TimesMonotonic
        <3> QED
            BY <3>1, SceneAssumption
    <2>4. /\ position \in [Cars -> 0..NumCars]
          /\ rankList_ \in [Cars -> Cars \cup {NoCar}]
          /\ rank_num_ \in 0..NumCars
          /\ currentLapNum \in [Cars -> 0..MaxLap]
          /\ sliceIndex \in [Cars -> -1..(Points - 1)]
        BY <2>1 DEF Cars
    <2>5. slice \in [Cars -> [1..MaxLap -> [0..(Points - 1) -> 0..MaxPackets]]]
        BY <2>1
    <2>6. /\ driven \in [Cars -> 0..MaxDriven]
          /\ diffBetweenFront \in [Cars -> 0..(Millis * MaxPackets)]
        BY <2>2, <2>3
    <2>7. hold \in 0..8 /\ sessionTime \in 0..MaxPackets
        BY <2>1
    <2>8. /\ race \in BOOLEAN /\ fresh \in BOOLEAN
          /\ racing \subseteq Cars /\ cur_ \in Cars \cup {NoCar}
          /\ scenes_ \in LapScenes \cup {"last"} \cup {RaceScenes[i][1] : i \in DOMAIN RaceScenes}
        OBVIOUS
    <2> QED
        BY <2>4, <2>5, <2>6, <2>7, <2>8 DEF TypeOK
<1>2. PassedOnce
    BY SceneAssumption DEF PassedOnce
<1>3. LapsAsDriven
    BY DEF LapsAsDriven
<1>4. SlicesAsPassed
    BY DEF SlicesAsPassed, TimeOfPoint
<1>5. RaceOrder
    BY DEF RaceOrder
<1> QED
    BY <1>1, <1>2, <1>3, <1>4, <1>5 DEF TimedIInv

(* TimedIInv is an invariant. *)
LEMMA AlwaysTimed == Spec => []TimedIInv
<1>1. TimedIInv /\ [Next]_vars => TimedIInv'
    <2> SUFFICES ASSUME TimedIInv, [Next]_vars PROVE TimedIInv'
        OBVIOUS
    <2>1. CASE UNCHANGED vars
        BY <2>1 DEF vars, track, laps, ranking, focus_car_, TimedIInv, TypeOK, PassedOnce,
                    LapsAsDriven, SlicesAsPassed, TimeOfPoint, RaceOrder
    <2> QED
        BY <2>1, LapDataTimes, ToSQLTimes DEF Next
<1> QED
    BY InitTimes, <1>1, PTL DEF Spec

(* The types of AllCarInfo's state and the ranges the code relies on: a hold
   never runs below zero, a rank is one of the cars', a lap and a slice index
   are inside of the lap table, and a gap is not negative. *)
THEOREM TypeCorrect == Spec => []TypeOK
<1>1. TimedIInv => TypeOK
    BY DEF TimedIInv
<1> QED
    BY AlwaysTimed, <1>1, PTL

(* The gap ToSQL records in a race is the time by which a car followed the car
   in front past the last timing point it has passed. *)
THEOREM GapsAreTimesBehind == Spec => GapIsTimeBehind
<1>1. TimedIInv /\ [Next]_vars =>
         [race /\ fresh /\ ~fresh' =>
             \A c, f \in Cars :
                position[f] = position[c] - 1 =>
                   diffBetweenFront'[c] = TimeBehind(c, f)]_vars
    <2> SUFFICES ASSUME TimedIInv, Next, race, fresh, ~fresh'
                 PROVE  \A c, f \in Cars :
                           position[f] = position[c] - 1 =>
                              diffBetweenFront'[c] = TimeBehind(c, f)
        OBVIOUS
    <2>1. diffBetweenFront' = reCalcuteRaceDiff
        BY DEF Next, LapData, ToSQL, RaceSQL, LapSQL
    <2> QED
        BY <2>1, RaceDiffs
<1> QED
    BY AlwaysTimed, <1>1, PTL DEF Spec, GapIsTimeBehind
----------------------------------------------------------------------------
(* The other views.  Their theorems are about any instance; these are the
   instances Details and Timed of AllCarInfo. *)

Rows == INSTANCE LapDetailsProofs

Gaps == INSTANCE LapGapsProofs
            WITH MaxLap <- LapsTimed, MaxPackets <- PacketsTimed,
                 driven <- pointsDriven, passed <- pointsPassed,
                 currentLapNum <- lapNum, sliceIndex <- point,
                 rankList_ <- ranked

LEMMA SameRows ==
    /\ Rows!Circuit = Details!Circuit
    /\ Rows!Init = Details!Init
    /\ Rows!Next = Details!Next
    /\ Rows!DetailsAsDriven = Details!DetailsAsDriven
<1> USE DEF Details!Cars, Rows!Cars, Details!First, Rows!First, Details!Now, Rows!Now,
            Details!LapOf, Rows!LapOf, Details!MarkOf, Rows!MarkOf,
            Details!Key, Rows!Key, Details!Last, Rows!Last,
            Details!RowsToWrite, Rows!RowsToWrite, Details!AfterToSQL, Rows!AfterToSQL
<1>1. Rows!Circuit = Details!Circuit
    BY DEF Rows!Circuit, Details!Circuit
<1>2. Rows!Init = Details!Init
    BY DEF Rows!Init, Details!Init
<1>3. Rows!Next = Details!Next
    <2> USE DEF Details!session, Rows!session, Details!history, Rows!history,
                Details!status, Rows!status, Details!snapshots, Rows!snapshots
    <2>1. Rows!LapData = Details!LapData
        BY DEF Details!LapData, Rows!LapData, Details!FillLapData, Rows!FillLapData,
               Details!NewMark, Rows!NewMark, Details!Sampled, Rows!Sampled,
               Details!Kept, Rows!Kept, Details!Landing, Rows!Landing,
               Details!Recorded, Rows!Recorded, Details!MayMove, Rows!MayMove
    <2>2. Rows!FlashBack = Details!FlashBack
        BY DEF Details!FlashBack, Rows!FlashBack, Details!Seam, Rows!Seam
    <2>3. Rows!ToSQL = Details!ToSQL
        BY DEF Details!ToSQL, Rows!ToSQL
    <2> QED
        BY <2>1, <2>2, <2>3
           DEF Details!Next, Rows!Next, Details!FillSession, Rows!FillSession,
               Details!FillCarMotion, Rows!FillCarMotion,
               Details!FillCarStatus, Rows!FillCarStatus
<1>4. Rows!DetailsAsDriven = Details!DetailsAsDriven
    BY DEF Details!DetailsAsDriven, Rows!DetailsAsDriven,
           Details!WasRecorded, Rows!WasRecorded, Details!FramesIn, Rows!FramesIn,
           Details!Unprotected, Rows!Unprotected
<1> QED
    BY <1>1, <1>2, <1>3, <1>4

(* The rows that FillLapData takes and ToSQL replaces are, once written, of the
   drive that counts, through any number of flashbacks, told or not. *)
THEOREM RowsOfTheDrive == AllSpec => []DetailsAsDriven
<1>1. Rows!Circuit
    BY SameRows, DetailsAssumption
<1>2. AllInit => Rows!Init
    BY SameRows DEF AllInit
<1>3. [AllNext]_allVars => [Rows!Next]_Rows!vars
    BY SameRows
       DEF AllNext, allVars, detailsVars, Rows!vars, Rows!session, Rows!history, Rows!status,
           Rows!snapshots
<1>4. Rows!DetailsAsDriven => DetailsAsDriven
    BY SameRows DEF DetailsAsDriven
<1>5. Rows!Spec => []Rows!DetailsAsDriven
    BY <1>1, Rows!RowsOfTheDrive
<1> QED
    BY <1>2, <1>3, <1>4, <1>5, PTL DEF AllSpec, Rows!Spec

LEMMA SameGaps ==
    /\ Gaps!Track = Timed!Track
    /\ Gaps!Init = Timed!Init
    /\ Gaps!Next = Timed!Next
    /\ Gaps!GapsAsDriven = Timed!GapsAsDriven
<1> USE DEF Timed!drive, Gaps!drive, Timed!laps, Gaps!laps, Timed!best, Gaps!best,
            Timed!Laps, Gaps!Laps, Timed!Slices, Gaps!Slices, Timed!LapOf, Gaps!LapOf,
            Timed!SliceOf, Gaps!SliceOf, Timed!NoHistory, Gaps!NoHistory,
            Timed!Total, Gaps!Total
<1>1. Gaps!Track = Timed!Track
    BY DEF Gaps!Track, Timed!Track, Timed!IsFiniteSet, Gaps!IsFiniteSet
<1>2. Gaps!Init = Timed!Init
    BY DEF Gaps!Init, Timed!Init, Timed!TimesBefore, Gaps!TimesBefore, Timed!Orders,
           Gaps!Orders, Timed!Cardinality, Gaps!Cardinality
<1>3. Gaps!LapData = Timed!LapData
    BY DEF Gaps!LapData, Timed!LapData, Timed!Drive, Gaps!Drive,
           Timed!FillLapData, Gaps!FillLapData, Timed!Afresh, Gaps!Afresh,
           Timed!WithLastLap, Gaps!WithLastLap, Timed!WithThisPoint, Gaps!WithThisPoint,
           Timed!LapTime, Gaps!LapTime, Timed!LastLapTime, Gaps!LastLapTime
<1>4. Gaps!FillLapHistroy = Timed!FillLapHistroy
    BY DEF Gaps!FillLapHistroy, Timed!FillLapHistroy, Timed!Sectors, Gaps!Sectors,
           Timed!Fastest, Gaps!Fastest
<1>5. Gaps!Next = Timed!Next
    BY <1>3, <1>4 DEF Gaps!Next, Timed!Next
<1>6. Gaps!GapsAsDriven = Timed!GapsAsDriven
    BY DEF Gaps!GapsAsDriven, Timed!GapsAsDriven, Timed!Stray, Gaps!Stray,
           Timed!reCalcuteLapDiff, Gaps!reCalcuteLapDiff, Timed!OfBest, Gaps!OfBest,
           Timed!diffBetween2CarJIT, Gaps!diffBetween2CarJIT, Timed!TimeAt, Gaps!TimeAt,
           Timed!BySectors, Gaps!BySectors, Timed!HistoryLap, Gaps!HistoryLap,
           Timed!BestInHistory, Gaps!BestInHistory, Timed!Comparable, Gaps!Comparable,
           Timed!SeenWhole, Gaps!SeenWhole, Timed!Behind, Gaps!Behind
<1> QED
    BY <1>1, <1>2, <1>5, <1>6

(* In a practice or qualifying session ToSQL sets a car against true laps, in
   whatever order laps and histories come in and wherever the recorder starts. *)
THEOREM GapsAgainstTrueLaps == AllSpec => []GapsAsDriven
<1>1. Gaps!Track
    BY SameGaps, TimedAssumption
<1>2. AllInit => Gaps!Init
    BY SameGaps DEF AllInit
<1>3. [AllNext]_allVars => [Gaps!Next]_Gaps!vars
    BY SameGaps
       DEF AllNext, allVars, gapsVars, Gaps!vars, Gaps!drive, Gaps!laps, Gaps!best
<1>4. Gaps!GapsAsDriven => GapsAsDriven
    BY SameGaps DEF GapsAsDriven
<1>5. Gaps!Spec => []Gaps!GapsAsDriven
    BY <1>1, Gaps!GapsAgainstTrueLaps
<1> QED
    BY <1>2, <1>3, <1>4, <1>5, PTL DEF AllSpec, Gaps!Spec
=============================================================================

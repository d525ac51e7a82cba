------------------------------ MODULE CarInfo ------------------------------
(***************************************************************************)
(* AllCarInfo and FocusCar (src/packet/car_info.cpp, car_info.h): what one  *)
(* session's LapData packets leave behind (timing points, ranking), and what *)
(* ToSQL computes from it once a second: the gaps between the cars and the  *)
(* car the camera should follow.                                            *)
(*                                                                          *)
(* Positions on the track are timing points: a lap has Points of them       *)
(* (NUMSLICE), and point Points-1 is the finish line.  Session time is      *)
(* counted in packets; every car is seen at every point it passes (the game *)
(* sends 60 packets a second and a car needs 0.3 s from point to point).    *)
(* Fields that CarStatus, CarTelemetry and CarDamage packets overwrite at   *)
(* any time are chosen where ToSQL reads them.                              *)
(***************************************************************************)
EXTENDS Integers, Sequences, FiniteSets

CONSTANTS
    NumCars,
    Points,      \* NUMSLICE
    FirstPoint,  \* NUMSLICE / 20: gaps count from here on the first lap
    FirstThird,  \* NUMSLICE / 3
    LastThird,   \* NUMSLICE - NUMSLICE / 3
    MaxLap,      \* m_totalLaps
    Facts,       \* the scenes this instance may find a car in
    Millis,      \* session time between two packets, in ms
    Elapsed,     \* seconds that may go by between two calls of ToSQL
    MaxPackets   \* bound: LapData packets

Cars == 1..NumCars

NoCar == 0

FlagScenes == {"yellow_flag", "green_flag", "blue_flag", "read_flag"}

BoxScenes == {"box", "box_is_in", "box_is_out"}

BattleScenes == {"battle_in_0_2s", "battle_in_1s", "battle_in_2s"}

DrsScenes == {"drs_approving", "drs_activing"}

LapScenes == {"in_garage", "fly_lap", "not_fly_lap", "out_lap", "in_lap", "on_track"}

ASSUME TrackAssumption ==
    /\ NumCars \in Nat \ {0}
    /\ Points \in Nat \ {0, 1}
    /\ FirstPoint \in 0..(Points - 1)
    /\ FirstThird \in 0..Points
    /\ LastThird \in 0..Points
    /\ MaxLap \in Nat \ {0}

ASSUME SceneAssumption ==
    /\ Facts \subseteq FlagScenes \cup BoxScenes \cup DrsScenes
    /\ Millis \in Nat
    /\ Elapsed \subseteq Nat \ {0}
    /\ MaxPackets \in Nat

VARIABLES
    race,          \* session_.IsRace()
    sessionTime,   \* m_sessionTime of the last packet
    driven,        \* per car, the points it has come past since the start
    position,      \* m_carPosition in the last packet; 0: not in the session
    racing,        \* cars with resultStatus active
    currentLapNum, \* per car
    sliceIndex,    \* per car: the last point passed in this lap, or -1
    slice,         \* per car, lap and point: sessionTime, or 0
    rankList_,
    rank_num_,
    diffBetweenFront, \* in a race: ms behind the car in front
    cur_, scenes_, hold, \* focus_car_; hold = end_unix_time_ - now
    fresh,         \* LapData came since the last ToSQL
    passed         \* per car, when it really came past each point

track == <<race, sessionTime, driven, position, racing, passed>>
laps == <<currentLapNum, sliceIndex, slice>>
ranking == <<rankList_, rank_num_>>
focus_car_ == <<cur_, scenes_, hold>>

vars == <<track, laps, ranking, diffBetweenFront, focus_car_, fresh>>

MaxDriven == MaxLap * Points - 1

LapOf(d) == d \div Points + 1

SliceOf(d) == (d % Points) - 1
----------------------------------------------------------------------------
(* AllCarInfo::init. *)
Init ==
    /\ race \in BOOLEAN
    /\ sessionTime = 0
    /\ driven = [c \in Cars |-> 0]
    /\ position = [c \in Cars |-> c]
    /\ racing = Cars
    /\ currentLapNum = [c \in Cars |-> 0]
    /\ sliceIndex = [c \in Cars |-> -1]
    /\ slice = [c \in Cars |-> [l \in 1..MaxLap |-> [k \in 0..(Points - 1) |-> 0]]]
    /\ rankList_ = [i \in Cars |-> NoCar]
    /\ rank_num_ = 0
    /\ diffBetweenFront = [c \in Cars |-> 0]
    /\ cur_ = NoCar
    /\ scenes_ = "last"
    /\ hold = 0
    /\ fresh = FALSE
    /\ passed = [c \in Cars |-> [d \in 1..MaxDriven |-> 0]]
----------------------------------------------------------------------------
(* One LapData packet. *)

(* Faulty: the finish line is left out. *)
FillSlicesNoFinish(c) ==
    LET lap == LapOf(driven'[c])
        k == SliceOf(driven'[c]) IN
    IF k >= 0 /\ slice[c][lap][k] = 0
    THEN [slice[c] EXCEPT ![lap][k] = sessionTime']
    ELSE slice[c]

(* The timing points of one car: entering a lap completes the last point of
   the lap before; a point keeps the time it was first seen. *)
FillSlices(c) ==
    LET lap == LapOf(driven'[c])
        k == SliceOf(driven'[c])
        last == IF currentLapNum[c] # lap /\ lap > 1
                THEN [slice[c] EXCEPT ![lap - 1][Points - 1] = sessionTime']
                ELSE slice[c] IN
    IF k >= 0 /\ last[lap][k] = 0
    THEN [last EXCEPT ![lap][k] = sessionTime']
    ELSE last

InPacket == {c \in Cars : position'[c] # 0}

(* Faulty: the count of the packet before is not taken back. *)
CountRankedEver ==
    IF Cardinality(InPacket) > rank_num_ THEN Cardinality(InPacket) ELSE rank_num_

CountRanked == Cardinality(InPacket)

(* A car without position is skipped; its entry in rankList_ may stay. *)
FillLapData ==
    /\ currentLapNum' = [c \in Cars |->
          IF c \in InPacket THEN LapOf(driven'[c]) ELSE currentLapNum[c]]
    /\ sliceIndex' = [c \in Cars |->
          IF c \in InPacket THEN SliceOf(driven'[c]) ELSE sliceIndex[c]]
    /\ slice' = [c \in Cars |-> IF c \in InPacket THEN FillSlices(c) ELSE slice[c]]
    /\ rankList_' = [i \in Cars |->
          IF \E c \in Cars : position'[c] = i
          THEN CHOOSE c \in Cars : position'[c] = i
          ELSE rankList_[i]]
    /\ rank_num_' = CountRanked

(* In a race the position is the order on the track, first come first. *)
Ahead(c, d) ==
    \/ driven'[c] > driven'[d]
    \/ driven'[c] = driven'[d] /\ position[c] < position[d]

RacePacket ==
    /\ race
    /\ \E moving \in SUBSET {c \in racing : driven[c] < MaxDriven} :
          driven' = [c \in Cars |-> driven[c] + IF c \in moving THEN 1 ELSE 0]
    /\ position' =
          [c \in Cars |-> 1 + Cardinality({d \in Cars \ {c} : Ahead(d, c)})]
    /\ \/ UNCHANGED racing
       \/ \E c \in racing : racing' = racing \ {c}

(* Otherwise positions follow lap times, in any order; cars may be missing. *)
LapPacket ==
    /\ ~race
    /\ \E present \in SUBSET Cars :
          position' \in {p \in [Cars -> 0..NumCars] :
              /\ \A c \in Cars : c \in present <=> p[c] # 0
              /\ {p[c] : c \in present} = 1..Cardinality(present)}
    /\ UNCHANGED <<driven, racing>>

LapData ==
    /\ sessionTime < MaxPackets
    /\ sessionTime' = sessionTime + 1
    /\ RacePacket \/ LapPacket
    /\ FillLapData
    /\ fresh' = TRUE
    /\ passed' = [c \in Cars |->
          IF driven'[c] > driven[c]
          THEN [passed[c] EXCEPT ![driven'[c]] = sessionTime']
          ELSE passed[c]]
    /\ UNCHANGED <<race, diffBetweenFront, focus_car_>>
----------------------------------------------------------------------------
(* ToSQL, the gaps of a race. *)

NotNegative(x) == IF x > 0 THEN x ELSE 0

(* diffBetween2Car at the last point car c has passed, clamped at zero. *)
GapAtLastPoint(c, front) ==
    LET lap == IF currentLapNum[c] > 1 /\ sliceIndex[c] < 0
               THEN currentLapNum[c] - 1 ELSE currentLapNum[c]
        k == IF currentLapNum[c] = 1
             THEN IF sliceIndex[c] > FirstPoint THEN sliceIndex[c] ELSE FirstPoint
             ELSE IF sliceIndex[c] < 0 THEN Points - 1 ELSE sliceIndex[c] IN
    NotNegative(Millis * (slice[c][lap][k] - slice[front][lap][k]))

RankOf(c) == CHOOSE i \in 1..rank_num_ : rankList_[i] = c

Listed == {rankList_[i] : i \in 1..rank_num_}

reCalcuteRaceDiff ==
    [c \in Cars |->
        IF c \notin Listed THEN diffBetweenFront[c]
        ELSE IF RankOf(c) = 1 THEN 0
        ELSE GapAtLastPoint(c, rankList_[RankOf(c) - 1])]
----------------------------------------------------------------------------
(* ToSQL, the focus. *)

(* Faulty: an expired hold is not noticed. *)
CanSwitchOnlyFirst(elapsed) == cur_ = NoCar

CanSwitch(elapsed) == cur_ = NoCar \/ hold <= elapsed

SwitchCar(car, scene, secs) ==
    /\ cur_' = car
    /\ scenes_' = scene
    /\ hold' = secs

StayOnCar(elapsed) ==
    /\ ~CanSwitch(elapsed)
    /\ hold' = hold - elapsed
    /\ UNCHANGED <<cur_, scenes_>>

NobodyToFollow ==
    /\ hold' = 0
    /\ UNCHANGED <<cur_, scenes_>>

FirstInRank(cars) == {c \in cars : \A d \in cars : RankOf(c) <= RankOf(d)}

Active == Listed \cap racing

(* The scenes that battle_in_* names, by the gap in ms. *)
Battle(gap) ==
    IF gap <= 200 THEN "battle_in_0_2s"
    ELSE IF gap <= 500 THEN "battle_in_0_5s"
    ELSE IF gap <= 1000 THEN "battle_in_1s"
    ELSE IF gap <= 2000 THEN "battle_in_2s"
    ELSE IF gap <= 3000 THEN "battle_in_3s"
    ELSE "none"

(* What the other packets may say of the cars: one flag at most, box times
   only in the pits. *)
CarFacts ==
    {f \in [Cars -> SUBSET (Facts \cup {"pitting"})] :
        \A c \in Cars :
            /\ Cardinality(f[c] \cap FlagScenes) <= 1
            /\ f[c] \cap BoxScenes # {} => {"box", "pitting"} \subseteq f[c]
            /\ ~({"box_is_in", "box_is_out"} \subseteq f[c])}

(* PickForRace: the cars of a scene. *)
PickForRace(scene, gap, facts, formation) ==
    LET lap == currentLapNum[rankList_[1]] IN
    CASE scene = "random" -> Active
      [] scene = "formation_lap" -> IF lap = 1 /\ formation THEN Active ELSE {}
      [] scene = "standing_start" ->
            IF lap = 1 /\ ~formation /\ sliceIndex[rankList_[1]] < FirstThird
            THEN Active ELSE {}
      [] scene = "last_lap" -> IF lap >= MaxLap THEN Active ELSE {}
      [] scene = "chequered_flag" ->
            {c \in FirstInRank(Active) : lap >= MaxLap /\ sliceIndex[c] > LastThird}
      [] scene \in BattleScenes ->
            {c \in Active \ {rankList_[1]} :
                            /\ "pitting" \notin facts[c]
                            /\ Battle(gap[c]) = scene}
      [] OTHER -> {c \in Active : scene \in facts[c]}

DrawnOrSorted ==
    {"random", "formation_lap", "standing_start", "drs_approving"} \cup BoxScenes

(* The first car of a scene: drawn, sorted (the keys of the box and approach
   scenes are not modelled), or the first in rank order. *)
Candidates(scene, cars, gap) ==
    CASE scene \in DrawnOrSorted -> cars
      [] scene = "drs_activing" ->
            {c \in cars : \A d \in cars : gap[c] <= gap[d]}
      [] OTHER -> FirstInRank(cars)

(* The scenes the race focus tries, with the seconds each is held;
   battle_in_0_5s and battle_in_3s are not among them. *)
RaceScenes ==
    <<<<"formation_lap", 8>>, <<"standing_start", 6>>, <<"chequered_flag", 2>>,
      <<"box_is_out", 8>>, <<"box_is_in", 3>>, <<"battle_in_0_2s", 8>>,
      <<"read_flag", 6>>, <<"yellow_flag", 6>>, <<"green_flag", 3>>,
      <<"blue_flag", 6>>, <<"drs_activing", 4>>, <<"drs_approving", 4>>,
      <<"battle_in_1s", 5>>, <<"battle_in_2s", 4>>, <<"box", 5>>,
      <<"last_lap", 4>>, <<"random", 5>>>>

(* The first scene that has a car; "random" takes any active one. *)
reCalcuteRaceFocus(gap, facts, formation) ==
    LET cars(i) == PickForRace(RaceScenes[i][1], gap, facts, formation) IN
    \/ Active = {} /\ NobodyToFollow
    \/ \E i \in DOMAIN RaceScenes :
          /\ cars(i) # {}
          /\ \A j \in 1..(i - 1) : cars(j) = {}
          /\ \E c \in Candidates(RaceScenes[i][1], cars(i), gap) :
                SwitchCar(c, RaceScenes[i][1], RaceScenes[i][2])

LapOrder == <<"fly_lap", "out_lap", "not_fly_lap", "in_lap", "in_garage">>

(* Faulty: a car on its flying lap is left at once. *)
FollowLapAtOnce(c, scene) == SwitchCar(c, scene, 1)

(* A car on its flying lap is left by way of not_fly_lap, two seconds more. *)
FollowLap(c, scene) ==
    IF cur_ # NoCar /\ scenes_ = "fly_lap" /\ cur_ # c
    THEN SwitchCar(cur_, "not_fly_lap", 2)
    ELSE SwitchCar(c, scene, 1)

(* PickForLap: each listed car is in one scene; all but not_fly_lap are sorted
   by lap distance, which is not modelled. *)
reCalcuteLapFocus(doing) ==
    LET in(scene) == {c \in Listed : doing[c] = scene}
        found == {i \in DOMAIN LapOrder : in(LapOrder[i]) # {}}
        first(scene) ==
            IF scene = "not_fly_lap" THEN FirstInRank(in(scene)) ELSE in(scene) IN
    \/ found = {} /\ NobodyToFollow
    \/ \E i \in found :
          /\ \A j \in found : i <= j
          /\ \E c \in first(LapOrder[i]) : FollowLap(c, LapOrder[i])

Stay == \E elapsed \in Elapsed : StayOnCar(elapsed)

MayTurn == \E elapsed \in Elapsed : CanSwitch(elapsed)

RaceSQL ==
    /\ race
    /\ \E gap \in {reCalcuteRaceDiff} :
          /\ diffBetweenFront' = gap
          /\ \/ Stay
             \/ /\ MayTurn
                /\ \E facts \in CarFacts, formation \in BOOLEAN :
                      reCalcuteRaceFocus(gap, facts, formation)

LapSQL ==
    /\ ~race
    /\ \/ Stay
       \/ /\ MayTurn
          /\ \E doing \in [Cars -> LapScenes] : reCalcuteLapFocus(doing)
    /\ UNCHANGED diffBetweenFront

(* PacketHouse calls it once a second at most, after a new LapData. *)
ToSQL ==
    /\ fresh
    /\ fresh' = FALSE
    /\ RaceSQL \/ LapSQL
    /\ UNCHANGED <<track, laps, ranking>>

Next == LapData \/ ToSQL

Spec == Init /\ [][Next]_vars
----------------------------------------------------------------------------
(* Types, and the ranges the code relies on: a hold never runs below zero. *)
TypeOK ==
    /\ race \in BOOLEAN
    /\ sessionTime \in 0..MaxPackets
    /\ driven \in [Cars -> 0..MaxDriven]
    /\ position \in [Cars -> 0..NumCars]
    /\ racing \subseteq Cars
    /\ currentLapNum \in [Cars -> 0..MaxLap]
    /\ sliceIndex \in [Cars -> -1..(Points - 1)]
    /\ slice \in [Cars -> [1..MaxLap -> [0..(Points - 1) -> 0..MaxPackets]]]
    /\ rankList_ \in [Cars -> Cars \cup {NoCar}]
    /\ rank_num_ \in 0..NumCars
    /\ diffBetweenFront \in [Cars -> 0..(Millis * MaxPackets)]
    /\ cur_ \in Cars \cup {NoCar}
    /\ scenes_ \in LapScenes \cup {"last"} \cup {RaceScenes[i][1] : i \in DOMAIN RaceScenes}
    /\ hold \in 0..8
    /\ fresh \in BOOLEAN

(* The time by which c came past its last point after f did, if it did; nothing
   counts before FirstPoint of the first lap. *)
TimeBehind(c, f) ==
    IF driven[c] <= FirstPoint THEN 0
    ELSE NotNegative(Millis * (passed[c][driven[c]] - passed[f][driven[c]]))

(* The gap ToSQL records for a car in a race is the time by which it followed
   the car in front past the last timing point it has passed, on the first
   point of a lap and with the two cars in different laps too; zero when it was
   overtaken after that point
   (reCalcuteRaceDiff reads only slice times, lap and slice index, which many
   LapData packets have written). *)
GapIsTimeBehind ==
    [][race /\ fresh /\ ~fresh' =>
          \A c, f \in Cars :
             position[f] = position[c] - 1 =>
                diffBetweenFront'[c] = TimeBehind(c, f)]_vars

(* The camera never turns to a car that the last LapData packet leaves out, or
   in a race to one that has retired or finished: rankList_ keeps the pointers
   of earlier packets and only rank_num_ hides them. *)
FocusOnTrack ==
    [][cur_' # cur_ => position[cur_'] # 0 /\ (race => cur_' \in racing)]_vars

(* A car followed on its flying lap is never left at once: the focus stays on
   it as not_fly_lap first (IsFlyLapSwitching, SwitchCar without a car). *)
FlyLapReleased == [][cur_' # cur_ => scenes_ # "fly_lap"]_vars
============================================================================

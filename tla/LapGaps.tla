------------------------------ MODULE LapGaps ------------------------------
(***************************************************************************)
(* The gaps of a practice or qualifying session in AllCarInfo               *)
(* (src/packet/car_info.cpp): FillLapData keeps the lap time at each timing *)
(* point, FillLapHistroy which lap was the best, and reCalcuteLapDiff sets  *)
(* the time of this lap at the last point against other laps.               *)
(*                                                                          *)
(* A lap has Points timing points (NUMSLICE), of which the last is the       *)
(* finish line; sectors end at points of the lap.  Times count packets.  The *)
(* recorder may start when cars are on their way: until then they came past  *)
(* a point per packet.                                                      *)
(***************************************************************************)
EXTENDS Integers, Sequences, FiniteSets

CONSTANTS
    Cars,
    Points,
    Sector1, Sector2,   \* the points at which these sectors end
    Starts,             \* points the cars may have come past when it starts
    MaxLap,             \* bound: laps driven
    MaxPackets          \* bound: LapData packets

(* What the constants of an instance must be: a track with room for the
   starts. *)
Track ==
    /\ IsFiniteSet(Cars)
    /\ Points \in Nat \ {0, 1}
    /\ MaxLap \in Nat \ {0}
    /\ Starts \subseteq 0..(MaxLap * Points - 1)

VARIABLES
    time,
    driven,             \* per car, points come past since the start of lap 1
    lapStart,           \* per car, when its lap began
    passed,             \* history: per car, lap and point, the true lap time
    seen,               \* history: the points come past in a packet received
    currentLapNum, sliceIndex,
    laptime,            \* per car, lap and point: slice[].laptimeInMS
    history,            \* per car, its last SessionHistory packet
    bestLapNum, bestLapTimeInMS,
    rankList_

drive == <<time, driven, lapStart, passed, seen>>
laps == <<currentLapNum, sliceIndex, laptime>>
best == <<history, bestLapNum, bestLapTimeInMS>>

vars == <<drive, laps, best, rankList_>>

Laps == 1..MaxLap

Slices == 0..(Points - 1)

LapOf(d) == d \div Points + 1

SliceOf(d) == (d % Points) - 1

NoHistory == [numLaps |-> 0]

Orders == {r \in [1..Cardinality(Cars) -> Cars] : {r[i] : i \in DOMAIN r} = Cars}
----------------------------------------------------------------------------
(* A point per packet before the recorder started. *)
TimesBefore(d) ==
    [l \in Laps |-> [k \in Slices |-> IF (l - 1) * Points + k < d THEN k + 1 ELSE 0]]

Init ==
    /\ time = 0
    /\ driven \in [Cars -> Starts]
    /\ lapStart = [c \in Cars |-> -(driven[c] % Points)]
    /\ passed = [c \in Cars |-> TimesBefore(driven[c])]
    /\ seen = {}
    /\ currentLapNum = [c \in Cars |-> 0]
    /\ sliceIndex = [c \in Cars |-> -1]
    /\ laptime = [c \in Cars |-> [l \in Laps |-> [k \in Slices |-> 0]]]
    /\ history = [c \in Cars |-> NoHistory]
    /\ bestLapNum = [c \in Cars |-> 0]
    /\ bestLapTimeInMS = [c \in Cars |-> 0]
    /\ rankList_ \in Orders
----------------------------------------------------------------------------
(* LapData: the cars go on, some of them past their next point.  The positions
   are those at the start. *)

(* m_currentLapTimeInMS and m_lastLapTimeInMS. *)
LapTime(c) == IF driven'[c] % Points = 0 /\ driven'[c] # driven[c] THEN 0
              ELSE time' - lapStart[c]

LastLapTime(c) == passed'[c][LapOf(driven'[c]) - 1][Points - 1]

Drive(moving) ==
    /\ driven' = [c \in Cars |-> driven[c] + IF c \in moving THEN 1 ELSE 0]
    /\ lapStart' = [c \in Cars |->
          IF c \in moving /\ driven'[c] % Points = 0 THEN time' ELSE lapStart[c]]
    /\ passed' = [c \in Cars |->
          IF c \in moving
          THEN [passed[c] EXCEPT ![LapOf(driven[c])][driven[c] % Points] =
                   time' - lapStart[c]]
          ELSE passed[c]]
    /\ seen' = seen \cup
          {<<c, LapOf(driven[c]), driven[c] % Points>> : c \in moving}

(* A car on a flying lap starts it afresh until its first point. *)
Afresh(c, flying) ==
    IF c \in flying /\ SliceOf(driven'[c]) < 0
    THEN [laptime[c] EXCEPT ![LapOf(driven'[c])] = [k \in Slices |-> 0]]
    ELSE laptime[c]

WithLastLap(c, table) ==
    LET lap == LapOf(driven'[c]) IN
    IF currentLapNum[c] # lap /\ lap > 1
    THEN [table EXCEPT ![lap - 1][Points - 1] = LastLapTime(c)]
    ELSE table

(* Faulty: each packet at a point sets its time. *)
WithThisPointAgain(c, table) ==
    LET lap == LapOf(driven'[c])
        k == SliceOf(driven'[c]) IN
    IF k >= 0
    THEN [table EXCEPT ![lap][k] = LapTime(c)]
    ELSE table

(* A point keeps the time of its first packet. *)
WithThisPoint(c, table) ==
    LET lap == LapOf(driven'[c])
        k == SliceOf(driven'[c]) IN
    IF k >= 0 /\ table[lap][k] = 0
    THEN [table EXCEPT ![lap][k] = LapTime(c)]
    ELSE table

FillLapData(flying) ==
    /\ laptime' = [c \in Cars |->
          WithThisPoint(c, WithLastLap(c, Afresh(c, flying)))]
    /\ currentLapNum' = [c \in Cars |-> LapOf(driven'[c])]
    /\ sliceIndex' = [c \in Cars |-> SliceOf(driven'[c])]

LapData ==
    /\ time < MaxPackets
    /\ time' = time + 1
    /\ \E moving \in SUBSET {c \in Cars : driven[c] < MaxLap * Points - 1} : Drive(moving)
    /\ \E flying \in SUBSET {c \in Cars : SliceOf(driven'[c]) < 0} : FillLapData(flying)
    /\ UNCHANGED <<best, rankList_>>
----------------------------------------------------------------------------
(* SessionHistory of one car: the laps as the game has timed them, the current
   one included, and which valid one was the best. *)

Total(c, l) == passed[c][l][Points - 1]

Sectors(c, l) ==
    [sector1 |-> passed[c][l][Sector1],
     sector2 |-> IF passed[c][l][Sector2] = 0 THEN 0
                 ELSE passed[c][l][Sector2] - passed[c][l][Sector1],
     time |-> Total(c, l)]

(* The first of the fastest valid laps, 0 without one. *)
Fastest(c, valid) ==
    IF valid = {} THEN 0
    ELSE CHOOSE l \in valid :
            /\ \A m \in valid : Total(c, l) <= Total(c, m)
            /\ \A m \in valid : Total(c, l) = Total(c, m) => l <= m

(* The best lap's time stays when there is none any more. *)
FillLapHistroy ==
    \E c \in Cars :
       \E valid \in SUBSET (1..(LapOf(driven[c]) - 1)) :
          \E n \in {Fastest(c, valid)} :
             /\ history' = [history EXCEPT ![c] =
                   [numLaps |-> LapOf(driven[c]), bestLap |-> n,
                    lap |-> [l \in 1..LapOf(driven[c]) |-> Sectors(c, l)]]]
             /\ bestLapNum' = [bestLapNum EXCEPT ![c] = n]
             /\ bestLapTimeInMS' = [bestLapTimeInMS EXCEPT ![c] =
                   IF n # 0 THEN Total(c, n) ELSE @]
             /\ UNCHANGED <<drive, laps, rankList_>>
----------------------------------------------------------------------------
(* ToSQL: the gaps, computed afresh from the state. *)

(* Without SessionHistory yet, or without best lap, m_lapHistoryData is read
   outside of what was received: any value. *)
HistoryLap(c, n, stray) ==
    IF n \in 1..history[c].numLaps THEN history[c].lap[n]
    ELSE [sector1 |-> stray, sector2 |-> stray, time |-> stray]

BestInHistory(c) == IF history[c] = NoHistory THEN 0 ELSE history[c].bestLap

BySectors(c, d, stray) ==
    LET mine == HistoryLap(c, history[c].numLaps, stray)
        bests == HistoryLap(d, BestInHistory(d), stray) IN
    CASE mine.sector2 # 0 ->
            mine.sector1 + mine.sector2 - (bests.sector1 + bests.sector2)
      [] mine.sector2 = 0 /\ mine.sector1 # 0 -> mine.sector1 - bests.sector1
      [] OTHER -> 0

(* lap[0] has no times. *)
TimeAt(c, l, k) == IF l = 0 THEN 0 ELSE laptime[c][l][k]

(* Faulty: a lap is taken for complete with its first point. *)
diffFromFirstPoint(c, l, d, m, k, stray) ==
    IF TimeAt(d, m, 0) # 0
    THEN TimeAt(c, l, k) - TimeAt(d, m, k)
    ELSE BySectors(c, d, stray)

diffBetween2CarJIT(c, l, d, m, k, stray) ==
    IF TimeAt(d, m, Points - 1) # 0
    THEN TimeAt(c, l, k) - TimeAt(d, m, k)
    ELSE BySectors(c, d, stray)

OfBest(c, d) ==
    IF bestLapTimeInMS[c] > 0 /\ bestLapTimeInMS[d] > 0
    THEN bestLapTimeInMS[c] - bestLapTimeInMS[d] ELSE 0

reCalcuteLapDiff(i, stray) ==
    LET c == rankList_[i]
        leader == rankList_[1]
        lap == currentLapNum[c]
        k == sliceIndex[c]
        Against(d, m) == diffBetween2CarJIT(c, lap, d, m, k, stray)
        Best(d) == IF bestLapNum[d] > 0 /\ k >= 0 THEN Against(d, bestLapNum[d]) ELSE 0
        OnLap(m) == IF lap > 1 /\ k >= 0 THEN Against(c, m) ELSE 0
    IN  [leader |-> IF i > 1 THEN OfBest(c, leader) ELSE 0,
         front |-> IF i > 1 THEN OfBest(c, rankList_[i - 1]) ELSE 0,
         leaderJIT |-> Best(leader),
         frontJIT |-> IF i > 1 THEN Best(rankList_[i - 1]) ELSE 0,
         lastlapJIT |-> OnLap(lap - 1),
         bestlapJIT |-> OnLap(bestLapNum[c])]

Stray == {0, 5}

Next == LapData \/ FillLapHistroy

Spec == Init /\ [][Next]_vars
----------------------------------------------------------------------------
(* Properties. *)

(* The lap was driven from its first to its last point before the recorder. *)
SeenWhole(c, l) == \A k \in Slices : <<c, l, k>> \in seen

(* The time between the car's lap at its last point and that lap there. *)
Behind(c, d, m) ==
    passed[c][currentLapNum[c]][sliceIndex[c]] - passed[d][m][sliceIndex[c]]

Comparable(c, d, m) ==
    /\ <<c, currentLapNum[c], sliceIndex[c]>> \in seen
    /\ m > 0
    /\ SeenWhole(d, m)

(* On its lap a car is set against true laps: what ToSQL records at any moment
   as the gap to its own best and last lap, to the leader's and the front car's
   best lap is the difference of the two laps' times at the point the car has
   last come past, in whatever order laps and histories came in, if the recorder
   saw the lap compared with from its first point to its last; the gap in best
   laps is that of the laps the histories name. *)
GapsAsDriven ==
    \A i \in DOMAIN rankList_, stray \in Stray :
       \E c \in {rankList_[i]}, leader \in {rankList_[1]},
          diff \in {reCalcuteLapDiff(i, stray)} :
          sliceIndex[c] >= 0 =>
             /\ Comparable(c, leader, bestLapNum[leader]) =>
                   diff.leaderJIT = Behind(c, leader, bestLapNum[leader])
             /\ i > 1 =>
                   \E f \in {rankList_[i - 1]} :
                      /\ Comparable(c, f, bestLapNum[f]) =>
                            diff.frontJIT = Behind(c, f, bestLapNum[f])
                      /\ bestLapNum[c] > 0 /\ bestLapNum[f] > 0 =>
                            diff.front = Total(c, bestLapNum[c]) - Total(f, bestLapNum[f])
             /\ currentLapNum[c] > 1 =>
                   /\ Comparable(c, c, bestLapNum[c]) =>
                         diff.bestlapJIT = Behind(c, c, bestLapNum[c])
                   /\ Comparable(c, c, currentLapNum[c] - 1) =>
                         diff.lastlapJIT = Behind(c, c, currentLapNum[c] - 1)
=============================================================================

--------------------------- MODULE LapGapsProofs ---------------------------
(***************************************************************************)
(* Theorems about LapGaps, for any number of cars and timing points, any    *)
(* laps and any points at which the recorder may have started.              *)
(***************************************************************************)
EXTENDS LapGaps, FiniteSetTheorems, TLAPS

(* The lap times of a car. *)
Table == [Laps -> [Slices -> Int]]

(* The points before point k of lap l. *)
PointsTo(l, k) == (l - 1) * Points + k

(* Types, and that no lap began in the future. *)
TypeInv ==
    /\ time \in Nat
    /\ driven \in [Cars -> 0..(MaxLap * Points - 1)]
    /\ lapStart \in [Cars -> Int]
    /\ \A c \in Cars : lapStart[c] <= time
    /\ passed \in [Cars -> Table]
    /\ laptime \in [Cars -> Table]
    /\ seen \subseteq Cars \X Laps \X Slices
    /\ currentLapNum \in [Cars -> 0..MaxLap]
    /\ bestLapNum \in [Cars -> 0..MaxLap]
    /\ bestLapTimeInMS \in [Cars -> Int]
    /\ rankList_ \in Orders

(* A point that was passed has a time. *)
PassedTimed ==
    \A c \in Cars, l \in Laps, k \in Slices :
       PointsTo(l, k) < driven[c] => passed[c][l][k] > 0

(* The table has the true time of each point that was seen, and none of a point
   still to come. *)
TableTrue ==
    /\ \A c \in Cars, l \in Laps, k \in Slices :
          <<c, l, k>> \in seen =>
             PointsTo(l, k) < driven[c] /\ laptime[c][l][k] = passed[c][l][k]
    /\ \A c \in Cars, l \in Laps, k \in Slices :
          PointsTo(l, k) >= driven[c] => laptime[c][l][k] = 0

(* The lap of the last packet is not ahead of the car. *)
LapReached == \A c \in Cars : (currentLapNum[c] - 1) * Points <= driven[c]

(* The best lap is a full one, and its time that lap's. *)
BestTrue ==
    \A c \in Cars :
       bestLapNum[c] > 0 =>
          /\ bestLapNum[c] * Points <= driven[c]
          /\ bestLapTimeInMS[c] = Total(c, bestLapNum[c])

(* The inductive invariant. *)
LapIInv == TypeInv /\ PassedTimed /\ TableTrue /\ LapReached /\ BestTrue

(* Multiplying by a natural number keeps the order. *)
LEMMA ProductMonotonic ==
    ASSUME NEW m \in Nat, NEW x \in Int, NEW y \in Int, x <= y
    PROVE  m * x <= m * y
OBVIOUS

(* Quotient and remainder are the only numbers of their kind. *)
LEMMA Division ==
    ASSUME NEW p \in Nat \ {0}, NEW q \in Nat, NEW r \in 0..(p - 1), NEW d \in Nat,
           d = p * q + r
    PROVE  d \div p = q /\ d % p = r
<1> DEFINE a == d \div p
           b == d % p
<1>1. a \in Nat /\ b \in 0..(p - 1) /\ d = p * a + b
    OBVIOUS
<1> HIDE DEF a, b
<1>2. CASE a < q
    <2>1. p * (a + 1) <= p * q
        BY <1>1, <1>2, ProductMonotonic
    <2> QED
        BY <1>1, <2>1
<1>3. CASE q < a
    <2>1. p * (q + 1) <= p * a
        BY <1>1, <1>3, ProductMonotonic
    <2> QED
        BY <1>1, <2>1
<1>4. CASE a = q
    BY <1>1, <1>4
<1>5. a = q /\ b = r
    BY <1>1, <1>2, <1>3, <1>4
<1> QED
    BY <1>5 DEF a, b

(* Lap and slice index name the last point a car has passed. *)
LEMMA LapAndPoint ==
    ASSUME Track, NEW d \in 0..(MaxLap * Points - 1)
    PROVE  /\ LapOf(d) \in Laps
           /\ d % Points \in Slices
           /\ SliceOf(d) = (d % Points) - 1
           /\ PointsTo(LapOf(d), d % Points) = d
           /\ d + 1 \in 0..(MaxLap * Points - 1) =>
                 IF d % Points = Points - 1
                 THEN LapOf(d + 1) = LapOf(d) + 1 /\ (d + 1) % Points = 0
                 ELSE LapOf(d + 1) = LapOf(d) /\ (d + 1) % Points = (d % Points) + 1
<1>1. Points \in Nat \ {0} /\ MaxLap \in Nat \ {0} /\ d \in Nat
    BY DEF Track
<1>2. d \div Points \in Nat /\ d % Points \in 0..(Points - 1)
    BY <1>1
<1>3. d = (d \div Points) * Points + (d % Points)
    BY <1>1
<1>4. d < MaxLap * Points
    BY <1>1, MaxLap * Points \in Int
<1>5. d \div Points < MaxLap
    <2>1. SUFFICES ASSUME MaxLap <= d \div Points PROVE FALSE
        BY <1>1, <1>2
    <2>2. Points * MaxLap <= Points * (d \div Points)
        BY <1>1, <1>2, <2>1, ProductMonotonic
    <2> QED
        BY <1>1, <1>2, <1>3, <1>4, <2>2
<1>6. IF d % Points = Points - 1
      THEN (d + 1) \div Points = d \div Points + 1 /\ (d + 1) % Points = 0
      ELSE (d + 1) \div Points = d \div Points /\ (d + 1) % Points = (d % Points) + 1
    <2> DEFINE q == d \div Points
               r == d % Points
    <2>1. q \in Nat /\ r \in 0..(Points - 1) /\ d = Points * q + r
        BY <1>1, <1>2, <1>3
    <2> HIDE DEF q, r
    <2>2. CASE r = Points - 1
        <3> DEFINE next == q + 1
                   none == 0
        <3>1. /\ next \in Nat /\ none \in 0..(Points - 1)
              /\ d + 1 \in Nat /\ d + 1 = Points * next + none
            BY <1>1, <2>1, <2>2
        <3> HIDE DEF next, none
        <3>2. (d + 1) \div Points = next /\ (d + 1) % Points = none
            BY <1>1, <3>1, Division
        <3> QED
            BY <2>2, <3>2 DEF q, r, next, none
    <2>3. CASE r # Points - 1
        <3>1. /\ r + 1 \in 0..(Points - 1) /\ d + 1 \in Nat
              /\ d + 1 = Points * q + (r + 1)
            BY <1>1, <2>1, <2>3
        <3>2. (d + 1) \div Points = q /\ (d + 1) % Points = r + 1
            BY <1>1, <2>1, <3>1, Division
        <3> QED
            BY <2>3, <3>2 DEF q, r
    <2> QED
        BY <2>2, <2>3
<1> QED
    BY <1>1, <1>2, <1>3, <1>5, <1>6 DEF LapOf, SliceOf, PointsTo, Laps, Slices

(* No two points have as many points before them. *)
LEMMA PointsToInjective ==
    ASSUME Track, NEW l \in Laps, NEW m \in Laps, NEW k \in Slices, NEW j \in Slices
    PROVE  /\ PointsTo(l, k) \in Nat
           /\ PointsTo(l, k) = PointsTo(m, j) => l = m /\ k = j
           /\ l < m => PointsTo(l, k) < PointsTo(m, 0)
<1>1. Points \in Nat /\ MaxLap \in Nat
    BY DEF Track
<1>2. ASSUME NEW x \in Int, NEW y \in Int, x < y
      PROVE  x * Points + Points <= y * Points
    <2>1. Points * (x + 1) <= Points * y
        BY <1>1, <1>2, ProductMonotonic
    <2> QED
        BY <1>1, <2>1
<1>3. CASE l < m
    <2>1. (l - 1) * Points + Points <= (m - 1) * Points
        BY <1>2, <1>3 DEF Laps
    <2> QED
        BY <1>1, <1>3, <2>1 DEF PointsTo, Laps, Slices
<1>4. CASE m < l
    <2>1. (m - 1) * Points + Points <= (l - 1) * Points
        BY <1>2, <1>4 DEF Laps
    <2> QED
        BY <1>1, <1>4, <2>1 DEF PointsTo, Laps, Slices
<1>5. CASE l = m
    BY <1>1, <1>5 DEF PointsTo, Laps, Slices
<1>6. PointsTo(l, k) \in Nat
    <2>1. Points * 0 <= Points * (l - 1)
        BY <1>1, ProductMonotonic DEF Laps
    <2> QED
        BY <1>1, <2>1 DEF PointsTo, Laps, Slices
<1> QED
    BY <1>3, <1>4, <1>5, <1>6 DEF Laps

(* What LapData does to the drive of a car: nothing, or one point more, with
   the time since the lap began. *)
LEMMA DriveStep ==
    ASSUME Track, LapIInv, LapData, NEW c \in Cars
    PROVE  /\ driven'[c] \in 0..(MaxLap * Points - 1)
           /\ lapStart'[c] \in Int /\ lapStart'[c] <= time'
           /\ passed'[c] \in Table
           /\ \/ /\ driven'[c] = driven[c] /\ passed'[c] = passed[c]
                 /\ \A l \in Laps, k \in Slices : <<c, l, k>> \in seen' <=> <<c, l, k>> \in seen
              \/ /\ driven'[c] = driven[c] + 1
                 /\ \A l \in Laps, k \in Slices :
                       /\ <<c, l, k>> \in seen' <=>
                             <<c, l, k>> \in seen \/ PointsTo(l, k) = driven[c]
                       /\ passed'[c][l][k] = IF PointsTo(l, k) = driven[c]
                                             THEN time' - lapStart[c] ELSE passed[c][l][k]
                 /\ time' - lapStart[c] > 0
                 /\ driven'[c] % Points # 0 => lapStart'[c] = lapStart[c]
<1>0. /\ time \in Nat /\ time' = time + 1
      /\ driven[c] \in 0..(MaxLap * Points - 1)
      /\ lapStart[c] \in Int /\ lapStart[c] <= time
      /\ passed[c] \in Table
    BY DEF LapIInv, TypeInv, LapData
<1>1. PICK moving \in SUBSET {e \in Cars : driven[e] < MaxLap * Points - 1} : Drive(moving)
    BY DEF LapData
<1>2. MaxLap * Points \in Int
    BY DEF Track
<1>3. CASE c \notin moving
    <2>1. driven'[c] = driven[c] /\ passed'[c] = passed[c] /\ lapStart'[c] = lapStart[c]
        BY <1>0, <1>1, <1>3 DEF Drive
    <2>2. \A l \in Laps, k \in Slices : <<c, l, k>> \in seen' <=> <<c, l, k>> \in seen
        BY <1>1, <1>3 DEF Drive
    <2> QED
        BY <1>0, <2>1, <2>2
<1>4. CASE c \in moving
    <2> DEFINE d == driven[c]
               lap == LapOf(d)
               k0 == d % Points
    <2>1. driven'[c] = d + 1 /\ d + 1 \in 0..(MaxLap * Points - 1)
        BY <1>0, <1>1, <1>2, <1>4 DEF Drive
    <2>2. lap \in Laps /\ k0 \in Slices /\ PointsTo(lap, k0) = d
        BY <1>0, LapAndPoint
    <2>3. passed'[c] = [passed[c] EXCEPT ![lap][k0] = time' - lapStart[c]]
        BY <1>1, <1>4 DEF Drive
    <2>4. \A l \in Laps, k \in Slices : PointsTo(l, k) = d <=> l = lap /\ k = k0
        <3> HIDE DEF d, lap, k0
        <3> QED
            BY <2>2, PointsToInjective
    <2>5. \A l \in Laps, k \in Slices :
             <<c, l, k>> \in seen' <=> <<c, l, k>> \in seen \/ (l = lap /\ k = k0)
        BY <1>1, <1>4 DEF Drive
    <2>6. /\ lapStart'[c] \in {lapStart[c], time'}
          /\ driven'[c] % Points # 0 => lapStart'[c] = lapStart[c]
        BY <1>0, <1>1, <1>4 DEF Drive
    <2>7. time' - lapStart[c] \in Int /\ time' - lapStart[c] > 0
        BY <1>0
    <2>8. /\ passed'[c] \in Table
          /\ \A l \in Laps, k \in Slices :
                passed'[c][l][k] = IF l = lap /\ k = k0
                                   THEN time' - lapStart[c] ELSE passed[c][l][k]
        <3> DEFINE t == time' - lapStart[c]
        <3>1. passed'[c] = [passed[c] EXCEPT ![lap][k0] = t] /\ t \in Int
            BY <2>3, <2>7
        <3> HIDE DEF t, lap, k0
        <3>2. passed'[c] \in Table
            BY <1>0, <2>2, <3>1 DEF Table
        <3>3. \A l \in Laps, k \in Slices :
                 passed'[c][l][k] = IF l = lap /\ k = k0 THEN t ELSE passed[c][l][k]
            BY <1>0, <2>2, <3>1 DEF Table
        <3> QED
            BY <3>2, <3>3 DEF t
    <2>9. lapStart'[c] \in Int /\ lapStart'[c] <= time'
        BY <1>0, <2>6
    <2> QED
        BY <2>1, <2>4, <2>5, <2>6, <2>7, <2>8, <2>9
<1> QED
    BY <1>3, <1>4

(* The table after a packet, cell by cell: first what Afresh left, then the
   finish line of the lap before, then the point of this packet. *)
LEMMA TableStep ==
    ASSUME Track, LapIInv, LapData, NEW c \in Cars
    PROVE  \E flying \in SUBSET Cars :
              \E d \in {driven'[c]} : \E lap \in {LapOf(d)}, j \in {SliceOf(d)} :
                 /\ laptime'[c] \in Table
                 /\ \A l \in Laps, k \in Slices :
                       laptime'[c][l][k] =
                          IF l = lap /\ k = j /\ (laptime[c][l][k] = 0)
                          THEN LapTime(c)
                          ELSE IF l = lap - 1 /\ k = Points - 1 /\ currentLapNum[c] # lap
                          THEN passed'[c][l][k]
                          ELSE IF l = lap /\ j = -1 /\ c \in flying THEN 0
                          ELSE laptime[c][l][k]
<1>1. PICK flying \in SUBSET {e \in Cars : SliceOf(driven'[e]) < 0} : FillLapData(flying)
    BY DEF LapData
<1> DEFINE d == driven'[c]
           lap == LapOf(d)
           j == SliceOf(d)
           first == Afresh(c, flying)
           second == WithLastLap(c, first)
           third == WithThisPoint(c, second)
<1>2. /\ laptime[c] \in Table /\ passed'[c] \in Table
      /\ lap \in Laps /\ j \in -1..(Points - 2)
      /\ Points \in Nat \ {0, 1} /\ MaxLap \in Nat
      /\ LapTime(c) \in Int
    <2>1. d \in 0..(MaxLap * Points - 1) /\ passed'[c] \in Table /\ lapStart'[c] \in Int
          /\ lapStart[c] \in Int /\ time' \in Int
        BY DriveStep DEF LapIInv, TypeInv, LapData
    <2>2. lap \in Laps /\ d % Points \in Slices /\ j = (d % Points) - 1
        BY <2>1, LapAndPoint
    <2>3. LapTime(c) \in Int
        BY <2>1 DEF LapTime
    <2> QED
        BY <2>1, <2>2, <2>3 DEF LapIInv, TypeInv, Track, Slices
<1>3. /\ first \in Table
      /\ \A l \in Laps, k \in Slices :
            first[l][k] = IF l = lap /\ j = -1 /\ c \in flying THEN 0 ELSE laptime[c][l][k]
    <2>1. CASE c \in flying /\ j < 0
        <3>1. first = [laptime[c] EXCEPT ![lap] = [k \in Slices |-> 0]]
            BY <2>1 DEF Afresh
        <3> HIDE DEF first, lap, j
        <3> QED
            BY <1>2, <2>1, <3>1 DEF Table
    <2>2. CASE ~(c \in flying /\ j < 0)
        <3>1. first = laptime[c]
            BY <2>2 DEF Afresh
        <3> HIDE DEF first, lap, j
        <3> QED
            BY <1>2, <2>2, <3>1
    <2> QED
        BY <2>1, <2>2
<1>4. /\ second \in Table
      /\ \A l \in Laps, k \in Slices :
            second[l][k] = IF l = lap - 1 /\ k = Points - 1 /\ currentLapNum[c] # lap
                           THEN passed'[c][l][k] ELSE first[l][k]
    <2>1. CASE currentLapNum[c] # lap /\ lap > 1
        <3> DEFINE last == lap - 1
                   line == Points - 1
                   t == passed'[c][last][line]
        <3>1. last \in Laps /\ line \in Slices
            BY <1>2, <2>1 DEF Laps, Slices
        <3>2. second = [first EXCEPT ![last][line] = t]
            BY <2>1 DEF WithLastLap, LastLapTime
        <3>3. t \in Int
            <4> HIDE DEF last, line
            <4> QED
                BY <1>2, <3>1 DEF Table
        <3>4. /\ second \in Table
              /\ \A l \in Laps, k \in Slices :
                    second[l][k] = IF l = last /\ k = line THEN t ELSE first[l][k]
            <4> HIDE DEF last, line, t, first, second
            <4>1. second \in Table
                BY <1>3, <3>1, <3>2, <3>3 DEF Table
            <4>2. \A l \in Laps, k \in Slices :
                     second[l][k] = IF l = last /\ k = line THEN t ELSE first[l][k]
                BY <1>3, <3>1, <3>2, <3>3 DEF Table
            <4> QED
                BY <4>1, <4>2
        <3> HIDE DEF first, second, lap
        <3> QED
            BY <2>1, <3>4
    <2>2. CASE ~(currentLapNum[c] # lap /\ lap > 1)
        <3>1. second = first
            BY <2>2 DEF WithLastLap
        <3>2. \A l \in Laps : ~(l = lap - 1 /\ currentLapNum[c] # lap)
            <4> HIDE DEF lap
            <4> QED
                BY <1>2, <2>2 DEF Laps
        <3> HIDE DEF first, second, lap
        <3> QED
            BY <1>3, <3>1, <3>2
    <2> QED
        BY <2>1, <2>2
<1>5. /\ third \in Table
      /\ \A l \in Laps, k \in Slices :
            third[l][k] = IF l = lap /\ k = j /\ second[l][k] = 0
                          THEN LapTime(c) ELSE second[l][k]
    <2>1. CASE j >= 0 /\ second[lap][j] = 0
        <3> DEFINE t == LapTime(c)
        <3>1. third = [second EXCEPT ![lap][j] = t] /\ t \in Int
            BY <1>2, <2>1 DEF WithThisPoint
        <3>2. j \in Slices
            BY <1>2, <2>1 DEF Slices
        <3> HIDE DEF second, third, lap, j, t
        <3>3. third \in Table
            BY <1>2, <1>4, <3>1, <3>2 DEF Table
        <3>4. \A l \in Laps, k \in Slices :
                 third[l][k] = IF l = lap /\ k = j THEN t ELSE second[l][k]
            BY <1>2, <1>4, <3>1, <3>2 DEF Table
        <3> QED
            BY <2>1, <3>3, <3>4 DEF t
    <2>2. CASE ~(j >= 0 /\ second[lap][j] = 0)
        <3>1. third = second
            BY <2>2 DEF WithThisPoint
        <3>2. \A l \in Laps, k \in Slices : ~(l = lap /\ k = j /\ second[l][k] = 0)
            <4> HIDE DEF second, lap, j
            <4> QED
                BY <2>2, <1>2 DEF Slices
        <3> HIDE DEF second, third, lap, j
        <3> QED
            BY <1>4, <3>1, <3>2
    <2> QED
        BY <2>1, <2>2
<1>6. laptime'[c] = third
    BY <1>1 DEF FillLapData
<1>7. \A l \in Laps, k \in Slices :
         laptime'[c][l][k] =
            IF l = lap /\ k = j /\ laptime[c][l][k] = 0
            THEN LapTime(c)
            ELSE IF l = lap - 1 /\ k = Points - 1 /\ currentLapNum[c] # lap
            THEN passed'[c][l][k]
            ELSE IF l = lap /\ j = -1 /\ c \in flying THEN 0
            ELSE laptime[c][l][k]
    <2>1. \A l \in Laps, k \in Slices :
             third[l][k] =
                IF l = lap /\ k = j /\ laptime[c][l][k] = 0
                THEN LapTime(c)
                ELSE IF l = lap - 1 /\ k = Points - 1 /\ currentLapNum[c] # lap
                THEN passed'[c][l][k]
                ELSE IF l = lap /\ j = -1 /\ c \in flying THEN 0
                ELSE laptime[c][l][k]
        <3> TAKE l \in Laps, k \in Slices
        <3>1. l = lap /\ k = j => second[l][k] = laptime[c][l][k]
            <4>1. lap # lap - 1 /\ (k = j => j # -1)
                <5> HIDE DEF lap, j
                <5> QED
                    BY <1>2 DEF Laps, Slices
            <4> HIDE DEF first, second, lap, j
            <4> QED
                BY <1>3, <1>4, <4>1
        <3> HIDE DEF first, second, third, lap, j
        <3> QED
            BY <1>3, <1>4, <1>5, <3>1
    <2> HIDE DEF third, lap, j
    <2> QED
        BY <1>6, <2>1
<1>8. laptime'[c] \in Table
    BY <1>5, <1>6
<1> QED
    <2>1. flying \in SUBSET Cars
        OBVIOUS
    <2> QED
        BY <1>7, <1>8, <2>1

(* A packet keeps the table true. *)
LEMMA LapDataTable ==
    ASSUME Track, LapIInv, LapData, NEW c \in Cars, NEW l \in Laps, NEW k \in Slices
    PROVE  /\ <<c, l, k>> \in seen' =>
                 PointsTo(l, k) < driven'[c] /\ laptime'[c][l][k] = passed'[c][l][k]
           /\ PointsTo(l, k) >= driven'[c] => laptime'[c][l][k] = 0
           /\ PointsTo(l, k) < driven'[c] => passed'[c][l][k] > 0
<1> DEFINE p == PointsTo(l, k)
           d == driven'[c]
           lap == LapOf(d)
           j == SliceOf(d)
<1>0. Points \in Nat \ {0, 1} /\ MaxLap \in Nat
    BY DEF Track
<1>1. /\ d \in 0..(MaxLap * Points - 1)
      /\ driven[c] \in 0..(MaxLap * Points - 1)
      /\ p \in Nat
    BY DriveStep, PointsToInjective DEF LapIInv, TypeInv
<1>2. /\ lap \in Laps /\ j \in -1..(Points - 2)
      /\ d % Points = j + 1 /\ j + 1 \in Slices
      /\ PointsTo(lap, j + 1) = d
    <2>1. d % Points \in Slices /\ j = (d % Points) - 1 /\ lap \in Laps
          /\ PointsTo(lap, d % Points) = d
        BY <1>1, LapAndPoint
    <2>2. d % Points = j + 1 /\ j \in -1..(Points - 2)
        BY <1>0, <2>1 DEF Slices
    <2> QED
        BY <2>1, <2>2
<1>3. /\ j >= 0 => PointsTo(lap, j) = d - 1
      /\ lap - 1 \in Laps => PointsTo(lap - 1, Points - 1) < d
      /\ lap - 1 \in Laps /\ j = -1 => PointsTo(lap - 1, Points - 1) = d - 1
      /\ j = -1 => PointsTo(lap, 0) = d
    <2> HIDE DEF lap, j, d
    <2> QED
        BY <1>0, <1>1, <1>2 DEF PointsTo, Laps, Slices
<1>4. p = d - 1 => \/ j >= 0 /\ l = lap /\ k = j
                   \/ j = -1 /\ l = lap - 1 /\ k = Points - 1
    <2>1. CASE j >= 0
        <3>1. j \in Slices
            BY <1>0, <1>2, <2>1 DEF Slices
        <3> HIDE DEF lap, j, d
        <3> QED
            BY <1>2, <1>3, <2>1, <3>1, PointsToInjective DEF p
    <2>2. CASE j = -1
        <3>1. CASE lap - 1 \in Laps
            <4> DEFINE m == lap - 1
                       line == Points - 1
            <4>1. m \in Laps /\ line \in Slices /\ PointsTo(m, line) = d - 1
                BY <1>0, <1>3, <2>2, <3>1 DEF Slices
            <4> HIDE DEF lap, j, d, m, line
            <4>2. p = d - 1 => l = m /\ k = line
                BY <4>1, PointsToInjective DEF p
            <4> QED
                BY <2>2, <4>2 DEF m, line
        <3>2. CASE lap - 1 \notin Laps
            <4>1. lap = 1 /\ d = 0
                <5> HIDE DEF lap, j, d
                <5> QED
                    BY <1>0, <1>2, <2>2, <3>2 DEF Laps, PointsTo
            <4> QED
                BY <1>1, <4>1
        <3> QED
            BY <3>1, <3>2
    <2> QED
        BY <1>2, <2>1, <2>2
<1>5. /\ <<c, l, k>> \in seen => p < driven[c] /\ laptime[c][l][k] = passed[c][l][k]
      /\ p >= driven[c] => laptime[c][l][k] = 0
      /\ p < driven[c] => passed[c][l][k] > 0
      /\ passed[c][l][k] \in Int /\ laptime[c][l][k] \in Int
    BY DEF LapIInv, TableTrue, PassedTimed, TypeInv, Table
<1>6. PICK flying \in SUBSET Cars :
         laptime'[c][l][k] =
            IF l = lap /\ k = j /\ laptime[c][l][k] = 0
            THEN LapTime(c)
            ELSE IF l = lap - 1 /\ k = Points - 1 /\ currentLapNum[c] # lap
            THEN passed'[c][l][k]
            ELSE IF l = lap /\ j = -1 /\ c \in flying THEN 0
            ELSE laptime[c][l][k]
    BY TableStep
<1>7. /\ l = lap /\ k = j => p = d - 1
      /\ l = lap - 1 /\ k = Points - 1 => p < d
      /\ l = lap /\ j = -1 => p >= d
    <2>1. l = lap /\ k = j => p = d - 1
        BY <1>0, <1>3 DEF Slices
    <2>2. l = lap - 1 /\ k = Points - 1 => p < d
        BY <1>3
    <2>3. l = lap /\ j = -1 => p >= d
        <3> HIDE DEF lap, j, d
        <3> QED
            BY <1>0, <1>1, <1>3 DEF p, PointsTo, Slices, Laps
    <2> QED
        BY <2>1, <2>2, <2>3
<1>8. p >= d => laptime'[c][l][k] = 0
    <2>1. d >= driven[c]
        BY <1>1, DriveStep
    <2> HIDE DEF lap, j, d, p
    <2> QED
        BY <1>1, <1>5, <1>6, <1>7, <2>1
<1>9. CASE d = driven[c]
    <2>1. passed'[c] = passed[c] /\ (<<c, l, k>> \in seen' <=> <<c, l, k>> \in seen)
        BY <1>1, <1>9, DriveStep
    <2>2. <<c, l, k>> \in seen => laptime'[c][l][k] = passed'[c][l][k]
        <3> HIDE DEF lap, j, d, p
        <3> QED
            BY <1>1, <1>5, <1>6, <1>7, <1>9, <2>1
    <2> QED
        BY <1>5, <1>8, <1>9, <2>1, <2>2
<1>10. CASE d = driven[c] + 1
    <2>1. /\ <<c, l, k>> \in seen' <=> <<c, l, k>> \in seen \/ p = driven[c]
          /\ passed'[c][l][k] = IF p = driven[c] THEN time' - lapStart[c] ELSE passed[c][l][k]
          /\ time' - lapStart[c] > 0
          /\ d % Points # 0 => lapStart'[c] = lapStart[c]
        BY <1>1, <1>10, DriveStep
    <2>2. p < d => passed'[c][l][k] > 0
        <3> HIDE DEF lap, j, d, p
        <3> QED
            BY <1>1, <1>5, <1>10, <2>1
    <2>3. <<c, l, k>> \in seen /\ p # driven[c] => laptime'[c][l][k] = passed'[c][l][k]
        <3> HIDE DEF lap, j, d, p
        <3> QED
            BY <1>1, <1>5, <1>6, <1>7, <1>10, <2>1
    <2>4. p = driven[c] => laptime'[c][l][k] = passed'[c][l][k]
        <3>1. CASE j >= 0 /\ l = lap /\ k = j /\ p = driven[c]
            <4>1. laptime'[c][l][k] = LapTime(c)
                <5>1. laptime[c][l][k] = 0
                    BY <1>1, <1>5, <3>1
                <5> QED
                    BY <1>6, <3>1, <5>1
            <4>2. LapTime(c) = time' - lapStart[c]
                <5>1. d % Points # 0
                    <6> HIDE DEF d, j
                    <6> QED
                        BY <1>2, <3>1
                <5> QED
                    BY <2>1, <5>1 DEF LapTime
            <4> QED
                BY <2>1, <3>1, <4>1, <4>2
        <3>2. CASE j = -1 /\ l = lap - 1 /\ k = Points - 1 /\ p = driven[c]
            <4>1. currentLapNum[c] # lap
                <5>1. (currentLapNum[c] - 1) * Points <= driven[c]
                    BY DEF LapIInv, LapReached
                <5>2. (lap - 1) * Points = d
                    <6> HIDE DEF lap, j, d
                    <6> QED
                        BY <1>0, <1>2, <1>3, <3>2 DEF PointsTo, Laps
                <5> QED
                    BY <1>1, <1>10, <5>1, <5>2
            <4>2. ~(l = lap /\ k = j)
                <5> HIDE DEF lap, j
                <5> QED
                    BY <1>0, <3>2 DEF Slices
            <4> QED
                BY <1>6, <3>2, <4>1, <4>2
        <3> QED
            BY <1>1, <1>4, <1>10, <3>1, <3>2
    <2> QED
        BY <1>1, <1>5, <1>8, <1>10, <2>1, <2>2, <2>3, <2>4
<1> QED
    BY <1>9, <1>10, DriveStep

(* A LapData packet keeps the invariant. *)
LEMMA LapDataStep == Track /\ LapIInv /\ LapData => LapIInv'
<1> SUFFICES ASSUME Track, LapIInv, LapData PROVE LapIInv'
    OBVIOUS
<1>1. PICK moving \in SUBSET {e \in Cars : driven[e] < MaxLap * Points - 1} : Drive(moving)
    BY DEF LapData
<1>2. PICK flying \in SUBSET {e \in Cars : SliceOf(driven'[e]) < 0} : FillLapData(flying)
    BY DEF LapData
<1>3. \A c \in Cars : /\ driven'[c] \in 0..(MaxLap * Points - 1)
                      /\ lapStart'[c] \in Int /\ lapStart'[c] <= time'
                      /\ passed'[c] \in Table
                      /\ laptime'[c] \in Table
                      /\ LapOf(driven'[c]) \in Laps
                      /\ driven'[c] >= driven[c]
    <2> TAKE c \in Cars
    <2>1. /\ driven'[c] \in 0..(MaxLap * Points - 1)
          /\ lapStart'[c] \in Int /\ lapStart'[c] <= time'
          /\ passed'[c] \in Table
          /\ driven'[c] = driven[c] \/ driven'[c] = driven[c] + 1
        BY DriveStep
    <2>2. laptime'[c] \in Table
        BY TableStep
    <2>3. driven[c] \in 0..(MaxLap * Points - 1)
        BY DEF LapIInv, TypeInv
    <2> QED
        BY <2>1, <2>2, <2>3, LapAndPoint
<1>4. TypeInv'
    <2>1. /\ driven' = [c \in Cars |-> driven'[c]]
          /\ lapStart' = [c \in Cars |-> lapStart'[c]]
          /\ passed' = [c \in Cars |-> passed'[c]]
          /\ laptime' = [c \in Cars |-> laptime'[c]]
          /\ currentLapNum' = [c \in Cars |-> LapOf(driven'[c])]
        BY <1>1, <1>2 DEF Drive, FillLapData
    <2>2. seen' \subseteq Cars \X Laps \X Slices
        <3>1. \A c \in moving : LapOf(driven[c]) \in Laps /\ driven[c] % Points \in Slices
            BY LapAndPoint DEF LapIInv, TypeInv
        <3> QED
            BY <1>1, <3>1 DEF Drive, LapIInv, TypeInv
    <2>3. \A c \in Cars : LapOf(driven'[c]) \in 0..MaxLap
        BY <1>3 DEF Laps, Track
    <2>4. time' \in Nat
        BY DEF LapIInv, TypeInv, LapData
    <2> QED
        BY <1>3, <2>1, <2>2, <2>3, <2>4 DEF LapIInv, TypeInv, LapData, best
<1>5. PassedTimed' /\ TableTrue'
    BY LapDataTable DEF PassedTimed, TableTrue, PointsTo, Laps, Slices
<1>6. LapReached'
    <2> SUFFICES ASSUME NEW c \in Cars
                 PROVE  (currentLapNum'[c] - 1) * Points <= driven'[c]
        BY DEF LapReached
    <2> DEFINE d == driven'[c]
               lap == LapOf(d)
               k == d % Points
    <2>1. currentLapNum'[c] = lap
        BY <1>2 DEF FillLapData
    <2>2. lap \in Laps /\ k \in Slices /\ PointsTo(lap, k) = d
        BY <1>3, LapAndPoint
    <2> HIDE DEF d, lap, k
    <2> QED
        BY <2>1, <2>2 DEF PointsTo, Slices, Laps, Track, d
<1>7. BestTrue'
    <2> SUFFICES ASSUME NEW c \in Cars, bestLapNum'[c] > 0
                 PROVE  /\ bestLapNum'[c] * Points <= driven'[c]
                        /\ bestLapTimeInMS'[c] = passed'[c][bestLapNum'[c]][Points - 1]
        BY DEF BestTrue, Total
    <2> DEFINE n == bestLapNum[c]
               line == Points - 1
    <2>1. bestLapNum' = bestLapNum /\ bestLapTimeInMS' = bestLapTimeInMS
        BY DEF LapData, best
    <2>2. /\ n \in Laps /\ line \in Slices /\ n * Points <= driven[c]
          /\ bestLapTimeInMS[c] = passed[c][n][line]
        BY <2>1 DEF LapIInv, TypeInv, BestTrue, Laps, Slices, Track, Total
    <2>3. PointsTo(n, line) < driven[c] /\ driven[c] \in Nat
        <3>1. driven[c] \in Nat
            BY DEF LapIInv, TypeInv, Track
        <3> HIDE DEF n
        <3> QED
            BY <2>2, <3>1 DEF PointsTo, Laps, Track
    <2>4. passed'[c][n][line] = passed[c][n][line]
        <3> HIDE DEF n, line
        <3> QED
            <4>1. \/ passed'[c] = passed[c]
                  \/ \A l \in Laps, k \in Slices :
                        passed'[c][l][k] = IF PointsTo(l, k) = driven[c]
                                           THEN time' - lapStart[c] ELSE passed[c][l][k]
                BY DriveStep
            <4>2. PointsTo(n, line) # driven[c]
                BY <2>2, <2>3, PointsToInjective
            <4> QED
                BY <2>2, <4>1, <4>2
    <2>5. n * Points <= driven'[c]
        <3>1. n * Points \in Int /\ driven'[c] \in Int /\ driven'[c] >= driven[c]
            BY <1>3, <2>2 DEF Laps, Track
        <3> HIDE DEF n
        <3> QED
            BY <2>2, <2>3, <3>1
    <2> QED
        BY <2>1, <2>2, <2>4, <2>5
<1> QED
    BY <1>4, <1>5, <1>6, <1>7 DEF LapIInv

(* A finite set has an element that none comes before in a strict order. *)
LEMMA FiniteHasFirst ==
    ASSUME NEW S, IsFiniteSet(S), S # {}, NEW R,
           \A x \in S : <<x, x>> \notin R,
           \A x, y, z \in S : <<x, y>> \in R /\ <<y, z>> \in R => <<x, z>> \in R
    PROVE  \E x \in S : \A y \in S : <<y, x>> \notin R
<1> DEFINE Below(x) == {y \in S : <<y, x>> \in R}
           Sets == {Below(x) : x \in S}
<1>1. FiniteSubsetsOf(S) = SUBSET S
    BY FS_FiniteSubsetsOfFinite
<1>2. Sets \subseteq SUBSET S /\ Sets # {}
    <2>1. \A x \in S : Below(x) \in SUBSET S
        OBVIOUS
    <2> HIDE DEF Below
    <2> QED
        BY <2>1
<1>3. IsWellFoundedOn(StrictSubsetOrdering(S), SUBSET S)
    <2>1. IsWellFoundedOn(StrictSubsetOrdering(S), FiniteSubsetsOf(S))
        BY FS_StrictSubsetOrderingWellFounded
    <2> QED
        BY <1>1, <2>1
<1>4. PICK T \in Sets : \A U \in Sets : <<U, T>> \notin StrictSubsetOrdering(S)
    <2> HIDE DEF Sets
    <2> QED
        BY <1>2, <1>3, WFMin
<1>5. PICK x \in S : T = Below(x)
    OBVIOUS
<1>6. ASSUME NEW y \in S, <<y, x>> \in R PROVE FALSE
    <2>1. Below(y) \subseteq Below(x) /\ y \in Below(x) /\ y \notin Below(y)
        BY <1>6
    <2>2. <<Below(y), Below(x)>> \in StrictSubsetOrdering(S)
        <3>1. Below(y) \in SUBSET S /\ Below(x) \in SUBSET S /\ Below(y) # Below(x)
            BY <2>1
        <3> HIDE DEF Below
        <3> QED
            BY <2>1, <3>1 DEF StrictSubsetOrdering
    <2> QED
        BY <1>4, <1>5, <2>2
<1> QED
    BY <1>6

(* Of some laps one is the first of the fastest. *)
LEMMA FastestIsOne ==
    ASSUME Track, LapIInv, NEW c \in Cars, NEW valid \in SUBSET Laps, valid # {}
    PROVE  Fastest(c, valid) \in valid
<1> DEFINE Better(m, l) == Total(c, m) < Total(c, l) \/ (Total(c, m) = Total(c, l) /\ m < l)
           R == {r \in valid \X valid : Better(r[1], r[2])}
<1>1. \A l \in valid : Total(c, l) \in Int /\ l \in Int
    <2>1. Laps \subseteq Int /\ Points - 1 \in Slices
        BY DEF Track, Laps, Slices
    <2>2. passed[c] \in Table
        BY DEF LapIInv, TypeInv
    <2> QED
        BY <2>1, <2>2 DEF Table, Total
<1>2. IsFiniteSet(valid)
    <2>1. IsFiniteSet(Laps)
        BY FS_Interval DEF Track, Laps
    <2> QED
        BY <2>1, FS_Subset
<1>3. \A x, y \in valid : <<x, y>> \in R <=> Better(x, y)
    OBVIOUS
<1>4. PICK l \in valid : \A m \in valid : ~Better(m, l)
    <2>1. \A x \in valid : ~Better(x, x)
        BY <1>1
    <2>2. \A x, y, z \in valid : Better(x, y) /\ Better(y, z) => Better(x, z)
        BY <1>1
    <2> HIDE DEF R, Better
    <2>3. \E x \in valid : \A y \in valid : <<y, x>> \notin R
        <3>1. \A x \in valid : <<x, x>> \notin R
            BY <1>3, <2>1
        <3>2. \A x, y, z \in valid : <<x, y>> \in R /\ <<y, z>> \in R => <<x, z>> \in R
            BY <1>3, <2>2
        <3> QED
            BY ONLY <1>2, <3>1, <3>2, FiniteHasFirst, valid # {}
    <2> QED
        BY <1>3, <2>3
<1>5. /\ \A m \in valid : Total(c, l) <= Total(c, m)
      /\ \A m \in valid : Total(c, l) = Total(c, m) => l <= m
    BY <1>1, <1>4
<1> QED
    BY <1>5 DEF Fastest

(* A session history names a full lap or none, and its time. *)
LEMMA HistoryStep == Track /\ LapIInv /\ FillLapHistroy => LapIInv'
<1> SUFFICES ASSUME Track, LapIInv, FillLapHistroy PROVE LapIInv'
    OBVIOUS
<1>1. PICK e \in Cars : \E valid \in SUBSET (1..(LapOf(driven[e]) - 1)) :
         \E n \in {Fastest(e, valid)} :
            /\ bestLapNum' = [bestLapNum EXCEPT ![e] = n]
            /\ bestLapTimeInMS' = [bestLapTimeInMS EXCEPT ![e] =
                  IF n # 0 THEN Total(e, n) ELSE @]
            /\ UNCHANGED <<drive, laps, rankList_>>
    BY ZenonT(40) DEF FillLapHistroy
<1>2. PICK valid \in SUBSET (1..(LapOf(driven[e]) - 1)) :
         \E n \in {Fastest(e, valid)} :
            /\ bestLapNum' = [bestLapNum EXCEPT ![e] = n]
            /\ bestLapTimeInMS' = [bestLapTimeInMS EXCEPT ![e] =
                  IF n # 0 THEN Total(e, n) ELSE @]
            /\ UNCHANGED <<drive, laps, rankList_>>
    BY <1>1
<1> DEFINE n == Fastest(e, valid)
<1>2a. /\ bestLapNum' = [bestLapNum EXCEPT ![e] = n]
      /\ bestLapTimeInMS' = [bestLapTimeInMS EXCEPT ![e] = IF n # 0 THEN Total(e, n) ELSE @]
      /\ UNCHANGED <<drive, laps, rankList_>>
    BY <1>2
<1>3. /\ Points \in Nat \ {0, 1} /\ MaxLap \in Nat
      /\ driven[e] \in 0..(MaxLap * Points - 1) /\ passed[e] \in Table
      /\ LapOf(driven[e]) \in 1..MaxLap
      /\ driven[e] % Points \in Slices
      /\ PointsTo(LapOf(driven[e]), driven[e] % Points) = driven[e]
    BY LapAndPoint DEF Track, LapIInv, TypeInv, Laps
<1>4. n = 0 \/ n \in 1..(LapOf(driven[e]) - 1)
    <2>1. CASE valid = {}
        BY <2>1 DEF Fastest
    <2>2. CASE valid # {}
        <3>1. valid \in SUBSET Laps
            BY <1>3 DEF Laps
        <3> QED
            BY <2>2, <3>1, FastestIsOne
    <2> QED
        BY <2>1, <2>2
<1>5. n # 0 => /\ n \in Laps /\ n * Points <= driven[e]
               /\ Total(e, n) \in Int
    <2> SUFFICES ASSUME n # 0
                 PROVE  n \in Laps /\ n * Points <= driven[e] /\ Total(e, n) \in Int
        OBVIOUS
    <2>1. n \in Laps /\ n <= LapOf(driven[e]) - 1 /\ n \in Int
        BY <1>3, <1>4 DEF Laps
    <2>2. Points * n <= Points * (LapOf(driven[e]) - 1)
        BY <1>3, <2>1, ProductMonotonic
    <2>3. n * Points <= driven[e]
        <3> DEFINE q == LapOf(driven[e])
                   r == driven[e] % Points
        <3> HIDE DEF q, r
        <3> QED
            BY <1>3, <2>1, <2>2 DEF PointsTo, Slices, q, r
    <2>4. Total(e, n) \in Int
        <3>1. Points - 1 \in Slices
            BY <1>3 DEF Slices
        <3> QED
            BY <1>3, <2>1, <3>1 DEF Total, Table
    <2> QED
        BY <2>1, <2>3, <2>4
<1> HIDE DEF n
<1>6. TypeInv'
    <2>1. n \in 0..MaxLap
        BY <1>3, <1>5 DEF Laps
    <2>2. bestLapNum' \in [Cars -> 0..MaxLap]
        BY <1>2a, <2>1 DEF LapIInv, TypeInv
    <2>3. bestLapTimeInMS' \in [Cars -> Int]
        BY <1>2a, <1>5 DEF LapIInv, TypeInv
    <2> QED
        BY <1>2a, <2>2, <2>3 DEF LapIInv, TypeInv, drive, laps
<1>7. PassedTimed' /\ TableTrue' /\ LapReached'
    BY <1>2a DEF LapIInv, PassedTimed, TableTrue, LapReached, drive, laps, PointsTo, Laps, Slices
<1>8. BestTrue'
    <2> SUFFICES ASSUME NEW c \in Cars, bestLapNum'[c] > 0
                 PROVE  /\ bestLapNum'[c] * Points <= driven[c]
                        /\ bestLapTimeInMS'[c] = Total(c, bestLapNum'[c])
        BY <1>2a DEF BestTrue, Total, drive
    <2>1. CASE c = e
        <3>1. bestLapNum'[c] = n /\ n # 0
            BY <1>2a, <2>1, <1>3 DEF LapIInv, TypeInv
        <3>2. bestLapTimeInMS'[c] = Total(c, n)
            BY <1>2a, <2>1, <3>1 DEF LapIInv, TypeInv
        <3> QED
            BY <1>5, <2>1, <3>1, <3>2
    <2>2. CASE c # e
        BY <1>2a, <2>2 DEF LapIInv, TypeInv, BestTrue
    <2> QED
        BY <2>1, <2>2
<1> QED
    BY <1>6, <1>7, <1>8 DEF LapIInv

(* Nothing was seen yet; the points before the recorder have times. *)
LEMMA InitLaps == Track /\ Init => LapIInv
<1> SUFFICES ASSUME Track, Init PROVE LapIInv
    OBVIOUS
<1>1. /\ Points \in Nat \ {0, 1} /\ MaxLap \in Nat \ {0}
      /\ driven \in [Cars -> 0..(MaxLap * Points - 1)]
    BY DEF Track, Init
<1>2. TypeInv
    <2>1. \A c \in Cars : driven[c] % Points \in 0..(Points - 1)
        BY <1>1
    <2>2. lapStart \in [Cars -> Int] /\ \A c \in Cars : lapStart[c] <= 0
        BY <1>1, <2>1 DEF Init
    <2>3. \A c \in Cars : TimesBefore(driven[c]) \in Table
        BY <1>1 DEF TimesBefore, Table, Slices
    <2>4. passed \in [Cars -> Table] /\ laptime \in [Cars -> Table]
        BY <2>3 DEF Init, Table
    <2>5. /\ currentLapNum \in [Cars -> 0..MaxLap]
          /\ bestLapNum \in [Cars -> 0..MaxLap]
          /\ bestLapTimeInMS \in [Cars -> Int]
          /\ time \in Nat
        BY <1>1 DEF Init
    <2> QED
        BY <1>1, <2>2, <2>4, <2>5 DEF Init, TypeInv
<1>3. PassedTimed
    <2> SUFFICES ASSUME NEW c \in Cars, NEW l \in Laps, NEW k \in Slices,
                        PointsTo(l, k) < driven[c]
                 PROVE  passed[c][l][k] > 0
        BY DEF PassedTimed
    <2>1. passed[c][l][k] = k + 1
        BY DEF Init, TimesBefore, PointsTo
    <2> QED
        BY <1>1, <2>1 DEF Slices
<1>4. TableTrue
    BY DEF TableTrue, Init
<1>5. LapReached
    <2> SUFFICES ASSUME NEW c \in Cars PROVE (0 - 1) * Points <= driven[c]
        BY DEF LapReached, Init
    <2> QED
        BY <1>1
<1>6. BestTrue
    BY DEF BestTrue, Init
<1> QED
    BY <1>2, <1>3, <1>4, <1>5, <1>6 DEF LapIInv

(* The invariant makes the gaps true. *)
LEMMA GapsFollow == Track /\ LapIInv => GapsAsDriven
<1> SUFFICES ASSUME Track, LapIInv, NEW i \in DOMAIN rankList_, NEW stray \in Stray,
                    sliceIndex[rankList_[i]] >= 0
             PROVE  \E c \in {rankList_[i]}, leader \in {rankList_[1]},
                       diff \in {reCalcuteLapDiff(i, stray)} :
                  /\ Comparable(c, leader, bestLapNum[leader]) =>
                        diff.leaderJIT = Behind(c, leader, bestLapNum[leader])
                  /\ i > 1 =>
                        \E f \in {rankList_[i - 1]} :
                           /\ Comparable(c, f, bestLapNum[f]) =>
                                 diff.frontJIT = Behind(c, f, bestLapNum[f])
                           /\ bestLapNum[c] > 0 /\ bestLapNum[f] > 0 =>
                                 diff.front = Total(c, bestLapNum[c]) - Total(f, bestLapNum[f])
                  /\ currentLapNum[c] > 1 =>
                        /\ Comparable(c, c, bestLapNum[c]) =>
                              diff.bestlapJIT = Behind(c, c, bestLapNum[c])
                        /\ Comparable(c, c, currentLapNum[c] - 1) =>
                              diff.lastlapJIT = Behind(c, c, currentLapNum[c] - 1)
    BY DEF GapsAsDriven
<1> DEFINE c == rankList_[i]
           leader == rankList_[1]
           lap == currentLapNum[c]
           k == sliceIndex[c]
<1>1. /\ i \in Int /\ i >= 1
      /\ c \in Cars /\ leader \in Cars
      /\ i > 1 => rankList_[i - 1] \in Cars
    <2>1. Cardinality(Cars) \in Nat
        BY FS_CardinalityType DEF Track
    <2>2. rankList_ \in [1..Cardinality(Cars) -> Cars]
        BY DEF LapIInv, TypeInv, Orders
    <2> QED
        BY <2>1, <2>2
<1>2. ASSUME NEW d \in Cars, NEW m \in 0..MaxLap, Comparable(c, d, m)
      PROVE  diffBetween2CarJIT(c, lap, d, m, k, stray) = Behind(c, d, m)
    <2>1. /\ <<c, lap, k>> \in seen /\ m > 0 /\ m \in Laps
          /\ \A j \in Slices : <<d, m, j>> \in seen
        BY <1>2 DEF Comparable, SeenWhole, Laps, Track
    <2>2. lap \in Laps /\ k \in Slices /\ Points - 1 \in Slices
        BY <2>1 DEF LapIInv, TypeInv, Slices, Track
    <2>3. /\ laptime[c][lap][k] = passed[c][lap][k]
          /\ laptime[d][m][k] = passed[d][m][k]
          /\ laptime[d][m][Points - 1] # 0
        <3> DEFINE line == Points - 1
        <3>1. <<d, m, k>> \in seen /\ <<d, m, line>> \in seen /\ line \in Slices
            BY <2>1, <2>2
        <3> HIDE DEF c, lap, k, line
        <3>2. /\ laptime[c][lap][k] = passed[c][lap][k]
              /\ laptime[d][m][k] = passed[d][m][k]
              /\ laptime[d][m][line] = passed[d][m][line]
              /\ PointsTo(m, line) < driven[d]
            BY <1>1, <2>1, <2>2, <3>1 DEF LapIInv, TableTrue
        <3>3. passed[d][m][line] > 0
            BY <2>1, <3>1, <3>2 DEF LapIInv, PassedTimed
        <3> QED
            BY <3>2, <3>3 DEF line
    <2>4. lap # 0 /\ m # 0
        BY <2>1, <2>2 DEF Laps
    <2> QED
        BY <2>3, <2>4 DEF diffBetween2CarJIT, TimeAt, Behind
<1>3. \A d \in Cars : bestLapNum[d] \in 0..MaxLap
    BY DEF LapIInv, TypeInv
<1>4. \A d \in Cars : Comparable(c, d, bestLapNum[d]) => bestLapNum[d] > 0
    BY DEF Comparable
<1>5. Comparable(c, leader, bestLapNum[leader]) =>
         reCalcuteLapDiff(i, stray).leaderJIT = Behind(c, leader, bestLapNum[leader])
    BY <1>1, <1>2, <1>3, <1>4 DEF reCalcuteLapDiff
<1>6. ASSUME i > 1, NEW f \in {rankList_[i - 1]}
      PROVE  /\ Comparable(c, f, bestLapNum[f]) =>
                   reCalcuteLapDiff(i, stray).frontJIT = Behind(c, f, bestLapNum[f])
             /\ bestLapNum[c] > 0 /\ bestLapNum[f] > 0 =>
                   reCalcuteLapDiff(i, stray).front =
                      Total(c, bestLapNum[c]) - Total(f, bestLapNum[f])
    <2>1. Comparable(c, f, bestLapNum[f]) =>
             reCalcuteLapDiff(i, stray).frontJIT = Behind(c, f, bestLapNum[f])
        BY <1>1, <1>2, <1>3, <1>4, <1>6 DEF reCalcuteLapDiff
    <2>2. ASSUME NEW d \in Cars, bestLapNum[d] > 0
          PROVE  bestLapTimeInMS[d] = Total(d, bestLapNum[d]) /\ bestLapTimeInMS[d] > 0
        <3> DEFINE n == bestLapNum[d]
                   line == Points - 1
        <3>1. /\ Points \in Nat \ {0, 1} /\ MaxLap \in Nat /\ n \in Int
              /\ n \in Laps /\ line \in Slices /\ n * Points <= driven[d]
              /\ driven[d] \in Int
            BY <2>2 DEF Track, LapIInv, TypeInv, BestTrue, Laps, Slices
        <3>2. PointsTo(n, line) < driven[d]
            <4> HIDE DEF n
            <4> QED
                BY <3>1 DEF PointsTo
        <3>3. passed[d][n][line] > 0
            <4> HIDE DEF n, line
            <4> QED
                BY <3>1, <3>2 DEF LapIInv, PassedTimed
        <3> QED
            BY <2>2, <3>3 DEF LapIInv, BestTrue, Total
    <2>3. bestLapNum[c] > 0 /\ bestLapNum[f] > 0 =>
             OfBest(c, f) = Total(c, bestLapNum[c]) - Total(f, bestLapNum[f])
        BY <1>1, <1>6, <2>2 DEF OfBest
    <2> QED
        BY <1>6, <2>1, <2>3 DEF reCalcuteLapDiff
<1>7. ASSUME currentLapNum[c] > 1
      PROVE  /\ Comparable(c, c, bestLapNum[c]) =>
                   reCalcuteLapDiff(i, stray).bestlapJIT = Behind(c, c, bestLapNum[c])
             /\ Comparable(c, c, currentLapNum[c] - 1) =>
                   reCalcuteLapDiff(i, stray).lastlapJIT = Behind(c, c, currentLapNum[c] - 1)
    <2>1. currentLapNum[c] - 1 \in 0..MaxLap
        BY <1>1, <1>7 DEF LapIInv, TypeInv, Track
    <2> QED
        BY <1>1, <1>2, <1>3, <1>7, <2>1 DEF reCalcuteLapDiff
<1> QED
    BY <1>5, <1>6, <1>7

(* Every step keeps it. *)
LEMMA LapSteps == Track /\ LapIInv /\ [Next]_vars => LapIInv'
<1> SUFFICES ASSUME Track, LapIInv, [Next]_vars PROVE LapIInv'
    OBVIOUS
<1>1. CASE UNCHANGED vars
    BY <1>1 DEF vars, drive, laps, best, LapIInv, TypeInv, PassedTimed, TableTrue, LapReached,
                BestTrue, PointsTo, Total, Orders, Table, Laps, Slices
<1> QED
    BY <1>1, LapDataStep, HistoryStep DEF Next

(* In a practice or qualifying session a car is set against true laps, in
   whatever order laps and histories come in and wherever the recorder starts. *)
THEOREM GapsAgainstTrueLaps == ASSUME Track PROVE Spec => []GapsAsDriven
<1>1. Init => LapIInv
    BY InitLaps
<1>2. LapIInv /\ [Next]_vars => LapIInv'
    BY LapSteps
<1>3. LapIInv => GapsAsDriven
    BY GapsFollow
<1> QED
    BY <1>1, <1>2, <1>3, PTL DEF Spec
=============================================================================

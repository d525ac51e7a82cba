-------------------------- MODULE LapDetailsProofs --------------------------
(***************************************************************************)
(* Theorems about LapDetails, for any number of cars, marks to a lap and    *)
(* flashbacks, and any drive.                                               *)
(***************************************************************************)
EXTENDS LapDetails, FiniteSetTheorems, TLAPS

Positions == -1..MaxPosition

Frame ==
    [at : [Cars -> Positions], flying : SUBSET Cars, drive : Nat, on : SUBSET Cars,
     located : BOOLEAN, landing : BOOLEAN]

(* The frames that count, and what FillLapData keeps of a car. *)
Driven ==
    /\ round \in Rounds /\ located \in BOOLEAN
    /\ past \in Seq(Frame) /\ past # <<>>
    /\ drive \in Nat
    /\ \A f \in DOMAIN past : past[f].drive <= drive
    /\ \A f, h \in DOMAIN past, c \in Cars : f <= h => past[f].at[c] <= past[h].at[c]
    /\ lapDistance \in [Cars -> Int]
    /\ DOMAIN buffer = Cars
    /\ \A c \in Cars : buffer[c] \in Seq([lap : Int, mark : Int, frame : Int, drive : Int])

(* FillLapData has seen the last frame, unless the game has gone back. *)
InStep ==
    /\ is_flash_back_ => Landing
    /\ ~Landing => flying = Now.flying

(* What FillLapData has seen since a flashback leaves a seam. *)
SeamsTold ==
    /\ Landing => \A c \in Cars, at \in Int : at \in Seam(c, Now.at[c]) => <<c, at>> \in seams
    /\ ~Landing =>
          \A c \in Cars :
             /\ Now.located
             /\ lapDistance[c] # MarkOf(Now.at[c])
             /\ Len(past) > 1 => past[Len(past) - 1].at[c] = Now.at[c]
             /\ MarkOf(Now.at[c] + 1) = lapDistance[c]
             => <<c, Now.at[c] + 1>> \in seams

(* The row of the position, once written, is of the drive that counts. *)
RowRight(c, p) ==
    \E k \in {<<c, LapOf(p), MarkOf(p)>>} :
        /\ k \in DOMAIN AfterToSQL
        /\ AfterToSQL[k].frame \in FramesIn(c, p)
        /\ past[AfterToSQL[k].frame].drive = AfterToSQL[k].drive

RecordedAll(c, p) ==
    \A f \in FramesIn(c, p) : c \in past[f].on /\ f > 1 /\ past[f - 1].located

(* A car whose last snapshot is of the mark it is in has its row. *)
HereRight ==
    ~Landing =>
        \A c \in Cars :
            /\ Now.at[c] >= 0
            /\ RecordedAll(c, Now.at[c])
            /\ <<c, Now.at[c]>> \notin seams
            /\ lapDistance[c] = MarkOf(Now.at[c])
            => RowRight(c, Now.at[c])

(* DetailsAsDriven. *)
AllRight ==
    \A c \in Cars, p \in 0..MaxPosition :
        /\ RecordedAll(c, p)
        /\ Unprotected(c, FramesIn(c, p)) # {}
        /\ <<c, p>> \notin seams
        => RowRight(c, p)

(* The inductive invariant. *)
DetailsIInv == Driven /\ InStep /\ SeamsTold /\ HereRight /\ AllRight
----------------------------------------------------------------------------
(* Marks and keys. *)

LEMMA Remainder ==
    ASSUME NEW m \in Nat \ {0, 1}, NEW p \in Int,
           NEW a, a = p \div m, NEW b, b = p % m
    PROVE  a \in Int /\ b \in 0..(m - 1) /\ p = m * a + b
OBVIOUS

LEMMA NoUnit ==
    ASSUME NEW m \in Nat \ {0, 1}, NEW x \in Int, NEW y \in Int, m * y = m * x + 1
    PROVE  FALSE
<1>1. CASE y <= x
  <2>1. m * y <= m * x
    BY <1>1
  <2> QED
    BY <2>1
<1>2. CASE y >= x + 1
  <2>1. m * y >= m * (x + 1)
    BY <1>2
  <2>2. m * (x + 1) = m * x + m
    OBVIOUS
  <2> QED
    BY <2>1, <2>2
<1> QED
  BY <1>1, <1>2

LEMMA NextRemainder ==
    ASSUME NEW m \in Nat \ {0, 1}, NEW p \in Int
    PROVE  (p + 1) % m # p % m
<1> DEFINE q == p + 1
           x == p \div m
           y == q \div m
           u == p % m
           v == q % m
<1>1. q \in Int /\ q = p + 1
  OBVIOUS
<1> HIDE DEF q
<1>2. u \in Int /\ x \in Int /\ p = m * x + u
  BY Remainder
<1>3. v \in Int /\ y \in Int /\ q = m * y + v
  BY <1>1, Remainder
<1> SUFFICES ASSUME v = u PROVE FALSE
  BY DEF q
<1> HIDE DEF x, y, u, v
<1>4. m * y = m * x + 1
  <2>1. m * x \in Int /\ m * y \in Int
    BY <1>2, <1>3
  <2> QED
    BY <1>1, <1>2, <1>3, <2>1
<1> QED
  BY <1>2, <1>3, <1>4, NoUnit

LEMMA NextMark ==
    ASSUME Circuit, NEW p \in Int
    PROVE  MarkOf(p) \in Int /\ MarkOf(p + 1) # MarkOf(p)
<1>1. Marks \in Nat \ {0, 1}
  BY DEF Circuit
<1> QED
  <2>1. p % Marks \in Int
    BY <1>1, Remainder
  <2> QED
    BY <1>1, <2>1, NextRemainder DEF MarkOf

(* A lap and a mark are one position. *)
LEMMA PositionOfKey ==
    ASSUME Circuit, NEW p \in Nat, NEW q \in Nat,
           LapOf(p) = LapOf(q), MarkOf(p) = MarkOf(q)
    PROVE  p = q
<1> DEFINE x == p \div Marks
           y == q \div Marks
           u == p % Marks
           v == q % Marks
<1>1. Marks \in Nat \ {0, 1}
  BY DEF Circuit
<1>2. x \in Int /\ p = Marks * x + u
  BY <1>1, Remainder
<1>3. y \in Int /\ q = Marks * y + v
  BY <1>1, Remainder
<1>4. x + 1 = y + 1
  BY DEF LapOf
<1>5. u = v
  BY DEF MarkOf
<1> HIDE DEF x, y, u, v
<1>6. x = y
  BY <1>2, <1>3, <1>4
<1> QED
  BY <1>2, <1>3, <1>5, <1>6

(* Some places in a sequence have a last one. *)
LEMMA HasLast ==
    ASSUME NEW n \in Nat, NEW S \in SUBSET (1..n), S # {}
    PROVE  \E j \in S : \A k \in S : k <= j
<1> DEFINE Beyond(j) == (j + 1)..n
           Sets == {Beyond(j) : j \in S}
<1>1. FiniteSubsetsOf(1..n) = SUBSET (1..n)
  <2>1. IsFiniteSet(1..n)
    BY FS_Interval
  <2> QED
    BY <2>1, FS_FiniteSubsetsOfFinite
<1>2. IsWellFoundedOn(StrictSubsetOrdering(1..n), SUBSET (1..n))
  BY <1>1, FS_StrictSubsetOrderingWellFounded
<1>3. Sets \subseteq SUBSET (1..n) /\ Sets # {}
  <2>1. \A j \in S : Beyond(j) \in SUBSET (1..n)
    OBVIOUS
  <2> HIDE DEF Beyond
  <2> QED
    BY <2>1
<1>4. PICK T \in Sets : \A U \in Sets : <<U, T>> \notin StrictSubsetOrdering(1..n)
  <2> HIDE DEF Sets
  <2> QED
    BY <1>2, <1>3, WFMin
<1>5. PICK j \in S : T = Beyond(j)
  OBVIOUS
<1>6. ASSUME NEW k \in S, k > j PROVE FALSE
  <2>1. Beyond(k) \subseteq Beyond(j) /\ Beyond(k) # Beyond(j)
    <3>1. k \in Beyond(j) /\ k \notin Beyond(k)
      BY <1>6
    <3> QED
      BY <1>6, <3>1
  <2>2. Beyond(k) \in Sets /\ Beyond(k) \in SUBSET (1..n) /\ Beyond(j) \in SUBSET (1..n)
    BY <1>3
  <2> HIDE DEF Beyond, Sets
  <2>3. <<Beyond(k), Beyond(j)>> \in StrictSubsetOrdering(1..n)
    BY <2>1, <2>2 DEF StrictSubsetOrdering
  <2> QED
    BY <1>4, <1>5, <2>2, <2>3
<1> QED
  BY <1>6
----------------------------------------------------------------------------
(* The rows as ToSQL leaves them. *)

Places(b, c, k) == {i \in DOMAIN b : Key(c, b[i]) = k}

(* The row of key k of car c, from its buffer b or the table D. *)
HasRow(b, D, c, k) == Places(b, c, k) # {} \/ k \in DOMAIN D

RowOf(b, D, c, k) == IF Places(b, c, k) # {} THEN b[Last(Places(b, c, k))] ELSE D[k]

LEMMA Written ==
    \A c \in Cars : \A l, m :
       /\ <<c, l, m>> \in DOMAIN AfterToSQL <=> HasRow(buffer[c], details, c, <<c, l, m>>)
       /\ HasRow(buffer[c], details, c, <<c, l, m>>) =>
             AfterToSQL[<<c, l, m>>] = RowOf(buffer[c], details, c, <<c, l, m>>)
<1> TAKE c \in Cars
<1> TAKE l, m
<1> DEFINE k == <<c, l, m>>
           P == Places(buffer[c], c, k)
<1>1. P = {i \in DOMAIN buffer[k[1]] : Key(k[1], buffer[k[1]][i]) = k}
  BY DEF Places
<1>2. k \in RowsToWrite <=> P # {}
  <2>1. ASSUME NEW d \in Cars, NEW i \in DOMAIN buffer[d], k = Key(d, buffer[d][i])
        PROVE d = c
    BY <2>1 DEF Key
  <2> QED
    BY <2>1 DEF RowsToWrite, Places
<1>3. k \in DOMAIN AfterToSQL <=> P # {} \/ k \in DOMAIN details
  BY <1>2 DEF AfterToSQL
<1>4. P # {} => AfterToSQL[k] = buffer[c][Last(P)]
  BY <1>1, <1>2, <1>3 DEF AfterToSQL
<1>5. P = {} /\ k \in DOMAIN details => AfterToSQL[k] = details[k]
  BY <1>2, <1>3 DEF AfterToSQL
<1> QED
  BY <1>3, <1>4, <1>5 DEF HasRow, RowOf

LEMMA WrittenNext ==
    (\A c \in Cars : \A l, m :
       /\ <<c, l, m>> \in DOMAIN AfterToSQL <=> HasRow(buffer[c], details, c, <<c, l, m>>)
       /\ HasRow(buffer[c], details, c, <<c, l, m>>) =>
             AfterToSQL[<<c, l, m>>] = RowOf(buffer[c], details, c, <<c, l, m>>))'
BY Written, PTL

(* A row more in a car's buffer: it is the last of its key, and the rows of the
   other keys stay. *)
LEMMA PlacesKept ==
    ASSUME NEW T, NEW b \in Seq(T), NEW r \in T, NEW c, NEW k, Key(c, r) # k
    PROVE  Places(Append(b, r), c, k) = Places(b, c, k)
<1> DEFINE n == Len(b)
           e == Append(b, r)
<1>1. n \in Nat /\ DOMAIN b = 1..n /\ DOMAIN e = 1..(n + 1) /\ e[n + 1] = r
      /\ \A i \in 1..n : e[i] = b[i]
  OBVIOUS
<1> HIDE DEF n, e
<1> QED
  BY <1>1 DEF Places, e

LEMMA LastPlaceKept ==
    ASSUME NEW T, NEW b \in Seq(T), NEW r \in T, NEW c, NEW k, Places(b, c, k) # {}
    PROVE  Append(b, r)[Last(Places(b, c, k))] = b[Last(Places(b, c, k))]
<1> DEFINE n == Len(b)
           S == Places(b, c, k)
<1>1. n \in Nat /\ S \in SUBSET (1..n) /\ \A i \in 1..n : Append(b, r)[i] = b[i]
  BY DEF Places
<1> HIDE DEF n, S
<1>2. \E j \in S : \A i \in S : i <= j
  BY <1>1, HasLast DEF S
<1>3. Last(S) \in S
  BY <1>2 DEF Last
<1> QED
  BY <1>1, <1>3 DEF S

LEMMA RowKept ==
    ASSUME NEW T, NEW b \in Seq(T), NEW r \in T, NEW c, NEW k, NEW D, Key(c, r) # k
    PROVE  /\ HasRow(Append(b, r), D, c, k) <=> HasRow(b, D, c, k)
           /\ RowOf(Append(b, r), D, c, k) = RowOf(b, D, c, k)
<1>1. Places(Append(b, r), c, k) = Places(b, c, k)
  BY PlacesKept
<1>2. Places(b, c, k) # {} =>
         Append(b, r)[Last(Places(b, c, k))] = b[Last(Places(b, c, k))]
  BY LastPlaceKept
<1> QED
  BY <1>1, <1>2 DEF HasRow, RowOf

LEMMA RowAdded ==
    ASSUME NEW T, NEW b \in Seq(T), NEW r \in T, NEW c, NEW k, NEW D, Key(c, r) = k
    PROVE  HasRow(Append(b, r), D, c, k) /\ RowOf(Append(b, r), D, c, k) = r
<1> DEFINE n == Len(b)
           e == Append(b, r)
           S == Places(e, c, k)
           j == Last(S)
<1>1. n \in Nat /\ DOMAIN e = 1..(n + 1) /\ e[n + 1] = r
  OBVIOUS
<1> HIDE DEF n, e
<1>2. S \in SUBSET (1..(n + 1)) /\ n + 1 \in S
  BY <1>1 DEF Places
<1> HIDE DEF S
<1>3. j \in S /\ \A i \in S : i <= j
  <2>1. \A i \in S : i <= n + 1
    BY <1>1, <1>2
  <2> QED
    BY <1>2, <2>1 DEF Last
<1>4. j \in 1..(n + 1) /\ n + 1 <= j
  BY <1>2, <1>3
<1> HIDE DEF j
<1>5. e[j] = r
  BY <1>1, <1>4
<1>6. HasRow(e, D, c, k) /\ RowOf(e, D, c, k) = r
  BY <1>2, <1>5 DEF HasRow, RowOf, S, j
<1> QED
  BY <1>6 DEF e

(* RowRight, of a row of the buffer b or the table D. *)
RightIn(b, D, c, p) ==
    \E k \in {<<c, LapOf(p), MarkOf(p)>>} :
        /\ HasRow(b, D, c, k)
        /\ RowOf(b, D, c, k).frame \in FramesIn(c, p)
        /\ past[RowOf(b, D, c, k).frame].drive = RowOf(b, D, c, k).drive

LEMMA RowRightIn ==
    \A c \in Cars : \A p : RowRight(c, p) <=> RightIn(buffer[c], details, c, p)
BY Written DEF RowRight, RightIn

LEMMA RowRightInNext ==
    (\A c \in Cars : \A p : RowRight(c, p) <=> RightIn(buffer[c], details, c, p))'
BY RowRightIn, PTL
----------------------------------------------------------------------------
(* A frame more. *)

Driving(at, nowFlying, frame) ==
    /\ at \in [Cars -> Positions] /\ nowFlying \in SUBSET Cars
    /\ \A c \in Cars :
          \/ at[c] = Now.at[c]
          \/ /\ at[c] = Now.at[c] + 1
             /\ Len(past) > 1 /\ past[Len(past) - 1].at[c] = Now.at[c]
    /\ frame \in Frame
    /\ frame.at = at /\ frame.flying = nowFlying /\ frame.drive = drive
    /\ frame.on = Recorded(at, nowFlying)
    /\ frame.located = located /\ frame.landing = Landing
    /\ past' = Append(past, frame)
    /\ FillLapData(at, nowFlying)
    /\ UNCHANGED <<session, drive, seams, located, hotlap, details>>

LEMMA LapDataDrives ==
    ASSUME Circuit, Driven, LapData
    PROVE  \E at, nowFlying, frame : Driving(at, nowFlying, frame)
<1>1. PICK moving \in SUBSET MayMove,
           nowFlying \in IF round.race THEN {{}} ELSE SUBSET Cars :
         \E at \in {[c \in Cars |-> Now.at[c] + IF c \in moving THEN 1 ELSE 0]} :
            /\ past' = Append(past, [at |-> at, flying |-> nowFlying,
                          drive |-> drive, on |-> Recorded(at, nowFlying),
                          located |-> located, landing |-> Landing])
            /\ FillLapData(at, nowFlying)
  BY DEF LapData
<1> DEFINE at == [c \in Cars |-> Now.at[c] + IF c \in moving THEN 1 ELSE 0]
           frame == [at |-> at, flying |-> nowFlying, drive |-> drive,
                     on |-> Recorded(at, nowFlying), located |-> located,
                     landing |-> Landing]
<1>2. past' = Append(past, frame) /\ FillLapData(at, nowFlying)
  BY <1>1
<1>3. Now \in Frame
  <2>1. past \in Seq(Frame) /\ past # <<>>
    BY DEF Driven
  <2> HIDE DEF Frame
  <2> QED
    BY <2>1 DEF Now
<1>4. nowFlying \in SUBSET Cars
  OBVIOUS
<1>5. MaxPosition \in Nat /\ Now.at \in [Cars -> Positions]
  BY <1>3 DEF Circuit, Frame
<1>6. ASSUME NEW c \in Cars
      PROVE /\ at[c] \in Positions
            /\ \/ at[c] = Now.at[c]
               \/ /\ at[c] = Now.at[c] + 1
                  /\ Len(past) > 1 /\ past[Len(past) - 1].at[c] = Now.at[c]
  <2>1. Now.at[c] \in Int /\ -1 <= Now.at[c] /\ Now.at[c] <= MaxPosition
    BY <1>5 DEF Positions
  <2>2. CASE c \in moving
    <3>1. Now.at[c] < MaxPosition /\ Len(past) > 1 /\ past[Len(past) - 1].at[c] = Now.at[c]
      BY <2>2 DEF MayMove
    <3> QED
      BY <1>5, <2>1, <2>2, <3>1 DEF Positions
  <2>3. CASE c \notin moving
    BY <2>1, <2>3 DEF Positions
  <2> QED
    BY <2>2, <2>3
<1>7. at \in [Cars -> Positions]
  BY <1>6
<1> HIDE DEF at
<1>8. Recorded(at, nowFlying) \in SUBSET Cars
  BY DEF Recorded
<1>9. Landing \in BOOLEAN
  BY DEF Landing
<1>10. frame \in Frame
  BY <1>4, <1>7, <1>8, <1>9 DEF Frame, Driven
<1>11. UNCHANGED <<session, drive, seams, located, hotlap, details>>
  BY DEF LapData
<1> QED
  BY <1>2, <1>4, <1>6, <1>7, <1>10, <1>11 DEF Driving

(* The frames with one more. *)
LEMMA PastGrows ==
    ASSUME Driven, NEW at, NEW nowFlying, NEW frame, Driving(at, nowFlying, frame)
    PROVE  /\ Len(past) \in Nat \ {0} /\ DOMAIN past = 1..Len(past)
           /\ DOMAIN past' = 1..(Len(past) + 1)
           /\ past'[Len(past) + 1] = frame
           /\ \A f \in 1..Len(past) : past'[f] = past[f]
           /\ past' \in Seq(Frame) /\ Len(past') = Len(past) + 1
           /\ Now' = frame
           /\ Cars' = Cars /\ Frame' = Frame
<1>1. past \in Seq(Frame) /\ past # <<>> /\ frame \in Frame /\ past' = Append(past, frame)
  BY DEF Driven, Driving
<1>2. Cars' = Cars
  BY DEF Driving, Cars, session
<1>3. Frame' = Frame
  BY <1>2 DEF Frame, Positions
<1> HIDE DEF Frame
<1>4. Len(past) \in Nat \ {0} /\ DOMAIN past = 1..Len(past)
  BY <1>1
<1>5. /\ past' \in Seq(Frame) /\ Len(past') = Len(past) + 1
      /\ DOMAIN past' = 1..(Len(past) + 1)
      /\ past'[Len(past) + 1] = frame
      /\ \A f \in 1..Len(past) : past'[f] = past[f]
  BY <1>1
<1>6. Now' = frame
  BY <1>5 DEF Now
<1> QED
  BY <1>2, <1>3, <1>4, <1>5, <1>6

LEMMA FramesGrow ==
    ASSUME Driven, NEW at, NEW nowFlying, NEW frame, Driving(at, nowFlying, frame),
           NEW c \in Cars, NEW p
    PROVE  /\ \A f : f \in FramesIn(c, p)' <=>
                 f \in FramesIn(c, p) \/ (f = Len(past) + 1 /\ p = at[c])
           /\ FramesIn(c, p) \subseteq 1..Len(past)
<1>1. /\ Len(past) \in Nat /\ DOMAIN past = 1..Len(past)
      /\ DOMAIN past' = 1..(Len(past) + 1)
      /\ past'[Len(past) + 1] = frame
      /\ \A f \in 1..Len(past) : past'[f] = past[f]
  BY PastGrows
<1>2. frame.at = at
  BY DEF Driving
<1> QED
  BY <1>1, <1>2 DEF FramesIn

LEMMA NowAt ==
    ASSUME Circuit, Driven, NEW c \in Cars
    PROVE  Now.at[c] \in Int
<1>1. past \in Seq(Frame) /\ past # <<>>
  BY DEF Driven
<1> HIDE DEF Frame
<1>2. Now \in Frame
  BY <1>1 DEF Now
<1> QED
  BY <1>2 DEF Frame, Positions, Circuit

(* A car has been no further than it is. *)
LEMMA NoneAhead ==
    ASSUME Driven, NEW c \in Cars, NEW p \in Int, FramesIn(c, p) # {}
    PROVE  p <= Now.at[c]
<1>1. PICK f \in DOMAIN past : past[f].at[c] = p
  BY DEF FramesIn
<1>2. Len(past) \in DOMAIN past /\ f <= Len(past)
  <2>1. past \in Seq(Frame) /\ past # <<>>
    BY DEF Driven
  <2> QED
    BY <2>1
<1> QED
  BY <1>1, <1>2 DEF Driven, Now

LEMMA DrivenNext ==
    ASSUME Circuit, Driven, NEW at, NEW nowFlying, NEW frame, Driving(at, nowFlying, frame)
    PROVE  Driven'
<1>1. /\ Len(past) \in Nat \ {0} /\ DOMAIN past = 1..Len(past)
      /\ DOMAIN past' = 1..(Len(past) + 1)
      /\ past'[Len(past) + 1] = frame
      /\ \A f \in 1..Len(past) : past'[f] = past[f]
  BY PastGrows
<1>2. past' \in Seq(Frame)' /\ past' # <<>>
  <2>1. past' \in Seq(Frame) /\ Len(past') = Len(past) + 1 /\ Frame' = Frame
    BY PastGrows
  <2> QED
    BY <1>1, <2>1
<1>3. Cars' = Cars
  BY PastGrows
<1>4. round' = round /\ located' = located /\ drive' = drive
  BY DEF Driving, session
<1>5. \A f \in DOMAIN past' : past'[f].drive <= drive'
  <2>1. frame.drive = drive
    BY DEF Driving
  <2>2. \A f \in 1..Len(past) : past'[f].drive <= drive
    BY <1>1 DEF Driven
  <2> QED
    BY <1>1, <1>4, <2>1, <2>2 DEF Driven
<1>6. ASSUME NEW f \in DOMAIN past', NEW h \in DOMAIN past', NEW c \in Cars, f <= h
      PROVE past'[f].at[c] <= past'[h].at[c]
  <2>1. frame.at = at /\ at \in [Cars -> Positions]
    BY DEF Driving
  <2>2. CASE h \in 1..Len(past)
    <3>1. f \in 1..Len(past) /\ past'[f] = past[f] /\ past'[h] = past[h]
      BY <1>1, <1>6, <2>2
    <3>2. past[f].at[c] <= past[h].at[c]
      BY <1>1, <1>6, <2>2, <3>1 DEF Driven
    <3> QED
      BY <3>1, <3>2
  <2>3. CASE h = Len(past) + 1 /\ f = Len(past) + 1
    <3>1. at[c] \in Int
      BY <2>1 DEF Positions, Circuit
    <3> QED
      BY <1>1, <2>1, <2>3, <3>1
  <2>4. CASE h = Len(past) + 1 /\ f \in 1..Len(past)
    <3>1. past[f].at[c] <= Now.at[c]
      <4>1. Len(past) \in DOMAIN past /\ f <= Len(past)
        BY <1>1, <2>4
      <4> QED
        BY <1>1, <2>4, <4>1 DEF Driven, Now
    <3>2. past[f].at[c] \in Int /\ Now.at[c] \in Int
      <4>1. past[f] \in Frame /\ Now \in Frame
        BY <1>1, <2>4 DEF Driven, Now
      <4> QED
        BY <4>1 DEF Frame, Positions, Circuit
    <3>3. at[c] \in Int /\ Now.at[c] <= at[c]
      BY <3>2 DEF Driving
    <3> QED
      BY <1>1, <2>1, <2>4, <3>1, <3>2, <3>3
  <2> QED
    BY <1>1, <2>2, <2>3, <2>4
<1>7. lapDistance' \in [Cars -> Int]
  <2>1. \A c \in Cars : MarkOf(at[c]) \in Int
    BY NextMark DEF Driving, Positions, Circuit
  <2> QED
    BY <2>1 DEF Driving, FillLapData, Driven
<1>8. DOMAIN buffer' = Cars
  BY DEF Driving, FillLapData
<1>9. ASSUME NEW c \in Cars
      PROVE buffer'[c] \in Seq([lap : Int, mark : Int, frame : Int, drive : Int])
  <2> DEFINE r == [lap |-> LapOf(at[c]), mark |-> MarkOf(at[c]), frame |-> Len(past'), drive |-> drive]
             Row == [lap : Int, mark : Int, frame : Int, drive : Int]
  <2>1. at[c] \in Int /\ Marks \in Nat \ {0, 1}
    BY DEF Driving, Positions, Circuit
  <2>2. MarkOf(at[c]) \in Int
    BY <2>1, NextMark
  <2>3. LapOf(at[c]) \in Int
    <3>1. at[c] \div Marks \in Int
      BY <2>1, Remainder
    <3> QED
      BY <3>1 DEF LapOf
  <2>4. Len(past') \in Int /\ drive \in Int
    BY <1>1, PastGrows DEF Driven
  <2>5. r \in Row
    BY <2>2, <2>3, <2>4
  <2>6. buffer[c] \in Seq(Row)
    BY DEF Driven
  <2> HIDE DEF r, Row
  <2>7. buffer'[c] \in {buffer[c], Append(buffer[c], r)}
    BY DEF Driving, FillLapData, r
  <2>8. Append(buffer[c], r) \in Seq(Row)
    <3> DEFINE b == buffer[c]
    <3>1. b \in Seq(Row)
      BY <2>6
    <3> HIDE DEF b
    <3>2. Append(b, r) \in Seq(Row)
      BY <2>5, <3>1
    <3> QED
      BY <3>2 DEF b
  <2>9. buffer'[c] \in Seq(Row)
    BY <2>6, <2>7, <2>8
  <2> QED
    BY <2>9 DEF Row
<1>10. round \in Rounds /\ drive \in Nat /\ located \in BOOLEAN
  BY DEF Driven
<1> QED
  BY <1>2, <1>3, <1>4, <1>5, <1>6, <1>7, <1>8, <1>9, <1>10 DEF Driven

Adds(c, at) == Sampled(c, at) /\ Kept(c, at)

RowOfFrame(c, at) ==
    [lap |-> LapOf(at[c]), mark |-> MarkOf(at[c]), frame |-> Len(past'), drive |-> drive]

LEMMA BufferGrows ==
    ASSUME Driven, NEW at, NEW nowFlying, NEW frame, Driving(at, nowFlying, frame),
           NEW c \in Cars
    PROVE  /\ details' = details
           /\ buffer'[c] = IF Adds(c, at) THEN Append(buffer[c], RowOfFrame(c, at)) ELSE buffer[c]
BY DEF Driving, FillLapData, Adds, RowOfFrame

(* The row taken in the frame. *)
LEMMA RowTaken ==
    ASSUME Circuit, Driven, NEW at, NEW nowFlying, NEW frame, Driving(at, nowFlying, frame),
           NEW c \in Cars, Adds(c, at)
    PROVE  RowRight(c, at[c])'
<1> DEFINE r == RowOfFrame(c, at)
           k == <<c, LapOf(at[c]), MarkOf(at[c])>>
           b == buffer[c]
           Row == [lap : Int, mark : Int, frame : Int, drive : Int]
<1>1. Key(c, r) = k
  BY DEF Key, RowOfFrame
<1>2. r.frame = Len(past) + 1 /\ r.drive = drive
  BY PastGrows DEF RowOfFrame
<1>3. b \in Seq({b[i] : i \in DOMAIN b} \cup {r}) /\ r \in {b[i] : i \in DOMAIN b} \cup {r}
  <2>1. b \in Seq(Row)
    BY DEF Driven
  <2> HIDE DEF b, Row, r
  <2> QED
    BY <2>1
<1>4. buffer'[c] = Append(b, r) /\ details' = details
  BY BufferGrows
<1> HIDE DEF r, b, k
<1>5. HasRow(Append(b, r), details, c, k) /\ RowOf(Append(b, r), details, c, k) = r
  BY <1>1, <1>3, RowAdded
<1>6. r.frame \in FramesIn(c, at[c])'
  <2> QED
    BY <1>2, FramesGrow
<1>7. past'[r.frame].drive = r.drive
  BY <1>2, PastGrows DEF Driving
<1>8. RightIn(buffer[c], details, c, at[c])'
  BY <1>4, <1>5, <1>6, <1>7 DEF RightIn, k
<1>9. c \in Cars'
  BY PastGrows
<1> QED
  BY <1>8, <1>9, RowRightInNext

(* The other rows. *)
LEMMA RowStays ==
    ASSUME Circuit, Driven, NEW at, NEW nowFlying, NEW frame, Driving(at, nowFlying, frame),
           NEW c \in Cars, NEW p \in Nat, RowRight(c, p),
           ~Adds(c, at) \/ (at[c] \in Nat /\ p # at[c])
    PROVE  RowRight(c, p)'
<1> DEFINE r == RowOfFrame(c, at)
           k == <<c, LapOf(p), MarkOf(p)>>
           b == buffer[c]
           e == buffer'[c]
           w == RowOf(b, details, c, k)
           Row == [lap : Int, mark : Int, frame : Int, drive : Int]
<1>1. HasRow(b, details, c, k) /\ w.frame \in FramesIn(c, p) /\ past[w.frame].drive = w.drive
  BY RowRightIn DEF RightIn
<1>2. details' = details /\ e = IF Adds(c, at) THEN Append(b, r) ELSE b
  BY BufferGrows
<1>3. b \in Seq({b[i] : i \in DOMAIN b} \cup {r}) /\ r \in {b[i] : i \in DOMAIN b} \cup {r}
  <2>1. b \in Seq(Row)
    BY DEF Driven
  <2> HIDE DEF b, Row, r
  <2> QED
    BY <2>1
<1>4. Adds(c, at) => Key(c, r) # k
  BY PositionOfKey DEF Key, RowOfFrame
<1> HIDE DEF r, b, k, e
<1>5. HasRow(e, details, c, k) /\ RowOf(e, details, c, k) = w
  <2>1. CASE Adds(c, at)
    <3>1. Key(c, r) # k
      BY <1>4, <2>1
    <3> QED
      BY <1>1, <1>2, <1>3, <2>1, <3>1, RowKept
  <2>2. CASE ~Adds(c, at)
    BY <1>1, <1>2, <2>2
  <2> QED
    BY <2>1, <2>2
<1> HIDE DEF w
<1>6. w.frame \in FramesIn(c, p)'
  BY <1>1, FramesGrow
<1>7. past'[w.frame] = past[w.frame]
  <2>1. w.frame \in 1..Len(past)
    BY <1>1, FramesGrow
  <2> QED
    BY <2>1, PastGrows
<1>8. RightIn(buffer[c], details, c, p)'
  BY <1>1, <1>2, <1>5, <1>6, <1>7 DEF RightIn, k, e
<1>9. c \in Cars'
  BY PastGrows
<1> QED
  BY <1>8, <1>9, RowRightInNext

(* A frame is recorded of cars FillLapData keeps the snapshots of. *)
LEMMA RecordedKept ==
    ASSUME Circuit, Driven, InStep, NEW at, NEW nowFlying, NEW c \in Recorded(at, nowFlying)
    PROVE  located /\ Kept(c, at)
<1>1. located
  BY DEF Recorded
<1>2. round.race \in BOOLEAN
  BY DEF Driven, Circuit
<1>3. CASE round.race
  BY <1>1, <1>3 DEF Recorded, Kept
<1>4. CASE ~round.race
  <2>1. at[c] >= 0 /\ (c \in hotlap \/ (~Landing /\ c \in nowFlying \cap Now.flying))
    BY <1>1, <1>4 DEF Recorded
  <2>2. ~Landing => flying = Now.flying
    BY DEF InStep
  <2>3. c \in flying \/ c \in hotlap
    BY <2>1, <2>2
  <2> QED
    BY <1>1, <1>4, <2>1, <2>3 DEF Kept
<1> QED
  BY <1>1, <1>2, <1>3, <1>4

(* What the frames recorded of the position say before the step and of it. *)
LEMMA RecordedBefore ==
    ASSUME Circuit, Driven, InStep, NEW at, NEW nowFlying, NEW frame, Driving(at, nowFlying, frame),
           NEW c \in Cars, NEW p, RecordedAll(c, p)'
    PROVE  /\ RecordedAll(c, p)
           /\ p = at[c] => located /\ Kept(c, at) /\ Now.located
<1>1. /\ Len(past) \in Nat \ {0}
      /\ past'[Len(past) + 1] = frame
      /\ \A f \in 1..Len(past) : past'[f] = past[f]
  BY PastGrows
<1>2. FramesIn(c, p) \subseteq 1..Len(past) /\ FramesIn(c, p) \subseteq FramesIn(c, p)'
  BY FramesGrow
<1>3. \A f \in FramesIn(c, p)' : c \in past'[f].on /\ f > 1 /\ past'[f - 1].located
  BY DEF RecordedAll
<1>4. RecordedAll(c, p)
  <2>1. ASSUME NEW f \in FramesIn(c, p)
        PROVE  c \in past[f].on /\ f > 1 /\ past[f - 1].located
    <3>1. c \in past'[f].on /\ f > 1 /\ past'[f - 1].located
      BY <1>2, <1>3
    <3>2. f \in 1..Len(past) /\ f - 1 \in 1..Len(past)
      BY <1>1, <1>2, <3>1
    <3> QED
      BY <1>1, <3>1, <3>2
  <2> QED
    BY <2>1 DEF RecordedAll
<1>5. ASSUME p = at[c] PROVE located /\ Kept(c, at) /\ Now.located
  <2>1. Len(past) + 1 \in FramesIn(c, p)'
    BY <1>5, FramesGrow
  <2>2. c \in frame.on /\ past'[Len(past) + 1 - 1].located
    BY <1>1, <1>3, <2>1
  <2>3. c \in Recorded(at, nowFlying)
    BY <2>2 DEF Driving
  <2>4. Now.located
    <3>1. Len(past) + 1 - 1 = Len(past) /\ Len(past) \in 1..Len(past)
      BY <1>1
    <3> QED
      BY <1>1, <2>2, <3>1 DEF Now
  <2> QED
    BY <2>3, <2>4, RecordedKept
<1> QED
  BY <1>4, <1>5

(* The last snapshot is of the mark the car comes to: it was in it before. *)
LEMMA SeenBefore ==
    ASSUME Circuit, Driven, SeamsTold, HereRight,
           NEW at, NEW nowFlying, NEW frame, Driving(at, nowFlying, frame),
           NEW c \in Cars, at[c] \in Nat, Now.located, RecordedAll(c, at[c]),
           <<c, at[c]>> \notin seams, ~NewMark(c, at)
    PROVE  RowRight(c, at[c])
<1> DEFINE p == at[c]
<1>1. MarkOf(p) = lapDistance[c]
  BY DEF NewMark
<1>2. Now.at[c] \in Int
  BY NowAt
<1>3. p = Now.at[c] \/ (p = Now.at[c] + 1 /\ Len(past) > 1 /\ past[Len(past) - 1].at[c] = Now.at[c])
  BY DEF Driving
<1>4. ~Landing
  <2>1. p \in {Now.at[c], Now.at[c] + 1} /\ p \in Int
    BY <1>3
  <2> HIDE DEF p
  <2>2. p \in Seam(c, Now.at[c])
    BY <1>1, <2>1 DEF Seam
  <2> QED
    BY <2>1, <2>2 DEF SeamsTold, p
<1> HIDE DEF p
<1>5. CASE p = Now.at[c]
  BY <1>1, <1>4, <1>5 DEF HereRight, p
<1>6. CASE p = Now.at[c] + 1 /\ Len(past) > 1 /\ past[Len(past) - 1].at[c] = Now.at[c]
  <2>1. lapDistance[c] # MarkOf(Now.at[c])
    BY <1>1, <1>2, <1>6, NextMark
  <2>2. <<c, Now.at[c] + 1>> \in seams
    BY <1>1, <1>4, <1>6, <2>1 DEF SeamsTold
  <2> QED
    BY <1>6, <2>2 DEF p
<1> QED
  BY <1>3, <1>5, <1>6
----------------------------------------------------------------------------
(* The steps. *)

LEMMA LapDataStep ==
    ASSUME Circuit, DetailsIInv, NEW at, NEW nowFlying, NEW frame,
           Driving(at, nowFlying, frame)
    PROVE  DetailsIInv'
<1>1. Driven /\ InStep /\ SeamsTold /\ HereRight /\ AllRight
  BY DEF DetailsIInv
<1>2. /\ Now' = frame /\ Cars' = Cars /\ seams' = seams /\ drive' = drive
      /\ frame.at = at /\ frame.flying = nowFlying /\ frame.drive = drive
      /\ frame.located = located /\ frame.landing = Landing
  BY <1>1, PastGrows DEF Driving
<1>3. ~Landing'
  BY <1>2 DEF Landing
<1>4. Driven'
  BY <1>1, DrivenNext
<1>5. InStep'
  BY <1>2, <1>3 DEF InStep, Driving, FillLapData
<1>6. ASSUME NEW c \in Cars PROVE at[c] \in Int /\ at[c] >= -1
  <2>1. at[c] \in Positions
    BY DEF Driving
  <2> QED
    BY <2>1 DEF Positions, Circuit
<1>7. SeamsTold'
  <2> SUFFICES ASSUME NEW c \in Cars, located, lapDistance'[c] # MarkOf(at[c]),
                      Len(past') > 1 => past'[Len(past') - 1].at[c] = at[c],
                      MarkOf(at[c] + 1) = lapDistance'[c]
               PROVE  <<c, at[c] + 1>> \in seams
    BY <1>2, <1>3 DEF SeamsTold, Landing, MarkOf
  <2>1. lapDistance'[c] = IF Sampled(c, at) THEN MarkOf(at[c]) ELSE lapDistance[c]
    BY DEF Driving, FillLapData
  <2>2. ~Sampled(c, at) /\ lapDistance'[c] = lapDistance[c]
    BY <2>1
  <2>3. is_flash_back_
    BY <2>2 DEF Sampled, NewMark
  <2>4. Landing
    BY <1>1, <2>3 DEF InStep
  <2>5. at[c] = Now.at[c]
    <3>1. Len(past) \in Nat \ {0} /\ Len(past') = Len(past) + 1
          /\ \A f \in 1..Len(past) : past'[f] = past[f]
      BY <1>1, PastGrows
    <3>2. Len(past') > 1 /\ Len(past') - 1 = Len(past) /\ Len(past) \in 1..Len(past)
      BY <3>1
    <3> QED
      BY <3>1, <3>2 DEF Now
  <2>6. at[c] + 1 \in Seam(c, Now.at[c])
    BY <2>2, <2>5 DEF Seam
  <2> QED
    BY <1>1, <1>6, <2>4, <2>6 DEF SeamsTold
<1>8. ASSUME NEW c \in Cars, at[c] >= 0, RecordedAll(c, at[c])', <<c, at[c]>> \notin seams,
             Sampled(c, at) \/ ~NewMark(c, at)
      PROVE RowRight(c, at[c])'
  <2>1. RecordedAll(c, at[c]) /\ Kept(c, at) /\ Now.located
    BY <1>1, <1>8, RecordedBefore
  <2>2. CASE Sampled(c, at)
    BY <1>1, <2>1, <2>2, RowTaken DEF Adds
  <2>3. CASE ~NewMark(c, at)
    <3>1. at[c] \in Nat
      BY <1>6, <1>8
    <3>2. RowRight(c, at[c])
      BY <1>1, <1>8, <2>1, <2>3, <3>1, SeenBefore
    <3>3. ~Adds(c, at)
      BY <2>3 DEF Adds, Sampled
    <3> QED
      BY <1>1, <3>1, <3>2, <3>3, RowStays
  <2> QED
    BY <1>8, <2>2, <2>3
<1>9. HereRight'
  <2> SUFFICES ASSUME NEW c \in Cars, at[c] >= 0, RecordedAll(c, at[c])',
                      <<c, at[c]>> \notin seams, lapDistance'[c] = MarkOf(at[c])
               PROVE  RowRight(c, at[c])'
    BY <1>2 DEF HereRight, MarkOf
  <2>1. lapDistance'[c] = IF Sampled(c, at) THEN MarkOf(at[c]) ELSE lapDistance[c]
    BY DEF Driving, FillLapData
  <2>2. Sampled(c, at) \/ ~NewMark(c, at)
    BY <2>1 DEF NewMark
  <2> QED
    BY <1>8, <2>2
<1>10. AllRight'
  <2> SUFFICES ASSUME NEW c \in Cars, NEW p \in 0..MaxPosition, RecordedAll(c, p)',
                      Unprotected(c, FramesIn(c, p))' # {}, <<c, p>> \notin seams
               PROVE  RowRight(c, p)'
    BY <1>2 DEF AllRight
  <2>1. p \in Nat
    BY DEF Circuit
  <2>2. RecordedAll(c, p)
    BY <1>1, RecordedBefore
  <2>3. PICK f \in FramesIn(c, p)' : c # First \/ ~past'[f].landing
    BY DEF Unprotected
  <2>4. ASSUME f \in FramesIn(c, p) PROVE RowRight(c, p)
    <3>1. f \in 1..Len(past)
      BY <1>1, <2>4, FramesGrow
    <3>2. past'[f] = past[f]
      BY <1>1, <3>1, PastGrows
    <3>3. Unprotected(c, FramesIn(c, p)) # {}
      BY <2>3, <2>4, <3>2 DEF Unprotected
    <3> QED
      BY <2>2, <3>3 DEF AllRight, DetailsIInv
  <2>5. CASE p = at[c]
    <3>1. CASE Sampled(c, at) \/ ~NewMark(c, at)
      BY <1>8, <2>1, <2>5, <3>1
    <3>2. CASE ~Sampled(c, at) /\ NewMark(c, at)
      <4>1. located
        BY <1>1, <2>5, RecordedBefore
      <4>2. is_flash_back_ /\ c = First
        BY <3>2, <4>1 DEF Sampled
      <4>3. frame.landing
        BY <1>1, <1>2, <4>2 DEF InStep
      <4>4. f \in FramesIn(c, p)
        <5>1. past'[Len(past) + 1] = frame
          BY <1>1, PastGrows
        <5>2. f # Len(past) + 1
          BY <2>3, <4>2, <4>3, <5>1
        <5> QED
          BY <1>1, <2>3, <5>2, FramesGrow
      <4>5. ~Adds(c, at)
        BY <3>2 DEF Adds
      <4> QED
        BY <1>1, <2>1, <2>4, <4>4, <4>5, RowStays
    <3> QED
      BY <3>1, <3>2
  <2>6. CASE p # at[c]
    <3>1. f \in FramesIn(c, p)
      BY <1>1, <2>3, <2>6, FramesGrow
    <3>2. RowRight(c, p)
      BY <2>4, <3>1
    <3>3. at[c] \in Nat
      <4>1. p <= Now.at[c] /\ p \in Int
        BY <1>1, <2>1, <3>1, NoneAhead
      <4>2. at[c] = Now.at[c] \/ at[c] = Now.at[c] + 1
        BY DEF Driving
      <4>3. Now.at[c] \in Int
        BY <1>1, NowAt
      <4> QED
        BY <1>6, <2>1, <4>1, <4>2, <4>3
    <3> QED
      BY <1>1, <2>1, <2>6, <3>2, <3>3, RowStays
  <2> QED
    BY <2>5, <2>6
<1> QED
  BY <1>4, <1>5, <1>7, <1>9, <1>10 DEF DetailsIInv

(* The game goes back to frame g. *)
LEMMA FlashBackStep ==
    ASSUME Circuit, DetailsIInv, FlashBack
    PROVE  DetailsIInv'
<1>1. PICK g \in 1..(Len(past) - 1) :
         /\ past' = SubSeq(past, 1, g)
         /\ seams' = seams \cup UNION {{<<c, at>> : at \in Seam(c, past[g].at[c])} : c \in Cars}
  BY DEF FlashBack
<1>2. Driven /\ AllRight
  BY DEF DetailsIInv
<1>3. past \in Seq(Frame) /\ past # <<>> /\ drive \in Nat
  BY <1>2 DEF Driven
<1>4. /\ round' = round /\ Cars' = Cars /\ located' = located /\ drive' = drive + 1
      /\ lapDistance' = lapDistance /\ buffer' = buffer /\ details' = details
  BY DEF FlashBack, session, status, Cars
<1>5. Frame' = Frame
  BY <1>4 DEF Frame, Positions
<1> HIDE DEF Frame
<1>6. /\ Len(past) \in Nat /\ DOMAIN past = 1..Len(past) /\ g \in 1..Len(past)
      /\ DOMAIN past' = 1..g /\ Len(past') = g /\ past' \in Seq(Frame)
      /\ \A f \in 1..g : past'[f] = past[f]
  BY <1>1, <1>3
<1>7. Now' = past[g]
  BY <1>6 DEF Now
<1>8. \A f \in DOMAIN past' : past'[f].drive <= drive /\ past'[f].drive \in Nat
  <2>1. ASSUME NEW f \in 1..g PROVE past[f].drive <= drive /\ past[f].drive \in Nat
    <3>1. f \in DOMAIN past
      BY <1>6
    <3>2. past[f] \in Frame
      BY <1>3, <3>1
    <3> QED
      BY <1>2, <3>1, <3>2 DEF Driven, Frame
  <2> QED
    BY <1>6, <2>1
<1>9. Driven'
  <2>1. past' \in Seq(Frame)' /\ past' # <<>>
    BY <1>5, <1>6
  <2>2. \A f \in DOMAIN past' : past'[f].drive <= drive'
    BY <1>3, <1>4, <1>8
  <2>3. \A f, h \in DOMAIN past', c \in Cars : f <= h => past'[f].at[c] <= past'[h].at[c]
    <3>1. ASSUME NEW f \in 1..g, NEW h \in 1..g, NEW c \in Cars, f <= h
          PROVE  past'[f].at[c] <= past'[h].at[c]
      <4>1. f \in DOMAIN past /\ h \in DOMAIN past
        BY <1>6
      <4>2. past[f].at[c] <= past[h].at[c]
        BY <1>2, <3>1, <4>1 DEF Driven
      <4> QED
        BY <1>6, <4>2
    <3> QED
      BY <1>4, <1>6, <3>1
  <2>4. drive' \in Nat
    BY <1>3, <1>4
  <2> QED
    BY <1>2, <1>4, <2>1, <2>2, <2>3, <2>4 DEF Driven
<1>10. Landing'
  <2>1. g \in DOMAIN past' /\ Now' = past'[g]
    BY <1>6, <1>7
  <2> QED
    BY <1>3, <1>4, <1>8, <2>1 DEF Landing
<1>11. InStep'
  BY <1>10 DEF InStep
<1>12. \A c \in Cars : \A at : at \in Seam(c, past[g].at[c]) => <<c, at>> \in seams'
  BY <1>1
<1>13. SeamsTold'
  BY <1>4, <1>7, <1>10, <1>12 DEF SeamsTold, Seam, MarkOf
<1>14. HereRight'
  BY <1>10 DEF HereRight
<1>15. ASSUME NEW c \in Cars, NEW p \in 0..MaxPosition, RecordedAll(c, p)',
              Unprotected(c, FramesIn(c, p))' # {}, <<c, p>> \notin seams'
       PROVE  RowRight(c, p)'
  <2>1. p \in Int /\ <<c, p>> \notin seams
    BY <1>1, <1>15
  <2>2. past[g].at[c] # p
    BY <1>12, <1>15 DEF Seam
  <2>3. PICK h \in FramesIn(c, p)' : c # First \/ ~past'[h].landing
    BY <1>15 DEF Unprotected
  <2>4. h \in 1..g /\ past[h].at[c] = p
    BY <1>6, <2>3 DEF FramesIn
  <2>5. ASSUME NEW f \in DOMAIN past, past[f].at[c] = p PROVE f \in 1..g
    <3> SUFFICES ASSUME f > g PROVE FALSE
      BY <1>6
    <3>1. past[h].at[c] <= past[g].at[c] /\ past[g].at[c] <= past[f].at[c]
      <4>1. h \in DOMAIN past /\ g \in DOMAIN past /\ h <= g /\ g <= f
        BY <1>6, <2>4
      <4> QED
        BY <1>2, <4>1 DEF Driven
    <3>2. past[g] \in Frame
      BY <1>3, <1>6
    <3>3. past[g].at[c] \in Int
      BY <3>2 DEF Frame, Positions, Circuit
    <3> QED
      BY <2>1, <2>2, <2>4, <2>5, <3>1, <3>3
  <2>6. FramesIn(c, p)' = FramesIn(c, p) /\ FramesIn(c, p) \subseteq 1..g
    BY <1>6, <2>5 DEF FramesIn
  <2>7. RecordedAll(c, p)
    <3>1. ASSUME NEW f \in FramesIn(c, p)
          PROVE  c \in past[f].on /\ f > 1 /\ past[f - 1].located
      <4>1. c \in past'[f].on /\ f > 1 /\ past'[f - 1].located
        BY <1>15, <2>6 DEF RecordedAll
      <4>2. f \in 1..g /\ f - 1 \in 1..g
        BY <1>6, <2>6, <4>1
      <4> QED
        BY <1>6, <4>1, <4>2
    <3> QED
      BY <3>1 DEF RecordedAll
  <2>8. Unprotected(c, FramesIn(c, p)) # {}
    BY <1>6, <2>3, <2>4, <2>6 DEF Unprotected
  <2>9. RowRight(c, p)
    BY <1>2, <2>1, <2>7, <2>8 DEF AllRight
  <2>10. RightIn(buffer[c], details, c, p)
    BY <2>9, RowRightIn
  <2>11. RightIn(buffer[c], details, c, p)'
    BY <1>4, <1>6, <2>6, <2>10 DEF RightIn
  <2> QED
    BY <1>4, <2>11, RowRightInNext
<1>16. AllRight'
  BY <1>4, <1>15 DEF AllRight
<1> QED
  BY <1>9, <1>11, <1>13, <1>14, <1>16 DEF DetailsIInv

(* A step the drive and the rows, as ToSQL leaves them, are the same after. *)
LEMMA RowsStay ==
    ASSUME Circuit, DetailsIInv, Driven',
           UNCHANGED <<round, past, drive, seams, flying, is_flash_back_, lapDistance>>,
           \A c \in Cars, p \in Nat : RowRight(c, p) => RowRight(c, p)'
    PROVE  DetailsIInv'
<1>1. /\ Cars' = Cars /\ Now' = Now /\ Landing' = Landing
      /\ \A c, p : FramesIn(c, p)' = FramesIn(c, p)
  BY DEF Cars, Now, Landing, FramesIn
<1>2. InStep'
  BY <1>1 DEF InStep, DetailsIInv
<1>3. SeamsTold'
  BY <1>1 DEF SeamsTold, DetailsIInv, Seam, MarkOf
<1>4. \A c, p : RecordedAll(c, p)' <=> RecordedAll(c, p)
  BY <1>1 DEF RecordedAll
<1>5. HereRight'
  <2> SUFFICES ASSUME ~Landing, NEW c \in Cars, NEW p, p = Now.at[c], p >= 0,
                      RecordedAll(c, p), <<c, p>> \notin seams,
                      lapDistance[c] = MarkOf(p)
               PROVE  RowRight(c, p)'
    BY <1>1, <1>4 DEF HereRight, MarkOf
  <2>1. RowRight(c, p)
    BY DEF HereRight, DetailsIInv
  <2>2. p \in Nat
    <3>1. Now.at[c] \in Int
      BY NowAt DEF DetailsIInv
    <3> QED
      BY <3>1
  <2> QED
    BY <2>1, <2>2
<1>6. AllRight'
  BY <1>1, <1>4 DEF AllRight, DetailsIInv, Unprotected
<1> QED
  BY <1>2, <1>3, <1>5, <1>6 DEF DetailsIInv

(* FillSession, FillCarMotion, FillCarStatus, or no step at all. *)
LEMMA OtherStep ==
    ASSUME Circuit, DetailsIInv, FillSession \/ FillCarMotion \/ FillCarStatus \/ UNCHANGED vars
    PROVE  DetailsIInv'
<1>1. /\ UNCHANGED <<round, past, drive, seams, flying, is_flash_back_, lapDistance>>
      /\ buffer' = buffer /\ details' = details /\ located' \in {TRUE, located}
  BY DEF FillSession, FillCarMotion, FillCarStatus, vars, session, history, status, snapshots
<1>2. Cars' = Cars
  BY <1>1 DEF Cars
<1>3. Driven'
  <2>1. Driven
    BY DEF DetailsIInv
  <2>2. Frame' = Frame
    BY <1>2 DEF Frame, Positions
  <2>3. located' \in BOOLEAN
    BY <1>1, <2>1 DEF Driven
  <2> HIDE DEF Frame
  <2> QED
    BY <1>1, <1>2, <2>1, <2>2, <2>3 DEF Driven
<1>4. ASSUME NEW c \in Cars, NEW p \in Nat, RowRight(c, p) PROVE RowRight(c, p)'
  <2>1. RightIn(buffer[c], details, c, p)
    BY <1>4, RowRightIn
  <2>2. RightIn(buffer[c], details, c, p)'
    BY <1>1, <2>1 DEF RightIn, FramesIn
  <2> QED
    BY <1>2, <2>2, RowRightInNext
<1> QED
  BY <1>1, <1>3, <1>4, RowsStay

LEMMA ToSQLStep ==
    ASSUME Circuit, DetailsIInv, ToSQL
    PROVE  DetailsIInv'
<1>1. /\ UNCHANGED <<round, past, drive, seams, flying, is_flash_back_, lapDistance, located>>
      /\ details' = AfterToSQL /\ buffer' = [c \in Cars |-> <<>>]
  BY DEF ToSQL, session, history, status
<1>2. Cars' = Cars
  BY <1>1 DEF Cars
<1>3. Driven'
  <2>1. Driven
    BY DEF DetailsIInv
  <2>2. Frame' = Frame
    BY <1>2 DEF Frame, Positions
  <2> HIDE DEF Frame
  <2>3. DOMAIN buffer' = Cars
        /\ \A c \in Cars : buffer'[c] \in Seq([lap : Int, mark : Int, frame : Int, drive : Int])
    BY <1>1
  <2> QED
    BY <1>1, <1>2, <2>1, <2>2, <2>3 DEF Driven
<1>4. ASSUME NEW c \in Cars, NEW p \in Nat, RowRight(c, p) PROVE RowRight(c, p)'
  <2> DEFINE k == <<c, LapOf(p), MarkOf(p)>>
             T == AfterToSQL
  <2>1. /\ k \in DOMAIN T
        /\ T[k].frame \in FramesIn(c, p) /\ past[T[k].frame].drive = T[k].drive
    BY <1>4 DEF RowRight
  <2>2. buffer'[c] = <<>> /\ details' = T
    BY <1>1
  <2> HIDE DEF T, k
  <2>3. Places(<<>>, c, k) = {}
    BY DEF Places
  <2>4. HasRow(<<>>, T, c, k) /\ RowOf(<<>>, T, c, k) = T[k]
    BY <2>1, <2>3 DEF HasRow, RowOf
  <2>5. RightIn(buffer[c], details, c, p)'
    BY <1>1, <2>1, <2>2, <2>4 DEF RightIn, FramesIn, k
  <2> QED
    BY <1>2, <2>5, RowRightInNext
<1> QED
  BY <1>1, <1>3, <1>4, RowsStay

LEMMA DetailsInit ==
    ASSUME Circuit, Init
    PROVE  DetailsIInv
<1> DEFINE start == [at |-> [c \in Cars |-> -1], flying |-> {}, drive |-> 0,
                     on |-> {}, located |-> FALSE, landing |-> FALSE]
<1>1. past = <<start>> /\ drive = 0 /\ round \in Rounds /\ ~located /\ ~is_flash_back_
  BY DEF Init
<1>2. start \in Frame
  BY DEF Frame, Positions, Circuit
<1>3. past \in Seq(Frame) /\ past # <<>> /\ DOMAIN past = {1} /\ Len(past) = 1
      /\ past[1] = start
  <2> HIDE DEF start, Frame
  <2> QED
    BY <1>1, <1>2
<1>4. Now = start /\ ~Landing
  BY <1>1, <1>3 DEF Now, Landing
<1>5. Driven
  <2>1. \A f \in DOMAIN past : past[f].drive <= drive
    BY <1>1, <1>3
  <2>2. \A f, h \in DOMAIN past, c \in Cars : f <= h => past[f].at[c] <= past[h].at[c]
    BY <1>3
  <2> HIDE DEF start
  <2>3. /\ lapDistance \in [Cars -> Int] /\ DOMAIN buffer = Cars
        /\ \A c \in Cars : buffer[c] \in Seq([lap : Int, mark : Int, frame : Int, drive : Int])
    BY DEF Init
  <2>4. drive \in Nat /\ located \in BOOLEAN
    BY DEF Init
  <2> QED
    BY <1>1, <1>3, <2>1, <2>2, <2>3, <2>4 DEF Driven
<1>6. InStep
  BY <1>1, <1>4 DEF InStep, Init
<1>7. SeamsTold /\ HereRight
  BY <1>4 DEF SeamsTold, HereRight
<1>8. AllRight
  <2>1. \A c \in Cars, p \in 0..MaxPosition : FramesIn(c, p) = {}
    BY <1>3 DEF FramesIn
  <2> QED
    BY <2>1 DEF AllRight, Unprotected
<1> QED
  BY <1>5, <1>6, <1>7, <1>8 DEF DetailsIInv

LEMMA RightAsDriven ==
    ASSUME DetailsIInv
    PROVE  DetailsAsDriven
<1> SUFFICES ASSUME NEW c \in Cars, NEW at \in 0..MaxPosition,
                    WasRecorded(c, at), <<c, at>> \notin seams
             PROVE  RowRight(c, at)
  BY DEF DetailsAsDriven, RowRight
<1>1. RecordedAll(c, at) /\ Unprotected(c, FramesIn(c, at)) # {}
  BY DEF WasRecorded, RecordedAll
<1> QED
  BY <1>1 DEF AllRight, DetailsIInv

(* The rows that FillLapData takes and ToSQL replaces are, once written, of the
   drive that counts, whatever the cars, the marks of a lap and the flashbacks,
   told or not: every mark a car came past while recorded has the row of a frame
   that was not taken back, but where the game took the car back to. *)
THEOREM RowsOfTheDrive ==
    ASSUME Circuit
    PROVE  Spec => []DetailsAsDriven
<1>1. Init => DetailsIInv
  BY DetailsInit
<1>2. DetailsIInv /\ [Next]_vars => DetailsIInv'
  <2> SUFFICES ASSUME DetailsIInv, [Next]_vars PROVE DetailsIInv'
    OBVIOUS
  <2>1. CASE FillSession \/ FillCarMotion \/ FillCarStatus \/ UNCHANGED vars
    BY <2>1, OtherStep
  <2>2. CASE FlashBack
    BY <2>2, FlashBackStep
  <2>3. CASE LapData
    <3>1. \E at, nowFlying, frame : Driving(at, nowFlying, frame)
      BY <2>3, LapDataDrives DEF DetailsIInv
    <3> QED
      BY <3>1, LapDataStep
  <2>4. CASE ToSQL
    BY <2>4, ToSQLStep
  <2> QED
    BY <2>1, <2>2, <2>3, <2>4 DEF Next
<1>3. DetailsIInv => DetailsAsDriven
  BY RightAsDriven
<1> QED
  BY <1>1, <1>2, <1>3, PTL DEF Spec
=============================================================================

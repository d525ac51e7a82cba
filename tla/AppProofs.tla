----------------------------- MODULE AppProofs -----------------------------
(***************************************************************************)
(* Machine-checked facts about the program, for any number of frames,       *)
(* listener, socket buffer and traffic.  First the PacketMap by itself, for  *)
(* every MaxEvents and any packets in the order of their sessions; then the  *)
(* TelemetryStream by itself, for every MaxSamples and any times of the      *)
(* frames that do not go back.  Then main()'s loop: it contains the map and  *)
(* the stream proved correct by themselves, is never more than a socketful   *)
(* of frames behind, and stands still when it is paused.                     *)
(***************************************************************************)
EXTENDS App, FiniteSetTheorems, SequenceTheorems, TLAPS

(* The 2025 structs are as long as the game's datagrams.  EventDetails is a
   union; its longest members, SpeedTrap, has 12 bytes. *)
LEMMA EventDetailsSize == Layout!EventDetails = 12
<1> DEFINE S == {Layout!Bytes(1, 0, 1, 0), Layout!Bytes(2, 0, 0, 0),
                 Layout!Bytes(1, 0, 0, 0), Layout!Bytes(7, 0, 0, 0),
                 Layout!Bytes(4, 0, 2, 0), Layout!Bytes(0, 0, 2, 0),
                 Layout!Bytes(0, 0, 1, 0)}
<1>1. S = {5, 2, 1, 7, 12, 8, 4}
  BY DEF Layout!Bytes
<1>2. \E n \in S : \A m \in S : m <= n
  <2>1. 12 \in S /\ \A m \in S : m <= 12
    BY <1>1
  <2> QED BY <2>1
<1>3. /\ Layout!Most(S) \in S
      /\ \A m \in S : m <= Layout!Most(S)
  BY <1>2, Zenon DEF Layout!Most
<1>4. Layout!Most(S) = 12
  BY <1>1, <1>3
<1> QED BY <1>4 DEF Layout!EventDetails

(* The sixteen packed structs, member by member, are as long as the game's
   datagrams. *)
THEOREM StructsMatchDatagrams == Layout!StructSize = Layout!WireSize
<1>1. Layout!Header = 29
  BY DEF Layout!Header, Layout!Bytes
<1> QED
  BY <1>1, EventDetailsSize
  DEF Layout!StructSize, Layout!WireSize, Layout!Bytes, Layout!Cars,
      Layout!Motion, Layout!MarshalZone, Layout!WeatherForecastSample,
      Layout!Session, Layout!LapData, Layout!Event, Layout!LiveryColours,
      Layout!Participants, Layout!CarSetups, Layout!CarTelemetry,
      Layout!CarStatus, Layout!FinalClassification, Layout!LobbyInfo,
      Layout!CarDamage, Layout!SessionHistory, Layout!TyreSets,
      Layout!MotionEx, Layout!TimeTrial, Layout!LapPositions
----------------------------------------------------------------------------
(* The inductive invariant. *)

Known == DOMAIN Layout!StructSize

Stored == {p \in Packet : p.type \in Known}

Shape ==
    /\ DOMAIN slot = Single
    /\ DOMAIN perCar = PerCar
    /\ events \in Seq(Stored)
    /\ log \in Seq(Packet)
    /\ \A p \in Held : p = Blank \/ p \in Stored

(* What the current session's uid is compared with: the packets there were. *)
SessionSeen ==
    slot["Session"] = Blank
    \/ \E i \in DOMAIN log : log[i].session.uid = slot["Session"].session.uid

MapIInv == Shape /\ SessionSeen /\ NoOldSession

LEMMA Types ==
    /\ "Session" \in Single
    /\ Single \subseteq Known
    /\ PerCar \subseteq Known
    /\ "Event" \in Known
    /\ Unknown \notin Known
    /\ Known = Single \cup PerCar \cup {"Event"}
    /\ Single \cap PerCar = {}
    /\ "Event" \notin Single \cup PerCar
BY DEF Single, PerCar, Known, Unknown, Layout!StructSize

LEMMA Fields ==
    ASSUME NEW p \in Packet
    PROVE  p # Blank => p.session.uid \in Nat
BY DEF Packet

LEMMA MapInitHolds == MapInit => MapIInv
<1> SUFFICES ASSUME MapInit PROVE MapIInv
  OBVIOUS
<1> USE DEF MapInit, Nothing
<1>1. Held = {Blank}
  <2>1. {slot[t] : t \in Single} = {Blank}
    BY Types
  <2>2. {events[i] : i \in DOMAIN events} = {}
    OBVIOUS
  <2>3. \A t \in PerCar : {perCar[t][c] : c \in DOMAIN perCar[t]} = {}
    OBVIOUS
  <2> QED
    BY <2>1, <2>2, <2>3 DEF Held
<1>2. Shape
  BY <1>1 DEF Shape
<1>3. SessionSeen
  BY Types DEF SessionSeen
<1> QED
  BY <1>1, <1>2, <1>3 DEF MapIInv, NoOldSession

(* A step that keeps the session packet and adds at most a packet of the
   session, or of a later one, to what is held. *)
LEMMA Kept ==
    ASSUME MapIInv, NEW p \in Packet, InOrder(p),
           Shape', log' = Append(log, p),
           slot'["Session"] = slot["Session"],
           Held' \subseteq Held \cup {p}
    PROVE  MapIInv'
<1> USE DEF MapIInv
<1>1. SessionSeen'
  <2>1. CASE slot["Session"] = Blank
    BY <2>1 DEF SessionSeen
  <2>2. CASE slot["Session"] # Blank
    <3>1. PICK i \in DOMAIN log : log[i].session.uid = slot["Session"].session.uid
      BY <2>2 DEF SessionSeen
    <3>2. i \in DOMAIN log' /\ log'[i] = log[i]
      BY <3>1 DEF Shape
    <3> QED
      BY <3>1, <3>2 DEF SessionSeen
  <2> QED BY <2>1, <2>2
<1>2. p.session.uid \in Nat
  BY DEF Packet
<1>3. slot["Session"].session.uid \in Nat /\ p.session.uid >= slot["Session"].session.uid
  <2>1. CASE slot["Session"] = Blank
    BY <2>1, <1>2 DEF Blank, NoSession
  <2>2. CASE slot["Session"] # Blank
    <3>1. PICK i \in DOMAIN log : log[i].session.uid = slot["Session"].session.uid
      BY <2>2 DEF SessionSeen
    <3>2. log[i] \in Packet
      BY <3>1 DEF Shape
    <3>3. log[i].session.uid \in Nat
      BY <3>2 DEF Packet
    <3> QED
      BY <3>1, <3>3, <1>2 DEF InOrder
  <2> QED BY <2>1, <2>2
<1>4. NoOldSession'
  BY <1>3 DEF NoOldSession
<1> QED
  BY <1>1, <1>4 DEF Shape
----------------------------------------------------------------------------
(* One lemma per operation. *)

LEMMA LogGrows ==
    ASSUME MapIInv, NEW p \in Packet, log' = Append(log, p)
    PROVE  log' \in Seq(Packet) /\ Len(log) + 1 \in DOMAIN log'
                /\ log'[Len(log) + 1] = p
BY DEF MapIInv, Shape

LEMMA SingleHolds ==
    ASSUME MapIInv, NEW p \in Packet, InOrder(p), UpdateSingle(p), log' = Append(log, p)
    PROVE  MapIInv'
<1> USE DEF UpdateSingle
<1>1. slot' = [slot EXCEPT ![p.type] = p] /\ DOMAIN slot = Single
  BY DEF MapIInv, Shape
<1>2. slot'["Session"] = slot["Session"]
  BY <1>1, Types
<1>3. Held' \subseteq Held \cup {p}
  BY <1>1 DEF Held
<1>4. p \in Stored
  BY Types DEF Stored
<1>5. Shape'
  BY <1>1, <1>3, <1>4, LogGrows DEF MapIInv, Shape
<1> QED
  BY <1>2, <1>3, <1>5, Kept

LEMMA EventHolds ==
    ASSUME MapIInv, NEW p \in Packet, InOrder(p), UpdateEvent(p), log' = Append(log, p)
    PROVE  MapIInv'
<1> USE DEF UpdateEvent
<1>1. p \in Stored
  BY Types DEF Stored
<1>2. /\ events \in Seq(Stored)
      /\ events' = IF Len(Append(events, p)) > MaxEvents
                   THEN Tail(Append(events, p)) ELSE Append(events, p)
  BY DEF MapIInv, Shape, PushEvent
<1>3. /\ events' \in Seq(Stored)
      /\ \A i \in DOMAIN events' : events'[i] = p \/ \E j \in DOMAIN events : events'[i] = events[j]
  <2> DEFINE all == Append(events, p)
  <2>1. all \in Seq(Stored) /\ Len(all) = Len(events) + 1
    BY <1>1, <1>2
  <2>2. \A i \in 1..Len(all) : all[i] = IF i = Len(all) THEN p ELSE events[i]
    BY <1>1, <1>2
  <2>3. CASE events' = all
    BY <2>1, <2>2, <2>3, <1>2
  <2>4. CASE events' = Tail(all)
    <3>1. Tail(all) \in Seq(Stored) /\ Len(Tail(all)) = Len(events)
      BY <2>1
    <3>2. \A i \in 1..Len(events) : Tail(all)[i] = all[i + 1]
      BY <2>1
    <3>3. ASSUME NEW i \in DOMAIN events'
          PROVE events'[i] = p \/ \E j \in DOMAIN events : events'[i] = events[j]
      <4>1. i \in 1..Len(events) /\ events'[i] = all[i + 1] /\ i + 1 \in 1..Len(all)
        BY <2>4, <3>1, <3>2, <2>1
      <4>2. CASE i = Len(events)
        BY <4>1, <4>2, <2>1, <2>2
      <4>3. CASE i # Len(events)
        <5>1. i + 1 \in DOMAIN events /\ all[i + 1] = events[i + 1]
          BY <4>1, <4>3, <2>1, <2>2, <1>2
        <5> QED BY <5>1, <4>1
      <4> QED BY <4>2, <4>3
    <3> QED BY <3>1, <3>3, <2>4
  <2> QED BY <2>3, <2>4, <1>2
<1>4. Held' \subseteq Held \cup {p}
  BY <1>3 DEF Held
<1>5. Shape'
  BY <1>1, <1>3, <1>4, LogGrows DEF MapIInv, Shape
<1> QED
  BY <1>4, <1>5, Kept

LEMMA PerCarHolds ==
    ASSUME MapIInv, NEW p \in Packet, InOrder(p), UpdatePerCar(p), log' = Append(log, p)
    PROVE  MapIInv'
<1> USE DEF UpdatePerCar
<1>1. /\ DOMAIN perCar = PerCar /\ DOMAIN perCar' = PerCar
      /\ \A t \in PerCar \ {p.type} : perCar'[t] = perCar[t]
      /\ perCar'[p.type] = [c \in DOMAIN perCar[p.type] \cup {p.car} |->
                               IF c = p.car THEN p ELSE perCar[p.type][c]]
  BY DEF MapIInv, Shape
<1>2. ASSUME NEW t \in PerCar, NEW c \in DOMAIN perCar'[t]
      PROVE perCar'[t][c] \in Held \cup {p}
  <2>1. CASE t = p.type
    <3>1. perCar'[t][c] = p \/ (c \in DOMAIN perCar[t] /\ perCar'[t][c] = perCar[t][c])
      BY <1>1, <2>1
    <3> QED BY <3>1 DEF Held
  <2>2. CASE t # p.type
    <3>1. c \in DOMAIN perCar[t] /\ perCar'[t][c] = perCar[t][c]
      BY <1>1, <2>2
    <3> QED BY <3>1 DEF Held
  <2> QED BY <2>1, <2>2
<1>3. Held' \subseteq Held \cup {p}
  <2>1. {slot'[t] : t \in Single} \cup {events'[i] : i \in DOMAIN events'} \subseteq Held
    BY DEF Held
  <2> QED BY <1>2, <2>1 DEF Held
<1>4. p \in Stored
  BY Types DEF Stored
<1>5. Shape'
  BY <1>1, <1>3, <1>4, LogGrows DEF MapIInv, Shape
<1> QED
  BY <1>3, <1>5, Kept

(* After Unset the session packet is all there is. *)
LEMMA UnsetHolds ==
    ASSUME MapIInv, NEW p \in Packet, p.type = "Session", Unset(p), log' = Append(log, p)
    PROVE  MapIInv'
<1> USE DEF Unset, Nothing
<1>1. Held' \subseteq {Blank, p}
  <2>1. {slot'[t] : t \in Single} \subseteq {Blank, p}
    OBVIOUS
  <2>2. {events'[i] : i \in DOMAIN events'} = {}
    OBVIOUS
  <2>3. \A t \in PerCar : {perCar'[t][c] : c \in DOMAIN perCar'[t]} = {}
    OBVIOUS
  <2> QED BY <2>1, <2>2, <2>3 DEF Held
<1>2. p \in Stored
  BY Types DEF Stored
<1>3. slot'["Session"] = p
  BY Types
<1>4. Shape'
  <2>1. events' \in Seq(Stored)
    OBVIOUS
  <2> QED BY <1>1, <1>2, <2>1, LogGrows DEF Shape
<1>5. SessionSeen'
  BY <1>3, LogGrows DEF SessionSeen
<1>6. NoOldSession'
  <2>1. p.session.uid \in Nat
    BY DEF Packet
  <2> QED BY <1>1, <1>3, <2>1 DEF NoOldSession
<1> QED
  BY <1>4, <1>5, <1>6 DEF MapIInv

LEMMA SessionHolds ==
    ASSUME MapIInv, NEW p \in Packet, InOrder(p), UpdateSession(p), log' = Append(log, p)
    PROVE  MapIInv'
<1>0. p.type = "Session"
  BY DEF UpdateSession
<1>1. CASE OtherSession(p)
  BY <1>0, <1>1, UnsetHolds DEF UpdateSession
<1>2. CASE ~OtherSession(p)
  <2>1. /\ slot' = [slot EXCEPT !["Session"] = p]
        /\ UNCHANGED <<events, perCar>>
        /\ slot["Session"].session.uid = p.session.uid
    BY <1>2 DEF UpdateSession, OtherSession
  <2>2. DOMAIN slot = Single /\ slot'["Session"] = p
    BY <2>1, Types DEF MapIInv, Shape
  <2>3. Held' \subseteq Held \cup {p}
    BY <2>1, <2>2 DEF Held
  <2>4. p \in Stored
    BY <1>0, Types DEF Stored
  <2>5. Shape'
    BY <2>1, <2>2, <2>3, <2>4, LogGrows DEF MapIInv, Shape
  <2>6. SessionSeen'
    BY <2>2, LogGrows DEF SessionSeen
  <2>7. NoOldSession'
    <3>1. p.session.uid \in Nat
      BY DEF Packet
    <3> QED
      BY <2>1, <2>2, <2>3, <3>1 DEF MapIInv, NoOldSession
  <2> QED
    BY <2>5, <2>6, <2>7 DEF MapIInv
<1> QED
  BY <1>1, <1>2

LEMMA UnknownHolds ==
    ASSUME MapIInv, NEW p \in Packet, InOrder(p), UpdateUnknown(p), log' = Append(log, p)
    PROVE  MapIInv'
<1>1. UNCHANGED <<slot, events, perCar>>
  BY DEF UpdateUnknown
<1>2. Held' = Held
  BY <1>1 DEF Held
<1>3. Shape'
  BY <1>1, <1>2, LogGrows DEF MapIInv, Shape
<1> QED
  BY <1>1, <1>2, <1>3, Kept

LEMMA EraseHolds == ASSUME Erase PROVE MapIInv'
<1> USE DEF Erase, Nothing
<1>1. Held' \subseteq {Blank}
  <2>1. \A t \in PerCar : {perCar'[t][c] : c \in DOMAIN perCar'[t]} = {}
    OBVIOUS
  <2>2. {slot'[t] : t \in Single} \subseteq {Blank} /\ {events'[i] : i \in DOMAIN events'} = {}
    OBVIOUS
  <2> QED BY <2>1, <2>2 DEF Held
<1>2. Shape'
  BY <1>1 DEF Shape
<1>3. SessionSeen' /\ NoOldSession'
  BY <1>1, Types DEF SessionSeen, NoOldSession
<1> QED
  BY <1>2, <1>3 DEF MapIInv

LEMMA MapNextHolds == MapIInv /\ [MapNext]_mapVars => MapIInv'
<1> SUFFICES ASSUME MapIInv, [MapNext]_mapVars PROVE MapIInv'
  OBVIOUS
<1>1. CASE Erase
  BY <1>1, EraseHolds
<1>2. ASSUME NEW p \in Packet, InOrder(p), MapUpdate(p)
      PROVE MapIInv'
  BY <1>2, SessionHolds, SingleHolds, EventHolds, PerCarHolds, UnknownHolds
  DEF MapUpdate
<1>3. CASE UNCHANGED mapVars
  BY <1>3 DEF mapVars, MapIInv, Shape, SessionSeen, NoOldSession, Held
<1> QED
  BY <1>1, <1>2, <1>3 DEF MapNext
----------------------------------------------------------------------------
(* While packets come in order, nothing older than the Session packet's
   session is held: Unset and the switch of Update leave no slot behind. *)
THEOREM ForgetsOldSessions == MapSpec => []NoOldSession
<1>1. MapIInv => NoOldSession
  BY DEF MapIInv
<1> QED
  BY MapInitHolds, MapNextHolds, <1>1, PTL DEF MapSpec

(* Every packet held was read from its datagram to the last byte and no
   further, for all sixteen structs. *)
THEOREM HoldsWholeDatagrams == MapSpec => []ReadsWholeDatagram
<1>1. MapIInv => ReadsWholeDatagram
  <2> SUFFICES ASSUME MapIInv, NEW p \in Held, p # Blank
               PROVE  Layout!StructSize[p.type] = p.len
    BY DEF ReadsWholeDatagram
  <2>1. p \in Packet /\ p.type # Unknown
    BY Types DEF MapIInv, Shape, Stored
  <2>2. p.len = Layout!WireSize[p.type]
    BY <2>1 DEF Packet
  <2> QED
    BY <2>2, StructsMatchDatagrams
<1> QED
  BY MapInitHolds, MapNextHolds, <1>1, PTL DEF MapSpec

(* The list of events never outgrows its limit. *)
THEOREM EventsBounded == MapSpec => [](Len(events) <= MaxEvents)
<1> DEFINE Inv == events \in Seq(Stored) /\ Len(events) <= MaxEvents
<1>1. MapInit => Inv
  BY MaxEventsAssumption DEF MapInit
<1>2. Inv /\ [MapNext]_mapVars => Inv'
  <2> SUFFICES ASSUME Inv, [MapNext]_mapVars PROVE Inv'
    OBVIOUS
  <2>1. CASE UNCHANGED events
    BY <2>1
  <2>2. CASE events' = <<>>
    BY <2>2, MaxEventsAssumption
  <2>3. ASSUME NEW p \in Packet, UpdateEvent(p) PROVE Inv'
    <3>1. p \in Stored
      BY <2>3, Types DEF UpdateEvent, Stored
    <3> DEFINE all == Append(events, p)
    <3>2. all \in Seq(Stored) /\ Len(all) = Len(events) + 1 /\ Len(events) \in Nat
      BY <3>1
    <3> HIDE DEF all
    <3>3. Tail(all) \in Seq(Stored) /\ Len(Tail(all)) = Len(events)
      BY <3>2
    <3>4. events' = IF Len(all) > MaxEvents THEN Tail(all) ELSE all
      BY <2>3 DEF UpdateEvent, PushEvent, all
    <3> QED
      BY <3>2, <3>3, <3>4, MaxEventsAssumption
  <2> QED
    BY <2>1, <2>2, <2>3
    DEF MapNext, MapUpdate, UpdateSession, UpdateSingle, UpdatePerCar, UpdateUnknown,
        Unset, Erase, mapVars
<1> QED
  BY <1>1, <1>2, PTL DEF MapSpec
----------------------------------------------------------------------------
(* The map as a view of the log.  What MapIsViewOfLog says of the log, for
   any sequence of packets. *)
LastIn(l, S) ==
    IF S = {} THEN Blank ELSE l[CHOOSE j \in S : \A k \in S : k <= j]

SessionsIn(l, i) == {j \in 1..(i - 1) : l[j].type = "Session"}

BeforeIn(l, i) ==
    IF SessionsIn(l, i) = {} THEN NoSession
    ELSE l[CHOOSE j \in SessionsIn(l, i) : \A k \in SessionsIn(l, i) : k <= j].session

BeginsIn(l) == {i \in DOMAIN l : l[i].type = "Session" /\ l[i].session # BeforeIn(l, i)}

BeginIn(l) ==
    IF BeginsIn(l) = {} THEN 1
    ELSE CHOOSE j \in BeginsIn(l) : \A k \in BeginsIn(l) : k <= j

OfIn(l, t, b) == {i \in b..Len(l) : l[i].type = t}

LEMMA ByLog ==
    /\ \A S : LastOf(S) = LastIn(log, S)
    /\ \A i : SessionBefore(i) = BeforeIn(log, i)
    /\ SessionBegin = BeginIn(log)
    /\ \A t, b : Of(t, b) = OfIn(log, t, b)
<1>1. \A S : LastOf(S) = LastIn(log, S)
  BY DEF LastOf, LastIn
<1>2. \A i : SessionBefore(i) = BeforeIn(log, i)
  BY DEF SessionBefore, BeforeIn, SessionsIn
<1>3. BeginsIn(log) = {i \in DOMAIN log :
                          log[i].type = "Session" /\ log[i].session # SessionBefore(i)}
  BY <1>2 DEF BeginsIn
<1>4. SessionBegin = BeginIn(log)
  BY <1>3 DEF SessionBegin, BeginIn
<1>5. \A t, b : Of(t, b) = OfIn(log, t, b)
  BY DEF Of, OfIn
<1> QED
  BY <1>1, <1>2, <1>4, <1>5

(* Some places in a sequence have a last one. *)
LEMMA HasLast ==
    ASSUME NEW n \in Nat, NEW S \in SUBSET (1..n), S # {}
    PROVE  \E j \in S : \A k \in S : k <= j
<1> DEFINE Beyond(j) == (j + 1)..n
           Sets == {Beyond(j) : j \in S}
<1>1. FiniteSubsetsOf(1..n) = SUBSET (1..n)
  <2>1. IsFiniteSet(1..n)
    BY FS_Interval
  <2> QED
    BY <2>1, FS_FiniteSubsetsOfFinite
<1>2. IsWellFoundedOn(StrictSubsetOrdering(1..n), SUBSET (1..n))
  BY <1>1, FS_StrictSubsetOrderingWellFounded
<1>3. Sets \subseteq SUBSET (1..n) /\ Sets # {}
  <2>1. \A j \in S : Beyond(j) \in SUBSET (1..n)
    OBVIOUS
  <2> HIDE DEF Beyond
  <2> QED
    BY <2>1
<1>4. PICK T \in Sets : \A U \in Sets : <<U, T>> \notin StrictSubsetOrdering(1..n)
  <2> HIDE DEF Sets
  <2> QED
    BY <1>2, <1>3, WFMin
<1>5. PICK j \in S : T = Beyond(j)
  OBVIOUS
<1>6. ASSUME NEW k \in S, k > j PROVE FALSE
  <2>1. Beyond(k) \subseteq Beyond(j) /\ Beyond(k) # Beyond(j)
    <3>1. k \in Beyond(j) /\ k \notin Beyond(k)
      BY <1>6
    <3> QED
      BY <1>6, <3>1
  <2>2. Beyond(k) \in Sets /\ Beyond(k) \in SUBSET (1..n) /\ Beyond(j) \in SUBSET (1..n)
    BY <1>3
  <2> HIDE DEF Beyond, Sets
  <2>3. <<Beyond(k), Beyond(j)>> \in StrictSubsetOrdering(1..n)
    BY <2>1, <2>2 DEF StrictSubsetOrdering
  <2> QED
    BY <1>4, <1>5, <2>2, <2>3
<1> QED
  BY <1>6

(* A log and the same with a packet more. *)
Longer(l, m, p) ==
    /\ Len(l) \in Nat /\ DOMAIN l = 1..Len(l)
    /\ Len(m) = Len(l) + 1 /\ DOMAIN m = 1..Len(m)
    /\ \A i \in 1..Len(l) : m[i] = l[i]
    /\ m[Len(l) + 1] = p

LEMMA AppendIsLonger ==
    ASSUME NEW l \in Seq(Packet), NEW p \in Packet
    PROVE  Longer(l, Append(l, p), p)
<1> HIDE DEF Packet
<1> QED
  BY DEF Longer

LEMMA LastKept ==
    ASSUME NEW l, NEW m, NEW p, Longer(l, m, p), NEW S \in SUBSET (1..Len(l))
    PROVE  LastIn(m, S) = LastIn(l, S)
<1>1. CASE S = {}
  BY <1>1 DEF LastIn
<1>2. CASE S # {}
  <2> DEFINE j == CHOOSE x \in S : \A k \in S : k <= x
  <2>1. \E x \in S : \A k \in S : k <= x
    BY <1>2, HasLast DEF Longer
  <2>2. j \in S
    BY <2>1
  <2> HIDE DEF j
  <2>3. m[j] = l[j]
    BY <2>2 DEF Longer
  <2> QED
    BY <1>2, <2>3 DEF LastIn, j
<1> QED
  BY <1>1, <1>2

LEMMA LastNew ==
    ASSUME NEW l, NEW m, NEW p, Longer(l, m, p), NEW S \in SUBSET (1..Len(m)),
           Len(m) \in S
    PROVE  LastIn(m, S) = p
<1> DEFINE j == CHOOSE x \in S : \A k \in S : k <= x
<1>1. \A k \in S : k <= Len(m) /\ k \in Int
  BY DEF Longer
<1>2. j \in S /\ \A k \in S : k <= j
  BY <1>1
<1> HIDE DEF j
<1>3. j = Len(m)
  BY <1>1, <1>2
<1> QED
  BY <1>3 DEF LastIn, j, Longer

LEMMA BeforeIsLast == \A l, i : BeforeIn(l, i) = LastIn(l, SessionsIn(l, i)).session
BY DEF BeforeIn, LastIn, Blank

LEMMA BeforeKept ==
    ASSUME NEW l, NEW m, NEW p, Longer(l, m, p), NEW i \in 1..Len(m)
    PROVE  BeforeIn(m, i) = BeforeIn(l, i)
<1>1. SessionsIn(m, i) = SessionsIn(l, i) /\ SessionsIn(l, i) \in SUBSET (1..Len(l))
  BY DEF SessionsIn, Longer
<1> QED
  BY <1>1, LastKept, BeforeIsLast

LEMMA BeginsGrow ==
    ASSUME NEW l, NEW m, NEW p, Longer(l, m, p)
    PROVE  /\ BeginsIn(l) \subseteq 1..Len(l)
           /\ BeginsIn(m) = BeginsIn(l) \cup
                  IF p.type = "Session" /\ p.session # BeforeIn(l, Len(m))
                  THEN {Len(m)} ELSE {}
<1>1. BeginsIn(l) \subseteq 1..Len(l)
  BY DEF BeginsIn, Longer
<1>2. \A i \in 1..Len(l) : i \in BeginsIn(m) <=> i \in BeginsIn(l)
  <2> TAKE i \in 1..Len(l)
  <2>1. i \in 1..Len(m) /\ m[i] = l[i]
    BY DEF Longer
  <2>2. BeforeIn(m, i) = BeforeIn(l, i)
    BY <2>1, BeforeKept
  <2> QED
    BY <2>1, <2>2 DEF BeginsIn, Longer
<1>3. Len(m) \in 1..Len(m) /\ m[Len(m)] = p /\ Len(m) \notin 1..Len(l)
      /\ 1..Len(m) = (1..Len(l)) \cup {Len(m)}
  BY DEF Longer
<1>4. Len(m) \in BeginsIn(m) <=> p.type = "Session" /\ p.session # BeforeIn(l, Len(m))
  <2>1. BeforeIn(m, Len(m)) = BeforeIn(l, Len(m))
    BY <1>3, BeforeKept
  <2> QED
    BY <1>3, <2>1 DEF BeginsIn, Longer
<1>5. BeginsIn(m) \subseteq 1..Len(m)
  BY DEF BeginsIn, Longer
<1> QED
  BY <1>1, <1>2, <1>3, <1>4, <1>5

(* A session begins with the packet, or goes on. *)
LEMMA BeginGrows ==
    ASSUME NEW l, NEW m, NEW p, Longer(l, m, p)
    PROVE  /\ BeginIn(l) \in 1..Len(m)
           /\ BeginIn(m) = IF p.type = "Session" /\ p.session # BeforeIn(l, Len(m))
                           THEN Len(m) ELSE BeginIn(l)
<1>1. BeginIn(l) \in 1..Len(m)
  <2>1. CASE BeginsIn(l) = {}
    BY <2>1 DEF BeginIn, Longer
  <2>2. CASE BeginsIn(l) # {}
    <3>1. BeginsIn(l) \in SUBSET (1..Len(l)) /\ Len(l) \in Nat
      BY BeginsGrow DEF Longer
    <3>2. \E j \in BeginsIn(l) : \A k \in BeginsIn(l) : k <= j
      BY <2>2, <3>1, HasLast
    <3>3. BeginIn(l) \in BeginsIn(l)
      BY <2>2, <3>2 DEF BeginIn
    <3> QED
      BY <3>1, <3>3 DEF Longer
  <2> QED
    BY <2>1, <2>2
<1>2. CASE ~(p.type = "Session" /\ p.session # BeforeIn(l, Len(m)))
  <2>1. BeginsIn(m) = BeginsIn(l)
    BY <1>2, BeginsGrow
  <2> QED
    BY <1>1, <1>2, <2>1 DEF BeginIn
<1>3. CASE p.type = "Session" /\ p.session # BeforeIn(l, Len(m))
  <2>1. Len(m) \in BeginsIn(m)
    BY <1>3, BeginsGrow
  <2>2. \A k \in BeginsIn(m) : k \in Int /\ k <= Len(m)
    BY DEF BeginsIn, Longer
  <2> DEFINE j == CHOOSE x \in BeginsIn(m) : \A k \in BeginsIn(m) : k <= x
  <2>3. j \in BeginsIn(m) /\ \A k \in BeginsIn(m) : k <= j
    BY <2>1, <2>2
  <2> HIDE DEF j
  <2>4. j = Len(m)
    BY <2>1, <2>2, <2>3
  <2> QED
    BY <1>1, <1>3, <2>1, <2>4 DEF BeginIn, j
<1> QED
  BY <1>1, <1>2, <1>3

LEMMA OfGrows ==
    ASSUME NEW l, NEW m, NEW p, Longer(l, m, p), NEW t, NEW b \in 1..Len(m)
    PROVE  /\ OfIn(l, t, b) \in SUBSET (1..Len(l))
           /\ OfIn(m, t, b) \in SUBSET (1..Len(m))
           /\ OfIn(m, t, b) = OfIn(l, t, b) \cup IF p.type = t THEN {Len(m)} ELSE {}
           /\ OfIn(m, t, Len(m)) = IF p.type = t THEN {Len(m)} ELSE {}
<1>1. /\ b..Len(m) = (b..Len(l)) \cup {Len(m)}
      /\ b..Len(l) \subseteq 1..Len(l) /\ b..Len(m) \subseteq 1..Len(m)
      /\ (Len(m))..Len(m) = {Len(m)}
      /\ Len(m) \notin b..Len(l)
  BY DEF Longer
<1>2. m[Len(m)] = p /\ \A i \in b..Len(l) : m[i] = l[i]
  BY <1>1 DEF Longer
<1> QED
  BY <1>1, <1>2 DEF OfIn

(* MapIsViewOfLog, part by part, with what makes it inductive: the Session
   packet is the last of all, in whatever session. *)
SessionView == slot["Session"] = LastIn(log, SessionsIn(log, Len(log) + 1))

SlotView == \A t \in Single : slot[t] = LastIn(log, OfIn(log, t, BeginIn(log)))

CarView ==
    \A t \in PerCar :
        /\ DOMAIN perCar[t] = {log[i].car : i \in OfIn(log, t, BeginIn(log))}
        /\ \A c \in DOMAIN perCar[t] :
              perCar[t][c] =
                 LastIn(log, {i \in OfIn(log, t, BeginIn(log)) : log[i].car = c})

Later(S, j) == {k \in S : k > j}

Happened == OfIn(log, "Event", BeginIn(log))

(* As many as happened at the places S of l, up to MaxEvents; each with as
   many after it. *)
LastOnes(q, S, l) ==
    /\ Len(q) = IF Cardinality(S) > MaxEvents THEN MaxEvents ELSE Cardinality(S)
    /\ \A i \in DOMAIN q : \E j \in S :
          q[i] = l[j] /\ Cardinality(Later(S, j)) = Len(q) - i

EventView == LastOnes(events, Happened, log)

View == MapIInv /\ SessionView /\ SlotView /\ CarView /\ EventView

LEMMA ViewIsView == View => MapIsViewOfLog
<1> SUFFICES ASSUME View PROVE MapIsViewOfLog
  OBVIOUS
<1>1. SlotsAreLatest(SessionBegin)
  BY ByLog DEF View, SlotView, SlotsAreLatest
<1>2. CarsAreLatest(SessionBegin)
  BY ByLog DEF View, CarView, CarsAreLatest
<1>3. EventsAreLast(SessionBegin)
  BY ByLog DEF View, EventView, LastOnes, Happened, Later, EventsAreLast
<1> QED
  BY <1>1, <1>2, <1>3 DEF MapIsViewOfLog

(* A new map, whose log is empty. *)
LEMMA ViewInit == MapInit => SessionView /\ SlotView /\ CarView /\ EventView
<1> SUFFICES ASSUME MapInit PROVE SessionView /\ SlotView /\ CarView /\ EventView
  OBVIOUS
<1> USE DEF MapInit
<1>1. /\ \A t, b : b \in Nat => OfIn(log, t, b) = {} \/ b = 0
      /\ SessionsIn(log, Len(log) + 1) = {}
  BY DEF OfIn, SessionsIn
<1>2. BeginIn(log) = 1
  BY DEF BeginIn, BeginsIn
<1>3. \A t : OfIn(log, t, BeginIn(log)) = {}
  BY <1>1, <1>2
<1>4. SessionView
  BY <1>1, Types DEF SessionView, LastIn
<1>5. SlotView
  BY <1>3 DEF SlotView, LastIn
<1>6. CarView
  BY <1>3 DEF CarView, Nothing
<1>7. EventView
  BY <1>3, FS_EmptySet, MaxEventsAssumption DEF EventView, LastOnes, Happened
<1> QED
  BY <1>4, <1>5, <1>6, <1>7

LEMMA ViewAnew == MapInit' => (SessionView /\ SlotView /\ CarView /\ EventView)'
BY ViewInit, PTL

(* A packet more in the log; whether it opens a session is what OtherSession
   asks of the last Session packet. *)
LEMMA Opens ==
    ASSUME View, NEW p \in Packet, log' = Append(log, p)
    PROVE  /\ Longer(log, log', p)
           /\ BeginIn(log) \in 1..Len(log')
           /\ BeginIn(log') = IF p.type = "Session" /\ OtherSession(p)
                              THEN Len(log') ELSE BeginIn(log)
<1>1. Longer(log, log', p)
  BY AppendIsLonger DEF View, MapIInv, Shape
<1>2. BeforeIn(log, Len(log')) = slot["Session"].session
  <2>1. Len(log') = Len(log) + 1
    BY <1>1 DEF Longer
  <2> QED
    BY <2>1, BeforeIsLast DEF View, SessionView
<1>3. slot["Session"].session \in [uid : Nat, kind : Nat, track : Nat]
      /\ p.session \in [uid : Nat, kind : Nat, track : Nat]
  <2>1. slot["Session"] \in Held
    BY Types DEF Held
  <2>2. slot["Session"] = Blank \/ slot["Session"] \in Packet
    BY <2>1 DEF View, MapIInv, Shape, Stored
  <2> QED
    BY <2>2 DEF Blank, NoSession, Packet
<1>4. OtherSession(p) <=> p.session # slot["Session"].session
  BY <1>3, SMTT(30) DEF OtherSession
<1> QED
  BY <1>1, <1>2, <1>4, BeginGrows

LEMMA SessionViewStep ==
    ASSUME View, NEW p \in Packet, Longer(log, log', p),
           slot'["Session"] = IF p.type = "Session" THEN p ELSE slot["Session"]
    PROVE  SessionView'
<1>1. Longer(log, log', p)
  OBVIOUS
<1> DEFINE S == SessionsIn(log, Len(log) + 1)
           R == SessionsIn(log', Len(log') + 1)
<1>2. S \in SUBSET (1..Len(log)) /\ R \in SUBSET (1..Len(log'))
      /\ R = S \cup IF p.type = "Session" THEN {Len(log')} ELSE {}
  BY <1>1 DEF Longer, SessionsIn
<1> HIDE DEF S, R
<1>3. LastIn(log', R) = IF p.type = "Session" THEN p ELSE LastIn(log, S)
  <2>1. CASE p.type = "Session"
    BY <1>1, <1>2, <2>1, LastNew
  <2>2. CASE p.type # "Session"
    BY <1>1, <1>2, <2>2, LastKept
  <2> QED
    BY <2>1, <2>2
<1> QED
  BY <1>3 DEF View, SessionView, S, R

LEMMA SlotViewStep ==
    ASSUME View, NEW p \in Packet, Longer(log, log', p),
           BeginIn(log) \in 1..Len(log'), BeginIn(log') = BeginIn(log),
           \A t \in Single : slot'[t] = IF p.type = t THEN p ELSE slot[t]
    PROVE  SlotView'
<1>1. Longer(log, log', p) /\ BeginIn(log) \in 1..Len(log')
  OBVIOUS
<1> SUFFICES ASSUME NEW t \in Single
             PROVE  slot'[t] = LastIn(log', OfIn(log', t, BeginIn(log)))
  BY DEF SlotView
<1> DEFINE S == OfIn(log, t, BeginIn(log))
           R == OfIn(log', t, BeginIn(log))
<1>2. S \in SUBSET (1..Len(log)) /\ R \in SUBSET (1..Len(log'))
      /\ R = S \cup IF p.type = t THEN {Len(log')} ELSE {}
  BY <1>1, OfGrows
<1>3. slot[t] = LastIn(log, S)
  BY DEF View, SlotView
<1> HIDE DEF S, R
<1>4. CASE p.type = t
  BY <1>1, <1>2, <1>4, LastNew DEF R
<1>5. CASE p.type # t
  BY <1>1, <1>2, <1>3, <1>5, LastKept DEF R
<1> QED
  BY <1>4, <1>5

(* What UpdatePerCar makes of the map f of the packets of type t. *)
CarsAfter(f, p, t) ==
    IF p.type = t THEN [c \in DOMAIN f \cup {p.car} |-> IF c = p.car THEN p ELSE f[c]]
    ELSE f

LEMMA CarAdded ==
    ASSUME NEW f, NEW p, NEW t, p.type = t
    PROVE  /\ DOMAIN CarsAfter(f, p, t) = DOMAIN f \cup {p.car}
           /\ CarsAfter(f, p, t)[p.car] = p
BY DEF CarsAfter

LEMMA CarsKept ==
    ASSUME NEW f, NEW p, NEW t, p.type # t
    PROVE  CarsAfter(f, p, t) = f
BY DEF CarsAfter

LEMMA CarKept ==
    ASSUME NEW f, NEW p, NEW t, NEW c \in DOMAIN f, p.type # t \/ c # p.car
    PROVE  CarsAfter(f, p, t)[c] = f[c]
BY DEF CarsAfter

LEMMA CarViewStep ==
    ASSUME View, NEW p \in Packet, Longer(log, log', p),
           BeginIn(log) \in 1..Len(log'), BeginIn(log') = BeginIn(log),
           \A t \in PerCar : perCar'[t] = CarsAfter(perCar[t], p, t)
    PROVE  CarView'
<1>1. Longer(log, log', p) /\ BeginIn(log) \in 1..Len(log')
  OBVIOUS
<1>2. ASSUME NEW t \in PerCar
      PROVE /\ DOMAIN perCar'[t] = {log'[i].car : i \in OfIn(log', t, BeginIn(log))}
            /\ \A c \in DOMAIN perCar'[t] :
                  perCar'[t][c] =
                     LastIn(log', {i \in OfIn(log', t, BeginIn(log)) : log'[i].car = c})
  <2> DEFINE S == OfIn(log, t, BeginIn(log))
             R == OfIn(log', t, BeginIn(log))
             SOf(c) == {i \in S : log[i].car = c}
             ROf(c) == {i \in R : log'[i].car = c}
  <2>1. S \in SUBSET (1..Len(log)) /\ R \in SUBSET (1..Len(log'))
        /\ R = S \cup IF p.type = t THEN {Len(log')} ELSE {}
    BY <1>1, OfGrows
  <2>2. /\ DOMAIN perCar[t] = {log[i].car : i \in S}
        /\ \A c \in DOMAIN perCar[t] : perCar[t][c] = LastIn(log, SOf(c))
    BY DEF View, CarView
  <2> HIDE DEF S, R
  <2>3. /\ \A i \in S : log'[i] = log[i]
        /\ log'[Len(log')] = p
    BY <1>1, <2>1 DEF Longer
  <2>4. ASSUME NEW c, p.type # t \/ c # p.car
        PROVE ROf(c) = SOf(c) /\ SOf(c) \in SUBSET (1..Len(log))
    BY <2>1, <2>3, <2>4
  <2>5. ASSUME p.type = t PROVE Len(log') \in ROf(p.car)
    BY <2>1, <2>3, <2>5
  <2>6. \A c : ROf(c) \in SUBSET (1..Len(log'))
    BY <2>1
  <2> DEFINE was == perCar[t]
             is == perCar'[t]
  <2>7. is = CarsAfter(was, p, t)
    OBVIOUS
  <2> HIDE DEF was, is
  <2>8. /\ p.type = t => DOMAIN is = DOMAIN was \cup {p.car} /\ is[p.car] = p
        /\ p.type # t => is = was
        /\ \A c \in DOMAIN was : p.type # t \/ c # p.car => is[c] = was[c]
    <3>1. p.type = t => DOMAIN is = DOMAIN was \cup {p.car} /\ is[p.car] = p
      BY <2>7, CarAdded, ZenonT(30)
    <3>2. p.type # t => is = was
      BY <2>7, CarsKept
    <3>3. \A c \in DOMAIN was : p.type # t \/ c # p.car => is[c] = was[c]
      BY <2>7, CarKept
    <3> QED
      BY <3>1, <3>2, <3>3
  <2>9. DOMAIN is = {log'[i].car : i \in R}
    <3>1. DOMAIN was = {log'[i].car : i \in S}
      BY <2>2, <2>3 DEF was
    <3>2. CASE p.type = t
      BY <2>1, <2>3, <2>8, <3>1, <3>2
    <3>3. CASE p.type # t
      BY <2>1, <2>8, <3>1, <3>3
    <3> QED
      BY <3>2, <3>3
  <2>10. ASSUME NEW c \in DOMAIN is
        PROVE is[c] = LastIn(log', ROf(c))
    <3> HIDE DEF SOf, ROf
    <3>1. CASE p.type = t /\ c = p.car
      <4>1. LastIn(log', ROf(c)) = p
        BY <1>1, <2>5, <2>6, <3>1, LastNew
      <4> QED
        BY <2>8, <3>1, <4>1
    <3>2. CASE p.type # t \/ c # p.car
      <4>1. c \in DOMAIN was /\ is[c] = was[c]
        BY <2>8, <2>10, <3>2
      <4>2. was[c] = LastIn(log, SOf(c))
        BY <2>2, <4>1 DEF was
      <4> QED
        BY <1>1, <2>4, <3>2, <4>1, <4>2, LastKept
    <3> QED
      BY <3>1, <3>2
  <2> QED
    BY <2>9, <2>10 DEF R, is
<1> QED
  BY <1>2 DEF CarView

(* The list after an event: it is last, and the others moved up by one if it
   was full. *)
LEMMA Pushed ==
    ASSUME events \in Seq(Stored), NEW p \in Stored, NEW q, q = PushEvent(p)
    PROVE  /\ Len(events) \in Nat /\ DOMAIN events = 1..Len(events)
           /\ DOMAIN q = 1..Len(q) /\ Len(q) \in Nat
           /\ Len(q) = IF Len(events) >= MaxEvents THEN Len(events) ELSE Len(events) + 1
           /\ Len(q) >= 1 /\ q[Len(q)] = p
<1> DEFINE all == Append(events, p)
<1> HIDE DEF Stored
<1>1. Len(events) \in Nat /\ DOMAIN events = 1..Len(events)
  OBVIOUS
<1>2. all \in Seq(Stored) /\ Len(all) = Len(events) + 1 /\ all[Len(all)] = p
  OBVIOUS
<1>3. q = IF Len(all) > MaxEvents THEN Tail(all) ELSE all
  BY DEF PushEvent
<1> HIDE DEF all
<1>4. CASE Len(all) > MaxEvents
  <2>1. Len(q) = Len(events) /\ DOMAIN q = 1..Len(q)
    BY <1>1, <1>2, <1>3, <1>4
  <2>2. \A i \in 1..Len(q) : q[i] = all[i + 1]
    BY <1>1, <1>2, <1>3, <1>4, <2>1
  <2>3. Len(events) >= MaxEvents /\ Len(q) \in 1..Len(q)
    BY <1>1, <1>2, <1>4, <2>1, MaxEventsAssumption
  <2>4. q[Len(q)] = p
    BY <1>2, <2>1, <2>2, <2>3
  <2> QED
    BY <1>1, <2>1, <2>3, <2>4
<1>5. CASE ~(Len(all) > MaxEvents)
  <2>1. q = all /\ DOMAIN all = 1..Len(all)
    BY <1>1, <1>2, <1>3, <1>5
  <2>2. ~(Len(events) >= MaxEvents)
    BY <1>1, <1>2, <1>5, MaxEventsAssumption
  <2> QED
    BY <1>1, <1>2, <2>1, <2>2
<1> QED
  BY <1>4, <1>5

LEMMA MovedUp ==
    ASSUME events \in Seq(Stored), NEW p \in Stored, NEW q, q = PushEvent(p),
           NEW i \in DOMAIN q, i # Len(q)
    PROVE  \E j \in DOMAIN events :
              q[i] = events[j] /\ Len(events) - j + 1 = Len(q) - i
<1> DEFINE all == Append(events, p)
<1> HIDE DEF Stored
<1>1. Len(events) \in Nat /\ DOMAIN events = 1..Len(events)
  OBVIOUS
<1>2. /\ all \in Seq(Stored) /\ Len(all) = Len(events) + 1
      /\ \A k \in 1..Len(events) : all[k] = events[k]
  OBVIOUS
<1>3. q = IF Len(all) > MaxEvents THEN Tail(all) ELSE all
  BY DEF PushEvent
<1> HIDE DEF all
<1>4. CASE Len(all) > MaxEvents
  <2>1. /\ Len(q) = Len(events) /\ DOMAIN q = 1..Len(q)
        /\ \A k \in 1..Len(q) : q[k] = all[k + 1]
    BY <1>1, <1>2, <1>3, <1>4
  <2>2. i + 1 \in DOMAIN events
    BY <1>1, <2>1
  <2>3. q[i] = events[i + 1] /\ Len(events) - (i + 1) + 1 = Len(q) - i
    BY <1>1, <1>2, <2>1, <2>2
  <2> QED
    BY <2>2, <2>3
<1>5. CASE ~(Len(all) > MaxEvents)
  <2>1. q = all /\ DOMAIN all = 1..Len(all)
    BY <1>1, <1>2, <1>3, <1>5
  <2>2. i \in DOMAIN events
    BY <1>1, <1>2, <2>1
  <2>3. q[i] = events[i] /\ Len(events) - i + 1 = Len(q) - i
    BY <1>1, <1>2, <2>1, <2>2
  <2> QED
    BY <2>2, <2>3
<1> QED
  BY <1>4, <1>5

(* One place more, after all the others. *)
LEMMA LaterGrows ==
    ASSUME NEW n \in Nat, NEW S \in SUBSET (1..n), NEW j \in S
    PROVE  /\ IsFiniteSet(S)
           /\ Cardinality(S \cup {n + 1}) = Cardinality(S) + 1
           /\ Cardinality(Later(S \cup {n + 1}, j)) = Cardinality(Later(S, j)) + 1
           /\ Cardinality(S) \in Nat /\ Cardinality(Later(S, j)) \in Nat
<1>1. IsFiniteSet(S) /\ IsFiniteSet(Later(S, j))
  <2>1. IsFiniteSet(1..n)
    BY FS_Interval
  <2>2. S \subseteq 1..n /\ Later(S, j) \subseteq 1..n
    BY DEF Later
  <2> QED
    BY <2>1, <2>2, FS_Subset
<1>2. n + 1 \notin S /\ n + 1 \notin Later(S, j)
  BY DEF Later
<1>3. Later(S \cup {n + 1}, j) = Later(S, j) \cup {n + 1}
  BY DEF Later
<1> QED
  BY <1>1, <1>2, <1>3, FS_AddElement, FS_CardinalityType

LEMMA EventAdded ==
    ASSUME events \in Seq(Stored), NEW p \in Stored, NEW q, q = PushEvent(p),
           NEW n \in Nat, NEW S \in SUBSET (1..n), NEW R, R = S \cup {n + 1},
           NEW l, NEW m, m[n + 1] = p, \A i \in S : m[i] = l[i],
           LastOnes(events, S, l)
    PROVE  LastOnes(q, R, m)
<1> HIDE DEF Stored
<1>1. /\ Len(events) \in Nat /\ DOMAIN events = 1..Len(events)
      /\ DOMAIN q = 1..Len(q) /\ Len(q) \in Nat
  BY Pushed
<1>2. /\ Len(q) = IF Len(events) >= MaxEvents THEN Len(events) ELSE Len(events) + 1
      /\ Len(q) >= 1 /\ q[Len(q)] = p
  BY Pushed
<1>3. IsFiniteSet(S) /\ Cardinality(S) \in Nat /\ Cardinality(R) = Cardinality(S) + 1
      /\ Cardinality(Later(R, n + 1)) = 0
  <2>1. IsFiniteSet(1..n)
    BY FS_Interval
  <2>2. n + 1 \notin S
    OBVIOUS
  <2>3. \A k \in R : ~(k > n + 1)
    OBVIOUS
  <2>4. Later(R, n + 1) = {}
    BY <2>3 DEF Later
  <2> QED
    BY <2>1, <2>2, <2>4, FS_Subset, FS_AddElement, FS_CardinalityType, FS_EmptySet
<1>4. Len(q) = IF Cardinality(R) > MaxEvents THEN MaxEvents ELSE Cardinality(R)
  <2>1. Len(events) = IF Cardinality(S) > MaxEvents THEN MaxEvents ELSE Cardinality(S)
    BY DEF LastOnes
  <2> QED
    BY <1>1, <1>2, <1>3, <2>1, MaxEventsAssumption
<1>5. ASSUME NEW i \in DOMAIN q
      PROVE \E j \in R : q[i] = m[j] /\ Cardinality(Later(R, j)) = Len(q) - i
  <2>1. CASE i = Len(q)
    <3>1. Len(q) - i = 0 /\ q[i] = m[n + 1] /\ n + 1 \in R
      BY <1>1, <1>2, <2>1
    <3> QED
      BY <1>3, <3>1
  <2>2. CASE i # Len(q)
    <3>1. PICK k \in DOMAIN events : q[i] = events[k] /\ Len(events) - k + 1 = Len(q) - i
      BY <2>2, MovedUp
    <3>2. PICK j \in S : events[k] = l[j]
                         /\ Cardinality(Later(S, j)) = Len(events) - k
      BY DEF LastOnes
    <3>3. Cardinality(Later(R, j)) = Cardinality(Later(S, j)) + 1
      BY LaterGrows
    <3>4. Cardinality(Later(R, j)) = Len(q) - i
      BY <3>1, <3>2, <3>3
    <3>5. j \in R /\ m[j] = l[j]
      OBVIOUS
    <3> QED
      BY <3>1, <3>2, <3>4, <3>5
  <2> QED
    BY <2>1, <2>2
<1> QED
  BY <1>4, <1>5 DEF LastOnes

LEMMA EventViewStep ==
    ASSUME View, NEW p \in Packet, Longer(log, log', p),
           BeginIn(log) \in 1..Len(log'), BeginIn(log') = BeginIn(log),
           events' = IF p.type = "Event" THEN PushEvent(p) ELSE events
    PROVE  EventView'
<1> DEFINE S == OfIn(log, "Event", BeginIn(log))
           R == OfIn(log', "Event", BeginIn(log))
           n == Len(log)
<1>1. S \in SUBSET (1..n) /\ R \in SUBSET (1..Len(log')) /\ n \in Nat
      /\ R = S \cup IF p.type = "Event" THEN {n + 1} ELSE {}
  BY OfGrows DEF Longer
<1>2. S = Happened /\ R = Happened'
  BY DEF Happened
<1> HIDE DEF S, R
<1>3. /\ \A i \in S : log'[i] = log[i]
      /\ log'[n + 1] = p
  BY <1>1 DEF Longer
<1> HIDE DEF n
<1>4. LastOnes(events, S, log)
  BY <1>2 DEF View, EventView
<1>5. CASE p.type # "Event"
  <2>1. R = S /\ events' = events
    BY <1>1, <1>5
  <2> QED
    BY <1>2, <1>3, <1>4, <2>1 DEF EventView, LastOnes
<1>6. CASE p.type = "Event"
  <2>1. R = S \cup {n + 1} /\ events' = PushEvent(p)
    BY <1>1, <1>6
  <2>2. p \in Stored /\ events \in Seq(Stored)
    BY <1>6, Types DEF Stored, View, MapIInv, Shape
  <2>3. LastOnes(events', R, log')
    BY <1>1, <1>3, <1>4, <2>1, <2>2, EventAdded
  <2> QED
    BY <1>2, <2>3 DEF EventView
<1> QED
  BY <1>5, <1>6

(* A packet that opens no session: every part takes it in, or stays. *)
LEMMA GoesOnStep ==
    ASSUME View, NEW p \in Packet, MapUpdate(p), ~(p.type = "Session" /\ OtherSession(p))
    PROVE  SessionView' /\ SlotView' /\ CarView' /\ EventView'
<1>1. log' = Append(log, p)
  BY DEF MapUpdate
<1>2. /\ Longer(log, log', p)
      /\ BeginIn(log) \in 1..Len(log') /\ BeginIn(log') = BeginIn(log)
  BY <1>1, Opens
<1>3. DOMAIN slot = Single /\ DOMAIN perCar = PerCar
  BY DEF View, MapIInv, Shape
<1>4. /\ \A t \in Single : slot'[t] = IF p.type = t THEN p ELSE slot[t]
      /\ \A t \in PerCar : perCar'[t] = CarsAfter(perCar[t], p, t)
      /\ events' = IF p.type = "Event" THEN PushEvent(p) ELSE events
  <2>1. CASE UpdateSession(p)
    <3>1. slot' = [slot EXCEPT !["Session"] = p] /\ UNCHANGED <<events, perCar>>
          /\ p.type = "Session"
      BY <2>1 DEF UpdateSession
    <3> QED
      BY <1>3, <3>1, Types, CarsKept
  <2>2. CASE UpdateSingle(p)
    <3>1. slot' = [slot EXCEPT ![p.type] = p] /\ UNCHANGED <<events, perCar>>
          /\ p.type \in Single
      BY <2>2 DEF UpdateSingle
    <3> QED
      BY <1>3, <3>1, Types, CarsKept
  <2>3. CASE UpdateEvent(p)
    <3>1. UNCHANGED <<slot, perCar>> /\ p.type = "Event" /\ events' = PushEvent(p)
      BY <2>3 DEF UpdateEvent
    <3> QED
      BY <3>1, Types, CarsKept
  <2>4. CASE UpdatePerCar(p)
    <3>1. UNCHANGED <<slot, events>> /\ p.type \in PerCar
          /\ perCar' = [perCar EXCEPT ![p.type] =
                [c \in DOMAIN @ \cup {p.car} |-> IF c = p.car THEN p ELSE @[c]]]
      BY <2>4 DEF UpdatePerCar
    <3>2. \A t \in PerCar : perCar'[t] = CarsAfter(perCar[t], p, t)
      BY <1>3, <3>1 DEF CarsAfter
    <3> QED
      BY <3>1, <3>2, Types
  <2>5. CASE UpdateUnknown(p)
    <3>1. UNCHANGED <<slot, events, perCar>> /\ p.type \notin Known
      BY <2>5 DEF UpdateUnknown, Known
    <3> QED
      BY <3>1, Types, CarsKept
  <2> QED
    BY <2>1, <2>2, <2>3, <2>4, <2>5 DEF MapUpdate
<1>5. slot'["Session"] = IF p.type = "Session" THEN p ELSE slot["Session"]
  BY <1>4, Types
<1>6. SessionView'
  BY <1>2, <1>5, SessionViewStep
<1>7. SlotView'
  BY <1>2, <1>4, SlotViewStep
<1>8. CarView'
  BY <1>2, <1>4, CarViewStep
<1>9. EventView'
  BY <1>2, <1>4, EventViewStep
<1> QED
  BY <1>6, <1>7, <1>8, <1>9

(* The Session packet of another session is all there is of it. *)
LEMMA OpensStep ==
    ASSUME View, NEW p \in Packet, MapUpdate(p), p.type = "Session", OtherSession(p)
    PROVE  SessionView' /\ SlotView' /\ CarView' /\ EventView'
<1>1. log' = Append(log, p)
  BY DEF MapUpdate
<1>2. /\ Longer(log, log', p) /\ BeginIn(log') = Len(log')
      /\ Len(log') \in 1..Len(log')
  <2>1. Longer(log, log', p) /\ BeginIn(log') = Len(log')
    BY <1>1, Opens
  <2> QED
    BY <2>1 DEF Longer
<1>3. /\ \A t \in Single : slot'[t] = IF p.type = t THEN p ELSE Blank
      /\ events' = <<>>
      /\ \A t \in PerCar : perCar'[t] = <<>>
  <2>1. Unset(p)
    BY Types DEF MapUpdate, UpdateSession, UpdateSingle, UpdateEvent, UpdatePerCar,
       UpdateUnknown, Known
  <2> QED
    BY <2>1 DEF Unset, Nothing
<1>4. \A t : OfIn(log', t, BeginIn(log')) = IF p.type = t THEN {Len(log')} ELSE {}
  BY <1>2, OfGrows
<1>5. SessionView'
  <2>1. slot'["Session"] = IF p.type = "Session" THEN p ELSE slot["Session"]
    BY <1>3, Types
  <2> QED
    BY <1>2, <2>1, SessionViewStep
<1>6. SlotView'
  <2>1. LastIn(log', {Len(log')}) = p
    BY <1>2, LastNew
  <2>2. LastIn(log', {}) = Blank
    BY DEF LastIn
  <2> QED
    BY <1>3, <1>4, <2>1, <2>2 DEF SlotView
<1>7. CarView'
  <2>1. \A t \in PerCar : OfIn(log', t, BeginIn(log')) = {} /\ DOMAIN perCar'[t] = {}
    BY <1>3, <1>4, Types
  <2> QED
    BY <2>1 DEF CarView
<1>8. EventView'
  <2>1. Happened' = {}
    BY <1>4 DEF Happened
  <2> QED
    BY <1>3, <2>1, FS_EmptySet, MaxEventsAssumption DEF EventView, LastOnes
<1> QED
  BY <1>5, <1>6, <1>7, <1>8

LEMMA ViewStep == View /\ [MapNext]_mapVars => View'
<1> SUFFICES ASSUME View, [MapNext]_mapVars PROVE View'
  OBVIOUS
<1>1. MapIInv'
  BY MapNextHolds DEF View
<1>2. CASE Erase
  <2>1. SessionView' /\ SlotView' /\ CarView' /\ EventView'
    BY <1>2, ViewAnew DEF Erase, MapInit
  <2> QED
    BY <1>1, <2>1 DEF View
<1>3. ASSUME NEW p \in Packet, MapUpdate(p) PROVE View'
  BY <1>1, <1>3, GoesOnStep, OpensStep DEF View
<1>4. CASE UNCHANGED mapVars
  BY <1>1, <1>4, SMTT(30) DEF mapVars, View, SessionView, SlotView, CarView, EventView, Happened
<1> QED
  BY <1>2, <1>3, <1>4 DEF MapNext

(* What the map holds is what the log says the current session sent: in each
   member the latest packet of its type (and car), zeroed or absent if there
   was none; in the list its last events, in order and none left out. *)
THEOREM HoldsTheSession == MapSpec => []MapIsViewOfLog
<1>1. MapInit => View
  BY MapInitHolds, ViewInit DEF View
<1> QED
  BY <1>1, ViewStep, ViewIsView, PTL DEF MapSpec
----------------------------------------------------------------------------
(* The TelemetryStream. *)

(* A sample of driver d, taken when elapsed was its time. *)
Taken(d, s) == s.timestamp \in Nat /\ s = Sample(d, s.timestamp)

SampleRecord == [timestamp : Int, distance : Int, lap : Int]

(* A list of driver d's samples, the last taken no later than "latest". *)
Curve(d, q, latest) ==
    /\ q \in Seq(SampleRecord)
    /\ Len(q) <= MaxSamples
    /\ \A i \in 1..Len(q) : Taken(d, q[i]) /\ q[i].timestamp <= latest
    /\ \A i \in 1..(Len(q) - 1) :
          q[i + 1].timestamp - q[i].timestamp >= MinInterval

SameTimes(a, b) ==
    /\ Len(a) = Len(b)
    /\ \A i \in 1..Len(a) : a[i].timestamp = b[i].timestamp

Elapsed == last_time_ - start_time_

Curves ==
    /\ Curve(0, Samples(0), Elapsed)
    /\ Curve(1, Samples(1), Elapsed)
    /\ SameTimes(Samples(0), Samples(1))

Clock ==
    /\ start_time_ \in Nat
    /\ last_time_ \in Nat
    /\ start_time_ <= last_time_

(* Nothing is sampled before the first Update has set start_time_. *)
NotYet == start_time_ = 0 => driver_samples_ = <<>>

StreamIInv == Clock /\ NotYet /\ Curves
----------------------------------------------------------------------------
(* fmod and the cast, both towards zero, take a way apart without loss. *)
LEMMA WayRestored ==
    ASSUME NEW way \in Int
    PROVE  /\ Cut(way, TrackLength) * TrackLength + FMod(way, TrackLength) = way
           /\ Cut(way, TrackLength) \in Int
           /\ FMod(way, TrackLength) \in Int
<1>1. CASE way >= 0
  BY <1>1 DEF Cut, FMod, TrackLength
<1>2. CASE way < 0
  BY <1>2 DEF Cut, FMod, TrackLength
<1> QED
  BY <1>1, <1>2

LEMMA SampleIsRecord ==
    ASSUME NEW e \in Nat, NEW d \in {0, 1}
    PROVE  /\ Sample(d, e) \in SampleRecord
           /\ Sample(d, e).timestamp = e
           /\ RacePosition(Sample(d, e)) = (e + Phase[d]) * Speed
<1> DEFINE way == (e + Phase[d]) * Speed
<1>1. way \in Int
  BY DEF Phase, Speed
<1>2. Sample(d, e) = [timestamp |-> e, distance |-> FMod(way, TrackLength),
                      lap |-> Cut(way, TrackLength) + 1]
  BY DEF Sample
<1> HIDE DEF way
<1>3. /\ Cut(way, TrackLength) * TrackLength + FMod(way, TrackLength) = way
      /\ Cut(way, TrackLength) \in Int
      /\ FMod(way, TrackLength) \in Int
  BY <1>1, WayRestored
<1>4. RacePosition(Sample(d, e)) = way
  BY <1>2, <1>3 DEF RacePosition, TrackLength
<1> QED
  BY <1>2, <1>3, <1>4 DEF SampleRecord, way

(* The sample appended is later than the others by MinInterval. *)
LEMMA PushKeepsCurve ==
    ASSUME NEW d \in {0, 1}, NEW q, NEW latest \in Int, NEW e \in Nat,
           Curve(d, q, latest), e - latest >= MinInterval
    PROVE  /\ Curve(d, Push(q, Sample(d, e)), e)
           /\ Len(Push(q, Sample(d, e))) = IF Len(q) = MaxSamples THEN Len(q) ELSE Len(q) + 1
           /\ \A i \in 1..Len(Push(q, Sample(d, e))) :
                 Push(q, Sample(d, e))[i] =
                    IF Len(q) = MaxSamples
                    THEN IF i = Len(q) THEN Sample(d, e) ELSE q[i + 1]
                    ELSE IF i = Len(q) + 1 THEN Sample(d, e) ELSE q[i]
<1> DEFINE s == Sample(d, e)
           all == Append(q, s)
           p == Push(q, s)
<1>1. /\ s \in SampleRecord
      /\ s.timestamp = e
      /\ Taken(d, s)
  BY SampleIsRecord DEF Taken
<1>2. p = IF Len(all) > MaxSamples THEN Tail(all) ELSE all
  BY DEF Push
<1> HIDE DEF s, p
<1>3. /\ q \in Seq(SampleRecord)
      /\ Len(q) \in Nat
      /\ Len(q) <= MaxSamples
      /\ \A i \in 1..Len(q) : Taken(d, q[i]) /\ q[i].timestamp <= latest
                                /\ q[i].timestamp \in Nat
      /\ \A i \in 1..(Len(q) - 1) :
            q[i + 1].timestamp - q[i].timestamp >= MinInterval
  BY DEF Curve, Taken
<1>4. /\ all \in Seq(SampleRecord)
      /\ Len(all) = Len(q) + 1
      /\ \A i \in 1..Len(q) : all[i] = q[i]
      /\ all[Len(q) + 1] = s
  BY <1>1, <1>3
<1> HIDE DEF all
<1>5. \A i \in 1..Len(all) : Taken(d, all[i]) /\ all[i].timestamp <= e
                               /\ all[i].timestamp \in Nat
  <2> SUFFICES ASSUME NEW i \in 1..(Len(q) + 1)
               PROVE  Taken(d, all[i]) /\ all[i].timestamp <= e /\ all[i].timestamp \in Nat
    BY <1>4
  <2>1. CASE i = Len(q) + 1
    BY <2>1, <1>1, <1>4
  <2>2. CASE i # Len(q) + 1
    <3>1. i \in 1..Len(q) /\ all[i] = q[i]
      BY <2>2, <1>3, <1>4
    <3>2. /\ Taken(d, q[i])
          /\ q[i].timestamp <= latest
          /\ q[i].timestamp \in Nat
      BY <3>1, <1>3
    <3>3. q[i].timestamp <= e
      BY <3>2 DEF MinInterval
    <3> QED BY <3>1, <3>2, <3>3
  <2> QED BY <2>1, <2>2
<1>6. \A i \in 1..(Len(all) - 1) :
         all[i + 1].timestamp - all[i].timestamp >= MinInterval
  <2> SUFFICES ASSUME NEW i \in 1..Len(q)
               PROVE  all[i + 1].timestamp - all[i].timestamp >= MinInterval
    BY <1>3, <1>4
  <2>1. CASE i = Len(q)
    BY <2>1, <1>1, <1>3, <1>4 DEF MinInterval
  <2>2. CASE i < Len(q)
    <3>1. i \in 1..(Len(q) - 1) /\ i + 1 \in 1..Len(q)
      BY <2>2, <1>3
    <3> QED BY <3>1, <1>3, <1>4
  <2> QED BY <2>1, <2>2, <1>3
<1>7. CASE Len(q) = MaxSamples
  <2>1. /\ p = Tail(all)
        /\ p \in Seq(SampleRecord)
        /\ Len(p) = Len(q)
        /\ \A i \in 1..Len(p) : p[i] = all[i + 1]
    BY <1>2, <1>3, <1>4, <1>7, MaxSamplesAssumption
  <2>2. \A i \in 1..Len(p) : i + 1 \in 1..Len(all)
    BY <2>1, <1>3, <1>4
  <2>3. \A i \in 1..(Len(p) - 1) : i + 1 \in 1..Len(p) /\ i + 1 \in 1..(Len(all) - 1)
    BY <2>1, <1>3, <1>4
  <2>4. Curve(d, p, e)
    BY <2>1, <2>2, <2>3, <1>3, <1>5, <1>6, <1>7 DEF Curve
  <2>5. \A i \in 1..Len(p) : p[i] = IF i = Len(q) THEN s ELSE q[i + 1]
    BY <2>1, <1>3, <1>4
  <2> QED
    BY <2>1, <2>4, <2>5, <1>7 DEF s, p
<1>8. CASE Len(q) # MaxSamples
  <2>1. p = all
    BY <1>2, <1>3, <1>4, <1>8, MaxSamplesAssumption
  <2>2. Curve(d, p, e)
    BY <2>1, <1>3, <1>4, <1>5, <1>6, <1>8, MaxSamplesAssumption DEF Curve
  <2>3. \A i \in 1..Len(p) : p[i] = IF i = Len(q) + 1 THEN s ELSE q[i]
    BY <2>1, <1>3, <1>4
  <2> QED
    BY <2>1, <2>2, <2>3, <1>4, <1>8 DEF s, p
<1> QED
  BY <1>7, <1>8
(* Both curves lose their oldest sample at once, so that they stay in step. *)
LEMMA PushKeepsTimes ==
    ASSUME NEW a, NEW b, NEW latest \in Int, NEW e \in Nat,
           Curve(0, a, latest), Curve(1, b, latest), SameTimes(a, b),
           e - latest >= MinInterval
    PROVE  SameTimes(Push(a, Sample(0, e)), Push(b, Sample(1, e)))
<1> DEFINE p == Push(a, Sample(0, e))
           r == Push(b, Sample(1, e))
<1>1. /\ Len(a) \in Nat
      /\ Len(a) = Len(b)
      /\ \A i \in 1..Len(a) : a[i].timestamp = b[i].timestamp
  BY DEF SameTimes, Curve
<1>2. Sample(0, e).timestamp = Sample(1, e).timestamp
  BY SampleIsRecord
<1>3. /\ Len(p) = IF Len(a) = MaxSamples THEN Len(a) ELSE Len(a) + 1
      /\ \A i \in 1..Len(p) :
            p[i] = IF Len(a) = MaxSamples
                   THEN IF i = Len(a) THEN Sample(0, e) ELSE a[i + 1]
                   ELSE IF i = Len(a) + 1 THEN Sample(0, e) ELSE a[i]
  BY PushKeepsCurve
<1>4. /\ Len(r) = IF Len(b) = MaxSamples THEN Len(b) ELSE Len(b) + 1
      /\ \A i \in 1..Len(r) :
            r[i] = IF Len(b) = MaxSamples
                   THEN IF i = Len(b) THEN Sample(1, e) ELSE b[i + 1]
                   ELSE IF i = Len(b) + 1 THEN Sample(1, e) ELSE b[i]
  BY PushKeepsCurve
<1> HIDE DEF p, r
<1>5. Len(p) = Len(r) /\ Len(p) \in Nat
  BY <1>1, <1>3, <1>4
<1>6. ASSUME NEW i \in 1..Len(p) PROVE p[i].timestamp = r[i].timestamp
  <2>1. CASE Len(a) = MaxSamples
    <3>1. i = Len(a) \/ i + 1 \in 1..Len(a)
      BY <1>1, <1>3, <2>1
    <3> QED BY <3>1, <1>1, <1>2, <1>3, <1>4, <1>5, <2>1
  <2>2. CASE Len(a) # MaxSamples
    <3>1. i = Len(a) + 1 \/ i \in 1..Len(a)
      BY <1>1, <1>3, <2>2
    <3> QED BY <3>1, <1>1, <1>2, <1>3, <1>4, <1>5, <2>2
  <2> QED BY <2>1, <2>2
<1> QED
  BY <1>5, <1>6 DEF SameTimes, p, r

LEMMA CurveLater ==
    ASSUME NEW d, NEW q, NEW t \in Int, NEW u \in Int, t <= u, Curve(d, q, t)
    PROVE  Curve(d, q, u)
<1>1. ASSUME NEW i \in 1..Len(q) PROVE q[i].timestamp <= u
  <2>1. q[i].timestamp \in Nat /\ q[i].timestamp <= t
    BY DEF Curve, Taken
  <2> QED BY <2>1
<1> QED
  BY <1>1 DEF Curve
----------------------------------------------------------------------------
LEMMA StreamInitHolds == StreamInit => StreamIInv
<1> SUFFICES ASSUME StreamInit PROVE StreamIInv
  OBVIOUS
<1>1. Samples(0) = <<>> /\ Samples(1) = <<>>
  BY DEF StreamInit, Samples
<1>2. Curve(0, <<>>, Elapsed) /\ Curve(1, <<>>, Elapsed)
  BY MaxSamplesAssumption DEF Curve
<1>3. SameTimes(<<>>, <<>>)
  BY DEF SameTimes
<1> QED
  BY <1>1, <1>2, <1>3 DEF StreamIInv, StreamInit, Clock, NotYet, Curves

(* Update reads the clock: the curves keep to the time that has gone by. *)
LEMMA NoSampleHolds ==
    ASSUME StreamIInv, NEW at \in Nat, at >= last_time_,
           StreamBegin(at), last_time_' \in {at, LastTime(at)},
           UNCHANGED driver_samples_
    PROVE  StreamIInv'
<1>1. /\ start_time_ \in Nat /\ last_time_ \in Nat /\ start_time_ <= last_time_
      /\ start_time_' = IF start_time_ = 0 THEN at ELSE start_time_
      /\ last_time_' = at \/ (start_time_ # 0 /\ last_time_' = last_time_)
  BY DEF StreamIInv, Clock, StreamBegin, StartTime, LastTime, FirstUpdate
<1>2. Clock'
  BY <1>1 DEF Clock
<1>3. NotYet'
  BY <1>1 DEF StreamIInv, NotYet
<1>4. Curves'
  <2>1. Samples(0)' = Samples(0) /\ Samples(1)' = Samples(1)
    BY DEF Samples
  <2>2. CASE start_time_ = 0
    <3>1. Samples(0) = <<>> /\ Samples(1) = <<>>
      BY <2>2 DEF StreamIInv, NotYet, Samples
    <3>2. Curve(0, <<>>, Elapsed') /\ Curve(1, <<>>, Elapsed') /\ SameTimes(<<>>, <<>>)
      BY MaxSamplesAssumption DEF Curve, SameTimes
    <3> QED BY <2>1, <3>1, <3>2 DEF Curves
  <2>3. CASE start_time_ # 0
    <3>1. Elapsed \in Int /\ Elapsed' \in Int /\ Elapsed <= Elapsed'
      <4>1. last_time_' \in Nat /\ last_time_ <= last_time_' /\ start_time_' = start_time_
        BY <1>1, <2>3
      <4>2. last_time_ \in Nat /\ start_time_ \in Nat
        BY <1>1
      <4>3. \A l, m, z \in Nat : l <= m => l - z \in Int /\ m - z \in Int /\ l - z <= m - z
        OBVIOUS
      <4>4. /\ last_time_ - start_time_ \in Int
            /\ last_time_' - start_time_ \in Int
            /\ last_time_ - start_time_ <= last_time_' - start_time_
        BY <4>1, <4>2, <4>3
      <4>5. Elapsed = last_time_ - start_time_ /\ Elapsed' = last_time_' - start_time_
        BY <4>1 DEF Elapsed
      <4> QED BY <4>4, <4>5
    <3>2. Curve(0, Samples(0), Elapsed) /\ Curve(1, Samples(1), Elapsed)
          /\ SameTimes(Samples(0), Samples(1))
      BY DEF StreamIInv, Curves
    <3>3. Curve(0, Samples(0), Elapsed') /\ Curve(1, Samples(1), Elapsed')
      BY <3>1, <3>2, CurveLater
    <3> QED BY <2>1, <3>2, <3>3 DEF Curves
  <2> QED BY <2>2, <2>3
<1> QED
  BY <1>2, <1>3, <1>4 DEF StreamIInv

LEMMA SampleHolds ==
    ASSUME StreamIInv, NEW at \in Nat, at >= last_time_, UpdateSample(at)
    PROVE  StreamIInv'
<1>1. /\ start_time_ \in Nat /\ last_time_ \in Nat /\ start_time_ <= last_time_
      /\ start_time_ # 0
      /\ start_time_' = start_time_
      /\ last_time_' = at
      /\ at - last_time_ >= MinInterval
  <2>1. start_time_ \in Nat /\ last_time_ \in Nat /\ start_time_ <= last_time_
    BY DEF StreamIInv, Clock
  <2>2. /\ at - LastTime(at) >= MinInterval
        /\ start_time_' = StartTime(at)
        /\ last_time_' = at
    BY DEF UpdateSample, Due, StreamBegin
  <2>3. start_time_ # 0
    BY <2>2 DEF LastTime, FirstUpdate, MinInterval
  <2> QED
    BY <2>1, <2>2, <2>3 DEF StartTime, LastTime, FirstUpdate
<1> DEFINE e == at - start_time_
<1>2. /\ e \in Nat
      /\ Elapsed \in Int
      /\ Elapsed' = e
      /\ e - Elapsed >= MinInterval
  BY <1>1 DEF Elapsed, MinInterval
<1>3. /\ Samples(0)' = Push(Samples(0), Sample(0, e))
      /\ Samples(1)' = Push(Samples(1), Sample(1, e))
  <2>1. driver_samples_' = [d \in {0, 1} |-> Push(Samples(d), Sample(d, e))]
    BY <1>1 DEF UpdateSample, StartTime, FirstUpdate
  <2> HIDE DEF e
  <2> QED BY <2>1 DEF Samples
<1> HIDE DEF e
<1>4. Curve(0, Samples(0), Elapsed) /\ Curve(1, Samples(1), Elapsed)
      /\ SameTimes(Samples(0), Samples(1))
  BY DEF StreamIInv, Curves
<1>5. Curve(0, Samples(0)', e) /\ Curve(1, Samples(1)', e)
  BY <1>2, <1>3, <1>4, PushKeepsCurve
<1>6. SameTimes(Samples(0)', Samples(1)')
  BY <1>2, <1>3, <1>4, PushKeepsTimes
<1>7. Curves'
  BY <1>2, <1>5, <1>6 DEF Curves
<1>8. Clock' /\ NotYet'
  BY <1>1 DEF Clock, NotYet, MinInterval
<1> QED
  BY <1>7, <1>8 DEF StreamIInv

LEMMA StreamNextHolds == StreamIInv /\ [StreamNext]_streamVars => StreamIInv'
<1> SUFFICES ASSUME StreamIInv, [StreamNext]_streamVars PROVE StreamIInv'
  OBVIOUS
<1>1. ASSUME NEW at \in Nat, at >= last_time_, StreamUpdate(at) PROVE StreamIInv'
  <2>1. CASE UpdatePaused(at)
    BY <1>1, <2>1, NoSampleHolds DEF UpdatePaused
  <2>2. CASE UpdateEarly(at)
    BY <1>1, <2>2, NoSampleHolds DEF UpdateEarly
  <2>3. CASE UpdateSample(at)
    BY <1>1, <2>3, SampleHolds
  <2> QED BY <1>1, <2>1, <2>2, <2>3 DEF StreamUpdate
<1>2. CASE UNCHANGED <<start_time_, last_time_, driver_samples_>>
  BY <1>2 DEF StreamIInv, Clock, NotYet, Curves, Samples, Elapsed
<1> QED
  BY <1>1, <1>2 DEF StreamNext, SetMode, TogglePlayback, streamVars

(* The two drivers' curves have the same times, in order and MinInterval
   apart, and the second driver is half a second behind at each of them,
   whatever the frame rate, through pauses and past the limit of the deque. *)
THEOREM CurvesStayComparable == StreamSpec => []CurvesComparable
<1>1. StreamIInv => CurvesComparable
  <2> SUFFICES ASSUME StreamIInv PROVE CurvesComparable
    OBVIOUS
  <2> DEFINE a == Samples(0)
             b == Samples(1)
  <2>1. Curve(0, a, Elapsed) /\ Curve(1, b, Elapsed) /\ SameTimes(a, b)
    BY DEF StreamIInv, Curves
  <2> HIDE DEF a, b
  <2>2. ASSUME NEW i \in DOMAIN a
        PROVE  /\ a[i].timestamp = b[i].timestamp
               /\ RacePosition(a[i]) - RacePosition(b[i]) = 500 * Speed
               /\ i > 1 => a[i].timestamp - a[i - 1].timestamp >= MinInterval
    <3>1. i \in 1..Len(a) /\ i \in 1..Len(b) /\ Len(a) \in Nat
      BY <2>1 DEF Curve, SameTimes
    <3>2. Taken(0, a[i]) /\ Taken(1, b[i]) /\ a[i].timestamp = b[i].timestamp
      BY <2>1, <3>1 DEF Curve, SameTimes
    <3>3. PICK e \in Nat : a[i] = Sample(0, e) /\ b[i] = Sample(1, e)
      BY <3>2 DEF Taken
    <3>4. /\ RacePosition(a[i]) = (e + Phase[0]) * Speed
          /\ RacePosition(b[i]) = (e + Phase[1]) * Speed
      BY <3>3, SampleIsRecord
    <3>5. RacePosition(a[i]) - RacePosition(b[i]) = 500 * Speed
      BY <3>4 DEF Phase, Speed
    <3>6. ASSUME i > 1 PROVE a[i].timestamp - a[i - 1].timestamp >= MinInterval
      <4>1. i - 1 \in 1..(Len(a) - 1) /\ (i - 1) + 1 = i
        BY <3>1, <3>6
      <4> QED BY <2>1, <4>1 DEF Curve
    <3> QED BY <3>2, <3>5, <3>6
  <2>3. Len(a) = Len(b) /\ Len(a) <= MaxSamples
    BY <2>1 DEF Curve, SameTimes
  <2> QED
    BY <2>2, <2>3 DEF CurvesComparable, a, b
<1> QED
  BY StreamInitHolds, StreamNextHolds, <1>1, PTL DEF StreamSpec
----------------------------------------------------------------------------
(* The loop. *)

Queued == [packet : Packet, at : Nat]

BeforeRun == {"poll", "run"}

Phases == {"test", "poll", "run", "update", "render", "swap", "closed"}

(* Types, and that the clock does not go back. *)
Clocked ==
    /\ load \in Loads
    /\ listener \in load.listeners
    /\ phase \in Phases
    /\ frame \in Nat /\ now \in Nat /\ sent \in Nat
    /\ last_time_ \in Nat /\ last_time_ <= now
    /\ game \in DOMAIN Sessions
    /\ queue \in Seq(Queued)
    /\ log \in Seq(Packet)

(* A frame takes one datagram off the socket, so that what waits has a place
   to spare once Run is over. *)
Served ==
    /\ Len(queue) <= QueueSize
    /\ listener = Failed => queue = <<>>
    /\ \A i \in DOMAIN queue :
          frame - queue[i].at <= IF phase \in BeforeRun THEN QueueSize - i
                                 ELSE QueueSize - i - 1

(* Packets are handed to the map in the order of their sessions. *)
Flow ==
    /\ \A i \in DOMAIN log : log[i].session.uid <= Sessions[game].uid
    /\ \A i \in DOMAIN queue : queue[i].packet.session.uid <= Sessions[game].uid
    /\ \A i \in DOMAIN log, j \in DOMAIN queue :
          log[i].session.uid <= queue[j].packet.session.uid
    /\ \A i, j \in DOMAIN queue : i <= j =>
          queue[i].packet.session.uid <= queue[j].packet.session.uid

IInv == Clocked /\ Served /\ Flow

LEMMA Constants ==
    /\ QueueSize \in Nat \ {0}
    /\ 1 \in DOMAIN Sessions
    /\ \A g \in DOMAIN Sessions : Sessions[g] \in [uid : Nat, kind : Nat, track : Nat]
    /\ \A i, j \in DOMAIN Sessions : i <= j => Sessions[i].uid <= Sessions[j].uid
    /\ DOMAIN Sessions = 1..Len(Sessions) /\ Len(Sessions) \in Nat
<1> DEFINE S == [uid : Nat, kind : Nat, track : Nat]
<1>1. Sessions \in Seq(S) /\ Sessions # <<>>
    BY SessionsAssumption
<1> HIDE DEF S
<1>2. /\ DOMAIN Sessions = 1..Len(Sessions) /\ Len(Sessions) \in Nat
      /\ \A g \in DOMAIN Sessions : Sessions[g] \in S
      /\ 1 \in DOMAIN Sessions
    BY <1>1, EmptySeq
<1> QED
    BY <1>2, AppAssumption, SessionsAssumption DEF S

LEMMA InitIInv == Init => IInv
<1> SUFFICES ASSUME Init PROVE IInv
    OBVIOUS
<1>1. queue = <<>> /\ log = <<>> /\ last_time_ = 0
    BY DEF Init, MapInit, StreamInit
<1>2. queue \in Seq(Queued) /\ log \in Seq(Packet)
    <2> HIDE DEF Queued, Packet
    <2> QED
        BY <1>1
<1>3. Clocked
    BY <1>1, <1>2, Constants DEF Init, Clocked, Phases, StartUp
<1>4. Served
    BY <1>1, Constants DEF Served
<1>5. Flow
    BY <1>1 DEF Flow
<1> QED
    BY <1>3, <1>4, <1>5 DEF IInv

(* What is not about the socket. *)
LEMMA ElsewhereIInv ==
    ASSUME IInv,
           LoopTest \/ PollEvents \/ UpdateStream \/ Render \/ RenderMinimised
              \/ SwapBuffers \/ UNCHANGED vars
    PROVE  IInv'
<1> USE Constants
<1>1. UNCHANGED <<mapVars, client, setting>>
    BY DEF LoopTest, PollEvents, UpdateStream, Render, RenderMinimised, SwapBuffers, vars
<1>2. UNCHANGED <<log, queue, sent, game, load, listener>>
    BY <1>1 DEF mapVars, client, setting
<1>3. Flow'
    BY <1>2 DEF IInv, Flow
<1>4. /\ phase \in Phases /\ frame \in Nat /\ now \in Nat
      /\ last_time_ \in Nat /\ last_time_ <= now
    BY DEF IInv, Clocked
<1>5. CASE LoopTest
    <2>1. /\ phase = "test" /\ UNCHANGED <<now, last_time_>>
          /\ \/ phase' = "closed" /\ frame' = frame
             \/ phase' = "poll" /\ frame' = frame + 1
        BY <1>5 DEF LoopTest, streamVars
    <2>2. Clocked'
        BY <1>2, <1>4, <2>1 DEF IInv, Clocked, Phases
    <2>3. Served'
        <3>1. \A i \in DOMAIN queue : queue[i].at \in Int /\ i \in Int
            <4>1. \A q \in Queued : q.at \in Int
                BY DEF Queued
            <4> HIDE DEF Queued
            <4> QED
                BY <4>1 DEF IInv, Clocked
        <3>2. \A i \in DOMAIN queue : frame - queue[i].at <= QueueSize - i - 1
            BY <2>1 DEF IInv, Served, BeforeRun
        <3>3. phase' = "poll" =>
                 \A i \in DOMAIN queue : frame' - queue[i].at <= QueueSize - i
            BY <1>4, <2>1, <3>1, <3>2, SMTT(30)
        <3>4. phase' = "closed" =>
                 \A i \in DOMAIN queue : frame' - queue[i].at <= QueueSize - i - 1
            BY <2>1, <3>2
        <3>5. phase' = "poll" \/ phase' = "closed"
            BY <2>1
        <3> QED
            BY <1>2, <3>3, <3>4, <3>5 DEF IInv, Served, BeforeRun
    <2> QED
        BY <1>3, <2>2, <2>3 DEF IInv
<1>6. CASE PollEvents \/ UpdateStream \/ Render \/ RenderMinimised \/ SwapBuffers
              \/ UNCHANGED vars
    <2>1. /\ frame' = frame /\ phase' \in Phases
          /\ phase' \in BeforeRun <=> phase \in BeforeRun
        BY <1>4, <1>6 DEF PollEvents, UpdateStream, Render, RenderMinimised, SwapBuffers,
           vars, window, BeforeRun, Phases
    <2>2. now' \in Nat /\ last_time_' \in Nat /\ last_time_' <= now'
        <3>1. CASE PollEvents \/ Render \/ RenderMinimised \/ UNCHANGED vars
            BY <1>4, <3>1 DEF PollEvents, Render, RenderMinimised, vars, window,
               streamVars, SetMode, TogglePlayback
        <3>2. CASE UpdateStream
            <4>1. now' = now /\ last_time_' \in {now, last_time_}
                BY <3>2 DEF UpdateStream, StreamUpdate, UpdatePaused, UpdateEarly,
                   UpdateSample, LastTime, window
            <4> QED
                BY <1>4, <4>1
        <3>3. CASE SwapBuffers
            <4>1. PICK dt \in load.intervals : now' = now + dt
                BY <3>3 DEF SwapBuffers
            <4>2. dt \in Nat /\ last_time_' = last_time_
                BY <3>3, LoadsAssumption DEF IInv, Clocked, SwapBuffers, streamVars
            <4> QED
                BY <1>4, <4>1, <4>2
        <3> QED
            BY <1>6, <3>1, <3>2, <3>3
    <2>3. Clocked'
        BY <1>2, <2>1, <2>2 DEF IInv, Clocked
    <2>4. Served'
        BY <1>2, <2>1 DEF IInv, Served
    <2> QED
        BY <1>3, <2>3, <2>4 DEF IInv
<1> QED
    BY <1>5, <1>6

LEMMA Lengths ==
    /\ DOMAIN Layout!WireSize = DOMAIN Layout!StructSize
    /\ \A t \in DOMAIN Layout!StructSize : Layout!WireSize[t] \in Nat
    /\ Unknown \notin DOMAIN Layout!StructSize
    BY DEF Layout!WireSize, Layout!StructSize, Unknown

(* What the game sends is a packet of its current session. *)
LEMMA Datagram ==
    ASSUME IInv, Arrive
    PROVE  /\ game' \in DOMAIN Sessions /\ game <= game' /\ sent' \in Nat
           /\ \E p \in Packet :
                 /\ p.session = Sessions[game']
                 /\ queue' = IF Len(queue) < QueueSize
                             THEN Append(queue, [packet |-> p, at |-> frame])
                             ELSE queue
<1>1. game' \in DOMAIN Sessions /\ game <= game'
    <2>1. game' \in {g \in {game, game + 1} : g <= Len(Sessions)}
        BY DEF Arrive
    <2>2. game \in DOMAIN Sessions
        BY DEF IInv, Clocked
    <2> QED
        BY <2>1, <2>2, Constants
<1>2. sent' \in Nat
    BY DEF Arrive, IInv, Clocked
<1>3. PICK t \in load.types, c \in load.cars :
         \E p \in {[type |-> t, session |-> Sessions[game'], car |-> c, no |-> sent',
                    len |-> IF t \in DOMAIN Layout!WireSize
                            THEN Layout!WireSize[t] ELSE 0]} :
            queue' = IF Len(queue) < QueueSize
                     THEN Append(queue, [packet |-> p, at |-> frame])
                     ELSE queue
    BY DEF Arrive
<1>4. t \in DOMAIN Layout!StructSize \cup {Unknown} /\ c \in Nat
    BY LoadsAssumption DEF IInv, Clocked
<1> DEFINE n == IF t \in DOMAIN Layout!WireSize THEN Layout!WireSize[t] ELSE 0
           p == [type |-> t, session |-> Sessions[game'], car |-> c, no |-> sent', len |-> n]
<1>5. n \in Nat /\ (t # Unknown => n = Layout!WireSize[t])
    BY <1>4, Lengths
<1>6. Sessions[game'] \in [uid : Nat, kind : Nat, track : Nat]
    BY <1>1, Constants
<1>7. queue' = IF Len(queue) < QueueSize
               THEN Append(queue, [packet |-> p, at |-> frame]) ELSE queue
    BY <1>3
<1> HIDE DEF n
<1>8. p \in Packet /\ p.session = Sessions[game']
    BY <1>2, <1>4, <1>5, <1>6 DEF Packet
<1> QED
    BY <1>1, <1>2, <1>7, <1>8

LEMMA ArriveIInv == ASSUME IInv, Arrive PROVE IInv'
<1> USE Constants
<1>1. PICK p \in Packet :
         /\ p.session = Sessions[game']
         /\ queue' = IF Len(queue) < QueueSize
                     THEN Append(queue, [packet |-> p, at |-> frame])
                     ELSE queue
    BY Datagram
<1>2. game' \in DOMAIN Sessions /\ game <= game' /\ sent' \in Nat
    BY Datagram
<1>3. /\ UNCHANGED <<log, last_time_, phase, frame, now, load, listener>>
      /\ phase = "run" /\ listener # Failed
    BY DEF Arrive, mapVars, streamVars, window, setting
<1>4. /\ queue \in Seq(Queued) /\ Len(queue) \in Nat /\ DOMAIN queue = 1..Len(queue)
      /\ frame \in Nat /\ game \in DOMAIN Sessions
    <2>1. queue \in Seq(Queued) /\ frame \in Nat /\ game \in DOMAIN Sessions
        BY DEF IInv, Clocked
    <2> HIDE DEF Queued
    <2> QED
        BY <2>1
<1> DEFINE e == [packet |-> p, at |-> frame]
<1>5. e \in Queued /\ e.packet = p /\ e.at = frame
    BY <1>4 DEF Queued
<1>6. Sessions[game].uid <= p.session.uid /\ p.session.uid \in Nat
      /\ Sessions[game].uid \in Nat
    BY <1>1, <1>2, <1>4
<1>7. \A i \in DOMAIN queue : queue[i].packet.session.uid \in Nat
    <2>1. \A q \in Queued : q.packet \in Packet
        BY DEF Queued
    <2>2. \A q \in Packet : q.session.uid \in Nat
        BY DEF Packet
    <2> HIDE DEF Queued, Packet
    <2> QED
        BY <1>4, <2>1, <2>2
<1>8. \A i \in DOMAIN log : log[i].session.uid \in Nat
    <2>1. \A q \in Packet : q.session.uid \in Nat
        BY DEF Packet
    <2> HIDE DEF Packet
    <2> QED
        BY <2>1 DEF IInv, Clocked
<1> HIDE DEF e
<1>9. CASE queue' = queue
    <2>1. Clocked' /\ Served'
        BY <1>2, <1>3, <1>9 DEF IInv, Clocked, Served
    <2>2. Flow'
        BY <1>1, <1>3, <1>6, <1>7, <1>8, <1>9 DEF IInv, Flow
    <2> QED
        BY <2>1, <2>2 DEF IInv
<1>10. CASE Len(queue) < QueueSize /\ queue' = Append(queue, e)
    <2> DEFINE n == Len(queue) + 1
    <2>1. /\ queue' \in Seq(Queued) /\ Len(queue') = n /\ DOMAIN queue' = 1..n
          /\ queue'[n] = e
          /\ \A i \in 1..n : i # n => i \in DOMAIN queue /\ queue'[i] = queue[i]
        <3> HIDE DEF Queued
        <3> QED
            BY <1>4, <1>5, <1>10
    <2>2. Clocked'
        BY <1>2, <1>3, <2>1 DEF IInv, Clocked
    <2>3. Served'
        <3>1. \A i \in DOMAIN queue : frame - queue[i].at <= QueueSize - i
            BY <1>3 DEF IInv, Served, BeforeRun
        <3>2. frame - e.at = 0 /\ n <= QueueSize
            BY <1>4, <1>5, <1>10
        <3>3. \A i \in DOMAIN queue' : frame - queue'[i].at <= QueueSize - i
            BY <1>4, <2>1, <3>1, <3>2
        <3> QED
            BY <1>3, <2>1, <3>2, <3>3 DEF Served, BeforeRun
    <2>4. e.packet.session = Sessions[game'] /\ Sessions[game'].uid \in Nat
        BY <1>1, <1>5, <1>6
    <2>5. /\ \A i \in DOMAIN queue : queue[i].packet.session.uid <= Sessions[game'].uid
          /\ \A i \in DOMAIN log : log[i].session.uid <= Sessions[game'].uid
        BY <1>1, <1>6, <1>7, <1>8 DEF IInv, Flow
    <2>6. \A i, j \in DOMAIN queue' : i <= j =>
             queue'[i].packet.session.uid <= queue'[j].packet.session.uid
        <3>1. \A i, j \in DOMAIN queue : i <= j =>
                 queue[i].packet.session.uid <= queue[j].packet.session.uid
            BY DEF IInv, Flow
        <3> TAKE i, j \in DOMAIN queue'
        <3>2. CASE i # n /\ j # n
            BY <2>1, <3>1, <3>2
        <3>3. CASE i # n /\ j = n
            BY <2>1, <2>4, <2>5, <3>3
        <3>4. CASE i = n
            <4>1. i <= j => j = n
                BY <1>4, <2>1, <3>4
            <4> QED
                BY <2>1, <2>4, <3>4, <4>1
        <3> QED
            BY <3>2, <3>3, <3>4
    <2>7. Flow'
        <3>1. \A i \in DOMAIN log, j \in DOMAIN queue :
                 log[i].session.uid <= queue[j].packet.session.uid
            BY DEF IInv, Flow
        <3>2. \A i \in DOMAIN queue' : queue'[i].packet.session.uid <= Sessions[game'].uid
            <4>1. \A i \in 1..n : i # n =>
                     queue'[i].packet.session.uid <= Sessions[game'].uid
                BY <2>1, <2>5
            <4>2. queue'[n].packet.session.uid <= Sessions[game'].uid
                BY <2>1, <2>4
            <4> QED
                BY <2>1, <4>1, <4>2
        <3>3. \A i \in DOMAIN log, j \in DOMAIN queue' :
                 log[i].session.uid <= queue'[j].packet.session.uid
            BY <2>1, <2>4, <2>5, <3>1
        <3> QED
            BY <1>3, <2>5, <2>6, <3>2, <3>3 DEF Flow
    <2> QED
        BY <2>2, <2>3, <2>7 DEF IInv
<1> QED
    BY <1>1, <1>9, <1>10 DEF e

(* The datagram that Run takes. *)
LEMMA FirstInLine ==
    ASSUME IInv, Receive
    PROVE  /\ Head(queue).packet \in Packet
           /\ InOrder(Head(queue).packet)
           /\ MapUpdate(Head(queue).packet)
<1>1. queue \in Seq(Queued) /\ queue # <<>>
    BY DEF Receive, IInv, Clocked
<1>2. Head(queue) \in Queued /\ Head(queue) = queue[1] /\ 1 \in DOMAIN queue
    <2> HIDE DEF Queued
    <2> QED
        BY <1>1
<1> QED
    BY <1>2 DEF Receive, InOrder, IInv, Flow, Queued

LEMMA ReceiveIInv == ASSUME IInv, Receive PROVE IInv'
<1> USE Constants
<1>1. /\ UNCHANGED <<last_time_, frame, now, load, listener, game, sent>>
      /\ phase = "run" /\ phase' = "update"
      /\ queue' = Tail(queue) /\ queue # <<>>
      /\ log' = Append(log, Head(queue).packet)
    BY DEF Receive, MapUpdate, streamVars, window, setting
<1>2. Head(queue).packet \in Packet
    BY FirstInLine
<1>3. /\ queue \in Seq(Queued) /\ Len(queue) \in Nat /\ DOMAIN queue = 1..Len(queue)
      /\ log \in Seq(Packet) /\ Len(log) \in Nat /\ DOMAIN log = 1..Len(log)
    <2>1. queue \in Seq(Queued) /\ log \in Seq(Packet)
        BY DEF IInv, Clocked
    <2> HIDE DEF Queued, Packet
    <2> QED
        BY <2>1
<1>4. /\ queue' \in Seq(Queued) /\ Len(queue') = Len(queue) - 1
      /\ DOMAIN queue' = 1..Len(queue')
      /\ \A i \in DOMAIN queue' : i + 1 \in DOMAIN queue /\ queue'[i] = queue[i + 1]
      /\ Head(queue) = queue[1] /\ 1 \in DOMAIN queue
    <2> HIDE DEF Queued
    <2> QED
        BY <1>1, <1>3
<1>5. /\ log' \in Seq(Packet) /\ DOMAIN log' = 1..Len(log) + 1
      /\ log'[Len(log) + 1] = queue[1].packet
      /\ \A i \in DOMAIN log' : i # Len(log) + 1 => i \in DOMAIN log /\ log'[i] = log[i]
    <2> HIDE DEF Packet
    <2> QED
        BY <1>1, <1>2, <1>3, <1>4
<1>6. Clocked'
    BY <1>1, <1>4, <1>5 DEF IInv, Clocked, Phases
<1>7. Served'
    <2>1. \A i \in DOMAIN queue : frame - queue[i].at <= QueueSize - i
        BY <1>1 DEF IInv, Served, BeforeRun
    <2>2. \A i \in DOMAIN queue' : frame - queue'[i].at <= QueueSize - i - 1
        <3> TAKE i \in DOMAIN queue'
        <3>1. frame - queue'[i].at <= QueueSize - (i + 1)
            BY <1>4, <2>1
        <3>2. i \in Int /\ QueueSize - (i + 1) = QueueSize - i - 1
            BY <1>4
        <3> QED
            BY <3>1, <3>2
    <2>3. Len(queue') <= QueueSize
        BY <1>3, <1>4 DEF IInv, Served
    <2>4. listener # Failed
        BY <1>1 DEF IInv, Served
    <2> QED
        BY <1>1, <2>2, <2>3, <2>4 DEF Served, BeforeRun
<1>8. Flow'
    <2>1. /\ \A i \in DOMAIN log' : log'[i].session.uid <= Sessions[game].uid
          /\ \A i \in DOMAIN queue' : queue'[i].packet.session.uid <= Sessions[game].uid
        BY <1>4, <1>5 DEF IInv, Flow
    <2>2. \A i \in DOMAIN log', j \in DOMAIN queue' :
             log'[i].session.uid <= queue'[j].packet.session.uid
        <3> TAKE i \in DOMAIN log', j \in DOMAIN queue'
        <3>1. CASE i = Len(log) + 1
            <4>1. log'[i] = queue[1].packet /\ queue'[j] = queue[j + 1]
                BY <1>4, <1>5, <3>1
            <4>2. 1 \in DOMAIN queue /\ j + 1 \in DOMAIN queue /\ 1 <= j + 1
                BY <1>4
            <4> QED
                BY <4>1, <4>2 DEF IInv, Flow
        <3>2. CASE i # Len(log) + 1
            BY <1>4, <1>5, <3>2 DEF IInv, Flow
        <3> QED
            BY <3>1, <3>2
    <2>3. \A i, j \in DOMAIN queue' : i <= j =>
             queue'[i].packet.session.uid <= queue'[j].packet.session.uid
        <3> TAKE i, j \in DOMAIN queue'
        <3>1. i <= j => i + 1 <= j + 1
            BY <1>4
        <3> QED
            BY <1>4, <3>1 DEF IInv, Flow
    <2> QED
        BY <1>1, <2>1, <2>2, <2>3 DEF Flow
<1> QED
    BY <1>6, <1>7, <1>8 DEF IInv

LEMMA NoDatagramIInv == ASSUME IInv, Timeout \/ RunFails PROVE IInv'
<1> USE Constants
<1>1. /\ UNCHANGED <<last_time_, frame, load, listener, game, sent, queue>>
      /\ queue = <<>>
      /\ phase' = "update"
    BY DEF Timeout, RunFails, streamVars, window, client, setting, IInv, Served
<1>2. now' \in Nat /\ now <= now'
    <2>1. CASE Timeout
        <3>1. listener \in {"epoll", "select"}
            BY <2>1, LoadsAssumption DEF IInv, Clocked, Timeout, Failed
        <3> QED
            BY <2>1, <3>1 DEF Timeout, WaitTime, IInv, Clocked
    <2>2. CASE RunFails
        BY <2>2 DEF RunFails, window, IInv, Clocked
    <2> QED
        BY <2>1, <2>2
<1>3. log' = log \/ log' = <<>>
    BY DEF Timeout, RunFails, Erase, mapVars
<1>4. log' \in Seq(Packet)
    <2>1. log \in Seq(Packet)
        BY DEF IInv, Clocked
    <2>2. <<>> \in Seq(Packet)
        <3> HIDE DEF Packet
        <3> QED
            OBVIOUS
    <2> QED
        BY <1>3, <2>1, <2>2
<1>5. Clocked'
    BY <1>1, <1>2, <1>4 DEF IInv, Clocked, Phases
<1>6. Served'
    BY <1>1 DEF IInv, Served
<1>7. Flow'
    BY <1>1, <1>3 DEF IInv, Flow
<1> QED
    BY <1>5, <1>6, <1>7 DEF IInv

LEMMA StepIInv == IInv /\ [Next]_vars => IInv'
    BY ElsewhereIInv, ArriveIInv, ReceiveIInv, NoDatagramIInv DEF Next, Loop

LEMMA Steps == Spec => Init /\ [][Next]_vars
    BY PTL DEF Spec

LEMMA AlwaysIInv == Spec => []IInv
    BY InitIInv, StepIInv, Steps, PTL

(* A burst is shown late, but no datagram waits longer than its place in the
   socket allows: one is taken in each frame. *)
THEOREM BurstsShownSoon == Spec => []LagBounded
<1>1. IInv => LagBounded
    <2> SUFFICES ASSUME IInv, NEW i \in DOMAIN queue
                 PROVE  frame - queue[i].at <= QueueSize - i
        BY DEF LagBounded
    <2>1. queue[i].at \in Nat /\ frame \in Nat /\ i \in Nat
        <3>1. \A q \in Queued : q.at \in Nat
            BY DEF Queued
        <3> HIDE DEF Queued
        <3> QED
            BY <3>1 DEF IInv, Clocked
    <2>2. frame - queue[i].at <= QueueSize - i - 1
             \/ frame - queue[i].at <= QueueSize - i
        BY DEF IInv, Served
    <2> QED
        BY <2>1, <2>2, Constants
<1> QED
    BY <1>1, AlwaysIInv, PTL
----------------------------------------------------------------------------
(* The map and the stream inside the program. *)
LEMMA MapStep == IInv /\ [Next]_vars => [MapNext]_mapVars
<1> SUFFICES ASSUME IInv, [Next]_vars PROVE MapNext \/ UNCHANGED mapVars
    OBVIOUS
<1>1. CASE Receive
    BY <1>1, FirstInLine DEF MapNext
<1>2. CASE Timeout
    BY <1>2 DEF Timeout, MapNext
<1>3. CASE ~Receive /\ ~Timeout
    BY <1>3 DEF Next, Loop, LoopTest, PollEvents, RunFails, UpdateStream, Render,
       RenderMinimised, SwapBuffers, Arrive, vars
<1> QED
    BY <1>1, <1>2, <1>3

(* main()'s loop is a use of the map: it hands over packets in the order of
   their sessions. *)
THEOREM RunsTheMap == Spec => MapSpec
<1>1. Init => MapInit
    BY DEF Init
<1> QED
    BY <1>1, Steps, AlwaysIInv, MapStep, PTL DEF MapSpec

LEMMA StreamStep == IInv /\ [Next]_vars => [StreamNext]_streamVars
<1> SUFFICES ASSUME IInv, [Next]_vars PROVE StreamNext \/ UNCHANGED streamVars
    OBVIOUS
<1>1. CASE UpdateStream
    <2>1. now \in Nat /\ now >= last_time_ /\ StreamUpdate(now)
        BY <1>1 DEF UpdateStream, IInv, Clocked
    <2> QED
        BY <2>1 DEF StreamNext
<1>2. CASE PollEvents
    BY <1>2 DEF PollEvents, StreamNext
<1>3. CASE ~UpdateStream /\ ~PollEvents
    BY <1>3 DEF Next, Loop, LoopTest, Receive, Timeout, RunFails, Render,
       RenderMinimised, SwapBuffers, Arrive, vars
<1> QED
    BY <1>1, <1>2, <1>3

(* main()'s loop is a use of the stream: its times do not go back, whatever
   the waits of Run and of the window. *)
THEOREM RunsTheStream == Spec => StreamSpec
<1>1. Init => StreamInit
    BY DEF Init
<1> QED
    BY <1>1, Steps, AlwaysIInv, StreamStep, PTL DEF StreamSpec

(* In the program, too, the map holds nothing older than its session. *)
THEOREM ProgramForgetsOldSessions == Spec => []NoOldSession
<1>1. MapSpec => []NoOldSession
    BY ForgetsOldSessions
<1> QED
    BY <1>1, RunsTheMap

(* In the program, too, the map is what the session's packets make it, for
   any number of them in any order of types, cars and silences. *)
THEOREM ProgramHoldsTheSession == Spec => []MapIsViewOfLog
<1>1. MapSpec => []MapIsViewOfLog
    BY HoldsTheSession
<1> QED
    BY <1>1, RunsTheMap

(* In the program, too, the two curves can be compared point by point. *)
THEOREM ProgramCurvesComparable == Spec => []CurvesComparable
<1>1. StreamSpec => []CurvesComparable
    BY CurvesStayComparable
<1> QED
    BY <1>1, RunsTheStream
----------------------------------------------------------------------------
(* What the last frame drew. *)
Drawn == Dash!Plots(Samples(0), Samples(1))

(* From a frame's drawing until the next, the samples change in UpdateStream
   alone, and then only if the replay does not stand still. *)
Shown ==
    /\ screen.frame \in Nat
    /\ phase \in {"poll", "run", "update", "render"} => screen.frame < frame
    /\ phase \in {"test", "swap", "closed"} => screen.frame <= frame
    /\ phase \in {"test", "swap"} /\ screen.frame > 0 /\ screen.frame = frame =>
          screen.plots = Drawn
    /\ phase \in {"poll", "run", "update"} /\ screen.frame > 0 /\ screen.frame = frame - 1 =>
          screen.plots = Drawn
    /\ phase = "render" /\ Paused /\ screen.frame > 0 /\ screen.frame = frame - 1 =>
          screen.plots = Drawn

LEMMA OnlyRenderDraws ==
    ASSUME [Next]_vars, ~Render
    PROVE  UNCHANGED screen
    BY DEF Next, Loop, LoopTest, PollEvents, Receive, Timeout, RunFails, UpdateStream,
       RenderMinimised, SwapBuffers, Arrive, Dash!RenderNothing, Dash!vars, dashboard, vars

LEMMA RenderDraws ==
    ASSUME Render
    PROVE  /\ screen'.frame = frame /\ screen'.plots = Drawn
           /\ UNCHANGED <<frame, driver_samples_, mode, is_playing>>
           /\ phase = "render" /\ phase' = "swap"
    BY DEF Render, Dash!Render, Dash!RenderSeek, Dash!Picture, Drawn, streamVars

LEMMA ShownStep == IInv /\ Shown /\ [Next]_vars => Shown'
<1> SUFFICES ASSUME IInv, Shown, [Next]_vars PROVE Shown'
    OBVIOUS
<1>1. frame \in Nat
    BY DEF IInv, Clocked
<1>2. CASE Render
    <2>1. Drawn' = Drawn
        BY <1>2, RenderDraws DEF Drawn, Samples
    <2> QED
        BY <1>1, <1>2, <2>1, RenderDraws DEF Shown
<1>3. CASE LoopTest
    <2>1. /\ UNCHANGED <<screen, driver_samples_>> /\ phase = "test"
          /\ \/ phase' = "closed" /\ frame' = frame
             \/ phase' = "poll" /\ frame' = frame + 1
        BY <1>3 DEF LoopTest, dashboard, streamVars
    <2>2. Drawn' = Drawn
        BY <2>1 DEF Drawn, Samples
    <2> QED
        BY <1>1, <2>1, <2>2 DEF Shown
<1>4. CASE UpdateStream
    <2>1. /\ UNCHANGED <<screen, frame, mode, is_playing>>
          /\ phase = "update" /\ phase' = "render"
          /\ Paused => driver_samples_' = driver_samples_
        BY <1>4 DEF UpdateStream, dashboard, window, StreamUpdate, UpdatePaused,
           UpdateEarly, UpdateSample
    <2>2. Paused' = Paused
        BY <2>1 DEF Paused
    <2>3. Paused => Drawn' = Drawn
        BY <2>1 DEF Drawn, Samples
    <2> QED
        BY <2>1, <2>2, <2>3 DEF Shown
<1>5. CASE PollEvents \/ Receive \/ Timeout \/ RunFails
    <2>1. /\ UNCHANGED <<screen, frame, driver_samples_>>
          /\ phase \in {"poll", "run"} /\ phase' \in {"run", "update"}
        BY <1>5 DEF PollEvents, Receive, Timeout, RunFails, dashboard, window,
           streamVars, SetMode, TogglePlayback
    <2>2. Drawn' = Drawn
        BY <2>1 DEF Drawn, Samples
    <2> QED
        BY <2>1, <2>2 DEF Shown
<1>6. CASE RenderMinimised \/ SwapBuffers
    <2>1. /\ UNCHANGED <<screen, frame, driver_samples_>>
          /\ \/ phase = "render" /\ phase' = "swap"
             \/ phase = "swap" /\ phase' = "test"
        BY <1>6 DEF RenderMinimised, SwapBuffers, Dash!RenderNothing, Dash!vars,
           dashboard, window, streamVars
    <2>2. Drawn' = Drawn
        BY <2>1 DEF Drawn, Samples
    <2> QED
        BY <1>1, <2>1, <2>2 DEF Shown
<1>7. CASE Arrive \/ UNCHANGED vars
    <2>1. UNCHANGED <<screen, frame, driver_samples_, phase, mode, is_playing>>
        BY <1>7 DEF Arrive, vars, dashboard, window, streamVars
    <2>2. Drawn' = Drawn /\ Paused' = Paused
        BY <2>1 DEF Drawn, Samples, Paused
    <2> QED
        BY <2>1, <2>2 DEF Shown
<1> QED
    BY <1>2, <1>3, <1>4, <1>5, <1>6, <1>7 DEF Next, Loop

(* A replay paused at a frame shows the curves of the frame before it. *)
THEOREM PausedStandsStill == Spec => PauseFreezesPicture
<1>1. Init => Shown
    BY DEF Init, Dash!Init, Dash!NotDrawn, Shown
<1>2. Spec => []Shown
    BY <1>1, Steps, AlwaysIInv, ShownStep, PTL
<1>3. IInv /\ Shown /\ [Next]_vars =>
         [mode = "REPLAY" /\ ~is_playing /\ screen'.frame = screen.frame + 1
             /\ screen.frame > 0 => screen'.plots = screen.plots]_screen
    <2> SUFFICES ASSUME IInv, Shown, [Next]_vars, mode = "REPLAY", ~is_playing,
                        screen' # screen, screen'.frame = screen.frame + 1,
                        screen.frame > 0
                 PROVE  screen'.plots = screen.plots
        OBVIOUS
    <2>1. Render
        BY OnlyRenderDraws
    <2>2. screen.frame = frame - 1 /\ screen'.plots = Drawn /\ phase = "render"
        BY <2>1, RenderDraws DEF Shown, IInv, Clocked
    <2> QED
        BY <2>2 DEF Shown, Paused
<1> QED
    BY <1>2, <1>3, Steps, AlwaysIInv, PTL DEF PauseFreezesPicture
----------------------------------------------------------------------------
(* What no other invariant bounds: the window, the controls, and that what
   the map was given belongs to a house. *)
MapHasHouse == log # <<>> => house

Controls ==
    /\ mode \in {"LIVE", "REPLAY"} /\ is_playing \in BOOLEAN
    /\ expanded \in BOOLEAN
    /\ speed_idx \in DOMAIN Dash!Speeds
    /\ seek \in Dash!SeekRange

Window == closing \in BOOLEAN /\ frame <= MaxFrame

BothOrNone == DOMAIN driver_samples_ \in {{}, {0, 1}}

Surface == MapHasHouse /\ Controls /\ Window /\ BothOrNone

LEMMA InitSurface == Init => Surface
<1> SUFFICES ASSUME Init PROVE Surface
    OBVIOUS
<1>1. MapHasHouse
    BY DEF Init, MapInit, MapHasHouse
<1>2. Controls
    <2>1. speed_idx = 1 /\ 1 \in DOMAIN Dash!Speeds /\ seek = 3600
        BY DEF Init, Dash!Init, Dash!Speeds
    <2>2. mode = "LIVE" /\ is_playing = TRUE /\ expanded = FALSE
        BY DEF Init, StreamInit, Dash!Init
    <2>3. seek \in Dash!SeekRange
        BY <2>1 DEF Dash!SeekRange
    <2> QED
        BY <2>1, <2>2, <2>3, Zenon DEF Controls
<1>3. Window
    <2>1. frame <= MaxFrame
        BY AppAssumption DEF Init
    <2> QED
        BY <2>1 DEF Init, Window
<1>4. BothOrNone
    BY DEF Init, StreamInit, BothOrNone
<1> QED
    BY <1>1, <1>2, <1>3, <1>4 DEF Surface

LEMMA HouseStep == MapHasHouse /\ [Next]_vars => MapHasHouse'
<1> SUFFICES ASSUME MapHasHouse, [Next]_vars PROVE MapHasHouse'
    OBVIOUS
<1>1. CASE Receive
    BY <1>1 DEF Receive, MapHasHouse
<1>2. CASE Timeout
    BY <1>2 DEF Timeout, Erase, MapHasHouse
<1>3. CASE ~Receive /\ ~Timeout
    BY <1>3 DEF MapHasHouse, Next, Loop, LoopTest, PollEvents, RunFails, UpdateStream, Render,
       RenderMinimised, SwapBuffers, Arrive, vars, mapVars
<1> QED
    BY <1>1, <1>2, <1>3

LEMMA ControlsStep == Controls /\ [Next]_vars => Controls'
<1> SUFFICES ASSUME Controls, [Next]_vars PROVE Controls'
    OBVIOUS
<1>1. CASE PollEvents
    BY <1>1 DEF PollEvents, SetMode, TogglePlayback, Controls, dashboard, streamVars
<1>2. CASE Render
    BY <1>2 DEF Render, Dash!Render, Dash!RenderSeek, Controls, streamVars
<1>3. CASE UpdateStream
    BY <1>3 DEF UpdateStream, StreamUpdate, UpdatePaused, UpdateEarly, UpdateSample,
       Controls, dashboard
<1>4. CASE ~PollEvents /\ ~Render /\ ~UpdateStream
    BY <1>4 DEF Controls, Next, Loop, LoopTest, Receive, Timeout, RunFails,
       RenderMinimised, SwapBuffers, Arrive, Dash!RenderNothing, Dash!vars,
       vars, dashboard, streamVars
<1> QED
    BY <1>1, <1>2, <1>3, <1>4

LEMMA WindowStep == IInv /\ Window /\ [Next]_vars => Window'
<1> SUFFICES ASSUME IInv, Window, [Next]_vars PROVE Window'
    OBVIOUS
<1>1. frame \in Nat
    BY DEF IInv, Clocked
<1>2. CASE LoopTest
    BY <1>1, <1>2, AppAssumption DEF LoopTest, Window
<1>3. CASE PollEvents
    BY <1>3 DEF PollEvents, Window
<1>4. CASE ~LoopTest /\ ~PollEvents
    BY <1>4 DEF Window, Next, Loop, Receive, Timeout, RunFails, UpdateStream, Render,
       RenderMinimised, SwapBuffers, Arrive, window, vars
<1> QED
    BY <1>2, <1>3, <1>4

LEMMA BothOrNoneStep == BothOrNone /\ [Next]_vars => BothOrNone'
<1> SUFFICES ASSUME BothOrNone, [Next]_vars PROVE BothOrNone'
    OBVIOUS
<1>1. CASE UpdateStream
    BY <1>1 DEF UpdateStream, StreamUpdate, UpdatePaused, UpdateEarly, UpdateSample,
       BothOrNone
<1>2. CASE ~UpdateStream
    BY <1>2 DEF BothOrNone, Next, Loop, LoopTest, PollEvents, Receive, Timeout, RunFails,
       Render, RenderMinimised, SwapBuffers, Arrive, SetMode, TogglePlayback, vars, streamVars
<1> QED
    BY <1>1, <1>2

LEMMA SurfaceStep == IInv /\ Surface /\ [Next]_vars => Surface'
BY HouseStep, ControlsStep, WindowStep, BothOrNoneStep DEF Surface

(* The types of the map, the stream, the dashboard and the loop together. *)
THEOREM TypeCorrect == Spec => []TypeOK
<1>1. Spec => []Surface
    BY InitSurface, Steps, AlwaysIInv, SurfaceStep, PTL
<1>2. MapSpec => []MapIInv
    BY MapInitHolds, MapNextHolds, PTL DEF MapSpec
<1>3. MapSpec => [](Len(events) <= MaxEvents)
    BY EventsBounded
<1>4. StreamSpec => []StreamIInv
    BY StreamInitHolds, StreamNextHolds, PTL DEF StreamSpec
<1>5. IInv /\ Surface /\ MapIInv /\ Len(events) <= MaxEvents /\ StreamIInv => TypeOK
    <2> SUFFICES ASSUME IInv, Surface, MapIInv, Len(events) <= MaxEvents, StreamIInv
                 PROVE  TypeOK
        OBVIOUS
    <2>1. DOMAIN slot = Single /\ DOMAIN perCar = PerCar
        BY DEF MapIInv, Shape
    <2>2. start_time_ <= last_time_
        BY DEF StreamIInv, Clock
    <2>3. frame \in 0..MaxFrame
        BY AppAssumption DEF IInv, Clocked, Surface, Window
    <2>4. /\ last_time_ <= now /\ Len(queue) <= QueueSize
          /\ game \in DOMAIN Sessions /\ listener \in load.listeners
          /\ phase \in Phases
        BY DEF IInv, Clocked, Served
    <2> QED
        BY <2>1, <2>2, <2>3, <2>4
        DEF TypeOK, Surface, MapHasHouse, Controls, Window, BothOrNone, Phases
<1> QED
    BY <1>1, <1>2, <1>3, <1>4, <1>5, AlwaysIInv, RunsTheMap, RunsTheStream, PTL
============================================================================

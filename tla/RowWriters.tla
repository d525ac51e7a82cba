----------------------------- MODULE RowWriters -----------------------------
(***************************************************************************)
(* The ToSQL functions of the F1 2022 packets (src/packet/*.h) and of       *)
(* AllCarInfo (car_info.cpp): the SQL text PacketHouse::Handle hands to the  *)
(* database, from the packets it holds.                                     *)
(*                                                                          *)
(* The text is a sequence of lines.  A statement over several rows is a     *)
(* head ("INSERT INTO T Values") and one line per row, each closed by a      *)
(* comma or a semicolon; the writers put those closing characters one by     *)
(* one, and whether the text is the statements that were meant depends on    *)
(* them.  A "whole" line is a statement of its own.  A line also carries      *)
(* what it asks of the database's dialect: the verb, the clock's function     *)
(* NOW().  Columns no property looks at, names, enum texts and the common     *)
(* key are left out.                                                        *)
(*                                                                          *)
(* A second is what Handle reads: the grid (per car, who drives it), the     *)
(* session's fields, the histories and events collected.                     *)
(***************************************************************************)
EXTENDS Integers, Sequences, FiniteSets, SequencesExt

CONSTANTS
    NumCars,   \* 22: length of the packets' arrays
    LapSlots   \* 100: length of m_lapHistoryData

ASSUME RowWritersAssumption == NumCars \in 1..254 /\ LapSlots \in Nat \ {0}

Cars == 0..(NumCars - 1)

Unset == 255
----------------------------------------------------------------------------
(* Lines. *)

Into(verb, t) ==
    [end |-> "", kind |-> "head", table |-> t, data |-> Unset, asks |-> {verb}]

(* Every row carries NOW(). *)
Row(t, r, c) ==
    [end |-> c, kind |-> "row", table |-> t, data |-> r, asks |-> {"NOW"}]

Whole(asks, t, r) ==
    [end |-> ";", kind |-> "whole", table |-> t, data |-> r, asks |-> asks]

Inserts == {"INSERT", "NOW"}

Replaces == {"REPLACE", "NOW"}

(* Faulty: the comma stays. *)
TerminateNever(text) == text

(* sql[sql.size() - 2] = ';': the character before the last newline.  It is
   the comma of the last row, or, of a head without rows, the s of "Values". *)
Terminate(text) ==
    LET n == Len(text)
    IN  IF text[n].kind = "row"
        THEN [text EXCEPT ![n].end = ";"]
        ELSE [text EXCEPT ![n] = [@ EXCEPT !.kind = "spoilt", !.end = ";"]]

----------------------------------------------------------------------------
(* What the writers ask of the session and the participants. *)

IsRace(s) == s.type = "race"

IsTTMode(s) == s.type = "time_trial"

HaveRealUserName(s) == s.network \/ s.timeTrialMode

(* "ai_local": driven by the computer, with network id 255. *)
DriverNum(s) ==
    Cardinality({i \in Cars : /\ s.grid[i] # "empty"
                              /\ ~ (s.network /\ s.grid[i] = "ai_local")})

SkipTTNonexistedParticipant(s, i) ==
    IsTTMode(s) /\ i \notin {0, s.pb, s.rival}

(* The places of an array at which a loop does something, as it comes to them. *)
InOrder(places) ==
    CHOOSE q \in [1..Cardinality(places) -> places] :
        \A j, k \in DOMAIN q : j < k => q[j] < q[k]

(* A row for each of the places, the last closed by a semicolon. *)
PerCarToSQL(verb, t, places) ==
    LET cars == InOrder(places)
    IN  Terminate(<<Into(verb, t)>> \o [k \in DOMAIN cars |-> Row(t, cars[k], ",")])

(* The cars a loop "i < driver_num" writes. *)
WrittenCars(s) ==
    {i \in 0..(DriverNum(s) - 1) : ~ SkipTTNonexistedParticipant(s, i)}
----------------------------------------------------------------------------
(* PacketSessionData: one SessionData row, then two tables whose last row
   gets the semicolon.  Only the first of them asks whether it has rows. *)

(* Rows 1..n, the n-th closed by a semicolon. *)
ClosedRows(t, n) ==
    [i \in 1..n |-> Row(t, i, IF i = n THEN ";" ELSE ",")]

SessionToSQL(s) ==
    <<Whole(Inserts, "SessionData", s.zones)>>
      \o (IF s.samples > 0 THEN <<Into("INSERT", "WeatherForecast")>> ELSE <<>>)
      \o ClosedRows("WeatherForecast", s.samples)
      \o <<Into("INSERT", "MarshalZones")>>
      \o ClosedRows("MarshalZones", s.zones)

(* PacketParticipantsData: a row per place with a team, whoever DriverNum
   counts; then the player's name, to IpList only if it is a real one. *)
ParticipantsToSQL(s) ==
    LET named == s.player < NumCars
    IN  PerCarToSQL("REPLACE", "Participants", {i \in Cars : s.grid[i] # "empty"})
          \o <<Whole({"UPDATE"}, "SessionList", IF named THEN s.player ELSE Unset),
               Whole({"UPDATE", "NOW"}, "IpList",
                     IF named /\ HaveRealUserName(s) THEN s.player ELSE Unset)>>

(* A car without a position is not on the map. *)
CarMotionToSQL(s) ==
    PerCarToSQL("INSERT", "CarMotion", s.placed \cap WrittenCars(s))

LapDataToSQL(s) == PerCarToSQL("INSERT", "LapData", WrittenCars(s))

CarTelemetryToSQL(s) == PerCarToSQL("INSERT", "CarTelemetry", WrittenCars(s))

CarStatusToSQL(s) == PerCarToSQL("INSERT", "CarStatus", WrittenCars(s))

CarDamageToSQL(s) == PerCarToSQL("INSERT", "CarDamage", WrittenCars(s))

(* AllCarInfo: the gaps, the focused car if there is one, and the snapshots
   of the cars that have some; the time trial's absent cars are not skipped
   in the last. *)
CarInfoToSQL(s) ==
    LET detailed == s.snapshots \cap 0..(DriverNum(s) - 1)
    IN  PerCarToSQL("INSERT", "CarDiff", WrittenCars(s))
          \o (IF s.focus # Unset THEN <<Whole(Inserts, "CarFocus", s.focus)>> ELSE <<>>)
          \o (IF detailed # {} THEN PerCarToSQL("REPLACE", "LapDetails", detailed) ELSE <<>>)
----------------------------------------------------------------------------
(* PacketSessionHistoryData. *)

(* Faulty: the count of laps goes on over a change. *)
TyresUpToNoReset(h) ==
    LET f[n \in 0..h.numLaps] ==
          IF n = 0 THEN [stint |-> 1, used |-> 0]
          ELSE [stint |-> IF n > h.endLap[f[n - 1].stint]
                          THEN f[n - 1].stint + 1 ELSE f[n - 1].stint,
                used |-> f[n - 1].used + 1]
    IN  f

(* The stint (from 1) and tyre_lap_num_used after the first n laps: the stint
   moves on by at most one per lap, and its first lap counts as 0. *)
TyresUpTo(h) ==
    LET f[n \in 0..h.numLaps] ==
          IF n = 0 THEN [stint |-> 1, used |-> 0]
          ELSE LET before == f[n - 1]
               IN  IF n > h.endLap[before.stint]
                   THEN [stint |-> before.stint + 1, used |-> 0]
                   ELSE [stint |-> before.stint, used |-> before.used + 1]
    IN  f

NoLap == [sector1 |-> 0, sector2 |-> 0, sector3 |-> 0, time |-> 0]

LapOrNone(h, lap) == IF 0 < lap /\ lap < LapSlots THEN h.laps[lap] ELSE NoLap

BestLap(h) ==
    LET s1 == LapOrNone(h, h.bestSector1LapNum).sector1
        s2 == LapOrNone(h, h.bestSector2LapNum).sector2
        s3 == LapOrNone(h, h.bestSector3LapNum).sector3
    IN  [car |-> h.carIdx,
         best |-> LapOrNone(h, h.bestLapTimeLapNum).time,
         theoretical |-> IF s1 > 0 /\ s2 > 0 /\ s3 > 0 THEN s1 + s2 + s3 ELSE 0]

SessionHistoryToSQL(s, h) ==
    IF SkipTTNonexistedParticipant(s, h.carIdx) THEN <<>>
    ELSE LET tyres == TyresUpTo(h)
         IN  <<Into("REPLACE", "LapHistoryData")>>
               \o [n \in 1..h.numLaps |->
                     Row("LapHistoryData",
                         [car |-> h.carIdx, lap |-> n, stint |-> tyres[n].stint,
                          used |-> tyres[n].used],
                         IF n = h.numLaps THEN ";" ELSE ",")]
               \o <<Whole(Inserts, "BestLap", BestLap(h))>>
----------------------------------------------------------------------------
(* TimeFormat of a time in ms: minutes, seconds and milliseconds; the text of
   zero is empty.  (The race's times are doubles in seconds in the code;
   their rounding to ms is left out.) *)
TimeText(ms) ==
    IF ms = 0 THEN <<>>
    ELSE LET seconds == ms \div 1000
         IN  <<seconds \div 60, seconds % 60, ms % 1000>>

Result(kind, text) == [kind |-> kind, text |-> text]

ToOverallResult(race, p, first) ==
    IF race
    THEN IF p.position = 1 THEN Result("time", TimeText(p.total))
         ELSE IF p.status # "finished" THEN Result("DNF", <<>>)
         ELSE IF first.laps = p.laps
         THEN Result("gap", TimeText(p.total + p.penalties - first.total))
         ELSE Result("laps", <<first.laps - p.laps>>)
    ELSE IF p.position = 1 THEN Result("time", TimeText(p.best))
         ELSE IF p.best > 0
         THEN Result("gap", TimeText(p.best - first.best))
         ELSE Result("NO TIME", <<>>)

(* The first car at position 1 is the leader.  There is one: with none the
   code follows a null pointer, and the packets this module is given have it. *)
FinalClassificationToSQL(c) ==
    LET first == c.cars[InOrder({k \in DOMAIN c.cars : c.cars[k].position = 1})[1]]
        classified == InOrder({k \in DOMAIN c.cars :
                                  c.cars[k].status # "not_classified"})
    IN  [k \in DOMAIN classified |->
           LET p == c.cars[classified[k]]
           IN  Whole(Replaces, "FinalClassification",
                     [position |-> p.position,
                      result |-> ToOverallResult(IsRace(c), p, first)])]

(* PacketLobbyInfoData: a statement per player. *)
LobbyInfoToSQL(players) == [i \in 1..players |-> Whole(Replaces, "LobbyInfo", i)]

(* PacketHeader: the session's SessionList row. *)
HeaderToSQL == <<Whole(Inserts, "SessionList", Unset)>>

(* PacketEventData: penalties have a table of their own; a button and a code
   the writer does not know write nothing. *)
EventCodes ==
    {"SSTA", "SEND", "FTLP", "RTMT", "DRSE", "DRSD", "TMPT", "CHQF", "RCWN",
     "SPTP", "STLG", "LGOT", "DTSV", "SGSV", "FLBK"}

EventToSQL(code) ==
    IF code = "PENA" THEN <<Whole(Inserts, "PenaltyUpdate", code)>>
    ELSE IF code \in EventCodes THEN <<Whole(Inserts, "EventUpdate", code)>>
    ELSE <<>>
(* Server::UnPacketAndSendToDB: a new client's row, with the empty text
   GetIpInfo returns for the JSON column ipComeFrom. *)
ClientToSQL ==
    <<Whole({"INSERT", "NOW", "ON DUPLICATE KEY", "EMPTY JSON"}, "IpList", Unset)>>
----------------------------------------------------------------------------
(* PacketHouse::Handle, the once-a-second part: everything into one text. *)
SecondToSQL(s) ==
    FlattenSeq([k \in DOMAIN s.histories |-> SessionHistoryToSQL(s, s.histories[k])])
      \o FlattenSeq([k \in DOMAIN s.events |-> EventToSQL(s.events[k])])
      \o (IF s.enough
          THEN SessionToSQL(s) \o ParticipantsToSQL(s) \o CarMotionToSQL(s)
                 \o LapDataToSQL(s) \o CarTelemetryToSQL(s) \o CarStatusToSQL(s)
                 \o CarDamageToSQL(s) \o CarInfoToSQL(s)
          ELSE <<>>)
=============================================================================

--------------------------- MODULE PacketLayout ---------------------------
(***************************************************************************)
(* How many bytes of a datagram each packed struct of                       *)
(* src/packet/f1-2025/packet.h reads (#pragma pack(push, 1): no padding).   *)
(* A struct is the count of its 1, 2, 4 and 8 byte fields; WireSize is the  *)
(* length of the datagrams the game sends, as the comment over each packet  *)
(* gives it.                                                                *)
(***************************************************************************)
EXTENDS Integers

Bytes(ones, twos, fours, eights) == ones + 2 * twos + 4 * fours + 8 * eights

Most(S) == CHOOSE n \in S : \A m \in S : m <= n

Cars == 22              \* cs_maxNumCarsInUDPData

Header == Bytes(7, 1, 3, 1)

Motion == Header + Cars * Bytes(0, 6, 12, 0)

MarshalZone == Bytes(1, 0, 1, 0)

WeatherForecastSample == Bytes(8, 0, 0, 0)

Session ==
    Header + Bytes(77, 3, 6, 0) + 21 * MarshalZone + 64 * WeatherForecastSample

LapData == Header + Cars * Bytes(21, 6, 6, 0) + Bytes(2, 0, 0, 0)

(* Members with the same fields are listed once. *)
EventDetails ==
    Most({Bytes(1, 0, 1, 0),    \* FastestLap, StopGoPenaltyServed
          Bytes(2, 0, 0, 0),    \* Retirement, Overtake, SafetyCar, Collision
          Bytes(1, 0, 0, 0),    \* DRSDisabled, TeamMateInPits, RaceWinner, ...
          Bytes(7, 0, 0, 0),    \* Penalty
          Bytes(4, 0, 2, 0),    \* SpeedTrap
          Bytes(0, 0, 2, 0),    \* Flashback
          Bytes(0, 0, 1, 0)})   \* Buttons

Event == Header + Bytes(4, 0, 0, 0) + EventDetails

LiveryColours == 4 * Bytes(3, 0, 0, 0)

Participants == Header + 1 + Cars * (Bytes(7 + 32 + 4, 1, 0, 0) + LiveryColours)

CarSetups == Header + Cars * Bytes(14, 0, 9, 0) + Bytes(0, 0, 1, 0)

(* Faulty: the surface types were given two bytes each. *)
CarTelemetryWide == Header + Cars * Bytes(12, 12, 7, 0) + Bytes(3, 0, 0, 0)

CarTelemetry == Header + Cars * Bytes(16, 8, 7, 0) + Bytes(3, 0, 0, 0)

CarStatus == Header + Cars * Bytes(13, 3, 9, 0)

FinalClassification == Header + 1 + Cars * Bytes(34, 0, 1, 1)

LobbyInfo == Header + 1 + Cars * Bytes(40, 1, 0, 0)

CarDamage == Header + Cars * Bytes(30, 0, 4, 0)

SessionHistory ==
    Header + Bytes(7, 0, 0, 0) + 100 * Bytes(4, 3, 1, 0) + 8 * Bytes(3, 0, 0, 0)

TyreSets == Header + 1 + 20 * Bytes(8, 1, 0, 0) + 1

MotionEx == Header + Bytes(0, 0, 61, 0)

TimeTrial == Header + 3 * Bytes(8, 0, 4, 0)

LapPositions == Header + 2 + 50 * Cars
----------------------------------------------------------------------------
(* What Update copies out of the union, by packet. *)
StructSize ==
    [Motion |-> Motion, Session |-> Session, LapData |-> LapData,
     Event |-> Event, Participants |-> Participants, CarSetups |-> CarSetups,
     CarTelemetry |-> CarTelemetry, CarStatus |-> CarStatus,
     FinalClassification |-> FinalClassification, LobbyInfo |-> LobbyInfo,
     CarDamage |-> CarDamage, SessionHistory |-> SessionHistory,
     TyreSets |-> TyreSets, MotionEx |-> MotionEx, TimeTrial |-> TimeTrial,
     LapPositions |-> LapPositions]

WireSize ==
    [Motion |-> 1349, Session |-> 753, LapData |-> 1285, Event |-> 45,
     Participants |-> 1284, CarSetups |-> 1133, CarTelemetry |-> 1352,
     CarStatus |-> 1239, FinalClassification |-> 1042, LobbyInfo |-> 954,
     CarDamage |-> 1041, SessionHistory |-> 1460, TyreSets |-> 231,
     MotionEx |-> 273, TimeTrial |-> 101, LapPositions |-> 1131]
============================================================================

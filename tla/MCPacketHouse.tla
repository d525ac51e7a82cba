--------------------------- MODULE MCPacketHouse ---------------------------
(* Instances of PacketHouse for TLC. *)
EXTENDS PacketHouse

Traffic(delivered, nEvents, nLate) ==
    [delivered |-> delivered \cup {"SessionData", "Participants"},
     events |-> nEvents, late |-> nLate]

PerSecond == {"LapData", "CarMotion"}

(* In order: the packets of the per-second batch and the final classification
   that may come between them; events, histories and the lobby. *)
InOrder ==
    {Traffic(PerSecond \cup {"FinalClassification"}, 0, 0),
     Traffic({"EventData", "SessionHistory", "LobbyInfo"}, 2, 0)}

(* One datagram of the previous session may arrive late. *)
OneLate == {Traffic({"LapData", "EventData"}, 2, 1)}

(* A batch is written. *)
Batch == {Traffic(PerSecond, 0, 0)}

(* Sessions only. *)
Announced == {Traffic({}, 0, 0)}
============================================================================

----------------------------- MODULE AllCarInfo -----------------------------
(***************************************************************************)
(* AllCarInfo (src/packet/car_info.h) as a whole: three views side by side,  *)
(* the camera and the race gaps (CarInfo), the telemetry snapshots           *)
(* (LapDetails) and the gaps of a timed session (LapGaps).  None writes what *)
(* another reads.  A behaviour is one of one view; the others rest in an     *)
(* initial state.                                                           *)
(***************************************************************************)
EXTENDS CarInfo

CONSTANTS
    Marks, MaxPosition, Rounds,     \* of LapDetails
    Sector1, Sector2, Starts,       \* of LapGaps
    LapsTimed, PacketsTimed         \* bounds: of a timed session

VARIABLES
    view,
    round, past, frames, drive, seams, formation, located, hotlap, flying,
    is_flash_back_, lapDistance, buffer, details,
    time, pointsDriven, lapStart, pointsPassed, seen, lapNum, point, laptime,
    history, bestLapNum, bestLapTimeInMS, ranked

detailsVars ==
    <<round, past, frames, drive, seams, formation, located, hotlap, flying,
      is_flash_back_, lapDistance, buffer, details>>

gapsVars ==
    <<time, pointsDriven, lapStart, pointsPassed, seen, lapNum, point, laptime,
      history, bestLapNum, bestLapTimeInMS, ranked>>

allVars == <<view, vars, detailsVars, gapsVars>>

Details == INSTANCE LapDetails

Timed == INSTANCE LapGaps
             WITH MaxLap <- LapsTimed, MaxPackets <- PacketsTimed,
                  driven <- pointsDriven, passed <- pointsPassed,
                  currentLapNum <- lapNum, sliceIndex <- point,
                  rankList_ <- ranked

ASSUME DetailsAssumption == Details!Circuit /\ Rounds # {}

ASSUME TimedAssumption == Timed!Track
----------------------------------------------------------------------------
AllInit ==
    /\ view \in {"camera", "details", "gaps"}
    /\ Init
    /\ Details!Init
    /\ Timed!Init
    /\ view # "camera" => ~race
    /\ view # "details" => ~formation /\ round = CHOOSE r \in Rounds : TRUE
    /\ view # "gaps" => \A c \in Cars : pointsDriven[c] = 0
    /\ ranked = CHOOSE r \in Timed!Orders : TRUE \* the cars are alike

AllNext ==
    \/ view = "camera" /\ Next /\ UNCHANGED <<view, detailsVars, gapsVars>>
    \/ view = "details" /\ Details!Next /\ UNCHANGED <<view, vars, gapsVars>>
    \/ view = "gaps" /\ Timed!Next /\ UNCHANGED <<view, vars, detailsVars>>

AllSpec == AllInit /\ [][AllNext]_allVars
----------------------------------------------------------------------------
(* LapDetails: once a lap is written, its rows are of the drive that counts
   (FillLapData, ToSQL). *)
DetailsAsDriven == Details!DetailsAsDriven

(* LapGaps: on its lap a car is set against true laps (FillLapData,
   FillLapHistroy, reCalcuteLapDiff). *)
GapsAsDriven == Timed!GapsAsDriven
=============================================================================

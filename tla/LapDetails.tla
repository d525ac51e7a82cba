----------------------------- MODULE LapDetails -----------------------------
(***************************************************************************)
(* The telemetry snapshots of AllCarInfo (src/packet/car_info.cpp, .h): a   *)
(* row of the table LapDetails per car, lap and mark of 5 metres (LAP_PREC), *)
(* taken by FillLapData and written by ToSQL with REPLACE, so that a mark    *)
(* driven again after a flashback takes the place of the abandoned one.      *)
(*                                                                          *)
(* A position is the number of marks past the line at the start of lap 1,    *)
(* -1 on the grid.  The game sends frames; a flashback takes it back to an   *)
(* earlier frame, from which it goes on.  A car spends two frames at least   *)
(* in a mark.  A row is known by the frame and the drive it was taken in.    *)
(***************************************************************************)
EXTENDS Integers, Sequences

CONSTANTS
    Marks,          \* marks per lap (m_trackLength / LAP_PREC)
    MaxPosition,    \* bound: how far cars drive
    Rounds          \* bounds, one chosen at the start: race or not, the cars,
                    \* numbers of frames and of flashbacks

(* What the constants of an instance must be: two marks at least. *)
Circuit ==
    /\ Marks \in Nat \ {0, 1}
    /\ MaxPosition \in Nat
    /\ \A r \in Rounds :
          r.race \in BOOLEAN /\ r.frames \in Nat /\ r.flashbacks \in Nat

VARIABLES
    round,
    past,           \* history: the frames of the drive that counts
    frames, drive,  \* history: frames sent, flashbacks used
    seams,          \* history: where the cars were taken to
    formation,      \* m_safetyCarStatus is FORMATION_LAP
    located,        \* worldPosition is not zero: CarMotion was received
    hotlap,         \* cars whose ersDeployMode is hotlap
    flying,         \* cars whose driverStatus is flying_lap
    is_flash_back_,
    lapDistance,    \* per car, cur_tele_snapshot.lapDistance
    buffer,         \* per car, tele_snapshot_buffer
    details         \* the rows of LapDetails by car, lap and mark

history == <<past, frames, drive, seams>>
session == <<round, formation>>
status == <<located, hotlap, flying>>
snapshots == <<is_flash_back_, lapDistance, buffer>>

vars == <<session, history, status, snapshots, details>>

First == 1      \* car_[0]

Cars == round.cars

Now == past[Len(past)]

LapOf(at) == IF at >= 0 THEN at \div Marks + 1 ELSE 1

(* A negative distance counts from the end of the lap. *)
MarkOf(at) == at % Marks
----------------------------------------------------------------------------
Init ==
    /\ round \in Rounds
    /\ past = <<[at |-> [c \in Cars |-> -1], flying |-> {}, drive |-> 0,
                 on |-> {}, located |-> FALSE, landing |-> FALSE]>>
    /\ frames = 1
    /\ drive = 0
    /\ seams = {}
    /\ formation \in {round.race, FALSE}
    /\ located = FALSE
    /\ hotlap = {}
    /\ flying = {}
    /\ is_flash_back_ = FALSE
    /\ lapDistance = [c \in Cars |-> 0]
    /\ buffer = [c \in Cars |-> <<>>]
    /\ details = <<>>

(* FillSession, with the cars on the grid. *)
FillSession ==
    /\ formation
    /\ formation' = FALSE
    /\ UNCHANGED <<round, history, status, snapshots, details>>

FillCarMotion ==
    /\ ~located
    /\ located' = TRUE
    /\ UNCHANGED <<session, history, hotlap, flying, snapshots, details>>

FillCarStatus ==
    /\ ~round.race
    /\ hotlap' \in SUBSET Cars
    /\ UNCHANGED <<session, history, located, flying, snapshots, details>>

(* Where the car is taken back to, and the next mark if it is, perhaps in
   another lap, that of the last snapshot: not a new mark. *)
Seam(c, to) == {at \in {to, to + 1} : at = to \/ MarkOf(at) = lapDistance[c]}

(* The game goes back to an earlier frame.  The FLBK event may be lost. *)
FlashBack ==
    /\ drive < round.flashbacks
    /\ drive' = drive + 1
    /\ \E g \in 1..(Len(past) - 1) :
          /\ past' = SubSeq(past, 1, g)
          /\ seams' = seams \cup UNION {{<<c, at>> : at \in Seam(c, past[g].at[c])} : c \in Cars}
    /\ is_flash_back_' \in {TRUE, is_flash_back_}
    /\ UNCHANGED <<session, frames, status, lapDistance, buffer, details>>
----------------------------------------------------------------------------
(* FillLapData. *)

NewMark(c, at) == MarkOf(at[c]) # lapDistance[c]

(* is_flash_back_ is cleared in the loop over the cars. *)
Sampled(c, at) == NewMark(c, at) /\ ~(is_flash_back_ /\ c = First) /\ located

(* The driver status is that of the packet before. *)
Kept(c, at) ==
    IF round.race THEN ~formation
    ELSE at[c] >= 0 /\ (c \in flying \/ c \in hotlap)

FillLapData(at, nowFlying) ==
    /\ lapDistance' = [c \in Cars |->
          IF Sampled(c, at) THEN MarkOf(at[c]) ELSE lapDistance[c]]
    /\ buffer' = [c \in Cars |->
          IF Sampled(c, at) /\ Kept(c, at)
          THEN Append(buffer[c], [lap |-> LapOf(at[c]), mark |-> MarkOf(at[c]),
                                  frame |-> Len(past'), drive |-> drive])
          ELSE buffer[c]]
    /\ is_flash_back_' = FALSE
    /\ flying' = nowFlying

(* The first frame after a flashback. *)
Landing == drive # Now.drive

(* The cars the frame is recorded of: in a race all of them, otherwise those
   on a flying lap, once it is known, or in hotlap mode. *)
Recorded(at, nowFlying) ==
    IF ~located THEN {}
    ELSE IF round.race THEN IF formation THEN {} ELSE Cars
    ELSE {c \in Cars :
            /\ at[c] >= 0
            /\ \/ c \in hotlap
               \/ ~Landing /\ c \in nowFlying \cap Now.flying}

MayMove ==
    {c \in Cars :
        /\ Now.at[c] < MaxPosition
        /\ Len(past) > 1 /\ past[Len(past) - 1].at[c] = Now.at[c]
        /\ ~formation}

LapData ==
    /\ frames < round.frames
    /\ frames' = frames + 1
    /\ \E moving \in SUBSET MayMove,
          nowFlying \in IF round.race THEN {{}} ELSE SUBSET Cars :
          \E at \in {[c \in Cars |-> Now.at[c] + IF c \in moving THEN 1 ELSE 0]} :
             /\ past' = Append(past, [at |-> at, flying |-> nowFlying,
                           drive |-> drive, on |-> Recorded(at, nowFlying),
                           located |-> located, landing |-> Landing])
             /\ FillLapData(at, nowFlying)
    /\ UNCHANGED <<session, drive, seams, located, hotlap, details>>
----------------------------------------------------------------------------
(* ToSQL: REPLACE INTO LapDetails, whose key is the driver, the lap and the
   distance. *)

Key(c, r) == <<c, r.lap, r.mark>>

Last(S) == CHOOSE i \in S : \A j \in S : j <= i

RowsToWrite == UNION {{Key(c, buffer[c][i]) : i \in DOMAIN buffer[c]} : c \in Cars}

(* Faulty: INSERT IGNORE. *)
AfterToSQLIgnore ==
    [k \in DOMAIN details \cup RowsToWrite |->
        IF k \in DOMAIN details THEN details[k]
        ELSE buffer[k[1]][Last({i \in DOMAIN buffer[k[1]] :
                                   Key(k[1], buffer[k[1]][i]) = k})]]

AfterToSQL ==
    [k \in DOMAIN details \cup RowsToWrite |->
        IF k \in RowsToWrite
        THEN buffer[k[1]][Last({i \in DOMAIN buffer[k[1]] :
                                   Key(k[1], buffer[k[1]][i]) = k})]
        ELSE details[k]]

ToSQL ==
    /\ \E c \in Cars : buffer[c] # <<>>
    /\ details' = AfterToSQL
    /\ buffer' = [c \in Cars |-> <<>>]
    /\ UNCHANGED <<session, history, status, is_flash_back_, lapDistance>>

Next ==
    \/ FillSession \/ FillCarMotion \/ FillCarStatus
    \/ FlashBack
    \/ LapData
    \/ ToSQL

Spec == Init /\ [][Next]_vars
----------------------------------------------------------------------------
(* Properties. *)

FramesIn(c, at) == {f \in DOMAIN past : past[f].at[c] = at}

(* Frames a flashback was not in effect for. *)
Unprotected(c, S) == {f \in S : c # First \/ ~past[f].landing}

(* The car came to this mark while it was being recorded. *)
WasRecorded(c, at) ==
    \E S \in {FramesIn(c, at)} :
        /\ \A f \in S : c \in past[f].on
        /\ \A f \in S : f > 1 /\ past[f - 1].located
        /\ Unprotected(c, S) # {}

(* Once a lap is written, its rows are of the drive that counts: each mark a
   car came past while recorded has a row, taken in that mark in a frame of
   that drive and not in one that was taken back, whether or not the FLBK
   event got through, and however ToSQL cuts the lap into seconds.  An
   abandoned row may stay only in the mark a car was taken back to, and in the
   next one if it is that of the last snapshot: the car comes to it as to no
   new mark. *)
DetailsAsDriven ==
    \A c \in Cars, at \in 0..MaxPosition :
        WasRecorded(c, at) /\ <<c, at>> \notin seams =>
            \E written \in {AfterToSQL}, k \in {<<c, LapOf(at), MarkOf(at)>>} :
                /\ k \in DOMAIN written
                /\ written[k].frame \in FramesIn(c, at)
                /\ past[written[k].frame].drive = written[k].drive
=============================================================================

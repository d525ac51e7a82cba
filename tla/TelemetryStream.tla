-------------------------- MODULE TelemetryStream --------------------------
(***************************************************************************)
(* TelemetryStream (src/visualization/telemetry_model.cpp): the samples the *)
(* dashboard plots.  Times are milliseconds.  A sample keeps the time, the  *)
(* lap and the position on the track, in millimetres; the other quantities  *)
(* are sine curves of the same t.                                           *)
(***************************************************************************)
EXTENDS Limits, Sequences

VARIABLES
    start_time_, last_time_,    \* 0: Update was not called yet
    mode, is_playing,           \* of state_
    shownEvents,                \* state_.events
    driver_samples_

streamVars == <<start_time_, last_time_, mode, is_playing, shownEvents, driver_samples_>>

MinInterval == 16           \* 0.016 s
TrackLength == 5000000
Speed == 70                 \* mm per ms

(* offset_phase. *)
Phase == [d \in {0, 1} |-> IF d = 0 THEN 0 ELSE -500]

(* Faulty: the remainder of a floor division. *)
FModFloor(a, b) == a % b

(* std::fmod and the cast to int, which both cut towards zero. *)
FMod(a, b) == IF a >= 0 THEN a % b ELSE -((-a) % b)

Cut(a, b) == IF a >= 0 THEN a \div b ELSE -((-a) \div b)

Sample(d, elapsed) ==
    LET way == (elapsed + Phase[d]) * Speed IN
    [timestamp |-> elapsed, distance |-> FMod(way, TrackLength),
     lap |-> Cut(way, TrackLength) + 1]
----------------------------------------------------------------------------
StreamInit ==
    /\ start_time_ = 0
    /\ last_time_ = 0
    /\ mode = "LIVE"
    /\ is_playing = TRUE
    /\ shownEvents = <<>>
    /\ driver_samples_ = <<>>

SetMode(m) ==
    /\ mode' = m
    /\ UNCHANGED <<start_time_, last_time_, is_playing, shownEvents, driver_samples_>>

TogglePlayback ==
    /\ is_playing' = ~is_playing
    /\ UNCHANGED <<start_time_, last_time_, mode, shownEvents, driver_samples_>>

Samples(d) == IF d \in DOMAIN driver_samples_ THEN driver_samples_[d] ELSE <<>>

Push(q, s) ==
    LET all == Append(q, s) IN IF Len(all) > MaxSamples THEN Tail(all) ELSE all

FirstUpdate == start_time_ = 0

(* Faulty: a paused replay is not looked at. *)
PausedNever == FALSE

Paused == mode = "REPLAY" /\ ~is_playing

StartTime(now) == IF FirstUpdate THEN now ELSE start_time_

LastTime(now) == IF FirstUpdate THEN now ELSE last_time_

StreamBegin(now) ==
    /\ start_time_' = StartTime(now)
    /\ shownEvents' = IF FirstUpdate
                      THEN <<"SESSION STARTED", "TRACK CLEAR", "YELLOW FLAG">>
                      ELSE shownEvents

(* playback_speed stays 1. *)
Due(now) == now - LastTime(now) >= MinInterval

UpdatePaused(now) ==
    /\ Paused
    /\ StreamBegin(now)
    /\ last_time_' = now
    /\ UNCHANGED <<mode, is_playing, driver_samples_>>

UpdateEarly(now) ==
    /\ ~Paused
    /\ ~Due(now)
    /\ StreamBegin(now)
    /\ last_time_' = LastTime(now)
    /\ UNCHANGED <<mode, is_playing, driver_samples_>>

UpdateSample(now) ==
    /\ ~Paused
    /\ Due(now)
    /\ StreamBegin(now)
    /\ last_time_' = now
    /\ driver_samples_' =
          [d \in {0, 1} |-> Push(Samples(d), Sample(d, now - StartTime(now)))]
    /\ UNCHANGED <<mode, is_playing>>

StreamUpdate(now) == UpdatePaused(now) \/ UpdateEarly(now) \/ UpdateSample(now)

(* The stream by itself: Update is called with times that do not go back. *)
StreamNext ==
    \/ \E now \in Nat : now >= last_time_ /\ StreamUpdate(now)
    \/ \E m \in {"LIVE", "REPLAY"} : SetMode(m)
    \/ TogglePlayback

StreamSpec == StreamInit /\ [][StreamNext]_streamVars
----------------------------------------------------------------------------
(* Properties. *)

(* Metres, so to say, since the start of the race. *)
RacePosition(s) == (s.lap - 1) * TrackLength + s.distance

(* The two curves can be compared point by point: as many samples of both
   drivers, at the same times, each later than the one before, at least
   MinInterval apart; and the second driver half a second behind on the
   road, at the line and at the start, where his position is negative, too. *)
CurvesComparable ==
    \E a \in {Samples(0)}, b \in {Samples(1)} :
        /\ Len(a) = Len(b)
        /\ Len(a) <= MaxSamples
        /\ \A i \in DOMAIN a :
              /\ a[i].timestamp = b[i].timestamp
              /\ RacePosition(a[i]) - RacePosition(b[i]) = 500 * Speed
              /\ i > 1 => a[i].timestamp - a[i - 1].timestamp >= MinInterval
============================================================================

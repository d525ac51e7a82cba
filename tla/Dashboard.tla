----------------------------- MODULE Dashboard -----------------------------
(***************************************************************************)
(* What src/visualization/telemetry_widgets.cpp draws, as far as it depends *)
(* on state: the layout, the status badges of the timing tower, the curves, *)
(* the events and the replay bar.  The tower's rows are tables in the code. *)
(***************************************************************************)
EXTENDS Integers, Sequences

VARIABLES
    expanded,       \* state_.timing_tower_expanded
    speed_idx,      \* current_speed_idx, a static of RenderBottomBar
    seek,           \* state_.time_remaining, which the Seek slider writes
    screen          \* what the last frame that was drawn shows

vars == <<expanded, speed_idx, seek, screen>>

Speeds == <<"1x", "2x", "5x", "10x">>

SeekRange == {0, 3600}      \* the ends of the slider

NotDrawn == [frame |-> 0]
----------------------------------------------------------------------------
(* The timing tower. *)

Rows == 0..9

DriverStatus == <<4, 1, 2, 3, 1, 4, 1, 4, 2, 0>>

Stints == <<2, 2, 1, 2, 1, 2, 2, 1, 1, 2>>      \* tyre_histories, sizes

Row(i) ==
    [yellow |-> i = 3, blue |-> i = 6, pitting |-> i = 2, in_pit |-> i = 5,
     drs_active |-> i = 0, in_drs_zone |-> i = 1, status |-> DriverStatus[i + 1]]

Flag(r) == r.yellow \/ r.blue

Pit(r) == r.pitting \/ r.in_pit

Drs(r) == r.drs_active \/ r.in_drs_zone

OnLap(r) == r.status \in 1..3

Badged(r) == Flag(r) \/ Pit(r) \/ Drs(r) \/ OnLap(r)

StatusLabel(r) == <<"FLY", ">>", "<<">>[r.status]

Label(r) ==
    CASE r.yellow -> "Y"
      [] r.blue /\ ~r.yellow -> "B"
      [] Pit(r) /\ ~Flag(r) -> "P"
      [] Drs(r) /\ ~Flag(r) /\ ~Pit(r) -> "D"
      [] OnLap(r) /\ ~Flag(r) /\ ~Pit(r) /\ ~Drs(r) -> StatusLabel(r)

Shape(r) ==
    CASE Flag(r) -> "flag"
      [] Pit(r) /\ ~Flag(r) -> "circle"
      [] r.in_drs_zone /\ ~Flag(r) /\ ~Pit(r) -> "arc"
      [] r.drs_active /\ ~r.in_drs_zone /\ ~Flag(r) /\ ~Pit(r) -> "disc"
      [] OTHER -> "text"

Blinks(r) == Flag(r) \/ r.pitting \/ r.status = 1

BlackText(r) == Flag(r) \/ r.drs_active

Badge(r) ==
    IF Badged(r)
    THEN [label |-> Label(r), shape |-> Shape(r), blinks |-> Blinks(r),
          black |-> BlackText(r)]
    ELSE [label |-> "", shape |-> "none", blinks |-> FALSE, black |-> FALSE]

Widest == CHOOSE n \in {Stints[i] : i \in DOMAIN Stints} :
             \A i \in DOMAIN Stints : Stints[i] <= n

CollapsedWidth == IF 230 + Widest * 28 + 10 > 320 THEN 230 + Widest * 28 + 10 ELSE 320

TowerWidth == IF expanded THEN 500 ELSE CollapsedWidth

(* How far the bar of sector s (0..2) is filled, in thousandths of a lap, at
   the given progress. *)
SectorFill(s, progress) ==
    CASE progress > (s + 1) * 333 -> 333
      [] progress > s * 333 /\ progress <= (s + 1) * 333 -> progress - s * 333
      [] OTHER -> 0

Progress == <<100, 450, 660, 220, 880, 330, 750, 520, 150, 950>>

TowerRow(i) ==
    [badge |-> Badge(Row(i)), stints |-> Stints[i + 1],
     fill |-> [s \in 0..2 |-> SectorFill(s, Progress[i + 1])]]
----------------------------------------------------------------------------
Init ==
    /\ expanded = FALSE
    /\ speed_idx = 1
    /\ seek = 3600
    /\ screen = NotDrawn

(* RenderTelemetryPlots: speed of both, delta of the second driver. *)
Plots(a, b) == [speed |-> <<a, b>>, delta |-> b]

Picture(frame, mode, a, b, shown) ==
    [frame |-> frame, mode |-> mode,
     reserved |-> IF expanded THEN 550 ELSE 300,
     tower |-> TowerWidth, rows |-> [i \in Rows |-> TowerRow(i)],
     plots |-> Plots(a, b), shown |-> shown, bar |-> mode = "REPLAY"]

(* RenderTelemetryDashboard with an empty display: a minimised window. *)
RenderNothing == UNCHANGED vars

(* Draws the state at the start of the frame; a click takes effect after. *)
Render(frame, mode, a, b, shown) ==
    /\ screen' = Picture(frame, mode, a, b, shown)
    /\ UNCHANGED seek
    /\ \/ UNCHANGED <<expanded, speed_idx>>
       \/ expanded' = ~expanded /\ UNCHANGED speed_idx
       \/ mode = "REPLAY" /\ speed_idx' \in DOMAIN Speeds /\ UNCHANGED expanded

(* The Seek slider of the replay bar, dragged to an end. *)
RenderSeek(frame, mode, a, b, shown) ==
    /\ mode = "REPLAY"
    /\ screen' = Picture(frame, mode, a, b, shown)
    /\ seek' \in SeekRange
    /\ UNCHANGED <<expanded, speed_idx>>
============================================================================

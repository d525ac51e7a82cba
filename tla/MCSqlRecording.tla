--------------------------- MODULE MCSqlRecording ---------------------------
(* Instances of SqlRecording for TLC: seconds that vary one part of the
   packets at a time, and all of the grids. *)
EXTENDS SqlRecording

Full == [i \in Cars |-> "human"]

Quiet ==
    [grid |-> Full, network |-> FALSE, type |-> "race", timeTrialMode |-> FALSE,
     pb |-> Unset, rival |-> Unset, zones |-> 1, samples |-> 0, placed |-> Cars,
     player |-> 0, focus |-> Unset, snapshots |-> {}, histories |-> <<>>,
     events |-> <<>>, enough |-> TRUE]

Grids == [Cars -> {"human", "ai", "ai_local", "empty"}]

RaceGrids ==
    {[Quiet EXCEPT !.grid = g, !.network = n] : g \in Grids, n \in BOOLEAN}

TrialGrids ==
    {[Quiet EXCEPT !.type = "time_trial", !.timeTrialMode = TRUE, !.grid = g,
                   !.pb = x[1], !.rival = x[2]] :
       g \in [Cars -> {"human", "empty"}],
       x \in {<<Unset, Unset>>, <<1, Unset>>, <<1, 2>>, <<2, Unset>>}}

Weather ==
    {[Quiet EXCEPT !.zones = z, !.samples = w] : z \in 0..2, w \in 0..2}

Places ==
    {[Quiet EXCEPT !.placed = p, !.snapshots = n, !.focus = f, !.player = f] :
       p \in SUBSET Cars, n \in {{}, {0, 2}}, f \in {0, Unset}}

(* Laps of one and two seconds a sector; the best numbers are true ones. *)
Laps(slow, n) ==
    [i \in 1..LapSlots |->
       IF i > n THEN NoLap
       ELSE LET s1 == IF i \in slow THEN 2000 ELSE 1000
                s2 == IF i \in slow THEN 1000 ELSE 2000
            IN  [sector1 |-> s1, sector2 |-> s2, sector3 |-> 1500 + i,
                 time |-> s1 + s2 + 1500 + i]]

FirstMin(laps, n, Of(_)) ==
    IF n = 0 THEN 0
    ELSE CHOOSE i \in 1..n : \A j \in 1..n :
            Of(laps[i]) < Of(laps[j]) \/ (Of(laps[i]) = Of(laps[j]) /\ i <= j)

History(car, slow, n, ends) ==
    LET laps == Laps(slow, n)
    IN  [carIdx |-> car, numLaps |-> n, laps |-> laps, endLap |-> ends,
         bestLapTimeLapNum |-> FirstMin(laps, n, LAMBDA l : l.time),
         bestSector1LapNum |-> FirstMin(laps, n, LAMBDA l : l.sector1),
         bestSector2LapNum |-> FirstMin(laps, n, LAMBDA l : l.sector2),
         bestSector3LapNum |-> FirstMin(laps, n, LAMBDA l : l.sector3)]

Ends == {<<255>>, <<1, 255>>, <<2, 255>>, <<1, 2, 255>>, <<1, 3, 255>>, <<2, 2, 255>>}

Histories ==
    {[Quiet EXCEPT !.enough = e,
                   !.histories = <<History(0, {1}, n, x), History(2, {2}, 2, <<255>>)>>,
                   !.events = <<"SSTA", "BUTN", "PENA", "OVTK">>] :
       e \in BOOLEAN, n \in 0..LapSlots, x \in Ends}

TrialHistories ==
    {[Quiet EXCEPT !.type = "time_trial", !.pb = p,
                   !.histories = <<History(0, {1}, 2, <<255>>), History(2, {}, 1, <<255>>)>>] :
       p \in {1, 2}}

MCSeconds ==
    RaceGrids \cup TrialGrids \cup Weather \cup Places \cup Histories \cup TrialHistories

Classified(position, laps, total, penalties, status, best) ==
    [position |-> position, laps |-> laps, total |-> total,
     penalties |-> penalties, status |-> status, best |-> best]

(* The third car finished "gap" behind the leader but was penalised past the
   second.  In the order of the classification, and in another. *)
Finish(gap, last) ==
    LET leader == Classified(1, 5, 65000, 0, "finished", 900)
        second == Classified(2, 5, 69000, 0, "finished", 950)
        third == Classified(3, 5, 65000 + gap, 5000, "finished", 950)
    IN  {<<leader, second, third, last>>, <<last, third, leader, second>>}

MCClassifications ==
    {[type |-> t, cars |-> c] :
       t \in {"race", "practice"},
       c \in UNION {Finish(g, last) :
                      g \in {500, 3000},
                      last \in {Classified(4, 5, 74000, 0, "finished", 1000),
                             Classified(4, 4, 64000, 0, "finished", 1000),
                             Classified(4, 3, 30000, 0, "retired", 0),
                             Classified(4, 0, 0, 0, "not_classified", 0)}}}

(* One second with a row in each of its tables. *)
MCQuiet == {Quiet}

MCTableFiles == <<"a_session", "car_damage">>

MCProcedureFiles == <<"car_damage_sp">>
=============================================================================

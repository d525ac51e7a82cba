-------------------------------- MODULE App --------------------------------
(***************************************************************************)
(* The program: main()'s loop (src/server/main.cpp) in the one thread that  *)
(* receives, samples and draws.  A frame polls the window's events, runs    *)
(* Server::Run once, updates the TelemetryStream, draws the dashboard and   *)
(* waits in glfwSwapBuffers.  main() has no database and one port; the      *)
(* client sends format 2025, so that a datagram goes to the PacketMap of    *)
(* the client's house.                                                      *)
(***************************************************************************)
EXTENDS PacketMap, TelemetryStream, Sequences

CONSTANTS
    Sessions,       \* the sessions the game goes through, in order
    QueueSize,      \* datagrams the kernel holds for the port; more are lost
    Loads,          \* bounds, one chosen at the start: the listeners, types,
                    \* cars and number of the datagrams sent, lengths of a
                    \* frame, clicks of the user
    MaxFrame        \* bound: frames

ASSUME AppAssumption == QueueSize \in Nat \ {0} /\ MaxFrame \in Nat

ASSUME SessionsAssumption ==
    /\ Sessions # <<>>
    /\ Sessions \in Seq([uid : Nat, kind : Nat, track : Nat])
    /\ \A i, j \in DOMAIN Sessions : i <= j => Sessions[i].uid <= Sessions[j].uid

ASSUME LoadsAssumption ==
    \A l \in Loads :
        /\ l.listeners \subseteq {"epoll", "select", "failed"}
        /\ l.types \subseteq DOMAIN Layout!StructSize \cup {Unknown}
        /\ l.cars \subseteq Nat /\ l.intervals \subseteq Nat
        /\ l.sent \in Nat /\ l.clicks \in Nat

VARIABLES
    expanded, speed_idx, seek, screen,                      \* Dashboard
    phase,          \* where main() is in its loop
    frame, now, closing,
    listener,       \* which UdpListener: "epoll", "select", or "failed" if
                    \* its Init bound no port, which main() logs only
    house,          \* the client has a PacketHouse
    queue,          \* datagrams in the socket, with the frame they came in
    sent,           \* datagrams sent so far
    game,           \* the session the game is in
    clicks,         \* what the user has done so far but closing the window
    load

Dash == INSTANCE Dashboard

dashboard == <<expanded, speed_idx, seek, screen>>
client == <<queue, sent, game>>
window == <<frame, now, closing, clicks>>
setting == <<listener, load>>

vars == <<mapVars, streamVars, dashboard, phase, window, house, client, setting>>

Failed == "failed"

StartUp == 200      \* glfwGetTime() when the loop begins

(* How long Recv waits for a datagram: epoll_wait(.., 10 * timeout_), select
   with timeout_ seconds; timeout_ is 10. *)
WaitTime == [epoll |-> 100, select |-> 10000]
----------------------------------------------------------------------------
Init ==
    /\ MapInit
    /\ StreamInit
    /\ Dash!Init
    /\ phase = "test"
    /\ frame = 0
    /\ now = StartUp
    /\ closing = FALSE
    /\ clicks = 0
    /\ house = FALSE
    /\ queue = <<>>
    /\ sent = 0
    /\ game = 1
    /\ load \in Loads
    /\ listener \in load.listeners

Click == clicks < load.clicks /\ clicks' = clicks + 1

(* while (!glfwWindowShouldClose(window)) *)
LoopTest ==
    /\ phase = "test"
    /\ \/ closing /\ phase' = "closed" /\ UNCHANGED frame
       \/ ~closing /\ frame < MaxFrame /\ phase' = "poll" /\ frame' = frame + 1
    /\ UNCHANGED <<mapVars, streamVars, dashboard, now, closing, clicks, house,
                   client, setting>>

(* glfwPollEvents: the user may close the window.  SetMode and
   TogglePlayback, which nothing calls yet, would be called here. *)
PollEvents ==
    /\ phase = "poll"
    /\ phase' = "run"
    /\ closing' \in BOOLEAN
    /\ \/ UNCHANGED <<streamVars, clicks>>
       \/ Click /\ SetMode("REPLAY")
       \/ Click /\ TogglePlayback
    /\ UNCHANGED <<mapVars, dashboard, frame, now, house, client, setting>>

(* The game sends a datagram, perhaps the first of its next session; a full
   socket drops it.  One that comes in another phase waits until this one. *)
Arrive ==
    /\ phase = "run"
    /\ listener # Failed
    /\ sent < load.sent
    /\ sent' = sent + 1
    /\ game' \in {g \in {game, game + 1} : g <= Len(Sessions)}
    /\ \E t \in load.types, c \in load.cars :
          \E p \in {[type |-> t, session |-> Sessions[game'], car |-> c,
                     no |-> sent',
                     len |-> IF t \in DOMAIN Layout!WireSize
                             THEN Layout!WireSize[t] ELSE 0]} :
              queue' = IF Len(queue) < QueueSize
                       THEN Append(queue, [packet |-> p, at |-> frame])
                       ELSE queue
    /\ UNCHANGED <<mapVars, streamVars, dashboard, phase, window, house, setting>>

(* Faulty: the datagram that came last is taken. *)
ReceiveNewest ==
    /\ phase = "run"
    /\ queue # <<>>
    /\ phase' = "update"
    /\ MapUpdate(queue[Len(queue)].packet)
    /\ house' = TRUE
    /\ queue' = SubSeq(queue, 1, Len(queue) - 1)
    /\ UNCHANGED <<streamVars, dashboard, window, sent, game, setting>>

(* Run, with the socket readable: UnPacketAndSendToDB, which makes a house
   for a new client, and Update2025. *)
Receive ==
    /\ phase = "run"
    /\ queue # <<>>
    /\ phase' = "update"
    /\ MapUpdate(Head(queue).packet)
    /\ house' = TRUE
    /\ queue' = Tail(queue)
    /\ UNCHANGED <<streamVars, dashboard, window, sent, game, setting>>

(* Faulty: waits for a datagram for ever. *)
TimeoutNever == FALSE

(* Run, with no datagram for WaitTime: TimeoutOp erases the house, since
   Update2025 never set last_recive_time_. *)
Timeout ==
    /\ phase = "run"
    /\ listener # Failed
    /\ queue = <<>>
    /\ phase' = "update"
    /\ now' = now + WaitTime[listener]
    /\ house' = FALSE
    /\ Erase
    /\ UNCHANGED <<streamVars, dashboard, frame, closing, clicks, client, setting>>

(* Without a socket Recv's wait fails at once. *)
RunFails ==
    /\ phase = "run"
    /\ listener = Failed
    /\ phase' = "update"
    /\ UNCHANGED <<mapVars, streamVars, dashboard, window, house, client, setting>>

UpdateStream ==
    /\ phase = "update"
    /\ phase' = "render"
    /\ StreamUpdate(now)
    /\ UNCHANGED <<mapVars, dashboard, window, house, client, setting>>

Render ==
    /\ phase = "render"
    /\ phase' = "swap"
    /\ \E a \in {Samples(0)}, b \in {Samples(1)} :
          \/ Dash!Render(frame, mode, a, b, shownEvents)
          \/ Dash!RenderSeek(frame, mode, a, b, shownEvents)
    /\ IF UNCHANGED <<expanded, speed_idx, seek>> THEN UNCHANGED clicks ELSE Click
    /\ UNCHANGED <<mapVars, streamVars, frame, now, closing, house, client, setting>>

RenderMinimised ==
    /\ phase = "render"
    /\ phase' = "swap"
    /\ Click
    /\ Dash!RenderNothing
    /\ UNCHANGED <<mapVars, streamVars, frame, now, closing, house, client, setting>>

SwapBuffers ==
    /\ phase = "swap"
    /\ phase' = "test"
    /\ \E dt \in load.intervals : now' = now + dt
    /\ UNCHANGED <<mapVars, streamVars, dashboard, frame, closing, clicks, house,
                   client, setting>>

Loop ==
    \/ LoopTest \/ PollEvents
    \/ Receive \/ Timeout \/ RunFails
    \/ UpdateStream
    \/ Render \/ RenderMinimised
    \/ SwapBuffers

Next == Loop \/ Arrive

(* The one thread goes on: each wait in the loop has a bound. *)
Spec == Init /\ [][Next]_vars /\ WF_vars(Loop)
----------------------------------------------------------------------------
(* Properties. *)

(* Every variable has its type; a map holds packets only in a house, and the
   speed shown is one of the table. *)
TypeOK ==
    /\ DOMAIN slot = Single
    /\ Len(events) <= MaxEvents
    /\ DOMAIN perCar = PerCar
    /\ log # <<>> => house
    /\ start_time_ <= last_time_ /\ last_time_ <= now
    /\ mode \in {"LIVE", "REPLAY"}
    /\ is_playing \in BOOLEAN
    /\ DOMAIN driver_samples_ \in {{}, {0, 1}}
    /\ expanded \in BOOLEAN
    /\ speed_idx \in DOMAIN Dash!Speeds
    /\ seek \in Dash!SeekRange
    /\ phase \in {"test", "poll", "run", "update", "render", "swap", "closed"}
    /\ frame \in 0..MaxFrame
    /\ closing \in BOOLEAN
    /\ Len(queue) <= QueueSize
    /\ game \in DOMAIN Sessions
    /\ listener \in load.listeners

(* One datagram is taken per frame, so that a burst is shown late, but never
   more than QueueSize frames late: the datagram at place i of the socket
   has waited at most QueueSize - i frames. *)
LagBounded == \A i \in DOMAIN queue : frame - queue[i].at <= QueueSize - i

(* layout.md: a paused replay stands still.  From one drawn frame to the next
   the curves do not change if the replay is paused at the second. *)
PauseFreezesPicture ==
    [][mode = "REPLAY" /\ ~is_playing /\ screen'.frame = screen.frame + 1 /\ screen.frame > 0 =>
          screen'.plots = screen.plots]_screen

(* Closing the window ends the program, however silent the network is. *)
CloseEnds == closing ~> phase = "closed"
============================================================================

# cm-f1-tele in TLA+

cm-f1-tele receives the UDP telemetry of the F1 games. Of a client that sends
the 2022 format it keeps what it needs and records one set of rows per second
and session in SQL databases; of one that sends the 2025 format it keeps the
last packets; and it draws a dashboard in the same loop. This directory models
the receive loop, the session recorder, the car data derived from the packets,
the row writers, the asynchronous SQL queue, the database connections, the 2025
packet map, the dashboard's data and `main`'s loop; checks them with TLC; and
proves properties of the queue, the camera, the packet map and the dashboard's
curves with TLAPS. Paths below are relative to the repository's `src/src/`.

## 1. Inventory

| Component | State | Operations | Interacts with |
|---|---|---|---|
| `main` (`server/main.cpp`) | the window | one loop: poll events, `Server::Run`, `TelemetryStream::Update`, draw, swap | owns all the others |
| `UdpListener` (`udp/`) | bound sockets, epoll descriptor (select on Windows) | `Init`, `Recv` | calls back `Server` once per datagram, or once per timeout |
| `Server` (`server/server.cpp`) | map address -> `PacketHouse` | `Run`, `UnPacketAndSendToDB`, `TimeoutOp`, `ClearIdlePacketHouse` | creates, feeds and erases houses; hands SQL to the `DBHandler`s |
| `PacketHouse` (`server/packet_house.*`) | last packet of each type, two bit sets, event and history collections, the session and two time marks | `Store`, `Handle`, `Reset`, `Update2025` | owns an `AllCarInfo` and a 2025 `PacketMap`; returns SQL text |
| `AllCarInfo`, `FocusCar` (`packet/car_info.*`) | 22 cars with laps, slices and telemetry snapshots, a ranking, the camera's focus | `Fill*`, `SetFlashBack`, `ToSQL` | filled by `PacketHouse::Store`, read by `Handle` |
| row writers (`packet/*.h`) | none | `ToSQL`, `DriverNum` | called by `Handle` |
| `DBHandler<T>` (`common/db_handler.h`) | ring buffer, mutex, condition variable, threads, one connection | `Init`, `Query`, `QueryAsync`, `Ping`, destructor, `ConsumeQueryThread` | called by `Server`; calls a connection |
| `MysqlHandler`, `SqliteHandler`, `DuckDBHandler` (`common/*_handler.cpp`) | a connection | `Init`, `InitSchema`, `Query`, `Ping`, destructor | called by `DBHandler`; call the database |
| `PacketMap` (`packet/f1-2025/packet.h`) | last 2025 packets, per-car packets, an event list | `Update`, `Unset` | filled by `Server` through `PacketHouse` |
| `TelemetryStream` (`visualization/telemetry_model.*`) | sample deques, mode, playback | `Update`, `Samples`, `SetMode`, `TogglePlayback` | updated by `main`, read by the widgets |
| widgets (`visualization/telemetry_widgets.cpp`) | expansion of the tower, speed, seek position | `RenderTelemetryDashboard` | called by `main` |
| option parsing, logging, SQL schemas, scripts, boards | none of interest | | |

At this commit `main` passes no database to `Server`: the handlers are made
under `#if 0` (`server/main.cpp:36-78`) or in a comment (80-85), and the
constructor gets `nullptr, nullptr` (95). `Server` has members for MySQL and
SQLite only, so DuckDB's handler has no caller either way. The recording side
(`Handle`, `ToSQL`, the registration of a client) runs, but its texts go
nowhere. `DBHandler`, the connections and the hand-over are modelled as
`Server` uses them when it is given a handler; the 2025 map, the receive loop,
the car data and the dashboard run as modelled.

What is hard about it, and where it bites, is the list `hazards` of
PROJECT.json. In short:

* `DBHandler` is the only place with threads: consumers and the receive loop
  share the buffer and the connection; the destructor notifies without the
  lock; the buffer may be full; statements are performed out of order.
* `PacketHouse` files data under a session although packets of two sessions
  meet around a change, arrive late, or arrive before the packet that announces
  their session, and it does so at one-second resolution.
* `AllCarInfo` computes once a second from slice times, snapshots and pointers
  that many packets have left behind; flashbacks take the cars back, a recorder
  may join a lap under way, and the camera's focus depends on earlier choices.
* The row writers put a batch of statements into one text, each with loops and
  closing characters of its own; a statement without rows runs into the next,
  and a database may stop anywhere in the text. The words are MySQL's, whatever
  database they are handed to.
* `Server` erases clients it takes to be idle, while they may come back.
* `PacketMap` must forget a session in every one of its members, and reads a
  union by the packet's type.
* `main` receives one datagram per frame and may wait for the network in each.

Correctness, per component: the queue neither loses, repeats nor invents a
statement, keeps to its capacity, lets the caller return and the destructor
join; every recorded row is of the session it is filed under and no key is
used twice; no complete second goes unrecorded; what a database stores of a
second is a prefix of it and its tables agree; the gaps are the true ones, the
snapshots are of the drive that counts, and the focus turns to cars that are on
the track; only idle clients are erased and a session is not split; statements
come in foreign-key order; the map is a view of the current session's packets;
the curves can be compared, a pause stands still, a closed window ends the
program.

## 2. Modules

| Module | Models | Code |
|---|---|---|
| `SqlSink` | what `DBHandler` promises its caller (abstract) | |
| `DbHandler` | `DBHandler`, one action per step between lock operations | `common/db_handler.h` |
| `SessionRecorder` | what a `PacketHouse` promises (abstract) | |
| `PacketHouse` | `Store` per packet kind, `Handle` per way through it | `server/packet_house.*` |
| `Server` | `UdpListener::Recv`, `Server` | `server/server.cpp`, `udp/udp_listener_unix.cpp` |
| `CarInfo` | timing points, ranking, race gaps, scenes and focus | `packet/car_info.*` |
| `LapDetails` | telemetry snapshots, with flashbacks | `packet/car_info.*` |
| `LapGaps` | the gaps of timed sessions | `packet/car_info.*` |
| `AllCarInfo` | those three side by side | `packet/car_info.h` |
| `RowWriters` | the `ToSQL` functions, as operators on what they read | `packet/*.h` |
| `SqlRecording` | the three database classes performing those texts | `common/*_handler.cpp` |
| `Limits`, `PacketLayout`, `PacketMap` | the 2025 packet map and the sizes of its structs | `packet/f1-2025/packet.h` |
| `TelemetryStream` | the dashboard's samples | `visualization/telemetry_model.*` |
| `Dashboard` | what a frame shows | `visualization/telemetry_widgets.cpp` |
| `App` | `main`'s loop around `PacketMap`, `TelemetryStream` and `Dashboard` | `server/main.cpp`, `udp/*` |
| `DbHandlerProofs`, `PacketHouseProofs`, `ServerProofs`, `AllCarInfoProofs`, `LapDetailsProofs`, `LapGapsProofs`, `AppProofs`, `SqlRecordingProofs` | theorems | |
| `MCDbHandler`, `MCPacketHouse`, `MCServer`, `MCCarInfo`, `MCSqlRecording`, `MCApp` | instances for TLC | |

### DbHandler

`mainAt` is the program counter of the thread that owns the handler, `at[w]`
that of a consumer. A lock, the code under it, a wait and a database call are
steps of their own (a call is two steps, so that calls overlap). Statements are
numbers in the order of hand-over. `CircularBuffer` is an empty submodule, so
`popEnd`, chosen initially, leaves open which end `pop` takes. A wait ends by
notification, timeout or spuriously, and then competes for the mutex again
(`Relock`). The outcome of `conn_.Query` is not looked at by the code, nor by
the model.

### PacketHouse

A session is a number that stands for the four fields `IsNewSession` compares;
a packet's content is the session it was sent in, so the rows show which
sessions they were made of. `phase` alternates `Store` and `Handle` as
`UnPacketAndSendToDB` calls them; the clock may tick in between. The
environment sends any packet of the current session in any order, any number of
times or never (loss, duplication), and some datagrams of the session before:
`traffic`, chosen initially among `Traffics`, bounds the kinds and numbers, so
that one run covers several kinds of traffic. `AllCarInfo` is `car_info_`, the
sessions its car data is from, and `ranked`. `seen` and `due` are history
variables that say when a second was complete, independently of the code's
bits.

### CarInfo, LapDetails, LapGaps, AllCarInfo

Three views of the class `AllCarInfo`, which share no state a property of
another looks at. The module `AllCarInfo` EXTENDS the first, instantiates the
others (`Details`, `Timed`) and runs the three side by side, one per behaviour.

`CarInfo` is one session, a race or a timed one. A car has come past `driven`
timing points since the start; a lap has `Points` of them and the last is the
finish line. `FillLapData` turns positions into the code's `lap[].slice[]`
table, whose last point is filled late, by the first packet of the next lap,
and into `rankList_`. `ToSQL` computes the gaps from that table
(`reCalcuteRaceDiff`), puts the cars in scenes (`PickForRace`; `Candidates`
are the cars that sorting or drawing may put first) and moves the focus
(`reCalcuteRaceFocus`, `reCalcuteLapFocus`). `passed` is a history variable:
when each car really came past each point. What CarStatus, CarTelemetry and
CarDamage packets overwrite at any time is chosen where `ToSQL` reads it.
`hold` is the time left until `end_unix_time_`.

`LapDetails` is the buffer of telemetry snapshots. A position is a mark of
`LAP_PREC` metres; `past` is the sequence of frames of the drive that counts,
which a flashback cuts back to any earlier frame. The `FLBK` event sets
`is_flash_back_` or is lost. `seams` remembers the marks a car was taken back
to, and the next one where it is that of the car's last snapshot, perhaps in
another lap: neither is a new mark to the code.
A car is sampled at a mark other than its last (`NewMark`), unless it is the
first car and the flag is set: the loop clears the flag at its first car.
`ToSQL` writes with REPLACE under the key driver, lap, distance.

`LapGaps` follows a timed session: `laptimeInMS` per lap and point, the best
lap from SessionHistory packets, and the six values `reCalcuteLapDiff` computes
from them. It writes nothing else, so it is an operator of the state and the
property holds of what `ToSQL` would record at any moment. The recorder may
start when cars are on their way; `seen` says which points it saw them pass.
Where the code reads outside of what it received (no SessionHistory yet, no
best lap: index -1) the value is any of `Stray`.

### RowWriters, SqlRecording

A text is a sequence of lines: a head (`INSERT INTO T Values`), rows closed by
a comma or a semicolon, or a statement of one line. Closing characters are kept
because the code sets them by index (`sql[sql.size() - 2] = ';'`) and by the
loop counter. Of a row's columns those are kept that tables must agree on: the
car, the lap, the stint, times of best laps and results. `TimeText` is
`TimeFormat`. A line also carries what it asks of a dialect (`asks`): the verb,
`NOW()`, `ON DUPLICATE KEY`, and an empty text in a JSON column. `SqlRecording`
executes the schema's files and then hands the texts of new clients, headers,
lobbies, classifications and seconds to `Query`. The databases are external:
MySQL and `sqlite3_exec` perform statements up to the first that fails, DuckDB
parses the whole text first. `Dialect` says which of those words each of them
has: SQLite no `NOW()` (and `SqliteHandler::Init` registers none), DuckDB no
`REPLACE INTO`, neither of them `ON DUPLICATE KEY`. A statement may fail for its
words or its shape, which `WellFormed` decides, or for another reason at any
time (`mishap`: disk, connection, a key, a foreign key).

### PacketLayout, PacketMap

`PacketLayout` adds up the members of each packed struct; `WireSize` is the
length the comment over the packet states. In `PacketMap` a packet is the
fields `Update` looks at. The game's session ids are random; here they number
the sessions in order of play, which is what "older" in `NoOldSession` means.
`log` is a history variable: the packets since construction. `Erase` is the
erasure of the house that owns the map.

### TelemetryStream, Dashboard, App

Times are milliseconds. A sample keeps its time, lap and distance; the second
driver is sampled with a time 0.5 s less, negative at first, so `fmod` and the
integer cast cut towards zero. `Dashboard` keeps the widgets' state and the
last frame drawn; the tower's rows are constant tables in the code. `App`
EXTENDS the map and the stream and runs `main`'s loop, one action per call.
`SetMode` and `TogglePlayback` have no callers yet; a user's click calls them
at `PollEvents`. Datagrams arrive during `Run` or wait in the socket, which
drops what exceeds `QueueSize`. A wait lasts 100 ms with epoll, 10 s with
select; a listener without a socket returns at once. At the timeout the house
is erased with its map, since `Update2025` never sets `last_recive_time_`.

### Server

A house is its session and the age of `last_recive_time_`. Ages are capped one
above the threshold, the only value the code compares them with, so the clock
is unbounded. Each client sends to one port, chosen initially; datagrams are
lost when a socket's buffer is full or simply never sent.
`packet_house_map_` is a function whose domain is the set of known clients.

## 3. Runs

| Run | Instance | Shows |
|---|---|---|
| `db` | 2 consumers, 2 slots, 3 statements, pop from either end | `TypeOK`, `LockHeld`, `EachStatementOnce`, `SyncBeforeLater`, `BoundedShutdown`, `TakenInOrder`, implements `SqlSink`, `ShutdownCompletes`, `QueryAsyncReturns`, `WorkedOff` |
| `db_shared_conn` | 1 consumer | `NoSharedConnUse` is violated |
| `house_records` | 2 sessions, 3 seconds; batch and final classification, or 2 events, 2 cars' histories and lobby | `TypeOK`, `CarInfoFresh`, implements `SessionRecorder`, `CompleteSecondRecorded` |
| `house_late` | 2 sessions, 1 late datagram, ranked cars and events | `BatchOfOneSession`, `BatchKeysUnique`, `FollowsSessionData`, `EventOnce` |
| `house_session_keys` | 3 sessions | `SessionKeysUnique` is violated |
| `house_ranked` | 1 session | `RankedWhenWritten` is violated |
| `server` | a 2022 client of 2 sessions, a client of the other formats, 2 ports | `TypeOK`, `ParentRowsFirst`, `Idle2022Erased`, `SessionNotSplit`, `QuietHousesCleared`, `SocketsServed` |
| `server_2025` | one client of each format | `OnlyIdleErased` is violated |
| `car_info` | 2 cars; 2 laps of 3 points; flashbacks; 3 timed laps | `TypeOK`, `GapIsTimeBehind`, `FocusOnTrack`, `FlyLapReleased`, `DetailsAsDriven`, `GapsAsDriven` |
| `rows` | 3 cars on every grid, 3 databases | `StoredPrefix`, `RowsAgree` |
| `rows_sqlite` | SQLite, a second with a row in each table | `SecondGoesToDB` is violated |
| `app` | 4 frames, 2 listeners and none, all 2025 packet types | `TypeOK`, `MapIsViewOfLog`, `NoOldSession`, `ReadsWholeDatagram`, `CurvesComparable`, `LagBounded`, `PauseFreezesPicture`, `CloseEnds` |

`db`, `db_shared_conn`, `rows` and `rows_sqlite` are about code that does not
run at this commit, since `main` passes no database (section 1), and the keys
and rows of the `house_*` runs are of texts that are built and dropped. They say what holds once a handler is passed; for DuckDB, once
`Server` takes one too.

Why the bounds are enough.

* `db`: two consumers are what the start scripts set, and the steps of a third
  add no new pair of conflicting places; with two slots and three statements
  the buffer fills, refuses, empties and refills. `TakenInOrder` is about a
  buffer that hands out its oldest; of one that hands out its newest it says
  nothing.
* `house_*`: two sessions are one change, and every property relates a session
  to its neighbour; three seconds allow a second to be missed, one to be
  recorded and a repetition. One late datagram of each kind is enough to spoil
  a slot. Same-frequency packets are treated alike by the code, so `LapData`
  (which has a case of its own) and one more stand for the six.
* `server`: a threshold of one second stands for 300; ages are only compared
  with it. One datagram per socket and ten events per wait, as in the code; two
  sockets never have eleven events, so that limit does not come into play.
* `car_info`: two cars overtake each other, lap boundaries fall between them,
  and either retires; a third would add no case to a gap, which is between two
  neighbours. Four packets take a car of a race from the start into the last
  lap, five one of a timed session from the middle of a lap over a whole second
  one into a third; 400 ms between packets put gaps into four of the battle
  scenes. Six to eight frames take a car over three marks of a lap and back by
  one or two flashbacks, with `ToSQL` at any point; one car without a race
  shows the conditions of timed sessions.
* `rows`: three cars give every grid with a gap at the start, in the middle and
  at the end; four lap slots hold three stints; no state is kept between texts,
  so the seconds vary one part of the packets at a time, and all of the grids.
* `app`: two sessions of the same kind and track follow one of another, four
  datagrams exceed the event list (2), the deques (2 samples) and the socket
  (2), and each of the four loads has the datagrams, clicks and frame times
  that one group of properties needs; a frame of 70 s crosses the line.

Fairness. `DbHandler!Spec`: calls in progress continue and consumer threads
run; the mutex is held for moments only, hence strong fairness for the caller's
lock. Spurious wake-ups are not assumed, and the 60 second timeout only in
`ShutdownCompletes`, as a premise. `Server!Spec`: `main` calls `Run` for ever
and time goes by; nothing is assumed of the clients. `App!Spec`: the one thread
goes on, since every wait in the loop has a bound; nothing is assumed of the
network or the user. The other modules have only safety properties.

Each property has a mutant, a faulty variant of one definition (marked
"Faulty" in the modules) under which TLC finds the property violated.

## 4. What the runs found

* Consumers and the receive loop run calls on one SQLite connection that is
  opened without its mutex (`NoSharedConnUse`); the connection each consumer
  opens is never used.
* Two sessions that begin in the same second get the same `SessionList` key
  (`SessionKeysUnique`).
* A batch can be written before any `LapData` of its session was ranked; in a
  race `PickForRace` then reads an uninitialised pointer (`RankedWhenWritten`).
* A client that sends format 2025 is erased at the first timeout, since only
  `Store` sets `last_recive_time_` (`OnlyIdleErased`).
* Whatever the writers write for a second has `NOW()` in it, which SQLite does
  not have: with every table filled and nothing else going wrong, SQLite stores
  nothing of it (`SecondGoesToDB`). With `Backends = {"duckdb"}` the same
  instance violates the property for another word: DuckDB parses the whole text
  first and has no `REPLACE INTO`, which the participants, histories,
  `LapDetails`, classifications and lobbies are written with.

Observations that are premises or exceptions in the properties, or follow from
a definition without a run:

* A table with nothing to write (no marshal zones, no laps, nobody on the map)
  leaves its head dangling, which swallows the statement after it and stops the
  text (`Reachable`, in `StoredPrefix`).
* `DriverNum` counts drivers while the writers take that many places from the
  front: with a gap in the grid the per-car tables agree with one another but
  not with the participants (`NoGap`).
* Laps on a later set of tyres count from 0, on the first from 1
  (`LapsOnRightTyres`).
* `DuckDBHandler::Query` ignores the result, which is where DuckDB puts its
  errors, and returns true of texts it refused (`OnError`).
* The comment over the tower's badges (`telemetry_widgets.cpp:116`) ranks the
  track status before DRS; the code (lines 126 to 133) tests DRS first, as
  `layout.md` has it, and the model follows the code (`Dashboard`).
* `GetIpInfo` returns an empty text, which no JSON column of MySQL takes
  (`a_session.sql:12`): a client's registration is refused there as well, and
  the rows of `SessionList`, with their foreign key (line 34), fail unless
  IpList has the client from elsewhere. In the model the first is a matter of
  the words (`EMPTY JSON`), the second a mishap. `StoredPrefix` holds with both.
* A lap the recorder joined late gets its last timing point, the only one
  `diffBetween2CarJIT` tests; gaps to it subtract 0 (`Comparable`).
* After a flashback the abandoned snapshot may stay in the mark the car was
  taken back to and in the next one. The next one need not be where the car
  came from: two flashbacks without a snapshot between, or one of about a lap,
  take it before a mark of the same distance in another lap. The proof of
  `DetailsAsDriven` showed this, which the run is too small for; `seams` is
  stated accordingly and puts no bound on how far a flashback goes.

## 5. Proofs

TLAPS proves the following for every value of the constants, not only for the
instances of section 3. Each rests on an inductive invariant, named here, which
`Init` establishes and every action preserves; assumptions are the `ASSUME`s of
the modules, which TLC evaluates on every run.

* `DbHandlerProofs`: `TypeOK` and `LockHeld` (the invariant adds `InHand`, that
  the statement a thread works on was handed over), `EachStatementOnce`,
  `SyncBeforeLater`, `TakenInOrder`, `BoundedShutdown`, and that `DbHandler`
  implements the safety part of `SqlSink`, for any set of consumers, buffer
  size and number of statements. `Unique` says that a statement is in one place:
  the buffer has no repetition, no two threads hold the same statement, none is
  both waiting and in hand, and what was placed and what is being handed over
  together are `1..submitted`. The properties add, each, what they need: that
  the caller is at a synchronous statement or it was performed before any later
  one (`SyncDone`), how the buffer is ordered (`Sorted`), that the places of the
  statements add up (`Counted`, for `EachStatementOnce`), and that after
  shutdown a consumer has one statement left at most (`Stopping`). The
  refinement maps each step to a hand-over, a performance, the shutdown or a
  stutter.
* `PacketHouseProofs`: `TypeOK`, `FollowsSessionData`, `BatchOfOneSession`,
  `BatchKeysUnique`, `EventOnce`, `CompleteSecondRecorded`, for any number of
  sessions, cars, seconds and late datagrams; and, under the premise
  `AllInOrder` (no late datagrams), `CarInfoFresh` and that `PacketHouse`
  implements `SessionRecorder`. `Following` ties `session_uid_` to the slot of
  SessionData outside the one datagram that opens a session; `Headed` says that
  the last header is the current session's. `BatchInv` adds that no batch is
  later than `last_unix_time_`; `EventInv` that ids of events still collected
  are not among the rows; `Timely` relates `seen` and `due` to the code's bits;
  `Ordered` says that nothing collected is older than the session. Without the
  premise the last two are false: a late datagram's event or history goes under
  the wrong header.
* `ServerProofs`: `TypeOK`, `ParentRowsFirst`, `Idle2022Erased`, for any clients,
  ports, threshold and socket buffer, and `SessionNotSplit` where no client
  mixes formats (one that does is erased while it is sending, the finding of
  `server_2025`). `Houses` says that a house has an IpList row, the session of
  its client's last header and an age no greater than the silence;
  `Remembered`, that a client with a header has lapsed or still has the house
  that knows the session.
* `AllCarInfoProofs`: `FocusOnTrack` and `FlyLapReleased`, from `RankedOnTrack`
  (what is ranked is on the track) and `FlyLapInFocus` (a flying lap is a scene
  of timed sessions and has a car in focus); `TypeOK` and `GapIsTimeBehind`, for
  any number of cars and points and any race. For the gap, `SlicesAsPassed` says
  that each entry of the slice table is the true time of its point, once the
  point was passed and a packet seen, and 0 otherwise; `LapsAsDriven`, that the
  lap and point kept of a car are those of its last packet, which is what makes
  the late entry of a lap's last point the right one; `RaceOrder`, that
  `rankList_` is the inverse of the positions, so that the car before in the
  list is the car in front.
* `LapDetailsProofs`: `DetailsAsDriven`, from `Circuit` (a lap of two marks at
  least), for any cars, drive and flashbacks. `AllRight` is the property in
  terms of the row a mark would have if `ToSQL` ran now (`RowRight`, the last of
  the buffer or else the table's), which `ToSQL` leaves as it is. It is not
  inductive: a frame in a mark the car was sampled in already adds no row, so
  `HereRight` says that the mark of a car's last snapshot, if the car is in it,
  has its row, also when no frame in it was outside a flashback's effect;
  `SeamsTold` covers the frames at which the last snapshot, of another lap or of
  what was taken back, is mistaken for it; `InStep` ties `is_flash_back_` and
  the driver status to the last frame.
* `LapGapsProofs`: `GapsAsDriven`, from `Track` (finitely many cars, two points
  at least, room for the starts), wherever the recorder starts. `TableTrue` says
  of each point that was seen that the table has its true time, and of a point
  still to come that it has none; `PassedTimed`, that true times are positive,
  so that the 0 the code tests means "not passed"; `BestTrue`, that the best lap
  is a full one with that lap's time.
* `AppProofs`: of the `PacketMap` by itself `NoOldSession`,
  `ReadsWholeDatagram`, that all sixteen structs are as long as the datagrams
  (`StructsMatchDatagrams`), that the events never exceed `MaxEvents`, and
  `MapIsViewOfLog`. The invariant adds
  `Shape` and `SessionSeen` (the session of the map is one that was received,
  with which the order of packets is compared). `View`, for the last, says of
  each part of the map which packet of the log it is: `SessionView`, `SlotView`,
  `CarView` by the last place in the log, `EventView` by counting the events
  from each place on. A step of `Update` puts one packet at the end of the log,
  or begins a session, after which nothing of the log is left in view.
  Of the `TelemetryStream` by itself `CurvesComparable`, for any
  frame rate and `MaxSamples` (`Clock` orders the time marks, `Curves` says of
  which instant each sample was taken). Then `main`'s loop implements `MapSpec`
  and `StreamSpec`, so that `NoOldSession`, `MapIsViewOfLog` and
  `CurvesComparable` hold in the program; `LagBounded`, `PauseFreezesPicture`
  and `TypeOK`. `Served` says that once `Run` is over a datagram has a frame to
  spare; `Flow`, that sessions go up along the map's log and the socket;
  `Shown`, that the samples are those drawn until `UpdateStream`; `Surface`, for
  the types, that a map with a log has a house (`MapHasHouse`) and that both
  drivers' curves exist or neither (`BothOrNone`).
* `SqlRecordingProofs`: `StoredPrefix` and `RowsAgree`, for any seconds,
  classifications and lobbies, any number of cars and laps, and the three
  databases. `RecordingAssumption` is what the packets may say (histories of
  distinct cars, a stint that lasts to the last lap, sectors of the best lap no
  faster than the best sectors, a classification in order). The argument goes
  with the writers: `Reads(x, m, A)` says that the lines x are, statement by
  statement, the tables m up to the first with nothing to write, where a
  statement stands that no database can read, that each statement says
  something of A, and that it asks of a dialect what its table was meant to
  ask (`Knows`). How far a database gets is a matter of m and its dialect
  alone, `ReachIn(D, m)`, never further than the writers (`ReachInIs`), and at
  that place it finds a statement it refuses (`Unread`). It holds of what each writer returns (`PerCarReads`,
  `SessionReads`, `HistoryReads`, ...) and is kept by `\o` (`ReadsCat`,
  `ReadsStuck`; a head without rows takes the statement behind it along,
  `DanglingReads`) and by `FlattenSeq`. The invariant `RInv` says where in these
  statements a query stands (`Told`): `StoredPrefix` alone says nothing of the
  lines still to perform. For `RowsAgree` the rows stored are those the source
  may say (`SaidBy`): the participants' table comes before those of the cars
  (`SecondAnnounced`), counted drivers without a gap are the first `DriverNum`
  (`NoGapIs`), `TyresUpTo` keeps lap and stint together (`OnTyres`), and times
  read back from `TimeText` are the same times (`MillisOfText`). The recursive
  functions of `TyresUpTo`, `FlattenSeq` and the order `InOrder` chooses are
  shown to exist: the library's induction theorems take an operator, so
  induction goes over sets of naturals, by the well-foundedness of `<`
  (`LeastNat`, `NatInd`).

`Circuit` and `Track` are premises of their theorems and not `ASSUME`s, since
`AllCarInfo` instantiates these modules; it assumes both of its instances, and
`AllCarInfoProofs` draws the two properties of `AllSpec` from the theorems, the
instances being the same definition by definition (`SameRows`, `SameGaps`).

Every invariant the runs check is proved. Model-checked only are `WorkedOff`,
`QueryAsyncReturns`, `ShutdownCompletes`, `QuietHousesCleared`, `SocketsServed`
and `CloseEnds`: they are liveness, which is out of the prover's reach.

## 6. Not modelled

Option parsing, logging and the enum macro; `QueryData` and the `Query` that
returns rows (never called); stored procedures and boards; the columns no
property is about, the truncation of rows by `snprintf` and the rounding of
race times, which are doubles; a clock that is set back; in `AllCarInfo` the
race gaps other than that to the car in front (the same subtraction), slice
times after a flashback, the sort keys of three scenes, laps of time trials
(whose number stays 1) and their filtering of cars; the drawing of the track,
colours and coordinates of the dashboard; start-up of ImGui and GLFW. Points
passed unseen are modelled for timed sessions only.

## 7. Plan

What is left:

* a composition of `Server` and `DbHandler`, in which statements issued by the
  receive loop meet a full buffer;
* in `AllCarInfo`, the effect of a flashback on slice times and the race gaps
  to the leader, the last car and the best lap.

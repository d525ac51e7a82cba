---------------------------- MODULE SqlRecording ----------------------------
(***************************************************************************)
(* MysqlHandler, SqliteHandler and DuckDBHandler (src/common/*_handler.cpp): *)
(* a connection is opened, the schema's files are executed, and then Query   *)
(* is given the texts the row writers built, one after another, and the      *)
(* database performs them statement by statement.                            *)
(*                                                                          *)
(* The databases are external.  MySQL (with CLIENT_MULTI_STATEMENTS and       *)
(* autocommit on) and sqlite3_exec perform a text's statements in order and   *)
(* stop at the first that fails, keeping those before it; DuckDB parses the   *)
(* whole text first and performs nothing of a text it cannot parse.  The      *)
(* writers write MySQL's dialect whatever the database.                      *)
(* A statement may also fail for a reason that is not in its words: the       *)
(* disk, the connection, a key or a foreign key (a "mishap").                *)
(***************************************************************************)
EXTENDS RowWriters

CONSTANTS
    Backends,         \* of "mysql", "sqlite", "duckdb"
    TableFiles,       \* files of sql/ that create tables, in the map's order
    ProcedureFiles,   \* files of sql/ whose names end in _sp.sql
    Seconds,          \* what a second's text may be written from
    Classifications,  \* final classification packets
    Lobbies           \* numbers of players of lobby packets

(* What the packets may say.  The stint in use has lap 255 for its end; no
   sector of the best lap beats the best of that sector. *)
IsHistory(h) ==
    LET best == LapOrNone(h, h.bestLapTimeLapNum)
    IN  /\ h.numLaps \in Nat
        /\ h.endLap \in Seq(Nat)
        /\ {h.bestLapTimeLapNum, h.bestSector1LapNum, h.bestSector2LapNum,
            h.bestSector3LapNum} \subseteq Nat
        /\ \E i \in DOMAIN h.endLap : h.numLaps <= h.endLap[i]
        /\ \A l \in DOMAIN h.laps :
              {h.laps[l].sector1, h.laps[l].sector2, h.laps[l].sector3} \subseteq Nat
        /\ DOMAIN h.laps = 1..LapSlots
        /\ best.time = best.sector1 + best.sector2 + best.sector3
        /\ best.time > 0 =>
              /\ LapOrNone(h, h.bestSector1LapNum).sector1 <= best.sector1
              /\ LapOrNone(h, h.bestSector2LapNum).sector2 <= best.sector2
              /\ LapOrNone(h, h.bestSector3LapNum).sector3 <= best.sector3

(* all_session_history_ is a map from the car; OVTK is an event of a later game. *)
IsSecond(s) ==
    /\ s.zones \in Nat
    /\ s.samples \in Nat
    /\ s.placed \subseteq Cars /\ s.snapshots \subseteq Cars
    /\ s.histories \in Seq(Range(s.histories))
    /\ \A h \in Range(s.histories) : IsHistory(h)
    /\ \A j, k \in DOMAIN s.histories :
          s.histories[j].carIdx = s.histories[k].carIdx => j = k
    /\ s.events \in Seq(EventCodes \cup {"PENA", "BUTN", "OVTK"})

(* In the order of the classification, those who finished a race have driven
   fewer laps or taken longer, and the best laps get slower, to none at all. *)
IsClassification(c) ==
    /\ c.cars \in Seq(Range(c.cars))
    /\ \A p \in Range(c.cars) :
          /\ p.position \in Nat \ {0}
          /\ {p.laps, p.total, p.penalties, p.best} \subseteq Nat
          /\ p.position = 1 /\ IsRace(c) => p.status = "finished"
    /\ \E p \in Range(c.cars) : p.position = 1
    /\ \A p, q \in Range(c.cars) : p.position < q.position =>
          IF IsRace(c)
          THEN p.status = "finished" /\ q.status = "finished" =>
                  \/ p.laps > q.laps
                  \/ p.laps = q.laps /\ p.total + p.penalties <= q.total + q.penalties
          ELSE q.best > 0 => p.best > 0 /\ p.best <= q.best

ASSUME RecordingAssumption ==
    /\ Backends \subseteq {"mysql", "sqlite", "duckdb"}
    /\ Lobbies \subseteq Nat
    /\ \A s \in Seconds : IsSecond(s)
    /\ \A c \in Classifications : IsClassification(c)

VARIABLES
    backend,
    phase,     \* "new", "schema", "idle", "query", "failed", "closed"
    connected, \* conn_ is set
    files,     \* schema files still to execute
    schema,    \* schema files executed
    source,    \* what the last text was written from
    text,      \* the last text handed to Query
    performed, \* lines of it performed so far
    stored,    \* statements of it performed: table and rows
    verdict,   \* what Query returned: "none" until then
    mishap     \* a statement failed for a reason other than its words

connection == <<backend, connected, files, schema>>

query == <<source, text, performed, stored, verdict, mishap>>

vars == <<connection, phase, query>>

Nothing == [batch |-> "none"]

Init ==
    /\ backend \in Backends
    /\ phase = "new"
    /\ connected = FALSE
    /\ files = <<>>
    /\ schema = <<>>
    /\ source = Nothing
    /\ text = <<>>
    /\ performed = 0
    /\ stored = <<>>
    /\ verdict = "none"
    /\ mishap = FALSE
----------------------------------------------------------------------------
(* InitSchema: MySQL first creates and selects the database and also loads
   the procedures; the others ignore them. *)
SchemaFiles ==
    IF backend = "mysql"
    THEN <<"database">> \o TableFiles \o ProcedureFiles
    ELSE TableFiles

Open ==
    /\ phase = "new"
    /\ phase' = "schema"
    /\ connected' = TRUE
    /\ files' = SchemaFiles
    /\ UNCHANGED <<backend, schema, query>>

(* No server, no character set, no file: conn_ stays or becomes null. *)
OpenFails ==
    /\ phase = "new"
    /\ phase' = "failed"
    /\ UNCHANGED <<connection, query>>

ExecuteFile ==
    /\ phase = "schema"
    /\ files # <<>>
    /\ schema' = Append(schema, files[1])
    /\ files' = Tail(files)
    /\ UNCHANGED <<backend, connected, phase, query>>

(* Only SQLite closes its connection at once. *)
FileFails ==
    /\ phase = "schema"
    /\ files # <<>>
    /\ phase' = "failed"
    /\ connected' = (backend # "sqlite")
    /\ UNCHANGED <<backend, files, schema, query>>

SchemaReady ==
    /\ phase = "schema"
    /\ files = <<>>
    /\ phase' = "idle"
    /\ UNCHANGED <<connection, query>>

(* The owner gives up after a failure; otherwise the handler is destroyed
   between two queries. *)
Destroy ==
    /\ phase \in {"idle", "failed"}
    /\ phase' = "closed"
    /\ connected' = FALSE
    /\ UNCHANGED <<backend, files, schema, query>>
----------------------------------------------------------------------------
(* A text as the databases read it: a statement goes up to a semicolon, or
   to the end of the text. *)

StatementEnd(from) ==
    LET ends == {i \in (from + 1)..Len(text) : text[i].end = ";" \/ i = Len(text)}
    IN  CHOOSE i \in ends : \A j \in ends : i <= j

(* The verbs and functions each database knows, as far as the writers use
   them.  SQLite has no NOW(), and SqliteHandler::Init registers none; DuckDB
   has INSERT OR REPLACE INTO but not REPLACE INTO.  No JSON text is empty;
   in SQLite a column's type is only a hint. *)
Dialect ==
    [mysql |-> {"INSERT", "REPLACE", "UPDATE", "ON DUPLICATE KEY", "NOW"},
     sqlite |-> {"INSERT", "REPLACE", "UPDATE", "EMPTY JSON"},
     duckdb |-> {"INSERT", "UPDATE", "NOW"}]

WellFormed(lines) ==
    /\ \A k \in DOMAIN lines : lines[k].asks \subseteq Dialect[backend]
    /\ \/ Len(lines) = 1 /\ lines[1].kind = "whole"
       \/ /\ Len(lines) > 1
          /\ lines[1].kind = "head"
          /\ \A k \in 2..Len(lines) :
                /\ lines[k].kind = "row"
                /\ lines[k].table = lines[1].table
                /\ (lines[k].end = ";") = (k = Len(lines))

Stored(lines) ==
    [table |-> lines[1].table,
     rows |-> {lines[k].data : k \in {j \in DOMAIN lines : lines[j].kind # "head"}}]

Statements == {i \in 0..(Len(text) - 1) : i = 0 \/ text[i].end = ";"}

Parses ==
    \A i \in Statements : WellFormed(SubSeq(text, i + 1, StatementEnd(i)))

(* UnPacketAndSendToDB registers a new client, and passes on what Handle
   wrote, if it wrote anything. *)
HandOver(what, sql) ==
    /\ phase = "idle"
    /\ sql # <<>>
    /\ phase' = "query"
    /\ source' = what
    /\ text' = sql
    /\ performed' = 0
    /\ stored' = <<>>
    /\ verdict' = "none"
    /\ mishap' = FALSE
    /\ UNCHANGED connection

HandOverClient == HandOver([batch |-> "client"], ClientToSQL)

HandOverHeader == HandOver([batch |-> "header"], HeaderToSQL)

HandOverLobby ==
    \E n \in Lobbies :
       HandOver([batch |-> "lobby", players |-> n], LobbyInfoToSQL(n))

HandOverClassification ==
    \E c \in Classifications :
       HandOver([batch |-> "classification", of |-> c], FinalClassificationToSQL(c))

HandOverSecond ==
    \E s \in Seconds : HandOver([batch |-> "second", of |-> s], SecondToSQL(s))

(* Query is over. *)
Return(answer) == phase' = "idle" /\ verdict' = answer

(* DuckDB's Query looks at exceptions only, and an error is not one. *)
OnError == IF backend = "duckdb" THEN "true" ELSE "false"

Perform ==
    /\ phase = "query"
    /\ performed < Len(text)
    /\ backend = "duckdb" => Parses
    /\ LET last == StatementEnd(performed)
           lines == SubSeq(text, performed + 1, last)
       IN  /\ WellFormed(lines)
           /\ stored' = Append(stored, Stored(lines))
           /\ performed' = last
    /\ UNCHANGED <<connection, phase, source, text, verdict, mishap>>

StopsAtMalformed ==
    /\ phase = "query"
    /\ performed < Len(text)
    /\ IF backend = "duckdb"
       THEN ~ Parses
       ELSE ~ WellFormed(SubSeq(text, performed + 1, StatementEnd(performed)))
    /\ Return(OnError)
    /\ UNCHANGED <<connection, source, text, performed, stored, mishap>>

(* A statement fails, or after the last one MySQL's commit. *)
StopsAtMishap ==
    /\ phase = "query"
    /\ performed < Len(text) \/ backend = "mysql"
    /\ mishap' = TRUE
    /\ Return(OnError)
    /\ UNCHANGED <<connection, source, text, performed, stored>>

Done ==
    /\ phase = "query"
    /\ performed = Len(text)
    /\ Return("true")
    /\ UNCHANGED <<connection, source, text, performed, stored, mishap>>

Next ==
    \/ Open
    \/ OpenFails
    \/ ExecuteFile
    \/ FileFails
    \/ SchemaReady
    \/ Destroy
    \/ HandOverClient
    \/ HandOverHeader
    \/ HandOverLobby
    \/ HandOverClassification
    \/ HandOverSecond
    \/ Perform
    \/ StopsAtMalformed
    \/ StopsAtMishap
    \/ Done

Spec == Init /\ [][Next]_vars
----------------------------------------------------------------------------
(* What a text was meant to store: its tables in Handle's order, each with
   what its statement asks of the dialect and whether there is nothing to
   write in it. *)

Meant(asks, t, nothing) == [table |-> t, asks |-> asks, nothing |-> nothing]

(* Driven by someone the recorder counts. *)
Counted(s, i) == s.grid[i] # "empty" /\ ~ (s.network /\ s.grid[i] = "ai_local")

Recorded(s, i) == ~ (s.type = "time_trial" /\ i \notin {0, s.pb, s.rival})

MeantHistory(s, h) ==
    IF Recorded(s, h.carIdx)
    THEN <<Meant(Replaces, "LapHistoryData", h.numLaps = 0),
           Meant(Inserts, "BestLap", FALSE)>>
    ELSE <<>>

MeantEvent(code) ==
    CASE code = "PENA" -> <<Meant(Inserts, "PenaltyUpdate", FALSE)>>
      [] code \in {"BUTN", "OVTK"} -> <<>>
      [] OTHER -> <<Meant(Inserts, "EventUpdate", FALSE)>>

MeantState(s) ==
    LET counted == {i \in Cars : Counted(s, i)}
        nobody == counted = {}
        first == {i \in Cars : i < Cardinality(counted) /\ Recorded(s, i)}
        Table(t, nothing) == <<Meant(Inserts, t, nothing)>>
        If(c, asks, t) == IF c THEN <<Meant(asks, t, FALSE)>> ELSE <<>>
    IN  Table("SessionData", FALSE)
          \o If(s.samples # 0, Inserts, "WeatherForecast")
          \o Table("MarshalZones", s.zones = 0)
          \o <<Meant(Replaces, "Participants", \A i \in Cars : s.grid[i] = "empty")>>
          \o <<Meant({"UPDATE"}, "SessionList", FALSE)>>
          \o <<Meant({"UPDATE", "NOW"}, "IpList", FALSE)>>
          \o Table("CarMotion", first \cap s.placed = {})
          \o Table("LapData", nobody)
          \o Table("CarTelemetry", nobody)
          \o Table("CarStatus", nobody)
          \o Table("CarDamage", nobody)
          \o Table("CarDiff", nobody)
          \o If(s.focus # Unset, Inserts, "CarFocus")
          \o If(\E i \in s.snapshots : i < Cardinality(counted),
                Replaces, "LapDetails")

MeantSecond(s) ==
    FlattenSeq([k \in DOMAIN s.histories |-> MeantHistory(s, s.histories[k])])
      \o FlattenSeq([k \in DOMAIN s.events |-> MeantEvent(s.events[k])])
      \o (IF s.enough THEN MeantState(s) ELSE <<>>)

MeantBy(what) ==
    CASE what.batch = "none" -> <<>>
      [] what.batch = "client" ->
           <<Meant(Inserts \cup {"ON DUPLICATE KEY", "EMPTY JSON"}, "IpList", FALSE)>>
      [] what.batch = "header" -> <<Meant(Inserts, "SessionList", FALSE)>>
      [] what.batch = "lobby" ->
           [i \in 1..what.players |-> Meant(Replaces, "LobbyInfo", FALSE)]
      [] what.batch = "classification" ->
           [i \in 1..Cardinality({k \in DOMAIN what.of.cars :
                                     what.of.cars[k].status # "not_classified"})
              |-> Meant(Replaces, "FinalClassification", FALSE)]
      [] what.batch = "second" -> MeantSecond(what.of)

MeantTables == MeantBy(source)

(* Nothing to write, or written in words the database does not know. *)
Refused(m) == m.nothing \/ ~ (m.asks \subseteq Dialect[backend])

(* How many come before the first that is refused. *)
Reach(tables) ==
    LET refused == {k \in DOMAIN tables : Refused(tables[k])}
    IN  IF refused = {} THEN Len(tables)
        ELSE (CHOOSE k \in refused : \A j \in refused : k <= j) - 1

Reachable == Reach(MeantTables)
----------------------------------------------------------------------------
StoredTables == [k \in DOMAIN stored |-> stored[k].table]

(* The tables a text was meant to store, by name. *)
MeantNames == [k \in DOMAIN MeantTables |-> MeantTables[k].table]

(* Whatever stops a text, what it has stored are the tables Handle writes
   first, in its order, and never a statement made of the pieces of two: a
   table with nothing to write (no marshal zones, no laps, nobody on the
   map), or written in words the database does not know (NOW() in SQLite,
   REPLACE INTO in DuckDB), ends the text at its own statement, in DuckDB
   before its first.  A text without either, which nothing else goes wrong
   with, is stored whole, and a Query of MySQL or SQLite that returns true
   has stored the whole text. *)
StoredPrefix ==
    LET meant == MeantNames
        whole == Reachable = Len(meant)
    IN  /\ IsPrefix(StoredTables, SubSeq(meant, 1, Reachable))
        /\ verdict # "none" /\ ~ mishap =>
              Len(stored) = IF backend = "duckdb" /\ ~ whole THEN 0 ELSE Reachable
        /\ verdict = "true" /\ backend # "duckdb" =>
              whole /\ StoredTables = meant

(* A second's text, if each of its tables has something to write, goes to the
   database it is handed to, unless that database itself fails. *)
SecondGoesToDB ==
    /\ source.batch = "second"
    /\ verdict # "none"
    /\ ~ mishap
    /\ \A k \in DOMAIN MeantTables : ~ MeantTables[k].nothing
    => StoredTables = MeantNames

RowsOf(t) == UNION {stored[k].rows : k \in {j \in DOMAIN stored : stored[j].table = t}}

PerCarTables == {"LapData", "CarTelemetry", "CarStatus", "CarDamage", "CarDiff"}

(* The counted drivers take the first places of the grid. *)
NoGap(s) ==
    \A i \in Cars : Counted(s, i) => \A j \in 0..i : Counted(s, j)

(* The tables of one second that have a row per car have the same cars, each
   once; the map has some of them.  While the counted drivers have the first
   places they are those the participants table names, less, in a time trial,
   the cars that are neither the player's nor the two ghosts'. *)
CarsAgree ==
    source.batch = "second" =>
        LET s == source.of
            written == PerCarTables \cap {StoredTables[k] : k \in DOMAIN stored}
        IN  \A t \in written :
               /\ RowsOf("CarMotion") \subseteq RowsOf(t)
               /\ \A u \in written : RowsOf(t) = RowsOf(u)
               /\ NoGap(s) =>
                     RowsOf(t) = {i \in RowsOf("Participants") :
                                    Counted(s, i) /\ Recorded(s, i)}

(* Each lap is filed under the first stint that had not ended before it, as
   long as no two stints end on the same lap; the laps on a set count up
   from 1, on a later set from 0. *)
LapsOnRightTyres ==
    source.batch = "second" =>
        \A k \in DOMAIN source.of.histories :
           LET h == source.of.histories[k]
               stints == DOMAIN h.endLap
               StintOf(lap) == CHOOSE s \in stints :
                                 /\ lap <= h.endLap[s]
                                 /\ \A r \in stints : r < s => h.endLap[r] < lap
           IN  (\A s, r \in stints : s < r => h.endLap[s] < h.endLap[r]) =>
                 \A row \in {r \in RowsOf("LapHistoryData") : r.car = h.carIdx} :
                    LET s == StintOf(row.lap)
                    IN  /\ row.stint = s
                        /\ row.used = IF s = 1 THEN row.lap
                                      ELSE row.lap - h.endLap[s - 1] - 1

(* The theoretical best lap is no slower than the best lap. *)
TheoryNotSlower ==
    \A row \in RowsOf("BestLap") :
       row.best > 0 /\ row.theoretical > 0 => row.theoretical <= row.best

Millis(t) == IF t = <<>> THEN 0 ELSE (t[1] * 60 + t[2]) * 1000 + t[3]

(* A result list reads as the classification: the car ahead has the smaller
   gap, or fewer laps to make up, and whoever has a gap is ahead of whoever
   is laps down. *)
ResultsOrdered ==
    \A p, q \in RowsOf("FinalClassification") : p.position < q.position =>
       /\ p.result.kind = "gap" /\ q.result.kind = "gap" =>
             Millis(p.result.text) <= Millis(q.result.text)
       /\ p.result.kind = "laps" =>
             /\ q.result.kind \notin {"time", "gap"}
             /\ q.result.kind = "laps" => p.result.text[1] <= q.result.text[1]

(* What the rows say is what the packets said. *)
RowsAgree ==
    CarsAgree /\ LapsOnRightTyres /\ TheoryNotSlower /\ ResultsOrdered
=============================================================================

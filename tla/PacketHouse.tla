---------------------------- MODULE PacketHouse ----------------------------
(***************************************************************************)
(* PacketHouse (src/server/packet_house.cpp): the state kept for one client *)
(* that sends F1 2022 telemetry, and what Store and Handle do with each     *)
(* datagram.  Server::UnPacketAndSendToDB calls Store and then Handle for   *)
(* every datagram; the clock may tick in between.                           *)
(*                                                                          *)
(* A session is a number; the four fields IsNewSession compares (uid, type, *)
(* track, link identifier) are that number, and NoSession stands for the    *)
(* zeroed packet a slot starts with.  The content of a packet is the        *)
(* session it was sent in.                                                  *)
(***************************************************************************)
EXTENDS Integers, Sequences, FiniteSets

CONSTANTS
    NumSessions,  \* bound: sessions the game goes through
    Telemetry,    \* the same-frequency packets this instance tells apart
    Cars,         \* cars with a session history
    MaxTime,      \* bound: seconds
    Traffics      \* bounds, one chosen at the start: the packet types the game
                  \* sends, the number of events, and the number of datagrams
                  \* of the previous session that arrive late

Sessions == 1..NumSessions

NoSession == 0

PacketID ==
    {"CarMotion", "SessionData", "LapData", "EventData", "Participants",
     "CarSetup", "CarTelemetry", "CarStatus", "FinalClassification",
     "LobbyInfo", "CarDamage", "SessionHistory"}

ASSUME SessionsAssumption == NumSessions \in Nat \ {0}

ASSUME PacketsAssumption ==
    /\ Telemetry \subseteq
          {"CarMotion", "CarSetup", "CarTelemetry", "CarStatus", "CarDamage"}
    /\ IsFiniteSet(Cars)
    /\ Cars \subseteq Nat

ASSUME BoundsAssumption ==
    /\ MaxTime \in Nat
    /\ Traffics \subseteq [delivered : SUBSET PacketID, events : Nat, late : Nat]

VARIABLES
    traffic,
    now,              \* std::time(0)
    game,             \* the session the game is in
    eventsSent,
    late,             \* late datagrams so far
    phase,            \* "recv": waiting; "handle": stored, not yet handled
    recv_bit_,
    cur_recv_bit_,
    slot,             \* slot[t]: the session of packet_[t]
    event_vec_,
    all_session_history_, \* per car, the session of its last history packet
    car_info_,        \* the sessions whose data AllCarInfo's cars hold; its
                      \* session_ is packet_[SessionData]
    ranked,           \* car_info_.rank_num_ > 0
    session_uid_,
    last_session_,
    begin_unix_time_,
    last_unix_time_,
    headers,          \* SessionList rows written
    rows,             \* other rows written
    seen,             \* same-frequency types that arrived in this second
    due               \* a complete second has not been recorded yet

environment == <<now, game, eventsSent, late>>
bits == <<recv_bit_, cur_recv_bit_>>
collected == <<event_vec_, all_session_history_, car_info_, ranked>>
clockMarks == <<begin_unix_time_, last_unix_time_>>
written == <<headers, rows>>
watch == <<seen, due>>

vars == <<traffic, environment, phase, bits, slot, collected, session_uid_,
          last_session_, clockMarks, written, watch>>

SameFrequency == Telemetry \cup {"LapData"}
----------------------------------------------------------------------------
(* The tests on the bit sets. *)

TestRecvPacketExist(t) == t \in recv_bit_ /\ slot[t] = session_uid_

(* Faulty: the packet may be of another session. *)
TestCurRecvPacketExistAnySession(t) == t \in cur_recv_bit_

TestCurRecvPacketExist(t) == t \in cur_recv_bit_ /\ slot[t] = session_uid_

IsNewSession ==
    "SessionData" \in cur_recv_bit_ /\ slot["SessionData"] # last_session_

CheckPacketIsEnough ==
    /\ TestRecvPacketExist("Participants")
    /\ TestRecvPacketExist("SessionData")
    /\ \A t \in SameFrequency : TestCurRecvPacketExist(t)

(* What the comment at the head of Handle asks for: the current session's
   packets are all there. *)
CompleteSecond ==
    /\ SameFrequency \subseteq seen
    /\ TestRecvPacketExist("Participants")
    /\ TestRecvPacketExist("SessionData")
----------------------------------------------------------------------------
(* The constructor: zeroed packets, Reset(true). *)
Init ==
    /\ traffic \in Traffics
    /\ now = 0
    /\ game = 1
    /\ eventsSent = 0
    /\ late = 0
    /\ phase = "recv"
    /\ recv_bit_ = {}
    /\ cur_recv_bit_ = {}
    /\ slot = [t \in PacketID |-> NoSession]
    /\ event_vec_ = <<>>
    /\ all_session_history_ = [c \in Cars |-> NoSession]
    /\ car_info_ = {}
    /\ ranked = FALSE
    /\ session_uid_ = NoSession
    /\ last_session_ = NoSession
    /\ begin_unix_time_ = 0
    /\ last_unix_time_ = 0
    /\ headers = <<>>
    /\ rows = {}
    /\ seen = {}
    /\ due = FALSE

(* Time goes by; a second that was complete and has no batch is due. *)
Tick ==
    /\ now < MaxTime
    /\ now' = now + 1
    /\ due' = (due \/ (CompleteSecond /\
                       ~ \E r \in rows : r.table = "batch" /\ r.cur = now))
    /\ seen' = {}
    /\ UNCHANGED <<traffic, game, eventsSent, late, phase, bits, slot, collected,
                   session_uid_, last_session_, clockMarks, written>>

(* The game moves on to its next session. *)
NextSession ==
    /\ game < NumSessions
    /\ game' = game + 1
    /\ UNCHANGED <<traffic, now, eventsSent, late, phase, bits, slot, collected,
                   session_uid_, last_session_, clockMarks, written, watch>>
----------------------------------------------------------------------------
(* Store: the slot first, then what the packet type calls for, then the two
   bits. *)

(* A datagram of the current session, or a late one of the session before. *)
Arrive(s) ==
    \/ s = game /\ UNCHANGED late
    \/ s = game - 1 /\ late < traffic.late /\ late' = late + 1

Overwrite(t, s) ==
    /\ phase = "recv"
    /\ t \in traffic.delivered
    /\ Arrive(s)
    /\ phase' = "handle"
    /\ slot' = [slot EXCEPT ![t] = s]
    /\ IF s = session_uid_
         THEN seen' = seen \cup {t} /\ UNCHANGED due
         ELSE seen' = {} /\ due' = FALSE
    /\ UNCHANGED <<traffic, now, game, session_uid_, clockMarks, written>>

(* Faulty: only the bit of this second is set. *)
MarkReceivedCurOnly(t) ==
    /\ cur_recv_bit_' = cur_recv_bit_ \cup {t}
    /\ UNCHANGED recv_bit_

MarkReceived(t) ==
    /\ recv_bit_' = recv_bit_ \cup {t}
    /\ cur_recv_bit_' = cur_recv_bit_ \cup {t}

(* Faulty: the copy is taken after the slot was overwritten. *)
StoreSessionDataCopyLate(s) ==
    /\ Overwrite("SessionData", s)
    /\ MarkReceived("SessionData")
    /\ last_session_' = s
    /\ UNCHANGED <<eventsSent, collected>>

(* The old SessionData is kept for IsNewSession. *)
StoreSessionData(s) ==
    /\ Overwrite("SessionData", s)
    /\ MarkReceived("SessionData")
    /\ last_session_' = slot["SessionData"]
    /\ UNCHANGED <<eventsSent, collected>>

(* FillLapData, only once the SessionData of the current session is there. *)
StoreLapData(s) ==
    /\ Overwrite("LapData", s)
    /\ MarkReceived("LapData")
    /\ IF TestRecvPacketExist("SessionData")
         THEN car_info_' = car_info_ \cup {s} /\ ranked' = TRUE
         ELSE UNCHANGED <<car_info_, ranked>>
    /\ UNCHANGED <<eventsSent, event_vec_, all_session_history_, last_session_>>

StoreEvent(s) ==
    /\ eventsSent < traffic.events
    /\ eventsSent' = eventsSent + 1
    /\ Overwrite("EventData", s)
    /\ MarkReceived("EventData")
    /\ event_vec_' = Append(event_vec_, [session |-> s, id |-> eventsSent + 1])
    /\ UNCHANGED <<all_session_history_, car_info_, ranked, last_session_>>

(* A BUTN event returns before the bits are set, with the slot overwritten. *)
StoreButton(s) ==
    /\ Overwrite("EventData", s)
    /\ UNCHANGED <<eventsSent, bits, collected, last_session_>>

StoreSessionHistory(s, car) ==
    /\ Overwrite("SessionHistory", s)
    /\ MarkReceived("SessionHistory")
    /\ all_session_history_' = [all_session_history_ EXCEPT ![car] = s]
    /\ car_info_' = car_info_ \cup {s}
    /\ UNCHANGED <<eventsSent, event_vec_, ranked, last_session_>>

(* CarStatus, CarTelemetry, CarDamage, CarMotion fill car_info_ whatever the
   session; CarSetup falls to the default. *)
StoreTelemetry(t, s) ==
    /\ Overwrite(t, s)
    /\ MarkReceived(t)
    /\ car_info_' = IF t = "CarSetup" THEN car_info_ ELSE car_info_ \cup {s}
    /\ UNCHANGED <<eventsSent, event_vec_, all_session_history_, ranked,
                   last_session_>>

StoreOther(t, s) ==
    /\ Overwrite(t, s)
    /\ MarkReceived(t)
    /\ UNCHANGED <<eventsSent, collected, last_session_>>

(* Another packet format: Server calls Handle without Store. *)
SkipStore ==
    /\ phase = "recv"
    /\ phase' = "handle"
    /\ UNCHANGED <<traffic, environment, bits, slot, collected, session_uid_,
                   last_session_, clockMarks, written, watch>>

Store ==
    \E s \in Sessions :
        \/ StoreSessionData(s)
        \/ StoreLapData(s)
        \/ StoreEvent(s)
        \/ StoreButton(s)
        \/ \E car \in Cars : StoreSessionHistory(s, car)
        \/ \E t \in Telemetry : StoreTelemetry(t, s)
        \/ \E t \in {"Participants", "FinalClassification", "LobbyInfo"} :
              StoreOther(t, s)
----------------------------------------------------------------------------
(* Handle: its early returns in order, then the once-per-second part. *)

Handling == phase = "handle" /\ phase' = "recv" /\ UNCHANGED <<traffic, environment, slot>>

Nothing == cur_recv_bit_ = {}

Lobby == "LobbyInfo" \in cur_recv_bit_

Known == TestRecvPacketExist("Participants") /\ TestRecvPacketExist("SessionData")

Final == TestCurRecvPacketExist("FinalClassification")

HandleNothing ==
    /\ Handling
    /\ Nothing
    /\ UNCHANGED <<bits, collected, session_uid_, last_session_, clockMarks,
                   written, watch>>

(* LobbyInfo rows have no session key; they are written at once. *)
HandleLobby ==
    /\ Handling
    /\ Lobby
    /\ cur_recv_bit_' = cur_recv_bit_ \ {"LobbyInfo"}
    /\ UNCHANGED <<recv_bit_, collected, session_uid_, last_session_, clockMarks,
                   written, watch>>

(* Faulty: the events collected so far survive. *)
ResetKeepsEvents ==
    /\ all_session_history_' = [c \in Cars |-> NoSession]
    /\ car_info_' = {}
    /\ ranked' = FALSE
    /\ begin_unix_time_' = now
    /\ last_unix_time_' = now
    /\ UNCHANGED event_vec_

(* Faulty: the cars are not initialised. *)
ResetKeepsCars ==
    /\ event_vec_' = <<>>
    /\ all_session_history_' = [c \in Cars |-> NoSession]
    /\ begin_unix_time_' = now
    /\ last_unix_time_' = now
    /\ UNCHANGED <<car_info_, ranked>>

(* Reset(false): the collections, the session and both time marks. *)
Reset ==
    /\ event_vec_' = <<>>
    /\ all_session_history_' = [c \in Cars |-> NoSession]
    /\ car_info_' = {}
    /\ ranked' = FALSE
    /\ begin_unix_time_' = now
    /\ last_unix_time_' = now

(* A new session: Reset, and the SessionList row, which Server executes
   synchronously. *)
HandleNewSession ==
    /\ Handling
    /\ ~Nothing /\ ~Lobby
    /\ IsNewSession
    /\ Reset
    /\ session_uid_' = slot["SessionData"]
    /\ headers' = Append(headers, [session |-> slot["SessionData"], begin |-> now])
    /\ cur_recv_bit_' = cur_recv_bit_ \ {"SessionData"}
    /\ UNCHANGED <<recv_bit_, last_session_, rows, watch>>

(* The current session's Participants or SessionData are missing. *)
HandleUnknown ==
    /\ Handling
    /\ ~Nothing /\ ~Lobby /\ ~IsNewSession
    /\ ~Known
    /\ UNCHANGED <<bits, collected, session_uid_, last_session_, clockMarks,
                   written, watch>>

Ordinary == Handling /\ ~Nothing /\ ~Lobby /\ ~IsNewSession /\ Known

Row(table, of, item, cur) ==
    [table |-> table, header |-> Len(headers), begin |-> begin_unix_time_,
     cur |-> cur, of |-> of, item |-> item]

(* FinalClassification is written at once. *)
HandleFinal ==
    /\ Ordinary
    /\ Final
    /\ cur_recv_bit_' = cur_recv_bit_ \ {"FinalClassification"}
    /\ rows' = rows \cup
          {Row("final", {slot["FinalClassification"]}, 0, last_unix_time_)}
    /\ UNCHANGED <<recv_bit_, collected, session_uid_, last_session_, clockMarks,
                   headers, watch>>

(* This second has been looked at already.  Testing FinalClassification
   clears its bit also when it is of another session. *)
HandleSameSecond ==
    /\ Ordinary
    /\ ~Final
    /\ now <= last_unix_time_
    /\ cur_recv_bit_' = cur_recv_bit_ \ {"FinalClassification"}
    /\ UNCHANGED <<recv_bit_, collected, session_uid_, last_session_, clockMarks,
                   written, watch>>

HistoryRows ==
    IF TestCurRecvPacketExist("SessionHistory")
    THEN {Row("history", {all_session_history_[c]}, c, now) :
             c \in {d \in Cars : all_session_history_[d] # NoSession}}
    ELSE {}

EventRows ==
    IF TestCurRecvPacketExist("EventData")
    THEN {Row("event", {event_vec_[i].session}, event_vec_[i].id, now) :
             i \in DOMAIN event_vec_}
    ELSE {}

(* The same-frequency tables (CarSetup is not written) and, computed from
   car_info_, the CarDiff, CarFocus and LapDetails rows. *)
BatchRows ==
    IF CheckPacketIsEnough
    THEN {Row("batch",
              {slot[t] : t \in {"Participants", "SessionData"}
                                \cup (SameFrequency \ {"CarSetup"})}, 0, now),
          Row("CarDiff", car_info_, 0, now)}
    ELSE {}

(* Faulty: twice in the same second. *)
HandleSecondAgain ==
    /\ Ordinary
    /\ ~Final
    /\ now >= last_unix_time_
    /\ last_unix_time_' = now
    /\ rows' = rows \cup HistoryRows \cup EventRows \cup BatchRows
    /\ event_vec_' = IF TestCurRecvPacketExist("EventData") THEN <<>> ELSE event_vec_
    /\ cur_recv_bit_' =
          IF CheckPacketIsEnough THEN {}
          ELSE cur_recv_bit_ \
                  {"FinalClassification", "SessionHistory", "EventData"}
    /\ due' = (due /\ ~CheckPacketIsEnough)
    /\ UNCHANGED <<recv_bit_, all_session_history_, car_info_, ranked,
                   session_uid_, last_session_, begin_unix_time_, headers, seen>>

(* Faulty: the events stay. *)
HandleSecondKeepsEvents ==
    /\ Ordinary
    /\ ~Final
    /\ now > last_unix_time_
    /\ last_unix_time_' = now
    /\ rows' = rows \cup HistoryRows \cup EventRows \cup BatchRows
    /\ event_vec_' = event_vec_
    /\ cur_recv_bit_' =
          IF CheckPacketIsEnough THEN {}
          ELSE cur_recv_bit_ \
                  {"FinalClassification", "SessionHistory", "EventData"}
    /\ due' = (due /\ ~CheckPacketIsEnough)
    /\ UNCHANGED <<recv_bit_, all_session_history_, car_info_, ranked,
                   session_uid_, last_session_, begin_unix_time_, headers, seen>>

(* Faulty: a check that comes up short discards what has arrived. *)
HandleSecondDiscards ==
    /\ Ordinary
    /\ ~Final
    /\ now > last_unix_time_
    /\ last_unix_time_' = now
    /\ rows' = rows \cup HistoryRows \cup EventRows \cup BatchRows
    /\ event_vec_' = IF TestCurRecvPacketExist("EventData") THEN <<>> ELSE event_vec_
    /\ cur_recv_bit_' = {}
    /\ due' = (due /\ ~CheckPacketIsEnough)
    /\ UNCHANGED <<recv_bit_, all_session_history_, car_info_, ranked,
                   session_uid_, last_session_, begin_unix_time_, headers, seen>>

(* The first datagram of a later second: histories, events, then the batch;
   last_unix_time_ advances whether or not there is enough for a batch. *)
HandleSecond ==
    /\ Ordinary
    /\ ~Final
    /\ now > last_unix_time_
    /\ last_unix_time_' = now
    /\ rows' = rows \cup HistoryRows \cup EventRows \cup BatchRows
    /\ event_vec_' = IF TestCurRecvPacketExist("EventData") THEN <<>> ELSE event_vec_
    /\ cur_recv_bit_' =
          IF CheckPacketIsEnough THEN {}
          ELSE cur_recv_bit_ \
                  {"FinalClassification", "SessionHistory", "EventData"}
    /\ due' = (due /\ ~CheckPacketIsEnough)
    /\ UNCHANGED <<recv_bit_, all_session_history_, car_info_, ranked,
                   session_uid_, last_session_, begin_unix_time_, headers, seen>>

Handle ==
    \/ HandleNothing
    \/ HandleLobby
    \/ HandleNewSession
    \/ HandleUnknown
    \/ HandleFinal
    \/ HandleSameSecond
    \/ HandleSecond

Next == Tick \/ NextSession \/ Store \/ SkipStore \/ Handle

Spec == Init /\ [][Next]_vars
----------------------------------------------------------------------------
(* Properties. *)

HeaderType == [session : Sessions, begin : 0..MaxTime]

Tables == {"batch", "CarDiff", "history", "event", "final"}

RowType ==
    [table : Tables, header : 0..Len(headers), begin : 0..MaxTime,
     cur : 0..MaxTime, of : SUBSET Sessions, item : Nat]

(* Every variable has its type. *)
TypeOK ==
    /\ traffic \in Traffics
    /\ now \in 0..MaxTime
    /\ game \in Sessions
    /\ eventsSent \in 0..traffic.events
    /\ late \in 0..traffic.late
    /\ phase \in {"recv", "handle"}
    /\ recv_bit_ \subseteq PacketID
    /\ cur_recv_bit_ \subseteq recv_bit_
    /\ slot \in [PacketID -> Sessions \cup {NoSession}]
    /\ event_vec_ \in Seq([session : Sessions, id : 1..traffic.events])
    /\ all_session_history_ \in [Cars -> Sessions \cup {NoSession}]
    /\ car_info_ \subseteq Sessions
    /\ ranked \in BOOLEAN
    /\ session_uid_ \in Sessions \cup {NoSession}
    /\ last_session_ \in Sessions \cup {NoSession}
    /\ begin_unix_time_ \in 0..now
    /\ last_unix_time_ \in begin_unix_time_..now
    /\ headers \in Seq(HeaderType)
    /\ rows \subseteq RowType
    /\ seen \subseteq PacketID
    /\ due \in BOOLEAN

(* The promise of SessionRecorder, CarDiff aside. *)
Recorder == INSTANCE SessionRecorder WITH
    rows <- {r \in rows : r.table # "CarDiff"}

(* When datagrams arrive in order, the house records one session after the
   other: every row goes under the SessionList row of its own session, also
   events and histories collected around the change, and a second gets one
   batch at most. *)
ImplementsRecorder == Recorder!RecorderSpec

(* The CarDiff, CarFocus and LapDetails rows never use data of a session
   older than the one they are written for: Reset starts car_info_ afresh. *)
CarInfoFresh ==
    \A r \in rows : r.table = "CarDiff" =>
        \A s \in r.of : s >= headers[r.header].session

(* A second in which the whole set of the current session arrived is recorded
   by the first ordinary datagram of the next one; a check that comes up
   short does not throw away what has arrived. *)
CompleteSecondRecorded == [][HandleSecond \/ HandleSameSecond => ~due']_vars

(* Whatever the order of arrival, the house follows the SessionData packet it
   received last. *)
FollowsSessionData ==
    phase = "recv" /\ "SessionData" \in recv_bit_ =>
        session_uid_ = slot["SessionData"]

(* Whatever the order of arrival, a per-second batch holds data of a single
   session, the one it is filed under. *)
BatchOfOneSession ==
    \A r \in rows : r.table = "batch" =>
        /\ r.header > 0
        /\ r.of = {headers[r.header].session}
        /\ r.begin = headers[r.header].begin

(* Whatever the order of arrival, (beginUnixTime, curUnixTime), the primary
   key of the per-second tables, is never used for two batches. *)
BatchKeysUnique ==
    \A r, q \in rows : r.table = "batch" /\ q.table = "batch" /\
        r.begin = q.begin /\ r.cur = q.cur => r = q

(* Whatever the order of arrival, an event is written at most once. *)
EventOnce ==
    \A r, q \in rows : r.table = "event" /\ q.table = "event" /\
        r.item = q.item => r = q

(* a_session.sql gives SessionList the primary key (ipDecimal, beginUnixTime). *)
SessionKeysUnique ==
    \A i, j \in DOMAIN headers : headers[i].begin = headers[j].begin => i = j

(* CarDiff and CarFocus rows are computed from a ranking: FillLapData has run
   since the session began (PickForRace reads rankList_[0] without a test). *)
RankedWhenWritten == [][HandleSecond /\ CheckPacketIsEnough => ranked]_vars
============================================================================

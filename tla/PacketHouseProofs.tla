-------------------------- MODULE PacketHouseProofs --------------------------
(***************************************************************************)
(* Machine-checked facts about PacketHouse: for every number of sessions,   *)
(* set of cars and packet types, any length of time, and datagrams that     *)
(* arrive late where a theorem does not say otherwise.                      *)
(***************************************************************************)
EXTENDS PacketHouse, SequenceTheorems, TLAPS

(* The house follows SessionData: between two datagrams the session is the
   one of the slot, and the only datagram that changes it is the SessionData
   whose Handle opens the new session. *)
Following ==
    /\ IsNewSession => phase = "handle" /\ ~Lobby /\ seen = {} /\ ~due
    /\ ~IsNewSession => session_uid_ = slot["SessionData"]
    /\ phase = "recv" => ~Lobby
    /\ \A t \in recv_bit_ : slot[t] # NoSession
    /\ "SessionData" \notin recv_bit_ => slot["SessionData"] = NoSession

(* The last header is the current session's. *)
Headed ==
    /\ headers = <<>> <=> session_uid_ = NoSession
    /\ headers # <<>> =>
          headers[Len(headers)] =
             [session |-> session_uid_, begin |-> begin_unix_time_]

(* The inductive core of what follows. *)
IInv == TypeOK /\ Following /\ Headed

LEMMA Constants ==
    /\ NumSessions \in Nat \ {0} /\ MaxTime \in Nat
    /\ \A t \in Traffics : t.events \in Nat /\ t.late \in Nat
    /\ NoSession \notin Sessions
    /\ SameFrequency \subseteq PacketID
BY SessionsAssumption, PacketsAssumption, BoundsAssumption
   DEF NoSession, Sessions, SameFrequency, PacketID

LEMMA InitIInv == Init => IInv
<1> SUFFICES ASSUME Init PROVE IInv
    OBVIOUS
<1>1. TypeOK
    <2>1. traffic \in Traffics /\ traffic.events \in Nat /\ traffic.late \in Nat
        BY Constants DEF Init
    <2>2. /\ now \in 0..MaxTime /\ game \in Sessions
          /\ eventsSent \in 0..traffic.events /\ late \in 0..traffic.late
          /\ begin_unix_time_ \in 0..now /\ last_unix_time_ \in begin_unix_time_..now
        BY <2>1, Constants DEF Init, Sessions
    <2>3. /\ event_vec_ \in Seq([session : Sessions, id : 1..traffic.events])
          /\ headers \in Seq(HeaderType)
          /\ rows \subseteq RowType
        BY DEF Init
    <2> QED
        BY <2>1, <2>2, <2>3 DEF Init, TypeOK
<1>2. Following
    BY DEF Init, Following, IsNewSession, Lobby, PacketID
<1>3. Headed
    BY DEF Init, Headed
<1> QED
    BY <1>1, <1>2, <1>3 DEF IInv
----------------------------------------------------------------------------
(* The types, action by action. *)

LEMMA ClockTypes == TypeOK /\ (Tick \/ NextSession \/ SkipStore) => TypeOK'
<1> SUFFICES ASSUME TypeOK, Tick \/ NextSession \/ SkipStore PROVE TypeOK'
    OBVIOUS
<1> USE Constants DEF TypeOK, RowType, HeaderType
<1>1. CASE Tick
    BY <1>1 DEF Tick, bits, collected, clockMarks, written
<1>2. CASE NextSession
    BY <1>2 DEF NextSession, bits, collected, clockMarks, written, watch, Sessions
<1>3. CASE SkipStore
    BY <1>3 DEF SkipStore, environment, bits, collected, clockMarks, written, watch
<1> QED
    BY <1>1, <1>2, <1>3

(* What every Store has in common. *)
LEMMA OverwriteTypes ==
    ASSUME TypeOK, NEW t \in PacketID, NEW s \in Sessions, Overwrite(t, s)
    PROVE  /\ traffic' \in Traffics
           /\ now' \in 0..MaxTime
           /\ game' \in Sessions
           /\ late' \in 0..traffic'.late
           /\ phase' \in {"recv", "handle"}
           /\ slot' \in [PacketID -> Sessions \cup {NoSession}]
           /\ session_uid_' \in Sessions \cup {NoSession}
           /\ begin_unix_time_' \in 0..now'
           /\ last_unix_time_' \in begin_unix_time_'..now'
           /\ headers' \in Seq(HeaderType)
           /\ rows' \subseteq RowType'
           /\ seen' \subseteq PacketID
           /\ due' \in BOOLEAN
           /\ traffic' = traffic
<1> USE Constants DEF TypeOK, Overwrite
<1>1. rows' \subseteq RowType'
    BY DEF written, RowType
<1>2. late' \in 0..traffic.late
    BY DEF Arrive
<1>3. seen' \subseteq PacketID /\ due' \in BOOLEAN
    BY DEF Overwrite
<1> QED
    BY <1>1, <1>2, <1>3 DEF clockMarks, written, environment

LEMMA MarkTypes ==
    ASSUME TypeOK, NEW t \in PacketID, MarkReceived(t)
    PROVE  recv_bit_' \subseteq PacketID /\ cur_recv_bit_' \subseteq recv_bit_'
BY DEF TypeOK, MarkReceived

LEMMA StoreTypes == TypeOK /\ Store => TypeOK'
<1> SUFFICES ASSUME TypeOK, NEW s \in Sessions,
                    \/ StoreSessionData(s)
                    \/ StoreLapData(s)
                    \/ StoreEvent(s)
                    \/ StoreButton(s)
                    \/ \E car \in Cars : StoreSessionHistory(s, car)
                    \/ \E t \in Telemetry : StoreTelemetry(t, s)
                    \/ \E t \in {"Participants", "FinalClassification", "LobbyInfo"} :
                          StoreOther(t, s)
             PROVE  TypeOK'
    BY DEF Store
<1>1. /\ {"SessionData", "LapData", "EventData", "SessionHistory", "Participants",
          "FinalClassification", "LobbyInfo"} \subseteq PacketID
      /\ Telemetry \subseteq PacketID
    BY PacketsAssumption DEF PacketID
<1>2. CASE StoreSessionData(s)
    <2>1. Overwrite("SessionData", s) /\ MarkReceived("SessionData")
        BY <1>2 DEF StoreSessionData
    <2> QED
        BY <1>1, <1>2, <2>1, OverwriteTypes, MarkTypes
           DEF StoreSessionData, TypeOK, collected
<1>3. CASE StoreLapData(s)
    <2>1. Overwrite("LapData", s) /\ MarkReceived("LapData")
        BY <1>3 DEF StoreLapData
    <2> QED
        BY <1>1, <1>3, <2>1, OverwriteTypes, MarkTypes DEF StoreLapData, TypeOK
<1>4. CASE StoreEvent(s)
    <2>1. Overwrite("EventData", s) /\ MarkReceived("EventData")
        BY <1>4 DEF StoreEvent
    <2>2. traffic \in Traffics /\ traffic.events \in Nat
        BY Constants DEF TypeOK
    <2>3. eventsSent' \in 0..traffic.events
        BY <1>4, <2>2 DEF StoreEvent, TypeOK
    <2>4. [session |-> s, id |-> eventsSent + 1] \in
             [session : Sessions, id : 1..traffic.events]
        BY <1>4, <2>2 DEF StoreEvent, TypeOK
    <2>5. event_vec_' \in Seq([session : Sessions, id : 1..traffic.events])
        BY <1>4, <2>4, AppendProperties DEF StoreEvent, TypeOK
    <2> QED
        BY <1>1, <1>4, <2>1, <2>3, <2>5, OverwriteTypes, MarkTypes
           DEF StoreEvent, TypeOK
<1>5. CASE StoreButton(s)
    <2>1. Overwrite("EventData", s)
        BY <1>5 DEF StoreButton
    <2> QED
        BY <1>1, <1>5, <2>1, OverwriteTypes DEF StoreButton, TypeOK, bits, collected
<1>6. ASSUME NEW car \in Cars, StoreSessionHistory(s, car) PROVE TypeOK'
    <2>1. Overwrite("SessionHistory", s) /\ MarkReceived("SessionHistory")
        BY <1>6 DEF StoreSessionHistory
    <2> QED
        BY <1>1, <1>6, <2>1, OverwriteTypes, MarkTypes DEF StoreSessionHistory, TypeOK
<1>7. ASSUME NEW t \in Telemetry, StoreTelemetry(t, s) PROVE TypeOK'
    <2>1. Overwrite(t, s) /\ MarkReceived(t)
        BY <1>7 DEF StoreTelemetry
    <2> QED
        BY <1>1, <1>7, <2>1, OverwriteTypes, MarkTypes DEF StoreTelemetry, TypeOK
<1>8. ASSUME NEW t \in {"Participants", "FinalClassification", "LobbyInfo"},
             StoreOther(t, s)
      PROVE  TypeOK'
    <2>1. Overwrite(t, s) /\ MarkReceived(t)
        BY <1>8 DEF StoreOther
    <2> QED
        BY <1>1, <1>8, <2>1, OverwriteTypes, MarkTypes DEF StoreOther, TypeOK, collected
<1> QED
    BY <1>2, <1>3, <1>4, <1>5, <1>6, <1>7, <1>8

(* Whatever is written belongs to a session that has a header. *)
LEMMA OrdinaryFacts ==
    ASSUME IInv, Ordinary
    PROVE  /\ session_uid_ \in Sessions
           /\ headers # <<>>
           /\ Len(headers) \in Nat \ {0}
           /\ headers[Len(headers)] =
                 [session |-> session_uid_, begin |-> begin_unix_time_]
           /\ slot["SessionData"] = session_uid_
           /\ slot["Participants"] = session_uid_
<1>1. /\ "SessionData" \in recv_bit_ /\ slot["SessionData"] = session_uid_
      /\ slot["Participants"] = session_uid_
    BY DEF Ordinary, Known, TestRecvPacketExist
<1>2. session_uid_ # NoSession
    BY <1>1 DEF IInv, Following
<1>3. session_uid_ \in Sessions
    BY <1>2 DEF IInv, TypeOK
<1>4. headers # <<>>
    BY <1>2 DEF IInv, Headed
<1>5. Len(headers) \in Nat \ {0}
    BY <1>4, EmptySeq DEF IInv, TypeOK
<1> QED
    BY <1>1, <1>3, <1>4, <1>5 DEF IInv, Headed

(* The rows of a second: what they hold and where they are filed. *)
LEMMA SecondRows ==
    ASSUME IInv, Ordinary
    PROVE  /\ \A r \in HistoryRows :
                 \E c \in Cars :
                    /\ all_session_history_[c] # NoSession
                    /\ slot["SessionHistory"] = session_uid_
                    /\ r = Row("history", {all_session_history_[c]}, c, now)
           /\ \A r \in EventRows :
                 \E i \in DOMAIN event_vec_ :
                    /\ slot["EventData"] = session_uid_
                    /\ r = Row("event", {event_vec_[i].session}, event_vec_[i].id, now)
           /\ \A r \in BatchRows :
                 /\ CheckPacketIsEnough
                 /\ \/ r = Row("batch", {session_uid_}, 0, now)
                    \/ r = Row("CarDiff", car_info_, 0, now)
<1>1. \A r \in HistoryRows :
         \E c \in Cars :
            /\ all_session_history_[c] # NoSession
            /\ slot["SessionHistory"] = session_uid_
            /\ r = Row("history", {all_session_history_[c]}, c, now)
    BY DEF HistoryRows, TestCurRecvPacketExist
<1>2. \A r \in EventRows :
         \E i \in DOMAIN event_vec_ :
            /\ slot["EventData"] = session_uid_
            /\ r = Row("event", {event_vec_[i].session}, event_vec_[i].id, now)
    BY DEF EventRows, TestCurRecvPacketExist
<1>3. ASSUME NEW r \in BatchRows
      PROVE  /\ CheckPacketIsEnough
             /\ \/ r = Row("batch", {session_uid_}, 0, now)
                \/ r = Row("CarDiff", car_info_, 0, now)
    <2> DEFINE held == {slot[t] : t \in {"Participants", "SessionData"}
                                          \cup (SameFrequency \ {"CarSetup"})}
    <2>1. CheckPacketIsEnough
        BY <1>3 DEF BatchRows
    <2>2. \A t \in {"Participants", "SessionData"} \cup SameFrequency :
             slot[t] = session_uid_
        BY <2>1 DEF CheckPacketIsEnough, TestRecvPacketExist, TestCurRecvPacketExist
    <2>3. held = {session_uid_}
        BY <2>2
    <2>4. r = Row("batch", held, 0, now) \/ r = Row("CarDiff", car_info_, 0, now)
        BY <1>3, <2>1 DEF BatchRows
    <2> QED
        BY <2>1, <2>3, <2>4
<1> QED
    BY <1>1, <1>2, <1>3

LEMMA RowTypes ==
    ASSUME IInv, Ordinary, NEW table \in Tables, NEW of \in SUBSET Sessions,
           NEW item \in Nat, NEW cur \in 0..MaxTime
    PROVE  Row(table, of, item, cur) \in RowType
<1>1. Len(headers) \in 0..Len(headers)
    BY OrdinaryFacts
<1>2. begin_unix_time_ \in 0..MaxTime
    BY Constants DEF IInv, TypeOK
<1> QED
    BY <1>1, <1>2 DEF Row, RowType

LEMMA SecondRowTypes ==
    ASSUME IInv, Ordinary
    PROVE  HistoryRows \cup EventRows \cup BatchRows \subseteq RowType
<1>1. now \in 0..MaxTime /\ session_uid_ \in Sessions /\ car_info_ \subseteq Sessions
    BY OrdinaryFacts DEF IInv, TypeOK
<1>2. ASSUME NEW r \in HistoryRows PROVE r \in RowType
    <2>1. PICK c \in Cars :
             /\ all_session_history_[c] # NoSession
             /\ r = Row("history", {all_session_history_[c]}, c, now)
        BY SecondRows
    <2>2. {all_session_history_[c]} \in SUBSET Sessions /\ c \in Nat
        BY <2>1, PacketsAssumption DEF IInv, TypeOK
    <2> QED
        BY <1>1, <2>1, <2>2, RowTypes DEF Tables
<1>3. ASSUME NEW r \in EventRows PROVE r \in RowType
    <2>1. PICK i \in DOMAIN event_vec_ :
             r = Row("event", {event_vec_[i].session}, event_vec_[i].id, now)
        BY SecondRows
    <2>2. event_vec_[i] \in [session : Sessions, id : 1..traffic.events]
        <3> DEFINE Event == [session : Sessions, id : 1..traffic.events]
        <3>1. event_vec_ \in Seq(Event)
            BY DEF IInv, TypeOK
        <3> HIDE DEF Event
        <3>2. event_vec_[i] \in Event
            BY <3>1
        <3> QED
            BY <3>2 DEF Event
    <2>3. {event_vec_[i].session} \in SUBSET Sessions /\ event_vec_[i].id \in Nat
        BY <2>2, Constants DEF IInv, TypeOK
    <2> QED
        BY <1>1, <2>1, <2>3, RowTypes DEF Tables
<1>4. ASSUME NEW r \in BatchRows PROVE r \in RowType
    <2>1. r = Row("batch", {session_uid_}, 0, now) \/ r = Row("CarDiff", car_info_, 0, now)
        BY SecondRows
    <2>2. {session_uid_} \in SUBSET Sessions
        BY <1>1
    <2> QED
        BY <1>1, <2>1, <2>2, RowTypes DEF Tables
<1> QED
    BY <1>2, <1>3, <1>4

LEMMA HandleTypes == IInv /\ Handle => TypeOK'
<1> SUFFICES ASSUME IInv, Handle PROVE TypeOK'
    OBVIOUS
<1> USE Constants
<1>1. CASE HandleNothing \/ HandleLobby \/ HandleUnknown \/ HandleSameSecond
    BY <1>1 DEF HandleNothing, HandleLobby, HandleUnknown, HandleSameSecond,
       Ordinary, Handling, environment, bits, collected, clockMarks, written,
       watch, IInv, TypeOK, RowType, HeaderType
<1>2. CASE HandleNewSession
    <2>1. slot["SessionData"] \in Sessions
        BY <1>2 DEF HandleNewSession, IsNewSession, IInv, Following, TypeOK, PacketID
    <2>2. now \in 0..MaxTime
        BY DEF IInv, TypeOK
    <2>3. [session |-> slot["SessionData"], begin |-> now] \in HeaderType
        BY <2>1, <2>2 DEF HeaderType
    <2>4. headers' \in Seq(HeaderType) /\ Len(headers') = Len(headers) + 1
        BY <1>2, <2>3, AppendProperties DEF HandleNewSession, IInv, TypeOK
    <2>5. Len(headers) \in Nat
        BY LenProperties DEF IInv, TypeOK
    <2>6. rows' \subseteq RowType'
        BY <1>2, <2>4, <2>5 DEF HandleNewSession, IInv, TypeOK, RowType
    <2>7. event_vec_' \in Seq([session : Sessions, id : 1..traffic.events])
        BY <1>2 DEF HandleNewSession, Reset
    <2>8. /\ UNCHANGED <<traffic, now, game, eventsSent, late, slot, recv_bit_, seen, due>>
          /\ phase' = "recv"
          /\ cur_recv_bit_' \subseteq cur_recv_bit_
          /\ all_session_history_' = [c \in Cars |-> NoSession]
          /\ car_info_' = {} /\ ranked' = FALSE
          /\ session_uid_' = slot["SessionData"] /\ last_session_' = last_session_
          /\ begin_unix_time_' = now /\ last_unix_time_' = now
        BY <1>2 DEF HandleNewSession, Handling, Reset, environment, watch
    <2>9. begin_unix_time_' \in 0..now' /\ last_unix_time_' \in begin_unix_time_'..now'
        BY <2>2, <2>8
    <2>10. all_session_history_' \in [Cars -> Sessions \cup {NoSession}]
        BY <2>8
    <2>11. /\ traffic' \in Traffics /\ now' \in 0..MaxTime /\ game' \in Sessions
           /\ eventsSent' \in 0..traffic'.events /\ late' \in 0..traffic'.late
           /\ slot' \in [PacketID -> Sessions \cup {NoSession}]
           /\ recv_bit_' \subseteq PacketID /\ cur_recv_bit_' \subseteq recv_bit_'
           /\ last_session_' \in Sessions \cup {NoSession}
           /\ seen' \subseteq PacketID /\ due' \in BOOLEAN
        BY <2>8 DEF IInv, TypeOK
    <2>12. event_vec_' \in Seq([session : Sessions, id : 1..traffic'.events])
        BY <2>7, <2>8
    <2> QED
        BY <2>1, <2>4, <2>6, <2>8, <2>9, <2>10, <2>11, <2>12 DEF TypeOK
<1>3. CASE HandleFinal
    <2>1. Row("final", {slot["FinalClassification"]}, 0, last_unix_time_) \in RowType
        <3>1. slot["FinalClassification"] = session_uid_
            BY <1>3 DEF HandleFinal, Final, TestCurRecvPacketExist
        <3>2. {slot["FinalClassification"]} \in SUBSET Sessions
            BY <1>3, <3>1, OrdinaryFacts DEF HandleFinal
        <3>3. last_unix_time_ \in 0..MaxTime
            BY DEF IInv, TypeOK
        <3> QED
            BY <1>3, <3>2, <3>3, RowTypes DEF HandleFinal, Tables
    <2>2. rows' \subseteq RowType'
        BY <1>3, <2>1 DEF HandleFinal, IInv, TypeOK, RowType
    <2> QED
        BY <1>3, <2>2 DEF HandleFinal, Ordinary, Handling, environment,
           collected, clockMarks, watch, IInv, TypeOK
<1>4. CASE HandleSecond
    <2>1. HistoryRows \cup EventRows \cup BatchRows \subseteq RowType
        BY <1>4, SecondRowTypes DEF HandleSecond
    <2>2. headers' = headers /\ RowType' = RowType
        BY <1>4 DEF HandleSecond, RowType
    <2>3. rows' \subseteq RowType'
        BY <1>4, <2>1, <2>2 DEF HandleSecond, IInv, TypeOK
    <2>4. event_vec_' \in Seq([session : Sessions, id : 1..traffic.events])
        BY <1>4 DEF HandleSecond, IInv, TypeOK
    <2>5. cur_recv_bit_' \subseteq recv_bit_ /\ due' \in BOOLEAN
        BY <1>4 DEF HandleSecond, IInv, TypeOK
    <2>6. /\ UNCHANGED <<traffic, now, game, eventsSent, late, slot, recv_bit_,
                          all_session_history_, car_info_, ranked, session_uid_,
                          last_session_, begin_unix_time_, headers, seen>>
          /\ phase' = "recv" /\ last_unix_time_' = now
        BY <1>4 DEF HandleSecond, Ordinary, Handling, environment
    <2>7. last_unix_time_' \in begin_unix_time_'..now'
        BY <2>6 DEF IInv, TypeOK
    <2> QED
        BY <2>2, <2>3, <2>4, <2>5, <2>6, <2>7 DEF IInv, TypeOK
<1> QED
    BY <1>1, <1>2, <1>3, <1>4 DEF Handle
----------------------------------------------------------------------------
(* The core is inductive. *)

(* What the Store actions do to the session and its SessionData. *)
LEMMA StoreCore ==
    ASSUME TypeOK, Store
    PROVE  \E t \in PacketID, s \in Sessions :
              /\ Overwrite(t, s)
              /\ MarkReceived(t) \/ (t = "EventData" /\ UNCHANGED bits)
              /\ last_session_' = IF t = "SessionData" THEN slot["SessionData"]
                                  ELSE last_session_
<1> SUFFICES ASSUME NEW s \in Sessions,
                    \/ StoreSessionData(s)
                    \/ StoreLapData(s)
                    \/ StoreEvent(s)
                    \/ StoreButton(s)
                    \/ \E car \in Cars : StoreSessionHistory(s, car)
                    \/ \E t \in Telemetry : StoreTelemetry(t, s)
                    \/ \E t \in {"Participants", "FinalClassification", "LobbyInfo"} :
                          StoreOther(t, s)
             PROVE  \E t \in PacketID :
                       /\ Overwrite(t, s)
                       /\ MarkReceived(t) \/ (t = "EventData" /\ UNCHANGED bits)
                       /\ last_session_' = IF t = "SessionData" THEN slot["SessionData"]
                                           ELSE last_session_
    BY DEF Store
<1>1. /\ {"SessionData", "LapData", "EventData", "SessionHistory", "Participants",
          "FinalClassification", "LobbyInfo"} \subseteq PacketID
      /\ Telemetry \subseteq PacketID /\ "SessionData" \notin Telemetry
    BY PacketsAssumption DEF PacketID
<1>2. CASE StoreSessionData(s)
    BY <1>1, <1>2 DEF StoreSessionData
<1>3. CASE StoreLapData(s)
    BY <1>1, <1>3 DEF StoreLapData
<1>4. CASE StoreEvent(s)
    BY <1>1, <1>4 DEF StoreEvent
<1>5. CASE StoreButton(s)
    BY <1>1, <1>5 DEF StoreButton
<1>6. ASSUME NEW car \in Cars, StoreSessionHistory(s, car)
      PROVE  Overwrite("SessionHistory", s) /\ MarkReceived("SessionHistory")
                /\ last_session_' = last_session_
    BY <1>6 DEF StoreSessionHistory
<1>7. ASSUME NEW t \in Telemetry, StoreTelemetry(t, s)
      PROVE  Overwrite(t, s) /\ MarkReceived(t) /\ last_session_' = last_session_
    BY <1>7 DEF StoreTelemetry
<1>8. ASSUME NEW t \in {"Participants", "FinalClassification", "LobbyInfo"},
             StoreOther(t, s)
      PROVE  Overwrite(t, s) /\ MarkReceived(t) /\ last_session_' = last_session_
    BY <1>8 DEF StoreOther
<1> QED
    BY <1>1, <1>2, <1>3, <1>4, <1>5, <1>6, <1>7, <1>8

LEMMA StoreIInv == IInv /\ Store => IInv'
<1> SUFFICES ASSUME IInv, Store PROVE IInv'
    OBVIOUS
<1>1. TypeOK'
    BY StoreTypes DEF IInv
<1>2. PICK t \in PacketID, s \in Sessions :
              /\ Overwrite(t, s)
              /\ MarkReceived(t) \/ (t = "EventData" /\ UNCHANGED bits)
              /\ last_session_' = IF t = "SessionData" THEN slot["SessionData"]
                                  ELSE last_session_
    BY StoreCore DEF IInv
<1>3. /\ phase = "recv" /\ phase' = "handle"
      /\ slot \in [PacketID -> Sessions \cup {NoSession}]
      /\ slot' = [slot EXCEPT ![t] = s]
      /\ s # NoSession
      /\ UNCHANGED <<session_uid_, begin_unix_time_, headers>>
      /\ IF s = session_uid_ THEN TRUE ELSE seen' = {} /\ due' = FALSE
    BY <1>2, Constants DEF Overwrite, IInv, TypeOK, clockMarks, written
<1>4. /\ ~IsNewSession /\ ~Lobby
      /\ session_uid_ = slot["SessionData"]
    BY <1>3 DEF IInv, Following
<1>5. /\ recv_bit_' \subseteq recv_bit_ \cup {t}
      /\ recv_bit_ \subseteq recv_bit_'
      /\ cur_recv_bit_' \subseteq cur_recv_bit_ \cup {t}
      /\ cur_recv_bit_ \subseteq cur_recv_bit_'
      /\ t = "SessionData" => t \in recv_bit_' /\ t \in cur_recv_bit_'
    BY <1>2 DEF MarkReceived, bits
<1>6. Following'
    <2>1. \A u \in recv_bit_' : slot'[u] # NoSession
        BY <1>3, <1>5 DEF IInv, Following, TypeOK
    <2>2. CASE t = "SessionData"
        <3>1. IsNewSession' <=> s # slot["SessionData"]
            BY <1>2, <1>3, <1>5, <2>2 DEF IsNewSession
        <3>2. ~Lobby'
            BY <1>4, <1>5, <2>2 DEF Lobby
        <3>3. IsNewSession' => seen' = {} /\ ~due'
            BY <1>3, <1>4, <3>1
        <3>4. ~IsNewSession' => session_uid_' = slot'["SessionData"]
            BY <1>3, <1>4, <2>2, <3>1
        <3> QED
            BY <1>3, <1>5, <2>1, <2>2, <3>2, <3>3, <3>4 DEF Following
    <2>3. CASE t # "SessionData"
        <3>1. /\ slot'["SessionData"] = slot["SessionData"]
              /\ ("SessionData" \in cur_recv_bit_') <=> ("SessionData" \in cur_recv_bit_)
              /\ ("SessionData" \in recv_bit_') <=> ("SessionData" \in recv_bit_)
            BY <1>3, <1>5, <2>3 DEF PacketID
        <3>2. ~IsNewSession'
            BY <1>2, <1>4, <2>3, <3>1 DEF IsNewSession
        <3> QED
            BY <1>3, <1>4, <2>1, <3>1, <3>2 DEF Following, IInv
    <2> QED
        BY <2>2, <2>3
<1>7. Headed'
    BY <1>3 DEF IInv, Headed
<1> QED
    BY <1>1, <1>6, <1>7 DEF IInv

LEMMA HandleIInv == IInv /\ Handle => IInv'
<1> SUFFICES ASSUME IInv, Handle PROVE IInv'
    OBVIOUS
<1>1. TypeOK'
    BY HandleTypes
<1>2. CASE HandleNothing \/ HandleLobby \/ HandleUnknown \/ HandleFinal
              \/ HandleSameSecond \/ HandleSecond
    <2>1. /\ phase' = "recv"
          /\ UNCHANGED <<slot, recv_bit_, session_uid_, last_session_,
                         begin_unix_time_, headers>>
          /\ cur_recv_bit_' \subseteq cur_recv_bit_
          /\ ~IsNewSession
          /\ "LobbyInfo" \notin cur_recv_bit_'
        <3>1. CASE HandleNothing
            BY <3>1 DEF HandleNothing, Handling, Nothing, bits, clockMarks,
                        written, environment, IsNewSession
        <3>2. CASE HandleLobby
            BY <3>2 DEF HandleLobby, Handling, Lobby, clockMarks, written,
                        IInv, Following
        <3>3. CASE HandleUnknown
            BY <3>3 DEF HandleUnknown, Handling, Lobby, bits, clockMarks, written
        <3>4. CASE HandleFinal \/ HandleSameSecond \/ HandleSecond
            BY <3>4 DEF HandleFinal, HandleSameSecond, HandleSecond, Ordinary,
                        Handling, Lobby, clockMarks, written
        <3> QED
            BY <1>2, <3>1, <3>2, <3>3, <3>4
    <2>2. ~IsNewSession'
        BY <2>1 DEF IsNewSession
    <2>3. Following'
        BY <2>1, <2>2 DEF IInv, Following, Lobby
    <2>4. Headed'
        BY <2>1 DEF IInv, Headed
    <2> QED
        BY <1>1, <2>3, <2>4 DEF IInv
<1>3. CASE HandleNewSession
    <2>1. /\ phase' = "recv"
          /\ UNCHANGED <<slot, recv_bit_, last_session_>>
          /\ cur_recv_bit_' = cur_recv_bit_ \ {"SessionData"}
          /\ ~Lobby /\ IsNewSession
          /\ session_uid_' = slot["SessionData"]
          /\ begin_unix_time_' = now
          /\ headers' = Append(headers, [session |-> slot["SessionData"], begin |-> now])
        BY <1>3 DEF HandleNewSession, Handling, Reset
    <2>2. ~IsNewSession' /\ ~Lobby'
        BY <2>1 DEF IsNewSession, Lobby
    <2>3. Following'
        BY <2>1, <2>2 DEF IInv, Following
    <2>4. slot["SessionData"] # NoSession
        BY <2>1 DEF IInv, Following, IsNewSession, TypeOK
    <2>5. /\ headers' # <<>>
          /\ headers'[Len(headers')] = [session |-> slot["SessionData"], begin |-> now]
        BY <2>1 DEF IInv, TypeOK
    <2>6. Headed'
        BY <2>1, <2>4, <2>5 DEF Headed
    <2> QED
        BY <1>1, <2>3, <2>6 DEF IInv
<1> QED
    BY <1>2, <1>3 DEF Handle

LEMMA ClockIInv == IInv /\ (Tick \/ NextSession \/ SkipStore) => IInv'
<1> SUFFICES ASSUME IInv, Tick \/ NextSession \/ SkipStore PROVE IInv'
    OBVIOUS
<1>1. TypeOK'
    BY ClockTypes DEF IInv
<1>2. UNCHANGED <<recv_bit_, cur_recv_bit_, slot, last_session_, session_uid_,
                  begin_unix_time_, headers>>
    BY DEF Tick, NextSession, SkipStore, bits, clockMarks, written
<1>3. Headed'
    BY <1>2 DEF IInv, Headed
<1>4. Following'
    <2>1. (IsNewSession' <=> IsNewSession) /\ (Lobby' <=> Lobby)
        BY <1>2 DEF IsNewSession, Lobby
    <2>2. IsNewSession => phase' = "handle" /\ seen' = {} /\ ~due'
        <3>1. CASE Tick
            BY <3>1 DEF Tick, IInv, Following, CompleteSecond, SameFrequency
        <3>2. CASE NextSession
            BY <3>2 DEF NextSession, IInv, Following, watch
        <3>3. CASE SkipStore
            BY <3>3 DEF SkipStore, IInv, Following, watch
        <3> QED
            BY <3>1, <3>2, <3>3
    <2>3. phase' = "recv" => phase = "recv"
        BY DEF Tick, NextSession, SkipStore
    <2> QED
        BY <1>2, <2>1, <2>2, <2>3 DEF IInv, Following
<1> QED
    BY <1>1, <1>3, <1>4 DEF IInv

LEMMA StepIInv == IInv /\ [Next]_vars => IInv'
<1>1. IInv /\ UNCHANGED vars => IInv'
    BY DEF IInv, vars, environment, bits, collected, clockMarks, written, watch,
           TypeOK, Following, Headed, IsNewSession, Lobby, RowType
<1> QED
    BY <1>1, ClockIInv, StoreIInv, HandleIInv DEF Next

LEMMA AlwaysIInv == Spec => []IInv
BY InitIInv, StepIInv, PTL DEF Spec

(* Every variable has its type: in particular no row is ever filed under a
   session number that is none, or under a header that does not exist. *)
THEOREM TypeCorrect == Spec => []TypeOK
<1>1. IInv => TypeOK
    BY DEF IInv
<1> QED
    BY AlwaysIInv, <1>1, PTL

(* The house follows the SessionData packet it received last, in whatever
   order the datagrams arrive. *)
THEOREM FollowsLastSessionData == Spec => []FollowsSessionData
<1>1. IInv => FollowsSessionData
    BY DEF IInv, Following, FollowsSessionData
<1> QED
    BY AlwaysIInv, <1>1, PTL
----------------------------------------------------------------------------
(* Rows.  Only three actions write any, or move the marks rows are filed
   under. *)
LEMMA Writers ==
    ASSUME [Next]_vars, ~HandleNewSession, ~HandleFinal, ~HandleSecond
    PROVE  UNCHANGED <<rows, headers, session_uid_, clockMarks>>
<1>1. CASE Tick \/ NextSession \/ SkipStore
    BY <1>1 DEF Tick, NextSession, SkipStore, written, clockMarks
<1>2. CASE Store
    BY <1>2 DEF Store, StoreSessionData, StoreLapData, StoreEvent, StoreButton,
       StoreSessionHistory, StoreTelemetry, StoreOther, Overwrite, written, clockMarks
<1>3. CASE HandleNothing \/ HandleLobby \/ HandleUnknown \/ HandleSameSecond
    BY <1>3 DEF HandleNothing, HandleLobby, HandleUnknown, HandleSameSecond, written
<1>4. CASE UNCHANGED vars
    BY <1>4 DEF vars, written, clockMarks
<1> QED
    BY <1>1, <1>2, <1>3, <1>4 DEF Next, Handle

(* A row's header is not moved by the headers added after it. *)
LEMMA HeadersStay ==
    ASSUME IInv, NEW h \in HeaderType, headers' = Append(headers, h), NEW r \in rows
    PROVE  /\ r.header \in 0..Len(headers)
           /\ r.header > 0 => headers'[r.header] = headers[r.header]
<1>1. r.header \in 0..Len(headers) /\ Len(headers) \in Nat
    BY DEF IInv, TypeOK, RowType
<1> QED
    BY <1>1 DEF IInv, TypeOK

LEMMA NewHeader ==
    ASSUME IInv, HandleNewSession
    PROVE  /\ [session |-> slot["SessionData"], begin |-> now] \in HeaderType
           /\ headers' = Append(headers, [session |-> slot["SessionData"], begin |-> now])
           /\ rows' = rows
           /\ begin_unix_time_' = now /\ last_unix_time_' = now
<1>1. slot["SessionData"] \in Sessions
    BY DEF HandleNewSession, IsNewSession, IInv, Following, TypeOK, PacketID
<1>2. now \in 0..MaxTime
    BY DEF IInv, TypeOK
<1> QED
    BY <1>1, <1>2 DEF HandleNewSession, Reset, HeaderType

(* A batch is new in the second it is written in. *)
BatchInv ==
    /\ BatchOfOneSession
    /\ \A r \in rows : r.table = "batch" => r.cur <= last_unix_time_
    /\ BatchKeysUnique

LEMMA BatchStep == IInv /\ BatchInv /\ [Next]_vars => BatchInv'
<1> SUFFICES ASSUME IInv, BatchInv, [Next]_vars PROVE BatchInv'
    OBVIOUS
<1>1. CASE UNCHANGED <<rows, headers, session_uid_, clockMarks>>
    BY <1>1 DEF BatchInv, BatchOfOneSession, BatchKeysUnique, clockMarks
<1>2. CASE HandleNewSession
    <2>1. /\ rows' = rows
          /\ [session |-> slot["SessionData"], begin |-> now] \in HeaderType
          /\ headers' = Append(headers, [session |-> slot["SessionData"], begin |-> now])
          /\ last_unix_time_' = now
        BY <1>2, NewHeader
    <2>2. \A r \in rows : r.header > 0 => headers'[r.header] = headers[r.header]
        BY <2>1, HeadersStay
    <2>3. BatchOfOneSession'
        BY <2>1, <2>2 DEF BatchInv, BatchOfOneSession
    <2>4. ASSUME NEW r \in rows, r.table = "batch" PROVE r.cur <= now
        <3>1. r.cur \in Int /\ last_unix_time_ \in Int /\ now \in Int
              /\ last_unix_time_ <= now
            BY DEF IInv, TypeOK, RowType
        <3> QED
            BY <2>4, <3>1 DEF BatchInv
    <2> QED
        BY <2>1, <2>3, <2>4 DEF BatchInv, BatchKeysUnique
<1>3. CASE HandleFinal
    <2>1. /\ \A r \in rows' : r.table = "batch" => r \in rows
          /\ headers' = headers /\ last_unix_time_' = last_unix_time_
        BY <1>3 DEF HandleFinal, Row, clockMarks
    <2> QED
        BY <2>1 DEF BatchInv, BatchOfOneSession, BatchKeysUnique
<1>4. CASE HandleSecond
    <2>1. /\ Ordinary /\ now > last_unix_time_
          /\ rows' = rows \cup HistoryRows \cup EventRows \cup BatchRows
          /\ headers' = headers /\ last_unix_time_' = now
        BY <1>4 DEF HandleSecond
    <2> DEFINE new == Row("batch", {session_uid_}, 0, now)
    <2>2. \A r \in rows' : r.table = "batch" => r \in rows \/ r = new
        BY <2>1, SecondRows DEF Row
    <2>3. /\ new.header = Len(headers) /\ new.begin = begin_unix_time_
          /\ new.of = {session_uid_} /\ new.cur = now
        BY DEF Row
    <2>4. /\ Len(headers) \in Nat \ {0}
          /\ headers[Len(headers)] =
                [session |-> session_uid_, begin |-> begin_unix_time_]
        BY <2>1, OrdinaryFacts
    <2> HIDE DEF new
    <2>5. BatchOfOneSession'
        <3>1. /\ new.header > 0
              /\ new.of = {headers[new.header].session}
              /\ new.begin = headers[new.header].begin
            BY <2>3, <2>4
        <3> QED
            BY <2>1, <2>2, <3>1 DEF BatchInv, BatchOfOneSession
    <2>6. now \in Int /\ last_unix_time_ \in Int /\ \A r \in rows : r.cur \in Int
        BY DEF IInv, TypeOK, RowType
    <2>7. \A r \in rows : r.table = "batch" => r.cur < now
        BY <2>1, <2>6 DEF BatchInv
    <2>8. \A r \in rows' : r.table = "batch" => r.cur <= last_unix_time_'
        BY <2>1, <2>2, <2>3, <2>6, <2>7
    <2>9. BatchKeysUnique'
        BY <2>2, <2>3, <2>6, <2>7 DEF BatchInv, BatchKeysUnique
    <2> QED
        BY <2>5, <2>8, <2>9 DEF BatchInv
<1> QED
    BY <1>1, <1>2, <1>3, <1>4, Writers

LEMMA AlwaysBatchInv == Spec => []BatchInv
<1>1. Init => BatchInv
    BY DEF Init, BatchInv, BatchOfOneSession, BatchKeysUnique
<1> QED
    BY <1>1, AlwaysIInv, BatchStep, PTL DEF Spec

(* A per-second batch holds data of one session, the one it is filed under,
   also when datagrams of an earlier session arrive in the middle of it. *)
THEOREM BatchesOfOneSession == Spec => []BatchOfOneSession
<1>1. BatchInv => BatchOfOneSession
    BY DEF BatchInv
<1> QED
    BY AlwaysBatchInv, <1>1, PTL

(* The primary key of the per-second tables is never used for two batches. *)
THEOREM BatchKeysNeverReused == Spec => []BatchKeysUnique
<1>1. BatchInv => BatchKeysUnique
    BY DEF BatchInv
<1> QED
    BY AlwaysBatchInv, <1>1, PTL
----------------------------------------------------------------------------
(* Events: an event is collected or written, and its number is used once. *)
EventInv ==
    /\ \A i, j \in DOMAIN event_vec_ : event_vec_[i].id = event_vec_[j].id => i = j
    /\ \A i \in DOMAIN event_vec_ :
          /\ event_vec_[i].id \in 1..eventsSent
          /\ \A r \in rows : r.table = "event" => r.item # event_vec_[i].id
    /\ \A r \in rows : r.table = "event" => r.item \in 1..eventsSent
    /\ EventOnce

LEMMA EventStep == IInv /\ EventInv /\ [Next]_vars => EventInv'
<1> SUFFICES ASSUME IInv, EventInv, [Next]_vars PROVE EventInv'
    OBVIOUS
<1>0. eventsSent \in Nat /\ Len(event_vec_) \in Nat
      /\ DOMAIN event_vec_ = 1..Len(event_vec_)
    BY Constants DEF IInv, TypeOK
<1>1. CASE UNCHANGED <<rows, eventsSent>> /\ (event_vec_' = event_vec_ \/ event_vec_' = <<>>)
    BY <1>1 DEF EventInv, EventOnce
<1>2. ASSUME NEW s \in Sessions, StoreEvent(s) PROVE EventInv'
    <2>1. /\ eventsSent' = eventsSent + 1 /\ rows' = rows
          /\ event_vec_' = Append(event_vec_, [session |-> s, id |-> eventsSent + 1])
        BY <1>2 DEF StoreEvent, Overwrite, written
    <2>2. /\ DOMAIN event_vec_' = 1..(Len(event_vec_) + 1)
          /\ \A i \in 1..Len(event_vec_) : event_vec_'[i] = event_vec_[i]
          /\ event_vec_'[Len(event_vec_) + 1].id = eventsSent + 1
        BY <2>1 DEF IInv, TypeOK
    <2>3. \A i \in 1..Len(event_vec_) : event_vec_[i].id \in 1..eventsSent
        BY <1>0 DEF EventInv
    <2>4. \A r \in rows : r.table = "event" => r.item \in 1..eventsSent
        BY DEF EventInv
    <2>5. \A i, j \in DOMAIN event_vec_' :
             event_vec_'[i].id = event_vec_'[j].id => i = j
        <3>1. ASSUME NEW i \in 1..(Len(event_vec_) + 1), NEW j \in 1..(Len(event_vec_) + 1),
                     event_vec_'[i].id = event_vec_'[j].id
              PROVE  i = j
            <4>1. CASE i \in 1..Len(event_vec_) /\ j \in 1..Len(event_vec_)
                BY <1>0, <2>2, <3>1, <4>1 DEF EventInv
            <4>2. CASE i = Len(event_vec_) + 1 \/ j = Len(event_vec_) + 1
                <5>1. \A k \in 1..Len(event_vec_) : event_vec_'[k].id # eventsSent + 1
                    BY <1>0, <2>2, <2>3
                <5> QED
                    BY <1>0, <2>2, <3>1, <4>2, <5>1
            <4> QED
                BY <1>0, <4>1, <4>2
        <3> QED
            BY <2>2, <3>1
    <2>6. \A i \in DOMAIN event_vec_' :
             /\ event_vec_'[i].id \in 1..(eventsSent + 1)
             /\ \A r \in rows : r.table = "event" => r.item # event_vec_'[i].id
        <3>1. ASSUME NEW i \in 1..Len(event_vec_)
              PROVE  /\ event_vec_'[i].id \in 1..(eventsSent + 1)
                     /\ \A r \in rows : r.table = "event" => r.item # event_vec_'[i].id
            <4>1. /\ event_vec_[i].id \in 1..eventsSent
                  /\ \A r \in rows : r.table = "event" => r.item # event_vec_[i].id
                BY <1>0 DEF EventInv
            <4> QED
                BY <1>0, <2>2, <4>1
        <3>2. /\ eventsSent + 1 \in 1..(eventsSent + 1)
              /\ \A r \in rows : r.table = "event" => r.item # eventsSent + 1
            BY <1>0, <2>4
        <3> QED
            BY <1>0, <2>2, <3>1, <3>2
    <2>7. \A r \in rows : r.table = "event" => r.item \in 1..(eventsSent + 1)
        BY <1>0, <2>4
    <2> QED
        BY <2>1, <2>5, <2>6, <2>7 DEF EventInv, EventOnce
<1>3. CASE HandleFinal
    <2>1. /\ \A r \in rows' : r.table = "event" => r \in rows
          /\ UNCHANGED <<event_vec_, eventsSent>>
        BY <1>3 DEF HandleFinal, Ordinary, Handling, environment, collected, Row
    <2> QED
        BY <2>1 DEF EventInv, EventOnce
<1>4. CASE HandleSecond
    <2>1. /\ Ordinary /\ eventsSent' = eventsSent
          /\ rows' = rows \cup HistoryRows \cup EventRows \cup BatchRows
          /\ event_vec_' = IF TestCurRecvPacketExist("EventData") THEN <<>> ELSE event_vec_
        BY <1>4 DEF HandleSecond, Ordinary, Handling, environment
    <2>2. \A r \in rows' : r.table = "event" => r \in rows \/ r \in EventRows
        BY <2>1, SecondRows DEF Row
    <2>3. CASE TestCurRecvPacketExist("EventData")
        <3>1. \A r \in EventRows : \E i \in DOMAIN event_vec_ :
                 r = Row("event", {event_vec_[i].session}, event_vec_[i].id, now)
            BY <2>1, SecondRows
        <3>2. \A r \in EventRows : \E i \in DOMAIN event_vec_ :
                 /\ r = Row("event", {event_vec_[i].session}, event_vec_[i].id, now)
                 /\ r.item = event_vec_[i].id
            BY <3>1 DEF Row
        <3>3. event_vec_' = <<>>
            BY <2>1, <2>3
        <3>4. \A r \in EventRows : r.item \in 1..eventsSent
            BY <3>2 DEF EventInv
        <3>5. ASSUME NEW r \in EventRows, NEW q \in rows, q.table = "event"
              PROVE  q.item # r.item
            <4>1. PICK i \in DOMAIN event_vec_ : r.item = event_vec_[i].id
                BY <3>2
            <4> QED
                BY <3>5, <4>1 DEF EventInv
        <3>6. \A r, q \in EventRows : r.item = q.item => r = q
            BY <3>2 DEF EventInv
        <3>7. EventOnce'
            BY <2>2, <3>5, <3>6 DEF EventInv, EventOnce
        <3> QED
            BY <2>1, <2>2, <3>3, <3>4, <3>7 DEF EventInv
    <2>4. CASE ~TestCurRecvPacketExist("EventData")
        <3>1. EventRows = {} /\ event_vec_' = event_vec_
            BY <2>1, <2>4 DEF EventRows
        <3>2. \A r \in rows' : r.table = "event" => r \in rows
            BY <2>2, <3>1
        <3> QED
            BY <2>1, <3>1, <3>2 DEF EventInv, EventOnce
    <2> QED
        BY <2>3, <2>4
<1>5. CASE Tick \/ NextSession \/ SkipStore \/ UNCHANGED vars
    BY <1>1, <1>5 DEF Tick, NextSession, SkipStore, vars, environment, collected, written
<1>6. ASSUME Store, \A s \in Sessions : ~StoreEvent(s) PROVE EventInv'
    <2>1. UNCHANGED <<rows, eventsSent, event_vec_>>
        BY <1>6 DEF Store, StoreSessionData, StoreLapData, StoreButton,
           StoreSessionHistory, StoreTelemetry, StoreOther, Overwrite, written, collected
    <2> QED
        BY <1>1, <2>1
<1>7. CASE HandleNothing \/ HandleLobby \/ HandleNewSession \/ HandleUnknown
              \/ HandleSameSecond
    <2>1. UNCHANGED <<rows, eventsSent>> /\ (event_vec_' = event_vec_ \/ event_vec_' = <<>>)
        BY <1>7 DEF HandleNothing, HandleLobby, HandleNewSession, HandleUnknown,
           HandleSameSecond, Ordinary, Handling, Reset, environment, collected, written
    <2> QED
        BY <1>1, <2>1
<1> QED
    BY <1>2, <1>3, <1>4, <1>5, <1>6, <1>7 DEF Next, Handle

(* An event is written at most once, in whatever order datagrams arrive. *)
THEOREM EventsWrittenOnce == Spec => []EventOnce
<1>1. Init => EventInv
    BY DEF Init, EventInv, EventOnce
<1>2. EventInv => EventOnce
    BY DEF EventInv
<1> QED
    BY <1>1, <1>2, AlwaysIInv, EventStep, PTL DEF Spec
----------------------------------------------------------------------------
(* Complete seconds: what was seen this second is still there, unless it has
   been recorded, and a second that is due can be recorded at once. *)
Timely ==
    /\ \A t \in seen \cap SameFrequency :
          /\ slot[t] = session_uid_
          /\ \/ t \in cur_recv_bit_
             \/ \E r \in rows : r.table = "batch" /\ r.cur = now
    /\ due => CheckPacketIsEnough /\ last_unix_time_ < now

(* The packets of a batch keep their bits until a batch is written. *)
LEMMA HandleKeepsBits ==
    ASSUME HandleNothing \/ HandleLobby \/ HandleNewSession \/ HandleUnknown
              \/ HandleFinal \/ HandleSameSecond
                 \/ (HandleSecond /\ ~CheckPacketIsEnough)
    PROVE  \A t \in SameFrequency : t \in cur_recv_bit_ => t \in cur_recv_bit_'
<1>1. SameFrequency \cap {"LobbyInfo", "SessionData", "FinalClassification",
                          "SessionHistory", "EventData"} = {}
    BY PacketsAssumption DEF SameFrequency
<1> QED
    BY <1>1 DEF HandleNothing, HandleLobby, HandleNewSession, HandleUnknown,
       HandleFinal, HandleSameSecond, HandleSecond, bits

LEMMA TimelyStep == IInv /\ Timely /\ [Next]_vars => Timely'
<1> SUFFICES ASSUME IInv, Timely, [Next]_vars PROVE Timely'
    OBVIOUS
<1> USE DEF CheckPacketIsEnough, TestRecvPacketExist, TestCurRecvPacketExist
<1>1. CASE Tick
    <2>1. /\ UNCHANGED <<slot, recv_bit_, cur_recv_bit_, session_uid_, last_unix_time_>>
          /\ seen' = {} /\ now' = now + 1
          /\ due' = (due \/ (CompleteSecond /\
                       ~ \E r \in rows : r.table = "batch" /\ r.cur = now))
        BY <1>1 DEF Tick, bits, clockMarks
    <2>2. last_unix_time_ < now'
        BY <2>1 DEF IInv, TypeOK
    <2>3. due' => CheckPacketIsEnough
        BY <2>1 DEF Timely, CompleteSecond
    <2> QED
        BY <2>1, <2>2, <2>3 DEF Timely
<1>2. CASE NextSession \/ SkipStore \/ UNCHANGED vars
    <2>1. UNCHANGED <<slot, recv_bit_, cur_recv_bit_, session_uid_, clockMarks,
                      seen, due, now, rows>>
        BY <1>2 DEF NextSession, SkipStore, vars, environment, bits, watch, written
    <2> QED
        BY <2>1 DEF Timely, clockMarks
<1>3. CASE Store
    <2>1. PICK t \in PacketID, s \in Sessions :
              /\ Overwrite(t, s)
              /\ MarkReceived(t) \/ (t = "EventData" /\ UNCHANGED bits)
        BY <1>3, StoreCore DEF IInv
    <2>2. /\ slot \in [PacketID -> Sessions \cup {NoSession}]
          /\ slot' = [slot EXCEPT ![t] = s]
          /\ UNCHANGED <<session_uid_, last_unix_time_, now, rows>>
          /\ recv_bit_ \subseteq recv_bit_' /\ cur_recv_bit_ \subseteq cur_recv_bit_'
          /\ t \in cur_recv_bit_' \/ t = "EventData"
        BY <2>1 DEF Overwrite, MarkReceived, bits, clockMarks, written, IInv, TypeOK
    <2>3. CASE s # session_uid_
        <3>1. seen' = {} /\ ~due'
            BY <2>1, <2>3 DEF Overwrite
        <3> QED
            BY <3>1 DEF Timely
    <2>4. CASE s = session_uid_
        <3>1. seen' = seen \cup {t} /\ due' = due
            BY <2>1, <2>4 DEF Overwrite
        <3>2. SameFrequency \subseteq PacketID /\ "EventData" \notin SameFrequency
            BY Constants, PacketsAssumption DEF SameFrequency
        <3>3. \A u \in PacketID : slot[u] = session_uid_ => slot'[u] = session_uid_
            BY <2>2, <2>4
        <3>4. {"Participants", "SessionData"} \subseteq PacketID
            BY DEF PacketID
        <3> QED
            BY <2>2, <2>4, <3>1, <3>2, <3>3, <3>4 DEF Timely
    <2> QED
        BY <2>3, <2>4
<1>4. CASE HandleNewSession
    <2>1. seen' = seen /\ due' = due /\ seen = {} /\ ~due
        BY <1>4 DEF HandleNewSession, watch, IInv, Following
    <2> QED
        BY <2>1 DEF Timely
<1>5. CASE HandleNothing \/ HandleLobby \/ HandleUnknown \/ HandleFinal \/ HandleSameSecond
    <2>1. \A t \in SameFrequency : t \in cur_recv_bit_ => t \in cur_recv_bit_'
        BY <1>5, HandleKeepsBits
    <2>2. /\ UNCHANGED <<slot, recv_bit_, session_uid_, last_unix_time_, seen, due, now>>
          /\ rows \subseteq rows'
        BY <1>5 DEF HandleNothing, HandleLobby, HandleUnknown, HandleFinal,
           HandleSameSecond, Ordinary, Handling, environment, bits, clockMarks,
           watch, written
    <2> QED
        BY <2>1, <2>2 DEF Timely
<1>6. CASE HandleSecond
    <2>1. /\ Ordinary
          /\ UNCHANGED <<slot, recv_bit_, session_uid_, seen, now>>
          /\ rows' = rows \cup HistoryRows \cup EventRows \cup BatchRows
          /\ due' = (due /\ ~CheckPacketIsEnough)
        BY <1>6 DEF HandleSecond, Ordinary, Handling, environment
    <2>2. ~due'
        BY <2>1 DEF Timely
    <2>3. CASE CheckPacketIsEnough
        <3>1. \E r \in BatchRows : r.table = "batch" /\ r.cur = now
            BY <2>3 DEF BatchRows, Row
        <3> QED
            BY <2>1, <2>2, <3>1 DEF Timely
    <2>4. CASE ~CheckPacketIsEnough
        <3>1. \A t \in SameFrequency : t \in cur_recv_bit_ => t \in cur_recv_bit_'
            BY <1>6, <2>4, HandleKeepsBits
        <3> QED
            BY <2>1, <2>2, <3>1 DEF Timely
    <2> QED
        BY <2>3, <2>4
<1> QED
    BY <1>1, <1>2, <1>3, <1>4, <1>5, <1>6 DEF Next, Handle

(* A second in which the whole set arrived is recorded by the first ordinary
   datagram of a later second, in whatever order datagrams arrive. *)
THEOREM CompleteSecondsRecorded == Spec => CompleteSecondRecorded
<1>1. Init => Timely
    BY DEF Init, Timely
<1>2. IInv /\ Timely => (HandleSecond \/ HandleSameSecond => ~due')
    <2> SUFFICES ASSUME IInv, Timely, HandleSecond \/ HandleSameSecond PROVE ~due'
        OBVIOUS
    <2>1. last_unix_time_ \in Int /\ now \in Int
        BY DEF IInv, TypeOK
    <2>2. CASE HandleSecond
        BY <2>2 DEF HandleSecond, Timely
    <2>3. CASE HandleSameSecond
        BY <2>1, <2>3 DEF HandleSameSecond, Timely, watch
    <2> QED
        BY <2>2, <2>3
<1> QED
    BY <1>1, <1>2, AlwaysIInv, TimelyStep, PTL DEF Spec, CompleteSecondRecorded
----------------------------------------------------------------------------
(* Datagrams in order: nothing the house holds is older than its session. *)
AllInOrder == \A t \in Traffics : t.late = 0

Ordered ==
    /\ \A t \in PacketID : slot[t] <= game
    /\ session_uid_ <= game
    /\ \A s \in car_info_ : session_uid_ <= s
    /\ \A i \in DOMAIN event_vec_ :
          /\ session_uid_ <= event_vec_[i].session
          /\ event_vec_[i].session <= slot["EventData"]
    /\ \A c \in Cars : all_session_history_[c] # NoSession =>
          /\ session_uid_ <= all_session_history_[c]
          /\ all_session_history_[c] <= slot["SessionHistory"]

LEMMA Numbers ==
    ASSUME TypeOK
    PROVE  /\ game \in Nat /\ session_uid_ \in Nat
           /\ slot \in [PacketID -> Nat]
           /\ car_info_ \subseteq Nat
           /\ \A i \in DOMAIN event_vec_ : event_vec_[i].session \in Nat
           /\ all_session_history_ \in [Cars -> Nat]
           /\ Len(event_vec_) \in Nat /\ DOMAIN event_vec_ = 1..Len(event_vec_)
<1>1. Sessions \subseteq Nat /\ Sessions \cup {NoSession} \subseteq Nat
    BY DEF Sessions, NoSession
<1> DEFINE Event == [session : Sessions, id : 1..traffic.events]
<1>2. event_vec_ \in Seq(Event)
    BY DEF TypeOK
<1>3. \A i \in DOMAIN event_vec_ : event_vec_[i].session \in Sessions
    <2>1. \A e \in Event : e.session \in Sessions
        OBVIOUS
    <2> HIDE DEF Event
    <2> QED
        BY <1>2, <2>1
<1>4. Len(event_vec_) \in Nat /\ DOMAIN event_vec_ = 1..Len(event_vec_)
    BY <1>2
<1> QED
    BY <1>1, <1>3, <1>4 DEF TypeOK

LEMMA InOrderArrival ==
    ASSUME AllInOrder, TypeOK, NEW t, NEW s \in Sessions, Overwrite(t, s)
    PROVE  s = game /\ game' = game
<1>1. traffic.late = 0
    BY DEF AllInOrder, TypeOK
<1>2. s = game
    BY <1>1 DEF Overwrite, Arrive, TypeOK
<1> QED
    BY <1>2 DEF Overwrite

LEMMA OrderedStep == AllInOrder /\ IInv /\ Ordered /\ [Next]_vars => Ordered'
<1> SUFFICES ASSUME AllInOrder, IInv, Ordered, [Next]_vars PROVE Ordered'
    OBVIOUS
<1>0. /\ game \in Nat /\ session_uid_ \in Nat
      /\ slot \in [PacketID -> Nat]
      /\ car_info_ \subseteq Nat
      /\ \A i \in DOMAIN event_vec_ : event_vec_[i].session \in Nat
      /\ all_session_history_ \in [Cars -> Nat]
      /\ Len(event_vec_) \in Nat /\ DOMAIN event_vec_ = 1..Len(event_vec_)
    BY Numbers DEF IInv
<1>1. CASE Tick \/ NextSession \/ SkipStore \/ UNCHANGED vars
    <2>1. /\ UNCHANGED <<slot, session_uid_, collected>>
          /\ game' \in Nat /\ game <= game'
        BY <1>0, <1>1 DEF Tick, NextSession, SkipStore, vars, environment
    <2>2. \A t \in PacketID : slot[t] <= game'
        BY <1>0, <2>1 DEF Ordered
    <2>3. session_uid_ <= game'
        BY <1>0, <2>1 DEF Ordered
    <2> QED
        BY <2>1, <2>2, <2>3 DEF Ordered, collected
<1>2. CASE Store
    <2>1. PICK s \in Sessions :
              \/ StoreSessionData(s)
              \/ StoreLapData(s)
              \/ StoreEvent(s)
              \/ StoreButton(s)
              \/ \E car \in Cars : StoreSessionHistory(s, car)
              \/ \E t \in Telemetry : StoreTelemetry(t, s)
              \/ \E t \in {"Participants", "FinalClassification", "LobbyInfo"} :
                    StoreOther(t, s)
        BY <1>2 DEF Store
    <2>2. PICK t \in PacketID, r \in Sessions : Overwrite(t, r)
        BY <1>2, StoreCore DEF IInv
    <2>3. /\ r = game /\ game' = game /\ session_uid_' = session_uid_
          /\ slot' = [slot EXCEPT ![t] = r]
        BY <2>2, InOrderArrival DEF IInv, Overwrite
    <2>4. \A u \in PacketID : slot'[u] <= game /\ slot[u] <= slot'[u]
        BY <1>0, <2>3 DEF Ordered
    <2>5. {"EventData", "SessionHistory"} \subseteq PacketID
        BY DEF PacketID
    <2>6. s = game
        BY <2>1, InOrderArrival DEF IInv, StoreSessionData, StoreLapData, StoreEvent,
           StoreButton, StoreSessionHistory, StoreTelemetry, StoreOther
    <2>7. session_uid_ <= game
        BY DEF Ordered
    <2>8. \A c \in car_info_' : session_uid_ <= c
        <3>1. car_info_' \subseteq car_info_ \cup {s}
            BY <2>1 DEF StoreSessionData, StoreLapData, StoreEvent, StoreButton,
               StoreSessionHistory, StoreTelemetry, StoreOther, collected
        <3> QED
            BY <2>6, <2>7, <3>1 DEF Ordered
    <2>9. \A i \in DOMAIN event_vec_' :
             /\ session_uid_ <= event_vec_'[i].session
             /\ event_vec_'[i].session <= slot'["EventData"]
        <3>1. \A i \in DOMAIN event_vec_ :
                 /\ session_uid_ <= event_vec_[i].session
                 /\ event_vec_[i].session <= slot'["EventData"]
            BY <1>0, <2>3, <2>4, <2>5 DEF Ordered
        <3>2. CASE StoreEvent(s)
            <4>1. /\ slot' = [slot EXCEPT !["EventData"] = s]
                  /\ event_vec_' = Append(event_vec_, [session |-> s, id |-> eventsSent + 1])
                BY <3>2 DEF StoreEvent, Overwrite
            <4>2. /\ DOMAIN event_vec_' = 1..(Len(event_vec_) + 1)
                  /\ \A i \in 1..Len(event_vec_) : event_vec_'[i] = event_vec_[i]
                  /\ event_vec_'[Len(event_vec_) + 1].session = s
                BY <4>1 DEF IInv, TypeOK
            <4>3. slot'["EventData"] = s /\ session_uid_ <= s /\ s <= s
                BY <1>0, <2>5, <2>6, <2>7, <4>1
            <4> QED
                BY <1>0, <3>1, <4>2, <4>3
        <3>3. CASE ~StoreEvent(s)
            <4>1. event_vec_' = event_vec_
                BY <2>1, <3>3 DEF StoreSessionData, StoreLapData, StoreButton,
                   StoreSessionHistory, StoreTelemetry, StoreOther, collected
            <4> QED
                BY <3>1, <4>1
        <3> QED
            BY <3>2, <3>3
    <2>10. \A c \in Cars : all_session_history_'[c] # NoSession =>
             /\ session_uid_ <= all_session_history_'[c]
             /\ all_session_history_'[c] <= slot'["SessionHistory"]
        <3>1. \A c \in Cars : all_session_history_[c] # NoSession =>
                 /\ session_uid_ <= all_session_history_[c]
                 /\ all_session_history_[c] <= slot'["SessionHistory"]
            BY <1>0, <2>3, <2>4, <2>5 DEF Ordered
        <3>2. ASSUME NEW car \in Cars, StoreSessionHistory(s, car)
              PROVE  \A c \in Cars : all_session_history_'[c] # NoSession =>
                        /\ session_uid_ <= all_session_history_'[c]
                        /\ all_session_history_'[c] <= slot'["SessionHistory"]
            <4>1. /\ slot' = [slot EXCEPT !["SessionHistory"] = s]
                  /\ all_session_history_' = [all_session_history_ EXCEPT ![car] = s]
                BY <3>2 DEF StoreSessionHistory, Overwrite
            <4>2. slot'["SessionHistory"] = s /\ session_uid_ <= s /\ s <= s
                BY <1>0, <2>5, <2>6, <2>7, <4>1
            <4> QED
                BY <1>0, <3>1, <4>1, <4>2
        <3>3. CASE \A car \in Cars : ~StoreSessionHistory(s, car)
            <4>1. all_session_history_' = all_session_history_
                BY <2>1, <3>3 DEF StoreSessionData, StoreLapData, StoreEvent,
                   StoreButton, StoreTelemetry, StoreOther, collected
            <4> QED
                BY <3>1, <4>1
        <3> QED
            BY <3>2, <3>3
    <2> QED
        BY <2>3, <2>4, <2>7, <2>8, <2>9, <2>10 DEF Ordered
<1>3. CASE HandleNewSession
    <2>1. /\ event_vec_' = <<>> /\ car_info_' = {}
          /\ all_session_history_' = [c \in Cars |-> NoSession]
          /\ session_uid_' = slot["SessionData"]
          /\ UNCHANGED <<slot, game>>
        BY <1>3 DEF HandleNewSession, Handling, Reset, environment
    <2>2. slot["SessionData"] <= game
        BY DEF Ordered, PacketID
    <2> QED
        BY <2>1, <2>2 DEF Ordered
<1>4. CASE HandleNothing \/ HandleLobby \/ HandleUnknown \/ HandleFinal
              \/ HandleSameSecond \/ HandleSecond
    <2>1. /\ UNCHANGED <<slot, game, session_uid_, car_info_, all_session_history_>>
          /\ event_vec_' = event_vec_ \/ event_vec_' = <<>>
        BY <1>4 DEF HandleNothing, HandleLobby, HandleUnknown, HandleFinal,
           HandleSameSecond, HandleSecond, Ordinary, Handling, environment, collected
    <2> QED
        BY <2>1 DEF Ordered
<1> QED
    BY <1>1, <1>2, <1>3, <1>4 DEF Next, Handle

LEMMA AlwaysOrdered == ASSUME AllInOrder PROVE Spec => []Ordered
<1>1. Init => Ordered
    BY Constants DEF Init, Ordered, NoSession
<1>2. IInv /\ Ordered /\ [Next]_vars => Ordered'
    BY OrderedStep
<1> QED
    BY <1>1, <1>2, AlwaysIInv, PTL DEF Spec

(* What CarInfoFresh rests on: a CarDiff row has a header. *)
Fresh ==
    \A r \in rows : r.table = "CarDiff" =>
        /\ r.header > 0
        /\ \A s \in r.of : s >= headers[r.header].session

LEMMA FreshStep == IInv /\ Ordered /\ Fresh /\ [Next]_vars => Fresh'
<1> SUFFICES ASSUME IInv, Ordered, Fresh, [Next]_vars PROVE Fresh'
    OBVIOUS
<1>1. CASE UNCHANGED <<rows, headers, session_uid_, clockMarks>>
    BY <1>1 DEF Fresh
<1>2. CASE HandleNewSession
    <2>1. /\ rows' = rows
          /\ [session |-> slot["SessionData"], begin |-> now] \in HeaderType
          /\ headers' = Append(headers, [session |-> slot["SessionData"], begin |-> now])
        BY <1>2, NewHeader
    <2>2. \A r \in rows : r.header > 0 => headers'[r.header] = headers[r.header]
        BY <2>1, HeadersStay
    <2> QED
        BY <2>1, <2>2 DEF Fresh
<1>3. CASE HandleFinal
    <2>1. /\ \A r \in rows' : r.table = "CarDiff" => r \in rows
          /\ headers' = headers
        BY <1>3 DEF HandleFinal, Row
    <2> QED
        BY <2>1 DEF Fresh
<1>4. CASE HandleSecond
    <2>1. /\ Ordinary
          /\ rows' = rows \cup HistoryRows \cup EventRows \cup BatchRows
          /\ headers' = headers
        BY <1>4 DEF HandleSecond
    <2> DEFINE new == Row("CarDiff", car_info_, 0, now)
    <2>2. \A r \in rows' : r.table = "CarDiff" => r \in rows \/ r = new
        BY <2>1, SecondRows DEF Row
    <2>3. new.header = Len(headers) /\ new.of = car_info_
        BY DEF Row
    <2>4. /\ Len(headers) \in Nat \ {0}
          /\ headers[Len(headers)].session = session_uid_
        BY <2>1, OrdinaryFacts
    <2> HIDE DEF new
    <2>5. session_uid_ \in Nat /\ car_info_ \subseteq Nat
        BY Numbers DEF IInv
    <2>6. \A s \in new.of : s >= headers[new.header].session
        BY <2>3, <2>4, <2>5 DEF Ordered
    <2>7. new.header > 0
        BY <2>3, <2>4
    <2> QED
        BY <2>1, <2>2, <2>6, <2>7 DEF Fresh
<1> QED
    BY <1>1, <1>2, <1>3, <1>4, Writers

(* When datagrams arrive in order, what is computed from car_info_ never uses
   a session older than the one it is filed under. *)
THEOREM CarDataFresh == ASSUME AllInOrder PROVE Spec => []CarInfoFresh
<1>1. Init => Fresh
    BY DEF Init, Fresh
<1>2. Fresh => CarInfoFresh
    BY DEF Fresh, CarInfoFresh
<1>3. IInv /\ Ordered /\ Fresh /\ [Next]_vars => Fresh'
    BY FreshStep
<1> QED
    BY <1>1, <1>2, <1>3, AlwaysIInv, AlwaysOrdered, PTL DEF Spec
----------------------------------------------------------------------------
(* The house as a session recorder. *)
Recorded == {r \in rows : r.table # "CarDiff"}

(* Rows of the current session, filed under the last header. *)
Filed(r) ==
    /\ r.header = Len(headers)
    /\ r.begin = headers[Len(headers)].begin
    /\ r.of \subseteq {headers[Len(headers)].session}

LEMMA SecondFiled ==
    ASSUME IInv, Ordered, Ordinary,
           NEW r \in HistoryRows \cup EventRows \cup BatchRows, r.table # "CarDiff"
    PROVE  Filed(r) /\ r.cur = now
<1>1. headers[Len(headers)] = [session |-> session_uid_, begin |-> begin_unix_time_]
    BY OrdinaryFacts
<1>2. /\ session_uid_ \in Nat /\ slot \in [PacketID -> Nat]
      /\ \A i \in DOMAIN event_vec_ : event_vec_[i].session \in Nat
      /\ all_session_history_ \in [Cars -> Nat]
    BY Numbers DEF IInv
<1>3. CASE r \in HistoryRows
    <2>1. PICK c \in Cars :
             /\ all_session_history_[c] # NoSession
             /\ slot["SessionHistory"] = session_uid_
             /\ r = Row("history", {all_session_history_[c]}, c, now)
        BY <1>3, SecondRows
    <2>2. all_session_history_[c] = session_uid_
        BY <1>2, <2>1 DEF Ordered
    <2> QED
        BY <1>1, <2>1, <2>2 DEF Row, Filed
<1>4. CASE r \in EventRows
    <2>1. PICK i \in DOMAIN event_vec_ :
             /\ slot["EventData"] = session_uid_
             /\ r = Row("event", {event_vec_[i].session}, event_vec_[i].id, now)
        BY <1>4, SecondRows
    <2>2. event_vec_[i].session = session_uid_
        BY <1>2, <2>1 DEF Ordered
    <2> QED
        BY <1>1, <2>1, <2>2 DEF Row, Filed
<1>5. CASE r \in BatchRows
    <2>1. r = Row("batch", {session_uid_}, 0, now) \/ r = Row("CarDiff", car_info_, 0, now)
        BY <1>5, SecondRows
    <2>2. r = Row("batch", {session_uid_}, 0, now)
        BY <2>1 DEF Row
    <2> QED
        BY <1>1, <2>2 DEF Row, Filed
<1> QED
    BY <1>3, <1>4, <1>5

(* Adding rows that are filed, with batches later than any, is a Write. *)
LEMMA WriteOf ==
    ASSUME NEW new, rows' = rows \cup new, headers' = headers, headers # <<>>,
           \A r \in new : r.table # "CarDiff" => Filed(r),
           \A r \in new : r.table = "batch" => \A q \in rows : q.table = "batch" => r.cur > q.cur
    PROVE  Recorder!Write
<1>1. Recorded \subseteq Recorded'
    BY DEF Recorded
<1>2. \A r \in Recorded' \ Recorded : r \in new /\ r.table # "CarDiff"
    BY DEF Recorded
<1>3. \A r \in Recorded' \ Recorded :
         /\ r.header = Len(headers)
         /\ r.begin = headers[Len(headers)].begin
         /\ r.of \subseteq {headers[Len(headers)].session}
    BY <1>2 DEF Filed
<1>4. \A t \in Recorder!BatchTimes(Recorded' \ Recorded), u \in Recorder!BatchTimes(Recorded) :
         t > u
    <2> TAKE t \in Recorder!BatchTimes(Recorded' \ Recorded), u \in Recorder!BatchTimes(Recorded)
    <2>1. PICK r \in Recorded' \ Recorded : r.table = "batch" /\ t = r.cur
        BY DEF Recorder!BatchTimes
    <2>2. PICK q \in Recorded : q.table = "batch" /\ u = q.cur
        BY DEF Recorder!BatchTimes
    <2>3. r \in new /\ q \in rows
        BY <1>2, <2>2 DEF Recorded
    <2> QED
        BY <2>1, <2>2, <2>3
<1> QED
    BY <1>1, <1>3, <1>4 DEF Recorder!Write, Recorder!Current, Recorded

LEMMA RecorderStep ==
    IInv /\ Ordered /\ BatchInv /\ [Next]_vars =>
        [Recorder!Open \/ Recorder!Write]_(Recorder!recorderVars)
<1> SUFFICES ASSUME IInv, Ordered, BatchInv, [Next]_vars
             PROVE  \/ Recorder!Open
                    \/ Recorder!Write
                    \/ UNCHANGED Recorder!recorderVars
    OBVIOUS
<1>1. CASE UNCHANGED <<rows, headers, session_uid_, clockMarks>>
    BY <1>1 DEF Recorder!recorderVars
<1>2. CASE HandleNewSession
    <2> DEFINE h == [session |-> slot["SessionData"], begin |-> now]
    <2>1. rows' = rows /\ h \in HeaderType /\ headers' = Append(headers, h)
        BY <1>2, NewHeader
    <2>2. headers \in Seq(HeaderType) /\ Len(headers) \in Nat
        BY DEF IInv, TypeOK
    <2>3. h.begin = now
        OBVIOUS
    <2> HIDE DEF h
    <2>4. /\ Len(headers') = Len(headers) + 1
          /\ headers'[Len(headers')] = h
          /\ \A i \in 1..Len(headers) : headers'[i] = headers[i]
        BY <2>1, <2>2
    <2>5. SubSeq(headers', 1, Len(headers)) = headers
        BY <2>1, <2>2, AppendProperties
    <2>6. headers # <<>> => headers'[Len(headers')].begin >= headers[Len(headers)].begin
        <3>1. headers # <<>> => headers[Len(headers)].begin = begin_unix_time_
            BY DEF IInv, Headed
        <3>2. begin_unix_time_ \in Int /\ now \in Int /\ begin_unix_time_ <= now
            BY Constants DEF IInv, TypeOK
        <3> QED
            BY <2>3, <2>4, <3>1, <3>2
    <2>7. Recorder!Open
        BY <2>1, <2>4, <2>5, <2>6 DEF Recorder!Open, Recorder!Current
    <2> QED
        BY <2>7
<1>3. CASE HandleFinal
    <2> DEFINE final == Row("final", {slot["FinalClassification"]}, 0, last_unix_time_)
    <2>1. /\ Ordinary /\ Final /\ headers' = headers
          /\ rows' = rows \cup {final}
        BY <1>3 DEF HandleFinal
    <2>2. slot["FinalClassification"] = session_uid_
        BY <2>1 DEF Final, TestCurRecvPacketExist
    <2>3. /\ headers # <<>>
          /\ headers[Len(headers)] = [session |-> session_uid_, begin |-> begin_unix_time_]
        BY <2>1, OrdinaryFacts
    <2>4. Filed(final) /\ final.table # "batch"
        BY <2>2, <2>3 DEF Filed, Row
    <2> HIDE DEF final
    <2> DEFINE new == {final}
    <2>5. /\ \A r \in new : r.table # "CarDiff" => Filed(r)
          /\ \A r \in new : r.table # "batch"
        BY <2>4
    <2>6. rows' = rows \cup new
        BY <2>1
    <2> HIDE DEF new
    <2> QED
        BY <2>1, <2>3, <2>5, <2>6, WriteOf
<1>4. CASE HandleSecond
    <2> DEFINE new == HistoryRows \cup EventRows \cup BatchRows
    <2>1. /\ Ordinary /\ now > last_unix_time_ /\ headers' = headers
          /\ rows' = rows \cup new
        BY <1>4 DEF HandleSecond
    <2>2. headers # <<>>
        BY <2>1, OrdinaryFacts
    <2>3. \A r \in new : r.table # "CarDiff" => Filed(r) /\ r.cur = now
        BY <2>1, SecondFiled
    <2>4. now \in Int /\ last_unix_time_ \in Int /\ \A r \in rows : r.cur \in Int
        BY DEF IInv, TypeOK, RowType
    <2>5. \A q \in rows : q.table = "batch" => now > q.cur
        BY <2>1, <2>4 DEF BatchInv
    <2> HIDE DEF new
    <2> QED
        BY <2>1, <2>2, <2>3, <2>5, WriteOf
<1> QED
    BY <1>1, <1>2, <1>3, <1>4, Writers

(* When datagrams arrive in order, the house is a session recorder: sessions
   are opened one after the other, every row is filed under its own session,
   and no second has two batches. *)
THEOREM RecorderImplemented == ASSUME AllInOrder PROVE Spec => ImplementsRecorder
<1>1. Init => Recorder!RecorderInit
    BY DEF Init, Recorder!RecorderInit
<1>2. IInv /\ Ordered /\ BatchInv /\ [Next]_vars =>
          [Recorder!Open \/ Recorder!Write]_(Recorder!recorderVars)
    BY RecorderStep
<1> QED
    BY <1>1, <1>2, AlwaysIInv, AlwaysOrdered, AlwaysBatchInv, PTL
       DEF Spec, ImplementsRecorder, Recorder!RecorderSpec
============================================================================

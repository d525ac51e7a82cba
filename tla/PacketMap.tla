----------------------------- MODULE PacketMap -----------------------------
(***************************************************************************)
(* f1_2025::PacketMap (src/packet/f1-2025/packet.h): the latest packet of   *)
(* each type a client sent in its current session, the latest per car of    *)
(* two types, and the last events.  A packet is a record of the fields the  *)
(* map looks at: its type, the session it belongs to, the car, and no, its  *)
(* place in the order the game sent its packets; len is the length of its   *)
(* datagram.                                                                *)
(***************************************************************************)
EXTENDS Limits, Sequences, FiniteSets

VARIABLES
    slot,       \* the members that hold one packet
    events,
    perCar,     \* sessionHistory and tyreSets: maps from m_carIdx
    log         \* history: the packets Update was given since construction

mapVars == <<slot, events, perCar, log>>

Layout == INSTANCE PacketLayout

PerCar == {"SessionHistory", "TyreSets"}

Single == DOMAIN Layout!StructSize \ (PerCar \cup {"Event"})

(* An id the switch does not know is a type outside DOMAIN StructSize. *)
Unknown == "Unknown"

NoSession == [uid |-> 0, kind |-> 0, track |-> 0]

(* A zeroed struct. *)
Blank == [type |-> Unknown, session |-> NoSession, car |-> 0, no |-> 0, len |-> 0]

Nothing == <<>>     \* the empty map
----------------------------------------------------------------------------
(* The constructor, which Unsets a map nothing was received for yet. *)
MapInit ==
    /\ slot = [t \in Single |-> Blank]
    /\ events = <<>>
    /\ perCar = [t \in PerCar |-> Nothing]
    /\ log = <<>>

(* Faulty: the tyre sets stay. *)
UnsetKeepsTyres(first) ==
    /\ slot' = [t \in Single |-> IF t = "Session" THEN first ELSE Blank]
    /\ events' = <<>>
    /\ perCar' = [perCar EXCEPT !["SessionHistory"] = Nothing]

(* Unset, and the assignment of the session packet that follows it. *)
Unset(first) ==
    /\ slot' = [t \in Single |-> IF t = "Session" THEN first ELSE Blank]
    /\ events' = <<>>
    /\ perCar' = [t \in PerCar |-> Nothing]

(* Faulty: sessions of the same kind on the same track are not told apart. *)
OtherSessionByKind(p) ==
    \/ slot["Session"].session.kind # p.session.kind
    \/ slot["Session"].session.track # p.session.track

(* m_sessionUID, m_sessionType and m_trackId. *)
OtherSession(p) ==
    \/ slot["Session"].session.uid # p.session.uid
    \/ slot["Session"].session.kind # p.session.kind
    \/ slot["Session"].session.track # p.session.track

UpdateSession(p) ==
    /\ p.type = "Session"
    /\ IF OtherSession(p)
       THEN Unset(p)
       ELSE slot' = [slot EXCEPT !["Session"] = p] /\ UNCHANGED <<events, perCar>>

UpdateSingle(p) ==
    /\ p.type \in Single \ {"Session"}
    /\ slot' = [slot EXCEPT ![p.type] = p]
    /\ UNCHANGED <<events, perCar>>

(* Faulty: nothing is erased. *)
PushEventAlways(p) == Append(events, p)

PushEvent(p) ==
    LET all == Append(events, p) IN
    IF Len(all) > MaxEvents THEN Tail(all) ELSE all

UpdateEvent(p) ==
    /\ p.type = "Event"
    /\ events' = PushEvent(p)
    /\ UNCHANGED <<slot, perCar>>

UpdatePerCar(p) ==
    /\ p.type \in PerCar
    /\ perCar' = [perCar EXCEPT ![p.type] =
          [c \in DOMAIN @ \cup {p.car} |-> IF c = p.car THEN p ELSE @[c]]]
    /\ UNCHANGED <<slot, events>>

UpdateUnknown(p) ==
    /\ p.type \notin DOMAIN Layout!StructSize
    /\ UNCHANGED <<slot, events, perCar>>

MapUpdate(p) ==
    /\ \/ UpdateSession(p)
       \/ UpdateSingle(p)
       \/ UpdateEvent(p)
       \/ UpdatePerCar(p)
       \/ UpdateUnknown(p)
    /\ log' = Append(log, p)

(* The house that owns the map is erased; the next one has a new map. *)
Erase ==
    /\ slot' = [t \in Single |-> Blank]
    /\ events' = <<>>
    /\ perCar' = [t \in PerCar |-> Nothing]
    /\ log' = <<>>

(* What the game sends. *)
Packet ==
    {p \in [type : DOMAIN Layout!StructSize \cup {Unknown},
            session : [uid : Nat, kind : Nat, track : Nat],
            car : Nat, no : Nat, len : Nat] :
        p.type # Unknown => p.len = Layout!WireSize[p.type]}

(* No packet of an earlier session comes late.  The game's uids are random;
   here they number the sessions in the order they are played. *)
InOrder(p) == \A i \in DOMAIN log : log[i].session.uid <= p.session.uid

MapNext == Erase \/ \E p \in Packet : InOrder(p) /\ MapUpdate(p)

MapSpec == MapInit /\ [][MapNext]_mapVars
----------------------------------------------------------------------------
(* Properties. *)

(* Where the current session began: at the last Session packet that differs
   in session from the Session packet before it. *)
SessionBefore(i) ==
    LET B == {j \in 1..(i - 1) : log[j].type = "Session"} IN
    IF B = {} THEN NoSession
    ELSE log[CHOOSE j \in B : \A k \in B : k <= j].session

SessionBegin ==
    LET B == {i \in DOMAIN log :
                 log[i].type = "Session" /\ log[i].session # SessionBefore(i)}
    IN  IF B = {} THEN 1 ELSE CHOOSE j \in B : \A k \in B : k <= j

LastOf(S) ==
    IF S = {} THEN Blank ELSE log[CHOOSE j \in S : \A k \in S : k <= j]

Of(t, begin) == {i \in begin..Len(log) : log[i].type = t}

SlotsAreLatest(begin) == \A t \in Single : slot[t] = LastOf(Of(t, begin))

CarsAreLatest(begin) ==
    \A t \in PerCar :
        /\ DOMAIN perCar[t] = {log[i].car : i \in Of(t, begin)}
        /\ \A c \in DOMAIN perCar[t] :
              perCar[t][c] = LastOf({i \in Of(t, begin) : log[i].car = c})

(* As many as there were, up to MaxEvents; each has as many after it in the
   list as in the session. *)
EventsAreLast(begin) ==
    \E happened \in {Of("Event", begin)} :
        /\ Len(events) = IF Cardinality(happened) > MaxEvents THEN MaxEvents
                         ELSE Cardinality(happened)
        /\ \A i \in DOMAIN events : \E j \in happened :
              /\ events[i] = log[j]
              /\ Cardinality({k \in happened : k > j}) = Len(events) - i

(* The map is a function of the packets received: each member is the latest
   of its type (and car) since the current session began, zeroed or absent
   if there was none, and events are the last MaxEvents of that session. *)
MapIsViewOfLog ==
    \E begin \in {SessionBegin} :
        SlotsAreLatest(begin) /\ CarsAreLatest(begin) /\ EventsAreLast(begin)

Held ==
    {slot[t] : t \in Single} \cup {events[i] : i \in DOMAIN events}
    \cup UNION {{perCar[t][c] : c \in DOMAIN perCar[t]} : t \in PerCar}

(* Nothing the map holds is older than its Session packet's session, if
   packets arrive in the order they were sent: an old session is gone as
   soon as the first Session packet of a later one is there, also when the
   session was restarted on the same track. *)
NoOldSession ==
    \A p \in Held : p # Blank => p.session.uid >= slot["Session"].session.uid

(* Update reads as many bytes of the union as the datagram had: not the
   leftovers of another, and none is cut off. *)
ReadsWholeDatagram ==
    \A p \in Held : p # Blank => Layout!StructSize[p.type] = p.len
============================================================================

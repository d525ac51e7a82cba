------------------------------ MODULE Server ------------------------------
(***************************************************************************)
(* The receive loop: UdpListener::Recv (src/udp/udp_listener_unix.cpp) and  *)
(* Server (src/server/server.cpp).  main() calls Server::Run over and over; *)
(* a Run waits for ready sockets and takes one datagram from each, or, when *)
(* the wait times out, clears the clients that have gone idle.              *)
(*                                                                          *)
(* A house is what the loop can see of a PacketHouse: its session and the   *)
(* age of last_recive_time_ in seconds.  Ages are capped one above          *)
(* IdleThreshold, the only value they are compared with, so that the clock  *)
(* needs no bound.                                                          *)
(***************************************************************************)
EXTENDS Integers, Sequences, FiniteSets, Functions

CONSTANTS
    Sends2022,      \* client addresses that send format 2022,
    Sends2025,      \* ... format 2025,
    SendsOther,     \* ... any other format
    Sockets,        \* the bound ports
    EventNum,       \* events one epoll_wait returns at most
    IdleThreshold,  \* idle_threshold_, in seconds
    Kinds,          \* the packet kinds this instance tells apart
    MaxSession,     \* bound: sessions a client goes through
    MaxInbox        \* bound: datagrams a socket holds; more are dropped

Clients == Sends2022 \cup Sends2025 \cup SendsOther

PacketKind == {"SessionData", "LobbyInfo", "Car"}

ASSUME ListenerAssumption ==
    /\ IsFiniteSet(Sockets)
    /\ EventNum \in Nat \ {0}
    /\ IdleThreshold \in Nat

ASSUME LoadAssumption ==
    /\ Kinds \subseteq PacketKind
    /\ MaxSession \in Nat \ {0}
    /\ MaxInbox \in Nat \ {0}

VARIABLES
    port,      \* the socket each client sends to
    on,        \* the clients that are sending
    game,      \* the session each client is in
    inbox,     \* per socket, the datagrams the kernel holds
    ready,     \* events of the current epoll_wait not yet looked at
    packet_house_map_,
    stmts,     \* the SQL statements the last step issued
    quiet,     \* seconds since a datagram of the client was received
    ipRows,    \* clients with an IpList statement
    header,    \* per client, the session of its last SessionList statement
    lapsed     \* clients that were idle since that statement

clients == <<port, on, game>>
history == <<quiet, ipRows, header, lapsed>>

vars == <<clients, inbox, ready, packet_house_map_, stmts, history>>

Older(age) == IF age > IdleThreshold THEN age ELSE age + 1

LongAgo == IdleThreshold + 1

NoSession == 0
----------------------------------------------------------------------------
Init ==
    /\ port \in [Clients -> Sockets]
    /\ on = {}
    /\ game = [c \in Clients |-> 1]
    /\ inbox = [s \in Sockets |-> <<>>]
    /\ ready = {}
    /\ packet_house_map_ = <<>>
    /\ stmts = <<>>
    /\ quiet = [c \in Clients |-> LongAgo]
    /\ ipRows = {}
    /\ header = [c \in Clients |-> NoSession]
    /\ lapsed = {}

(* A second goes by. *)
Tick ==
    /\ packet_house_map_' =
          [c \in DOMAIN packet_house_map_ |->
              [packet_house_map_[c] EXCEPT !.age = Older(@)]]
    /\ quiet' = [c \in Clients |-> Older(quiet[c])]
    /\ lapsed' = lapsed \cup {c \in Clients : quiet'[c] > IdleThreshold}
    /\ stmts' = <<>>
    /\ UNCHANGED <<clients, inbox, ready, ipRows, header>>

Start(c) ==
    /\ c \notin on
    /\ on' = on \cup {c}
    /\ stmts' = <<>>
    /\ UNCHANGED <<port, game, inbox, ready, packet_house_map_, history>>

Stop(c) ==
    /\ c \in on
    /\ on' = on \ {c}
    /\ stmts' = <<>>
    /\ UNCHANGED <<port, game, inbox, ready, packet_house_map_, history>>

NextSession(c) ==
    /\ c \in Sends2022
    /\ game[c] < MaxSession
    /\ game' = [game EXCEPT ![c] = @ + 1]
    /\ stmts' = <<>>
    /\ UNCHANGED <<port, on, inbox, ready, packet_house_map_, history>>

Formats(c) ==
    {f \in {"2022", "2025", "other"} :
        c \in CASE f = "2022" -> Sends2022
                [] f = "2025" -> Sends2025
                [] f = "other" -> SendsOther}

(* Kind and session are read from datagrams of format 2022 only. *)
Datagrams(c) ==
    {[ip |-> c, format |-> f, kind |-> k, session |-> game[c]] :
        f \in Formats(c) \cap {"2022"}, k \in Kinds}
    \cup {[ip |-> c, format |-> f, kind |-> "Car", session |-> NoSession] :
        f \in Formats(c) \ {"2022"}}

Send(c) ==
    /\ c \in on
    /\ Len(inbox[port[c]]) < MaxInbox
    /\ \E d \in Datagrams(c) :
          inbox' = [inbox EXCEPT ![port[c]] = Append(@, d)]
    /\ stmts' = <<>>
    /\ UNCHANGED <<clients, ready, packet_house_map_, history>>
----------------------------------------------------------------------------
(* UdpListener::Recv. *)

Readable == {s \in Sockets : inbox[s] # <<>>}

(* Faulty: one event per wait, whichever. *)
EpollWaitOne ==
    /\ ready = {}
    /\ Readable # {}
    /\ ready' \in {{s} : s \in Readable}
    /\ stmts' = <<>>
    /\ UNCHANGED <<clients, inbox, packet_house_map_, history>>

(* epoll_wait hands out the readable sockets, EventNum of them at most. *)
EpollWait ==
    /\ ready = {}
    /\ Readable # {}
    /\ ready' \in {R \in SUBSET Readable :
          Cardinality(R) = IF Cardinality(Readable) > EventNum
                           THEN EventNum ELSE Cardinality(Readable)}
    /\ stmts' = <<>>
    /\ UNCHANGED <<clients, inbox, packet_house_map_, history>>

(* Faulty: the event stays in the list. *)
TakeAgain(s) ==
    /\ s \in ready
    /\ UNCHANGED ready
    /\ inbox' = [inbox EXCEPT ![s] = Tail(@)]
    /\ quiet' = [quiet EXCEPT ![Head(inbox[s]).ip] = 0]
    /\ UNCHANGED clients

Take(s) ==
    /\ s \in ready
    /\ ready' = ready \ {s}
    /\ inbox' = [inbox EXCEPT ![s] = Tail(@)]
    /\ quiet' = [quiet EXCEPT ![Head(inbox[s]).ip] = 0]
    /\ UNCHANGED clients
----------------------------------------------------------------------------
(* Server::UnPacketAndSendToDB, by packet format. *)

(* The zeroed last_recive_time_ of a house nothing was stored in. *)
NewHouse == [age |-> LongAgo, session |-> NoSession]

HouseOf(c) ==
    IF c \in DOMAIN packet_house_map_ THEN packet_house_map_[c] ELSE NewHouse

SetHouse(c, house) ==
    packet_house_map_' =
        [d \in DOMAIN packet_house_map_ \cup {c} |->
            IF d = c THEN house ELSE packet_house_map_[d]]

Statement(table, c, session) == [table |-> table, ip |-> c, session |-> session]

(* A client seen for the first time, or again after it was erased, gets an
   IpList row. *)
IpListOf(c) ==
    IF c \in DOMAIN packet_house_map_ THEN <<>>
    ELSE <<Statement("IpList", c, NoSession)>>

(* Faulty: the new client is registered after its packet was handled. *)
IssueIpListLast(c, statements) ==
    /\ stmts' = statements \o IpListOf(c)
    /\ ipRows' = IF IpListOf(c) = <<>> THEN ipRows ELSE ipRows \cup {c}

Issue(c, statements) ==
    /\ stmts' = IpListOf(c) \o statements
    /\ ipRows' = IF IpListOf(c) = <<>> THEN ipRows ELSE ipRows \cup {c}

(* What Handle returns when the packet opens no session: nothing, or, once a
   session is open, the rows that have become due. *)
HandleOrdinary(c, house) ==
    /\ SetHouse(c, house)
    /\ \/ Issue(c, <<>>)
       \/ /\ house.session # NoSession
          /\ Issue(c, <<Statement("rows", c, house.session)>>)
    /\ UNCHANGED <<header, lapsed>>

Stored(c) == [HouseOf(c) EXCEPT !.age = 0]

(* Faulty: the house does not remember the session it opened. *)
Receive2022NewSessionForgets(s) ==
    LET d == Head(inbox[s]) IN
    /\ Take(s)
    /\ d.format = "2022"
    /\ d.kind = "SessionData"
    /\ d.session # HouseOf(d.ip).session
    /\ SetHouse(d.ip, Stored(d.ip))
    /\ Issue(d.ip, <<Statement("SessionList", d.ip, d.session)>>)
    /\ header' = [header EXCEPT ![d.ip] = d.session]
    /\ lapsed' = lapsed \ {d.ip}

(* Store, and a Handle that finds a new session. *)
Receive2022NewSession(s) ==
    LET d == Head(inbox[s]) IN
    /\ Take(s)
    /\ d.format = "2022"
    /\ d.kind = "SessionData"
    /\ d.session # HouseOf(d.ip).session
    /\ SetHouse(d.ip, [Stored(d.ip) EXCEPT !.session = d.session])
    /\ Issue(d.ip, <<Statement("SessionList", d.ip, d.session)>>)
    /\ header' = [header EXCEPT ![d.ip] = d.session]
    /\ lapsed' = lapsed \ {d.ip}

(* Lobby rows are written whatever the session. *)
Receive2022Lobby(s) ==
    LET d == Head(inbox[s]) IN
    /\ Take(s)
    /\ d.format = "2022"
    /\ d.kind = "LobbyInfo"
    /\ SetHouse(d.ip, Stored(d.ip))
    /\ Issue(d.ip, <<Statement("LobbyInfo", d.ip, NoSession)>>)
    /\ UNCHANGED <<header, lapsed>>

Receive2022Ordinary(s) ==
    LET d == Head(inbox[s]) IN
    /\ Take(s)
    /\ d.format = "2022"
    /\ \/ d.kind = "Car"
       \/ d.kind = "SessionData" /\ d.session = HouseOf(d.ip).session
    /\ HandleOrdinary(d.ip, Stored(d.ip))

(* Update2025: neither Store nor Handle, and last_recive_time_ stays. *)
Receive2025(s) ==
    LET d == Head(inbox[s]) IN
    /\ Take(s)
    /\ d.format = "2025"
    /\ SetHouse(d.ip, HouseOf(d.ip))
    /\ Issue(d.ip, <<>>)
    /\ UNCHANGED <<header, lapsed>>

(* Handle without Store. *)
ReceiveOther(s) ==
    LET d == Head(inbox[s]) IN
    /\ Take(s)
    /\ d.format = "other"
    /\ HandleOrdinary(d.ip, HouseOf(d.ip))

Receive(s) ==
    \/ Receive2022NewSession(s)
    \/ Receive2022Lobby(s)
    \/ Receive2022Ordinary(s)
    \/ Receive2025(s)
    \/ ReceiveOther(s)
----------------------------------------------------------------------------
(* Faulty: off by one. *)
TestIfIdleEarly(c) == packet_house_map_[c].age >= IdleThreshold

TestIfIdle(c) == packet_house_map_[c].age > IdleThreshold

(* Faulty: pings only. *)
TimeoutOpPing ==
    /\ ready = {}
    /\ Readable = {}
    /\ stmts' = <<>>
    /\ UNCHANGED <<clients, inbox, ready, packet_house_map_, history>>

(* Server::TimeoutOp: the pings, then ClearIdlePacketHouse. *)
TimeoutOp ==
    /\ ready = {}
    /\ Readable = {}
    /\ packet_house_map_' =
          Restrict(packet_house_map_,
                   {c \in DOMAIN packet_house_map_ : ~TestIfIdle(c)})
    /\ stmts' = <<>>
    /\ UNCHANGED <<clients, inbox, ready, history>>

Run == EpollWait \/ TimeoutOp \/ \E s \in Sockets : Receive(s)

Next ==
    \/ Tick
    \/ \E c \in Clients : Start(c) \/ Stop(c) \/ NextSession(c) \/ Send(c)
    \/ Run

SafetySpec == Init /\ [][Next]_vars

(* main() calls Run for ever and time goes by; the clients owe nothing. *)
Spec == SafetySpec /\ WF_vars(Run) /\ WF_vars(Tick)
----------------------------------------------------------------------------
(* Properties. *)

Age == 0..LongAgo

Session == 0..MaxSession

Datagram ==
    [ip : Clients, format : {"2022", "2025", "other"}, kind : PacketKind,
     session : Session]

House == [age : Age, session : Session]

StatementType ==
    [table : {"IpList", "SessionList", "LobbyInfo", "rows"}, ip : Clients,
     session : Session]

(* Every variable has its type; the events of an epoll_wait stay readable
   until they are looked at. *)
TypeOK ==
    /\ port \in [Clients -> Sockets]
    /\ on \subseteq Clients
    /\ game \in [Clients -> Session]
    /\ inbox \in [Sockets -> Seq(Datagram)]
    /\ ready \subseteq Readable
    /\ DOMAIN packet_house_map_ \subseteq Clients
    /\ \A c \in DOMAIN packet_house_map_ : packet_house_map_[c] \in House
    /\ stmts \in Seq(StatementType)
    /\ quiet \in [Clients -> Age]
    /\ ipRows \subseteq Clients
    /\ header \in [Clients -> Session]
    /\ lapsed \subseteq Clients

(* A client that sends format 2022 alone is never erased before it was silent
   for longer than idle_threshold_, whatever other clients send. *)
Idle2022Erased ==
    [][\A c \in DOMAIN packet_house_map_ \ DOMAIN packet_house_map_' :
          c \in Sends2022 \ (Sends2025 \cup SendsOther) =>
              quiet[c] > IdleThreshold]_vars

(* ClearIdlePacketHouse erases a client's house, and with it the session and
   all that was collected, only when nothing was received from the client
   for longer than idle_threshold_. *)
OnlyIdleErased ==
    [][\A c \in DOMAIN packet_house_map_ \ DOMAIN packet_house_map_' :
          quiet[c] > IdleThreshold]_vars

(* A session gets a second SessionList row only if its client has been idle
   in between: pauses, cleanups and other clients do not split a session. *)
SessionNotSplit ==
    [][\A s \in Sockets :
          Receive2022NewSession(s) =>
              LET d == Head(inbox[s]) IN
              d.session = header[d.ip] => d.ip \in lapsed]_vars

(* Foreign keys: a client's IpList statement is issued before its
   SessionList statements, and rows are issued only for the session of the
   client's last SessionList statement, also when the client was erased and
   came back. *)
ParentRowsFirst ==
    \A i \in DOMAIN stmts :
        LET q == stmts[i] IN
        /\ q.table = "SessionList" =>
              q.ip \in ipRows /\ \A j \in DOMAIN stmts : stmts[j].table = "IpList" => j < i
        /\ q.table = "rows" => q.session = header[q.ip] /\ q.session # NoSession

(* When every client has stopped for good, every house is erased. *)
QuietHousesCleared ==
    <>[](on = {}) => <>[](DOMAIN packet_house_map_ = {})

(* A socket that stays readable is read from over and over, however busy the
   other sockets are. *)
SocketsServed ==
    \A s \in Sockets :
        <>[](s \in Readable) => []<><<Receive(s)>>_vars
============================================================================

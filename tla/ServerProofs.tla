---------------------------- MODULE ServerProofs ----------------------------
(***************************************************************************)
(* Machine-checked facts about Server, for every set of clients and ports,  *)
(* batch of events, idle threshold, number of sessions and socket buffer.   *)
(***************************************************************************)
EXTENDS Server, SequenceTheorems, TLAPS

(* The datagrams that are ever sent. *)
Sent ==
    {d \in Datagram :
        /\ d.format = "2022" => d.ip \in Sends2022 /\ d.session # NoSession
        /\ d.format = "2025" => d.ip \in Sends2025
        /\ d.format = "other" => d.ip \in SendsOther}

(* Clients that send format 2022 alone. *)
Pure == Sends2022 \ (Sends2025 \cup SendsOther)

Traffic ==
    /\ inbox \in [Sockets -> Seq(Sent)]
    /\ \A c \in Clients : game[c] # NoSession

(* A house belongs to a client with an IpList row, its session is that of the
   client's last SessionList row, and it is no older than the silence. *)
Houses ==
    \A c \in DOMAIN packet_house_map_ :
        /\ c \in ipRows
        /\ packet_house_map_[c].session # NoSession =>
              header[c] = packet_house_map_[c].session
        /\ c \in Pure => packet_house_map_[c].age <= quiet[c]

(* A client that was silent for too long since its header has lapsed; until
   then the house remembers the session of the header. *)
Remembered ==
    \A c \in Clients : header[c] # NoSession =>
        /\ quiet[c] > IdleThreshold => c \in lapsed
        /\ c \in Pure \ lapsed =>
              /\ c \in DOMAIN packet_house_map_
              /\ packet_house_map_[c].session = header[c]

IInv == TypeOK /\ Traffic /\ Houses /\ Remembered /\ ParentRowsFirst

LEMMA Constants ==
    /\ IdleThreshold \in Nat /\ EventNum \in Nat \ {0} /\ IsFiniteSet(Sockets)
    /\ MaxSession \in Nat \ {0} /\ MaxInbox \in Nat \ {0}
    /\ Kinds \subseteq PacketKind
    BY ListenerAssumption, LoadAssumption

LEMMA Ages ==
    /\ Age = 0..(IdleThreshold + 1)
    /\ \A a \in Age : Older(a) \in Age /\ a <= Older(a)
    /\ \A a, b \in Age : a <= b => Older(a) <= Older(b)
    BY Constants DEF Age, LongAgo, Older

LEMMA InitIInv == Init => IInv
<1> SUFFICES ASSUME Init PROVE IInv
    OBVIOUS
<1> USE Constants
<1>1. Traffic
    <2>1. inbox \in [Sockets -> Seq(Sent)]
        <3> HIDE DEF Sent
        <3> QED
            BY DEF Init
    <2> QED
        BY <2>1 DEF Init, Traffic, NoSession
<1>2. TypeOK
    <2>1. inbox \in [Sockets -> Seq(Datagram)]
        <3> HIDE DEF Datagram
        <3> QED
            BY DEF Init
    <2>2. LongAgo \in Age /\ 1 \in Session /\ NoSession \in Session
        BY DEF LongAgo, Age, Session, NoSession
    <2>3. DOMAIN packet_house_map_ = {}
        BY DEF Init
    <2>4. stmts \in Seq(StatementType)
        BY DEF Init
    <2> QED
        BY <2>1, <2>2, <2>3, <2>4 DEF Init, TypeOK
<1>3. Houses
    BY DEF Init, Houses
<1>4. Remembered
    BY DEF Init, Remembered
<1>5. ParentRowsFirst
    BY DEF Init, ParentRowsFirst
<1> QED
    BY <1>1, <1>2, <1>3, <1>4, <1>5 DEF IInv
----------------------------------------------------------------------------
(* The clients and the clock. *)
LEMMA NoStatements ==
    ASSUME stmts' = <<>>
    PROVE  stmts' \in Seq(StatementType) /\ ParentRowsFirst'
    BY DEF ParentRowsFirst

LEMMA ClientIInv ==
    ASSUME IInv, NEW c \in Clients, Start(c) \/ Stop(c) \/ NextSession(c)
    PROVE  IInv'
<1> USE Constants
<1>1. /\ stmts' = <<>>
      /\ UNCHANGED <<port, inbox, ready, packet_house_map_, history>>
    BY DEF Start, Stop, NextSession
<1>2. on' \subseteq Clients
    BY DEF Start, Stop, NextSession, IInv, TypeOK
<1>3. game' \in [Clients -> Session] /\ \A d \in Clients : game'[d] # NoSession
    BY DEF Start, Stop, NextSession, IInv, TypeOK, Traffic, Session, NoSession
<1>4. TypeOK'
    BY <1>1, <1>2, <1>3, NoStatements DEF IInv, TypeOK, Readable, history
<1>5. Traffic' /\ Houses' /\ Remembered'
    BY <1>1, <1>3 DEF IInv, Traffic, Houses, Remembered, history
<1> QED
    BY <1>1, <1>4, <1>5, NoStatements DEF IInv

LEMMA SendIInv == ASSUME IInv, NEW c \in Clients, Send(c) PROVE IInv'
<1>1. PICK d \in Datagrams(c) : inbox' = [inbox EXCEPT ![port[c]] = Append(@, d)]
    BY DEF Send
<1>2. d \in Sent
    <2>1. game[c] \in Session /\ game[c] # NoSession /\ NoSession \in Session
        BY Constants DEF IInv, TypeOK, Traffic, Session, NoSession
    <2>2. d \in {[ip |-> c, format |-> f, kind |-> k, session |-> game[c]] :
                    f \in Formats(c) \cap {"2022"}, k \in Kinds} \/
          d \in {[ip |-> c, format |-> f, kind |-> "Car", session |-> NoSession] :
                    f \in Formats(c) \ {"2022"}}
        BY <1>1 DEF Datagrams
    <2>3. /\ "2022" \in Formats(c) => c \in Sends2022
          /\ "2025" \in Formats(c) => c \in Sends2025
          /\ "other" \in Formats(c) => c \in SendsOther
          /\ Formats(c) \subseteq {"2022", "2025", "other"}
        BY DEF Formats
    <2>4. CASE d \in {[ip |-> c, format |-> f, kind |-> k, session |-> game[c]] :
                         f \in Formats(c) \cap {"2022"}, k \in Kinds}
        <3>1. PICK k \in Kinds :
                 d = [ip |-> c, format |-> "2022", kind |-> k, session |-> game[c]]
            BY <2>4
        <3>2. "2022" \in Formats(c)
            BY <2>4
        <3> QED
            BY <2>1, <2>3, <3>1, <3>2, Constants DEF Sent, Datagram
    <2>5. CASE d \in {[ip |-> c, format |-> f, kind |-> "Car", session |-> NoSession] :
                         f \in Formats(c) \ {"2022"}}
        <3>1. PICK f \in Formats(c) \ {"2022"} :
                 d = [ip |-> c, format |-> f, kind |-> "Car", session |-> NoSession]
            BY <2>5
        <3> QED
            BY <2>1, <2>3, <3>1 DEF Sent, Datagram, PacketKind
    <2> QED
        BY <2>2, <2>4, <2>5
<1>3. inbox' \in [Sockets -> Seq(Sent)]
    <2> HIDE DEF Sent
    <2>1. inbox \in [Sockets -> Seq(Sent)]
        BY DEF IInv, Traffic
    <2>2. Append(inbox[port[c]], d) \in Seq(Sent)
        BY <1>2, <2>1 DEF IInv, TypeOK
    <2> QED
        BY <1>1, <2>1, <2>2
<1>4. inbox' \in [Sockets -> Seq(Datagram)]
    <2>1. Sent \subseteq Datagram
        BY DEF Sent
    <2> HIDE DEF Sent, Datagram
    <2> QED
        BY <1>3, <2>1
<1>5. Readable \subseteq Readable'
    <2>1. port[c] \in Sockets /\ inbox[port[c]] \in Seq(Sent)
        BY DEF IInv, TypeOK, Traffic
    <2>2. Append(inbox[port[c]], d) # <<>>
        <3> HIDE DEF Sent
        <3> QED
            BY <1>2, <2>1, AppendProperties
    <2>3. inbox' = [inbox EXCEPT ![port[c]] = Append(inbox[port[c]], d)]
        BY <1>1
    <2> QED
        BY <2>1, <2>2, <2>3 DEF Readable, IInv, TypeOK
<1>6. stmts' = <<>> /\ UNCHANGED <<clients, ready, packet_house_map_, history>>
    BY DEF Send
<1>7. TypeOK'
    BY <1>4, <1>5, <1>6, NoStatements DEF IInv, TypeOK, clients, history
<1>8. Traffic' /\ Houses' /\ Remembered'
    BY <1>3, <1>6 DEF IInv, Traffic, Houses, Remembered, clients, history
<1> QED
    BY <1>6, <1>7, <1>8, NoStatements DEF IInv

LEMMA TickIInv == ASSUME IInv, Tick PROVE IInv'
<1> DEFINE m == packet_house_map_
           n == packet_house_map_'
<1>1. /\ DOMAIN n = DOMAIN m
      /\ \A c \in DOMAIN m : n[c].age = Older(m[c].age) /\ n[c].session = m[c].session
      /\ \A c \in DOMAIN m : n[c] \in House
    BY Ages DEF Tick, IInv, TypeOK, House
<1>2. quiet' = [c \in Clients |-> Older(quiet[c])]
    BY DEF Tick
<1>3. quiet' \in [Clients -> Age]
    BY <1>2, Ages DEF IInv, TypeOK
<1>4. lapsed' = lapsed \cup {c \in Clients : quiet'[c] > IdleThreshold}
    BY DEF Tick
<1>5. stmts' = <<>> /\ UNCHANGED <<clients, inbox, ready, ipRows, header>>
    BY DEF Tick
<1>6. TypeOK'
    BY <1>1, <1>3, <1>4, <1>5, NoStatements DEF IInv, TypeOK, Readable, clients
<1>7. Houses'
    <2> SUFFICES ASSUME NEW c \in DOMAIN m
                 PROVE  /\ c \in ipRows
                        /\ n[c].session # NoSession => header[c] = n[c].session
                        /\ c \in Pure => n[c].age <= quiet'[c]
        BY <1>1, <1>5 DEF Houses
    <2>1. m[c].age \in Age /\ c \in Clients /\ quiet[c] \in Age
        BY DEF IInv, TypeOK, House
    <2> QED
        BY <1>1, <1>2, <2>1, Ages DEF IInv, Houses
<1>8. Remembered'
    BY <1>1, <1>4, <1>5 DEF IInv, Remembered
<1>9. Traffic'
    BY <1>5 DEF IInv, Traffic, clients
<1> QED
    BY <1>5, <1>6, <1>7, <1>8, <1>9, NoStatements DEF IInv
----------------------------------------------------------------------------
(* The receive loop without a datagram. *)
LEMMA EpollWaitIInv == ASSUME IInv, EpollWait PROVE IInv'
<1>1. /\ stmts' = <<>> /\ ready' \subseteq Readable
      /\ UNCHANGED <<clients, inbox, packet_house_map_, history>>
    BY DEF EpollWait
<1>2. TypeOK'
    BY <1>1, NoStatements DEF IInv, TypeOK, Readable, clients, history
<1>3. Traffic' /\ Houses' /\ Remembered'
    BY <1>1 DEF IInv, Traffic, Houses, Remembered, clients, history
<1> QED
    BY <1>1, <1>2, <1>3, NoStatements DEF IInv

(* What a cleanup keeps, and that it takes a silent client only. *)
LEMMA Cleanup ==
    ASSUME IInv, TimeoutOp
    PROVE  /\ DOMAIN packet_house_map_' \subseteq DOMAIN packet_house_map_
           /\ \A c \in DOMAIN packet_house_map_' :
                 packet_house_map_'[c] = packet_house_map_[c]
           /\ \A c \in DOMAIN packet_house_map_ \ DOMAIN packet_house_map_' :
                 c \in Pure => quiet[c] > IdleThreshold
<1> DEFINE kept == {c \in DOMAIN packet_house_map_ : ~TestIfIdle(c)}
<1>1. packet_house_map_' = [c \in kept |-> packet_house_map_[c]]
    BY DEF TimeoutOp, Restrict
<1>2. ASSUME NEW c \in DOMAIN packet_house_map_, TestIfIdle(c), c \in Pure
      PROVE  quiet[c] > IdleThreshold
    <2>1. packet_house_map_[c].age \in Age /\ quiet[c] \in Age
        BY DEF IInv, TypeOK, House
    <2>2. packet_house_map_[c].age <= quiet[c]
        BY <1>2 DEF IInv, Houses
    <2> QED
        BY <1>2, <2>1, <2>2, Ages, Constants DEF TestIfIdle
<1> QED
    BY <1>1, <1>2

LEMMA TimeoutIInv == ASSUME IInv, TimeoutOp PROVE IInv'
<1>1. /\ stmts' = <<>>
      /\ UNCHANGED <<clients, inbox, ready, history>>
    BY DEF TimeoutOp
<1>2. TypeOK'
    BY <1>1, Cleanup, NoStatements DEF IInv, TypeOK, Readable, clients, history
<1>3. Houses'
    BY <1>1, Cleanup DEF IInv, Houses, history
<1>4. Remembered'
    BY <1>1, Cleanup DEF IInv, Remembered, history
<1>5. Traffic'
    BY <1>1 DEF IInv, Traffic, clients, history
<1> QED
    BY <1>1, <1>2, <1>3, <1>4, <1>5, NoStatements DEF IInv
----------------------------------------------------------------------------
(* A datagram.  Whatever its format, it comes to this: one client c whose
   house becomes "house", and one of three sorts of statements. *)
Opens(c, house) ==
    /\ house.session # NoSession
    /\ Issue(c, <<Statement("SessionList", c, house.session)>>)
    /\ header' = [header EXCEPT ![c] = house.session]
    /\ lapsed' = lapsed \ {c}

Continues(c, house) ==
    /\ house.session = HouseOf(c).session
    /\ \/ Issue(c, <<>>)
       \/ Issue(c, <<Statement("LobbyInfo", c, NoSession)>>)
       \/ /\ house.session # NoSession
          /\ Issue(c, <<Statement("rows", c, house.session)>>)
    /\ UNCHANGED <<header, lapsed>>

LEMMA TakeFacts ==
    ASSUME IInv, NEW s \in Sockets, Take(s)
    PROVE  /\ Head(inbox[s]) \in Sent
           /\ inbox' \in [Sockets -> Seq(Sent)]
           /\ ready' \subseteq Readable'
           /\ quiet' = [quiet EXCEPT ![Head(inbox[s]).ip] = 0]
           /\ UNCHANGED clients
<1>1. inbox \in [Sockets -> Seq(Sent)] /\ s \in ready /\ ready \subseteq Readable
    BY DEF Take, IInv, TypeOK, Traffic
<1>2. inbox[s] \in Seq(Sent) /\ inbox[s] # <<>>
    BY <1>1 DEF Readable
<1>3. Head(inbox[s]) \in Sent /\ Tail(inbox[s]) \in Seq(Sent)
    <2> HIDE DEF Sent
    <2> QED
        BY <1>2
<1>4. inbox' = [inbox EXCEPT ![s] = Tail(inbox[s])] /\ ready' = ready \ {s}
    BY DEF Take
<1>5. inbox' \in [Sockets -> Seq(Sent)]
    <2> HIDE DEF Sent
    <2> QED
        BY <1>1, <1>3, <1>4
<1>6. ready' \subseteq Readable'
    BY <1>1, <1>4 DEF Readable
<1> QED
    BY <1>3, <1>5, <1>6 DEF Take

LEMMA HouseTypes ==
    ASSUME IInv, NEW c \in Clients
    PROVE  /\ HouseOf(c) \in House /\ Stored(c) \in House
           /\ Stored(c).age = 0 /\ Stored(c).session = HouseOf(c).session
<1>1. NewHouse \in House /\ 0 \in Age
    BY Constants DEF NewHouse, House, LongAgo, Age, NoSession, Session
<1>2. HouseOf(c) \in House
    BY <1>1 DEF HouseOf, IInv, TypeOK
<1> QED
    BY <1>1, <1>2 DEF Stored, House

LEMMA ReceiveFacts ==
    ASSUME IInv, NEW s \in Sockets, Receive(s)
    PROVE  \E c \in Clients, house \in House :
              /\ Take(s) /\ c = Head(inbox[s]).ip
              /\ SetHouse(c, house)
              /\ c \in Pure => house.age = 0
              /\ Opens(c, house) \/ Continues(c, house)
<1> DEFINE d == Head(inbox[s])
<1>1. Take(s)
    BY DEF Receive, Receive2022NewSession, Receive2022Lobby, Receive2022Ordinary,
       Receive2025, ReceiveOther
<1>2. d \in Sent
    BY <1>1, TakeFacts
<1>3. d.ip \in Clients /\ d.session \in Session
    BY <1>2 DEF Sent, Datagram
<1>4. /\ HouseOf(d.ip) \in House /\ Stored(d.ip) \in House
      /\ Stored(d.ip).age = 0 /\ Stored(d.ip).session = HouseOf(d.ip).session
    BY <1>3, HouseTypes
<1>5. ASSUME NEW house \in House, SetHouse(d.ip, house),
             d.ip \in Pure => house.age = 0,
             Opens(d.ip, house) \/ Continues(d.ip, house)
      PROVE  \E c \in Clients, h \in House :
                /\ Take(s) /\ c = Head(inbox[s]).ip
                /\ SetHouse(c, h)
                /\ c \in Pure => h.age = 0
                /\ Opens(c, h) \/ Continues(c, h)
    BY <1>1, <1>3, <1>5
<1>6. CASE Receive2022NewSession(s)
    <2> DEFINE house == [Stored(d.ip) EXCEPT !.session = d.session]
    <2>1. house \in House /\ house.age = 0 /\ house.session = d.session
        BY <1>3, <1>4 DEF House
    <2>2. d.session # NoSession
        BY <1>2, <1>6 DEF Receive2022NewSession, Sent
    <2>3. SetHouse(d.ip, house)
        BY <1>6 DEF Receive2022NewSession
    <2>4. /\ Issue(d.ip, <<Statement("SessionList", d.ip, d.session)>>)
          /\ header' = [header EXCEPT ![d.ip] = d.session]
          /\ lapsed' = lapsed \ {d.ip}
        BY <1>6 DEF Receive2022NewSession
    <2>5. Opens(d.ip, house)
        BY <2>1, <2>2, <2>4 DEF Opens
    <2> QED
        BY <1>5, <2>1, <2>3, <2>5
<1>7. CASE Receive2022Lobby(s) \/ Receive2022Ordinary(s)
    <2>1. SetHouse(d.ip, Stored(d.ip))
        BY <1>7 DEF Receive2022Lobby, Receive2022Ordinary, HandleOrdinary
    <2>2. Continues(d.ip, Stored(d.ip))
        BY <1>4, <1>7 DEF Receive2022Lobby, Receive2022Ordinary, HandleOrdinary, Continues
    <2> QED
        BY <1>4, <1>5, <2>1, <2>2
<1>8. CASE Receive2025(s) \/ ReceiveOther(s)
    <2>1. d.ip \notin Pure
        BY <1>2, <1>8 DEF Receive2025, ReceiveOther, Sent, Pure
    <2>2. SetHouse(d.ip, HouseOf(d.ip))
        BY <1>8 DEF Receive2025, ReceiveOther, HandleOrdinary
    <2>3. Continues(d.ip, HouseOf(d.ip))
        BY <1>8 DEF Receive2025, ReceiveOther, HandleOrdinary, Continues
    <2> QED
        BY <1>4, <1>5, <2>1, <2>2, <2>3
<1> QED
    BY <1>6, <1>7, <1>8 DEF Receive

(* The statements a datagram issues, parents first. *)
LEMMA IssueFacts ==
    ASSUME IInv, NEW c \in Clients, NEW q \in StatementType, q.ip = c,
           q.table # "IpList", NEW st \in {<<>>, <<q>>}, Issue(c, st),
           q.table = "rows" => q.session # NoSession /\ header'[c] = q.session
    PROVE  /\ stmts' \in Seq(StatementType)
           /\ c \in ipRows' /\ ipRows \subseteq ipRows' /\ ipRows' \subseteq Clients
           /\ ParentRowsFirst'
<1> DEFINE p == Statement("IpList", c, NoSession)
<1>1. p \in StatementType /\ p.table = "IpList"
    BY Constants DEF Statement, StatementType, NoSession, Session
<1>2. c \in ipRows' /\ ipRows \subseteq ipRows' /\ ipRows' \subseteq Clients
    BY DEF Issue, IpListOf, IInv, Houses, TypeOK
<1>3. stmts' = IpListOf(c) \o st /\ IpListOf(c) \in {<<>>, <<p>>}
    BY DEF Issue, IpListOf
<1> DEFINE a == IpListOf(c)
<1> HIDE DEF p, a
<1>4. /\ a \in Seq(StatementType) /\ Len(a) \in 0..1
      /\ \A i \in 1..Len(a) : a[i] = p
    <2>1. a = <<>> \/ a = <<p>>
        BY <1>3 DEF a
    <2> HIDE DEF StatementType
    <2>2. CASE a = <<>>
        BY <2>2
    <2>3. CASE a = <<p>>
        BY <1>1, <2>3
    <2> QED
        BY <2>1, <2>2, <2>3
<1>5. /\ st \in Seq(StatementType) /\ Len(st) \in 0..1
      /\ \A i \in 1..Len(st) : st[i] = q
    <2> HIDE DEF StatementType
    <2>1. CASE st = <<>>
        BY <2>1
    <2>2. CASE st = <<q>>
        BY <2>2
    <2> QED
        BY <2>1, <2>2
<1>6. /\ stmts' \in Seq(StatementType)
      /\ Len(stmts') = Len(a) + Len(st)
      /\ \A i \in 1..Len(a) : stmts'[i] = p
      /\ \A i \in Len(a) + 1..Len(a) + Len(st) : stmts'[i] = q
    <2> HIDE DEF StatementType
    <2>1. stmts' = a \o st
        BY <1>3 DEF a
    <2>2. /\ stmts' \in Seq(StatementType) /\ Len(stmts') = Len(a) + Len(st)
          /\ \A i \in 1..Len(a) + Len(st) :
                stmts'[i] = IF i <= Len(a) THEN a[i] ELSE st[i - Len(a)]
        BY <1>4, <1>5, <2>1, ConcatProperties
    <2> QED
        BY <1>4, <1>5, <2>2
<1>7. ParentRowsFirst'
    <2>1. /\ DOMAIN stmts' = 1..Len(a) + Len(st)
          /\ \A i \in DOMAIN stmts' : stmts'[i] = IF i <= Len(a) THEN p ELSE q
        BY <1>4, <1>5, <1>6
    <2> SUFFICES ASSUME NEW i \in DOMAIN stmts'
                 PROVE  /\ stmts'[i].table = "SessionList" =>
                              /\ stmts'[i].ip \in ipRows'
                              /\ \A j \in DOMAIN stmts' : stmts'[j].table = "IpList" => j < i
                        /\ stmts'[i].table = "rows" =>
                              /\ stmts'[i].session = header'[stmts'[i].ip]
                              /\ stmts'[i].session # NoSession
        BY DEF ParentRowsFirst
    <2>2. CASE i <= Len(a)
        BY <1>1, <2>1, <2>2
    <2>3. CASE ~(i <= Len(a))
        <3>1. stmts'[i] = q
            BY <2>1, <2>3
        <3>2. \A j \in DOMAIN stmts' : stmts'[j].table = "IpList" => j <= Len(a)
            BY <1>1, <2>1
        <3> QED
            BY <1>2, <1>4, <1>5, <2>1, <2>3, <3>1, <3>2
    <2> QED
        BY <2>2, <2>3
<1> QED
    BY <1>2, <1>6, <1>7

LEMMA ReceiveIInv == ASSUME IInv, NEW s \in Sockets, Receive(s) PROVE IInv'
<1>1. PICK c \in Clients, house \in House :
         /\ Take(s) /\ c = Head(inbox[s]).ip
         /\ SetHouse(c, house)
         /\ c \in Pure => house.age = 0
         /\ Opens(c, house) \/ Continues(c, house)
    BY ReceiveFacts
<1> DEFINE m == packet_house_map_
           n == packet_house_map_'
<1>2. /\ inbox' \in [Sockets -> Seq(Sent)] /\ ready' \subseteq Readable'
      /\ quiet' = [quiet EXCEPT ![c] = 0] /\ UNCHANGED clients
    BY <1>1, TakeFacts
<1>3. /\ DOMAIN n = DOMAIN m \cup {c} /\ n[c] = house
      /\ \A e \in DOMAIN m : e # c => n[e] = m[e]
    BY <1>1 DEF SetHouse
<1>4. /\ header \in [Clients -> Session] /\ quiet \in [Clients -> Age]
      /\ house.session \in Session /\ house.age \in Age
      /\ HouseOf(c).session = IF c \in DOMAIN m THEN m[c].session ELSE NoSession
    BY DEF IInv, TypeOK, House, HouseOf, NewHouse
<1>5. /\ house.session # NoSession => header'[c] = house.session
      /\ \A e \in Clients \ {c} : header'[e] = header[e]
      /\ header' \in [Clients -> Session]
      /\ lapsed' \subseteq Clients /\ lapsed \ {c} \subseteq lapsed'
      /\ lapsed' \subseteq lapsed
      /\ header'[c] = header[c] \/ header'[c] = house.session
    <2>1. CASE Opens(c, house)
        BY <1>4, <2>1 DEF Opens, IInv, TypeOK
    <2>2. CASE Continues(c, house)
        <3>1. house.session # NoSession => c \in DOMAIN m /\ m[c].session = house.session
            BY <1>4, <2>2 DEF Continues
        <3>2. house.session # NoSession => header[c] = house.session
            BY <3>1 DEF IInv, Houses
        <3> QED
            BY <1>4, <2>2, <3>2 DEF Continues, IInv, TypeOK
    <2> QED
        BY <1>1, <2>1, <2>2
<1>6. /\ stmts' \in Seq(StatementType)
      /\ c \in ipRows' /\ ipRows \subseteq ipRows' /\ ipRows' \subseteq Clients
      /\ ParentRowsFirst'
    <2> DEFINE q(table, session) == Statement(table, c, session)
    <2>1. /\ q("SessionList", house.session) \in StatementType
          /\ q("rows", house.session) \in StatementType
          /\ q("LobbyInfo", NoSession) \in StatementType
        BY <1>4, Constants DEF Statement, StatementType, NoSession, Session
    <2>2. CASE Issue(c, <<q("SessionList", house.session)>>)
        BY <2>1, <2>2, IssueFacts DEF Statement
    <2>3. CASE Issue(c, <<>>) \/ Issue(c, <<q("LobbyInfo", NoSession)>>)
        BY <2>1, <2>3, IssueFacts DEF Statement
    <2>4. CASE house.session # NoSession /\ Issue(c, <<q("rows", house.session)>>)
        BY <1>5, <2>1, <2>4, IssueFacts DEF Statement
    <2> QED
        BY <1>1, <2>2, <2>3, <2>4 DEF Opens, Continues
<1>7. TypeOK'
    <2>1. Seq(Sent) \subseteq Seq(Datagram)
        <3>1. Sent \subseteq Datagram
            BY DEF Sent
        <3> HIDE DEF Sent, Datagram
        <3> QED
            BY <3>1
    <2>2. inbox' \in [Sockets -> Seq(Datagram)]
        <3> HIDE DEF Sent, Datagram
        <3> QED
            BY <1>2, <2>1
    <2>3. quiet' \in [Clients -> Age]
        BY <1>2, <1>4, Ages, Constants
    <2>4. DOMAIN n \subseteq Clients /\ \A e \in DOMAIN n : n[e] \in House
        BY <1>3 DEF IInv, TypeOK
    <2> QED
        BY <1>2, <1>5, <1>6, <2>2, <2>3, <2>4 DEF IInv, TypeOK, clients
<1>8. Houses'
    <2> SUFFICES ASSUME NEW e \in DOMAIN n
                 PROVE  /\ e \in ipRows'
                        /\ n[e].session # NoSession => header'[e] = n[e].session
                        /\ e \in Pure => n[e].age <= quiet'[e]
        BY DEF Houses
    <2>1. CASE e = c
        <3>1. quiet'[c] = 0
            BY <1>2, <1>4
        <3> QED
            BY <1>1, <1>3, <1>5, <1>6, <2>1, <3>1
    <2>2. CASE e # c
        <3>1. e \in DOMAIN m /\ e \in Clients /\ n[e] = m[e] /\ quiet'[e] = quiet[e]
            BY <1>2, <1>3, <1>4, <2>2 DEF IInv, TypeOK
        <3> QED
            BY <1>5, <1>6, <2>2, <3>1 DEF IInv, Houses
    <2> QED
        BY <2>1, <2>2
<1>9. Remembered'
    <2> SUFFICES ASSUME NEW e \in Clients, header'[e] # NoSession
                 PROVE  /\ quiet'[e] > IdleThreshold => e \in lapsed'
                        /\ e \in Pure \ lapsed' =>
                              /\ e \in DOMAIN n
                              /\ n[e].session = header'[e]
        BY DEF Remembered
    <2>1. CASE e = c
        <3>1. quiet'[c] = 0
            BY <1>2, <1>4
        <3>2. c \in Pure \ lapsed' => house.session = header'[c]
            <4>1. CASE Opens(c, house)
                BY <1>5, <4>1 DEF Opens
            <4>2. CASE Continues(c, house)
                BY <1>4, <2>1, <4>2 DEF Continues, IInv, Remembered
            <4> QED
                BY <1>1, <4>1, <4>2
        <3> QED
            BY <1>3, <2>1, <3>1, <3>2, Constants
    <2>2. CASE e # c
        <3>1. quiet'[e] = quiet[e] /\ header'[e] = header[e]
              /\ (e \in lapsed' <=> e \in lapsed)
            BY <1>2, <1>4, <1>5, <2>2
        <3>2. e \in DOMAIN m => e \in DOMAIN n /\ n[e] = m[e]
            BY <1>3, <2>2
        <3> QED
            BY <3>1, <3>2 DEF IInv, Remembered
    <2> QED
        BY <2>1, <2>2
<1>10. Traffic'
    BY <1>2 DEF IInv, Traffic, clients
<1> QED
    BY <1>6, <1>7, <1>8, <1>9, <1>10 DEF IInv

LEMMA StepIInv == IInv /\ [Next]_vars => IInv'
<1> SUFFICES ASSUME IInv, [Next]_vars PROVE IInv'
    OBVIOUS
<1>1. CASE UNCHANGED vars
    BY <1>1 DEF vars, clients, history, IInv, TypeOK, Traffic, Houses, Remembered,
       ParentRowsFirst, Readable
<1>2. CASE Next
    BY <1>2, TickIInv, ClientIInv, SendIInv, EpollWaitIInv, TimeoutIInv, ReceiveIInv
       DEF Next, Run
<1> QED
    BY <1>1, <1>2

LEMMA AlwaysIInv == SafetySpec => []IInv
    BY InitIInv, StepIInv, PTL DEF SafetySpec
----------------------------------------------------------------------------
(* Every variable of the receive loop keeps its type. *)
THEOREM TypeCorrect == SafetySpec => []TypeOK
<1>1. IInv => TypeOK
    BY DEF IInv
<1> QED
    BY <1>1, AlwaysIInv, PTL

(* No statement of a client is issued before the statements its foreign keys
   refer to, also after the client was erased. *)
THEOREM ParentsFirst == SafetySpec => []ParentRowsFirst
<1>1. IInv => ParentRowsFirst
    BY DEF IInv
<1> QED
    BY <1>1, AlwaysIInv, PTL

(* Only the cleanup erases houses. *)
LEMMA OnlyCleanupErases ==
    ASSUME IInv, [Next]_vars, ~TimeoutOp
    PROVE  DOMAIN packet_house_map_ \subseteq DOMAIN packet_house_map_'
<1>1. CASE Tick \/ EpollWait \/ UNCHANGED vars
    BY <1>1 DEF Tick, EpollWait, vars
<1>2. CASE \E c \in Clients : Start(c) \/ Stop(c) \/ NextSession(c) \/ Send(c)
    BY <1>2 DEF Start, Stop, NextSession, Send
<1>3. CASE \E s \in Sockets : Receive(s)
    BY <1>3, ReceiveFacts DEF SetHouse
<1> QED
    BY <1>1, <1>2, <1>3 DEF Next, Run

(* A client that sends format 2022 alone is erased after a long silence only. *)
THEOREM Idle2022ErasedOnly == SafetySpec => Idle2022Erased
<1>1. IInv /\ [Next]_vars =>
         \A c \in DOMAIN packet_house_map_ \ DOMAIN packet_house_map_' :
            c \in Sends2022 \ (Sends2025 \cup SendsOther) => quiet[c] > IdleThreshold
    BY OnlyCleanupErases, Cleanup DEF Pure
<1> QED
    BY <1>1, AlwaysIInv, PTL DEF SafetySpec, Idle2022Erased

(* Where no client mixes formats, a session is given a second SessionList row
   only after its client had lapsed. *)
THEOREM SessionsWhole ==
    ASSUME Sends2022 \cap (Sends2025 \cup SendsOther) = {}
    PROVE  SafetySpec => SessionNotSplit
<1>1. IInv =>
         \A s \in Sockets :
            Receive2022NewSession(s) =>
                LET d == Head(inbox[s]) IN
                d.session = header[d.ip] => d.ip \in lapsed
    <2> SUFFICES ASSUME IInv, NEW s \in Sockets, Receive2022NewSession(s),
                        Head(inbox[s]).session = header[Head(inbox[s]).ip],
                        Head(inbox[s]).ip \notin lapsed
                 PROVE  FALSE
        OBVIOUS
    <2> DEFINE d == Head(inbox[s])
    <2>1. d \in Sent /\ d.format = "2022" /\ d.session # HouseOf(d.ip).session
        BY TakeFacts DEF Receive2022NewSession
    <2>2. d.ip \in Pure /\ d.ip \in Clients /\ header[d.ip] # NoSession
        BY <2>1 DEF Sent, Pure, Clients
    <2>3. HouseOf(d.ip).session = header[d.ip]
        BY <2>2 DEF IInv, Remembered, HouseOf
    <2> QED
        BY <2>1, <2>3
<1> QED
    BY <1>1, AlwaysIInv, PTL DEF SafetySpec, SessionNotSplit
============================================================================

-------------------------- MODULE DbHandlerProofs --------------------------
(***************************************************************************)
(* Machine-checked facts about DbHandler, for every set of consumer         *)
(* threads, buffer capacity, popping discipline and number of statements:   *)
(* types and mutual exclusion; then what becomes of the statements handed   *)
(* over: each is in exactly one place, the order of handing over is kept as *)
(* far as the buffer keeps it, the destructor cuts the queue short, and all *)
(* of this implements SqlSink.                                              *)
(***************************************************************************)
EXTENDS DbHandler, SequenceTheorems, FiniteSetTheorems, TLAPS

(* The statement a thread is working on exists. *)
InHand ==
    /\ mainAt \in {"lock", "push", "unlock", "query"} => submitted \in Statements
    /\ \A w \in Workers : at[w] = "query" => hand[w] \in Statements

(* The inductive invariant behind type correctness and mutual exclusion. *)
IInv == TypeOK /\ InHand /\ LockHeld

(* Initially every thread is outside its critical section. *)
LEMMA InitIInv == Init => IInv
<1> SUFFICES ASSUME Init PROVE IInv
    OBVIOUS
<1> USE DEF Init
<1>1. TypeOK
    BY BoundAssumption, BufferAssumption DEF TypeOK, MainPlaces, WorkerPlaces
<1>2. InHand
    BY DEF InHand
<1>3. LockHeld
    BY ThreadsAssumption DEF LockHeld, CriticalMain, CriticalWorker
<1> QED
    BY <1>1, <1>2, <1>3 DEF IInv

(* What pop() may return and leave behind: an element of the buffer, and a
   buffer shorter by one. *)
LEMMA PopTypes ==
    ASSUME NEW s \in Statements, sql_buffer_ \in Seq(Statements), pop(s)
    PROVE  /\ sql_buffer_' \in Seq(Statements)
           /\ Len(sql_buffer_') = Len(sql_buffer_) - 1
<1>1. Len(sql_buffer_) \in Nat /\ Len(sql_buffer_) >= 1
    BY DEF pop
<1>2. CASE sql_buffer_' = Tail(sql_buffer_)
    BY <1>1, <1>2
<1>3. CASE sql_buffer_' = SubSeq(sql_buffer_, 1, Len(sql_buffer_) - 1)
    <2>1. \A i \in 1..(Len(sql_buffer_) - 1) : sql_buffer_[i] \in Statements
        BY <1>1, ElementOfSeq
    <2>2. Len(sql_buffer_) - 1 \in Int
        BY <1>1
    <2> DEFINE n == Len(sql_buffer_) - 1
               rest == SubSeq(sql_buffer_, 1, n)
    <2>3. rest \in Seq(Statements) /\ Len(rest) = IF 1 <= n THEN n - 1 + 1 ELSE 0
        BY <2>1, <2>2, SubSeqProperties
    <2>4. sql_buffer_' = rest
        BY <1>3
    <2>5. n \in Nat
        BY <1>1
    <2> HIDE DEF n, rest
    <2>6. Len(rest) = n
        BY <2>3, <2>5
    <2> QED
        BY <2>3, <2>4, <2>6 DEF n
<1> QED
    BY <1>2, <1>3 DEF pop

(* Every step of the caller keeps the invariant. *)
LEMMA CallerStepIInv == IInv /\ CallerStep => IInv'
<1> SUFFICES ASSUME IInv, CallerStep PROVE IInv'
    OBVIOUS
<1> USE ThreadsAssumption, BoundAssumption, BufferAssumption
        DEF IInv, TypeOK, InHand, LockHeld, CriticalMain, CriticalWorker,
            MainPlaces, WorkerPlaces, startup, workerState, history, Statements
<1>1. ASSUME NEW ok \in BOOLEAN, InitConn(ok) PROVE IInv'
    BY <1>1 DEF InitConn
<1>2. ASSUME NEW w \in Workers, SpawnThread(w) PROVE IInv'
    BY <1>2 DEF SpawnThread
<1>3. CASE AwaitPromise
    BY <1>3 DEF AwaitPromise
<1>4. CASE InitDone
    BY <1>4 DEF InitDone
<1>5. CASE QueryAsyncCall
    BY <1>5 DEF QueryAsyncCall
<1>6. CASE QueryAsyncLock
    BY <1>6 DEF QueryAsyncLock
<1>7. CASE QueryAsyncPush
    <2>1. submitted \in Statements
        BY <1>7 DEF QueryAsyncPush
    <2>2. /\ sql_buffer_' \in Seq(Statements)
          /\ Len(sql_buffer_') = Len(sql_buffer_) + 1
        BY <1>7, <2>1, AppendProperties DEF QueryAsyncPush, push
    <2>3. Len(sql_buffer_') <= Capacity
        <3>1. Len(sql_buffer_) \in Nat
            BY LenProperties
        <3> QED
            BY <1>7, <2>2, <3>1 DEF QueryAsyncPush, isFull
    <2>4. /\ at' \in [Workers -> WorkerPlaces]
          /\ \A w \in Workers :
                (at'[w] = at[w]) \/ (at[w] = "wait" /\ at'[w] = "woken")
        <3>1. CASE UNCHANGED at
            BY <3>1
        <3>2. ASSUME NEW u \in Waiting, at' = [at EXCEPT ![u] = "woken"]
              PROVE  <2>4
            BY <3>2 DEF Waiting
        <3> QED
            BY <1>7, <3>1, <3>2 DEF QueryAsyncPush
    <2> QED
        BY <1>7, <2>1, <2>2, <2>3, <2>4 DEF QueryAsyncPush
<1>8. CASE QueryAsyncFull
    BY <1>8 DEF QueryAsyncFull
<1>9. CASE QueryAsyncUnlock
    BY <1>9 DEF QueryAsyncUnlock
<1>10. CASE QueryCall
    BY <1>10 DEF QueryCall
<1>11. CASE QueryReturn
    BY <1>11 DEF QueryReturn
<1>12. CASE PingCall
    BY <1>12 DEF PingCall
<1>13. CASE PingReturn
    BY <1>13 DEF PingReturn
<1>14. CASE BeginDestroy
    BY <1>14 DEF BeginDestroy
<1>15. CASE ClearRunning
    BY <1>15, LenProperties DEF ClearRunning
<1>16. CASE NotifyAll
    BY <1>16 DEF NotifyAll
<1>17. CASE JoinThreads
    BY <1>17 DEF JoinThreads
<1> QED
    BY <1>1, <1>2, <1>3, <1>4, <1>5, <1>6, <1>7, <1>8, <1>9, <1>10, <1>11,
       <1>12, <1>13, <1>14, <1>15, <1>16, <1>17 DEF CallerStep

(* Every step of a consumer thread keeps the invariant. *)
LEMMA WorkerStepIInv ==
    ASSUME NEW v \in Workers PROVE IInv /\ WorkerStep(v) => IInv'
<1> SUFFICES ASSUME IInv, WorkerStep(v) PROVE IInv'
    OBVIOUS
<1> USE ThreadsAssumption, BoundAssumption, BufferAssumption
        DEF IInv, TypeOK, InHand, LockHeld, CriticalMain, CriticalWorker,
            MainPlaces, WorkerPlaces, mainState, Statements, Go
<1>1. ASSUME NEW ok \in BOOLEAN, Connect(v, ok) PROVE IInv'
    BY <1>1 DEF Connect
<1>2. CASE LoopAgain(v)
    BY <1>2 DEF LoopAgain
<1>3. CASE LoopExit(v)
    BY <1>3 DEF LoopExit
<1>4. CASE Lock(v)
    BY <1>4 DEF Lock
<1>5. CASE TestEmpty(v)
    <2>1. TypeOK'
        BY <1>5 DEF TestEmpty
    <2>2. InHand'
        BY <1>5 DEF TestEmpty
    <2>3. LockHeld'
        <3>1. mutex_ = v
            BY <1>5 DEF TestEmpty
        <3> QED
            BY <1>5, <3>1 DEF TestEmpty
    <2> QED
        BY <2>1, <2>2, <2>3
<1>6. CASE WaitTimeout(v)
    BY <1>6 DEF WaitTimeout
<1>7. CASE SpuriousWake(v)
    BY <1>7 DEF SpuriousWake
<1>8. CASE Relock(v)
    BY <1>8 DEF Relock
<1>9. CASE PingDone(v)
    BY <1>9 DEF PingDone
<1>10. CASE PopStatement(v)
    <2>1. PICK s \in Statements : pop(s) /\ hand' = [hand EXCEPT ![v] = s]
        BY <1>10 DEF PopStatement
    <2>2. sql_buffer_' \in Seq(Statements) /\ Len(sql_buffer_') = Len(sql_buffer_) - 1
        BY <2>1, PopTypes
    <2> QED
        BY <1>10, <2>1, <2>2, SMTT(30) DEF PopStatement
<1>11. CASE NothingToPop(v)
    BY <1>11 DEF NothingToPop
<1>12. CASE QueryDone(v)
    <2>1. log' \in Seq(Statements)
        BY <1>12, AppendProperties DEF QueryDone
    <2> QED
        BY <1>12, <2>1 DEF QueryDone
<1> QED
    BY <1>1, <1>2, <1>3, <1>4, <1>5, <1>6, <1>7, <1>8, <1>9, <1>10, <1>11,
       <1>12 DEF WorkerStep

(* IInv is an invariant. *)
LEMMA AlwaysIInv == SafetySpec => []IInv
<1>1. IInv /\ [Next]_vars => IInv'
    <2> SUFFICES ASSUME IInv, [Next]_vars PROVE IInv'
        OBVIOUS
    <2>1. CASE CallerStep
        BY <2>1, CallerStepIInv
    <2>2. ASSUME NEW w \in Workers, WorkerStep(w) PROVE IInv'
        BY <2>2, WorkerStepIInv
    <2>3. CASE UNCHANGED vars
        BY <2>3 DEF vars, IInv, TypeOK, InHand, LockHeld, CriticalMain,
                    CriticalWorker
    <2> QED
        BY <2>1, <2>2, <2>3 DEF Next, Terminated
<1> QED
    BY InitIInv, <1>1, PTL DEF SafetySpec

(* Type correctness: in particular sql_buffer_ never exceeds its capacity. *)
THEOREM TypeCorrect == SafetySpec => []TypeOK
<1>1. IInv => TypeOK
    BY DEF IInv
<1> QED
    BY AlwaysIInv, <1>1, PTL

(* Mutual exclusion: the thread that works on the buffer is the one that
   holds mutex_, for any number of consumer threads. *)
THEOREM MutualExclusion == SafetySpec => []LockHeld
<1>1. IInv => LockHeld
    BY DEF IInv
<1> QED
    BY AlwaysIInv, <1>1, PTL
----------------------------------------------------------------------------
(* The statements that have left the caller's hands. *)
Placed == Queued \cup InFlight \cup Logged \cup dropped

(* The inductive invariant: no statement is twice in the buffer or with two
   consumers, or in the buffer and with a consumer; the one being handed over
   is nowhere else yet; and only the destructor stops the handler. *)
Unique ==
    /\ \A i, j \in DOMAIN sql_buffer_ : sql_buffer_[i] = sql_buffer_[j] => i = j
    /\ \A v, w \in Workers :
          at[v] = "query" /\ at[w] = "query" /\ hand[v] = hand[w] => v = w
    /\ Queued \cap InFlight = {}
    /\ Placed \cup HandingOver = 1..submitted
    /\ Placed \cap HandingOver = {}
    /\ ~running_ => mainAt \in {"notify", "join", "joined"}

(* Consumers that may still perform a statement without reading running_. *)
Active == {w \in Workers : at[w] \notin {"absent", "connect", "loop", "gone"}}

(* A step that touches no statement. *)
Idle ==
    /\ UNCHANGED <<sql_buffer_, hand, log, dropped, direct, submitted,
                   running_, popEnd, loggedAtStop>>
    /\ \A w \in Workers : at'[w] = "query" <=> at[w] = "query"
    /\ mainAt' \in {"lock", "push"} <=> mainAt \in {"lock", "push"}
    /\ mainAt' = "query" <=> mainAt = "query"
    /\ mainAt \in {"notify", "join", "joined"} =>
          mainAt' \in {"notify", "join", "joined"}
    /\ running_ \/ Active' \subseteq Active

(* The steps that touch a statement, or stop the handler. *)
Busy ==
    \/ QueryAsyncCall
    \/ QueryCall
    \/ QueryAsyncPush
    \/ QueryAsyncFull
    \/ QueryReturn
    \/ ClearRunning
    \/ \E w \in Workers : PopStatement(w) \/ QueryDone(w)

(* Every other step is idle. *)
LEMMA IdleOrBusy == IInv /\ [Next]_vars => Idle \/ Busy
<1> SUFFICES ASSUME IInv, [Next]_vars, ~Busy PROVE Idle
    OBVIOUS
<1> USE DEF IInv, TypeOK, MainPlaces, WorkerPlaces, Idle, Busy, Active,
            startup, workerState, history, mainState, Go
<1>1. CASE CallerStep
    <2>1. ASSUME NEW ok \in BOOLEAN, InitConn(ok) PROVE Idle
        BY <2>1 DEF InitConn
    <2>2. ASSUME NEW w \in Workers, SpawnThread(w) PROVE Idle
        BY <2>2 DEF SpawnThread
    <2>3. CASE AwaitPromise
        BY <2>3 DEF AwaitPromise
    <2>4. CASE InitDone
        BY <2>4 DEF InitDone
    <2>5. CASE QueryAsyncLock
        BY <2>5 DEF QueryAsyncLock
    <2>6. CASE QueryAsyncUnlock
        BY <2>6 DEF QueryAsyncUnlock
    <2>7. CASE PingCall
        BY <2>7 DEF PingCall
    <2>8. CASE PingReturn
        BY <2>8 DEF PingReturn
    <2>9. CASE BeginDestroy
        BY <2>9 DEF BeginDestroy
    <2>10. CASE NotifyAll
        BY <2>10 DEF NotifyAll
    <2>11. CASE JoinThreads
        BY <2>11 DEF JoinThreads
    <2> QED
        BY <1>1, <2>1, <2>2, <2>3, <2>4, <2>5, <2>6, <2>7, <2>8, <2>9, <2>10,
           <2>11 DEF CallerStep
<1>2. ASSUME NEW v \in Workers, WorkerStep(v) PROVE Idle
    <2>1. ASSUME NEW ok \in BOOLEAN, Connect(v, ok) PROVE Idle
        BY <2>1 DEF Connect
    <2>2. CASE LoopAgain(v)
        BY <2>2 DEF LoopAgain
    <2>3. CASE LoopExit(v)
        BY <2>3 DEF LoopExit
    <2>4. CASE Lock(v)
        BY <2>4 DEF Lock
    <2>5. CASE TestEmpty(v)
        BY <2>5 DEF TestEmpty
    <2>6. CASE WaitTimeout(v)
        BY <2>6 DEF WaitTimeout
    <2>7. CASE SpuriousWake(v)
        BY <2>7 DEF SpuriousWake
    <2>8. CASE Relock(v)
        BY <2>8 DEF Relock
    <2>9. CASE PingDone(v)
        BY <2>9 DEF PingDone
    <2>10. CASE NothingToPop(v)
        BY <2>10 DEF NothingToPop
    <2> QED
        BY <1>2, <2>1, <2>2, <2>3, <2>4, <2>5, <2>6, <2>7, <2>8, <2>9, <2>10
           DEF WorkerStep
<1>3. CASE UNCHANGED vars
    BY <1>3 DEF vars
<1> QED
    BY <1>1, <1>2, <1>3 DEF Next, Terminated
----------------------------------------------------------------------------
(* What each busy step does to the places of the statements. *)

LEMMA IdlePlaces ==
    ASSUME IInv, Idle
    PROVE  /\ Queued' = Queued
           /\ InFlight' = InFlight
           /\ Logged' = Logged
           /\ HandingOver' = HandingOver
<1>1. Queued' = Queued /\ Logged' = Logged
    BY DEF Idle, Queued, Logged
<1>2. InFlight' = InFlight
    BY DEF Idle, InFlight
<1>3. HandingOver' = HandingOver
    BY DEF Idle, HandingOver
<1> QED
    BY <1>1, <1>2, <1>3

(* A thread that waits or is woken has no statement. *)
LEMMA PushPlaces ==
    ASSUME IInv, QueryAsyncPush
    PROVE  /\ submitted \in Statements
           /\ sql_buffer_' = Append(sql_buffer_, submitted)
           /\ Queued' = Queued \cup {submitted}
           /\ \A w \in Workers : at'[w] = "query" <=> at[w] = "query"
           /\ InFlight' = InFlight
           /\ Logged' = Logged
           /\ HandingOver = {submitted} /\ HandingOver' = {}
<1>1. submitted \in Statements
    BY DEF QueryAsyncPush, IInv, InHand
<1>2. sql_buffer_' = Append(sql_buffer_, submitted)
    BY DEF QueryAsyncPush, push
<1>3. Queued' = Queued \cup {submitted}
    <2>1. /\ DOMAIN sql_buffer_ = 1..Len(sql_buffer_)
          /\ Len(sql_buffer_) \in Nat
          /\ DOMAIN sql_buffer_' = 1..(Len(sql_buffer_) + 1)
          /\ \A i \in 1..Len(sql_buffer_) : sql_buffer_'[i] = sql_buffer_[i]
          /\ sql_buffer_'[Len(sql_buffer_) + 1] = submitted
        BY <1>1, <1>2 DEF IInv, TypeOK
    <2> QED
        BY <2>1 DEF Queued
<1>4. \A w \in Workers : at'[w] = "query" <=> at[w] = "query"
    BY DEF QueryAsyncPush, Waiting, IInv, TypeOK
<1>5. InFlight' = InFlight
    BY <1>4 DEF QueryAsyncPush, InFlight
<1>6. Logged' = Logged
    BY DEF QueryAsyncPush, history, Logged
<1>7. HandingOver = {submitted} /\ HandingOver' = {}
    BY DEF QueryAsyncPush, HandingOver
<1> QED
    BY <1>1, <1>2, <1>3, <1>4, <1>5, <1>6, <1>7

LEMMA PopPlaces ==
    ASSUME IInv, Unique, NEW v \in Workers, PopStatement(v)
    PROVE  \E s \in Queued :
              /\ popEnd = "oldest" =>
                    s = sql_buffer_[1] /\ sql_buffer_' = Tail(sql_buffer_)
              /\ Len(sql_buffer_') = Len(sql_buffer_) - 1
              /\ \A i \in DOMAIN sql_buffer_' :
                    sql_buffer_'[i] = sql_buffer_[IF popEnd = "oldest" THEN i + 1 ELSE i]
              /\ hand' = [hand EXCEPT ![v] = s]
              /\ Queued' = Queued \ {s}
              /\ InFlight' = InFlight \cup {s}
              /\ Logged' = Logged
              /\ HandingOver' = HandingOver
<1>1. PICK s \in Statements : pop(s) /\ hand' = [hand EXCEPT ![v] = s]
    BY DEF PopStatement
<1> DEFINE n == Len(sql_buffer_)
<1>2. n \in Nat /\ n >= 1 /\ DOMAIN sql_buffer_ = 1..n
    BY <1>1 DEF pop, IInv, TypeOK
<1>3. /\ sql_buffer_' \in Seq(Statements)
      /\ Len(sql_buffer_') = n - 1
      /\ DOMAIN sql_buffer_' = 1..(n - 1)
    <2>1. sql_buffer_' \in Seq(Statements) /\ Len(sql_buffer_') = n - 1
        BY <1>1, PopTypes DEF IInv, TypeOK
    <2> QED
        BY <2>1
<1>4. \A i \in DOMAIN sql_buffer_' :
         sql_buffer_'[i] = sql_buffer_[IF popEnd = "oldest" THEN i + 1 ELSE i]
    BY <1>1, <1>2, <1>3 DEF pop, IInv, TypeOK
<1>5. /\ s = sql_buffer_[IF popEnd = "oldest" THEN 1 ELSE n]
      /\ s \in Queued
    BY <1>1, <1>2 DEF pop, Queued
<1>6. Queued' = Queued \ {s}
    <2>1. ASSUME NEW i \in 1..(n - 1) PROVE sql_buffer_'[i] \in Queued \ {s}
        <3> DEFINE k == IF popEnd = "oldest" THEN i + 1 ELSE i
                   m == IF popEnd = "oldest" THEN 1 ELSE n
        <3>1. k \in 1..n /\ m \in 1..n /\ k # m
            BY <1>2
        <3>2. sql_buffer_'[i] = sql_buffer_[k] /\ s = sql_buffer_[m]
            BY <1>3, <1>4, <1>5
        <3> HIDE DEF k, m
        <3>3. sql_buffer_[k] # sql_buffer_[m]
            BY <1>2, <3>1 DEF Unique
        <3> QED
            BY <1>2, <3>1, <3>2, <3>3 DEF Queued
    <2>2. ASSUME NEW t \in Queued, t # s PROVE t \in Queued'
        <3>1. PICK i \in 1..n : t = sql_buffer_[i]
            BY <1>2 DEF Queued
        <3>2. CASE popEnd = "oldest"
            <4>1. i - 1 \in 1..(n - 1) /\ (i - 1) + 1 = i
                BY <1>2, <1>5, <2>2, <3>1, <3>2
            <4>2. sql_buffer_'[i - 1] = sql_buffer_[(i - 1) + 1]
                BY <1>3, <1>4, <3>2, <4>1
            <4> QED
                BY <1>3, <3>1, <4>1, <4>2 DEF Queued
        <3>3. CASE popEnd # "oldest"
            <4>1. i \in 1..(n - 1)
                BY <1>2, <1>5, <2>2, <3>1, <3>3
            <4> QED
                BY <1>3, <1>4, <3>1, <3>3, <4>1 DEF Queued
        <3> QED
            BY <3>2, <3>3
    <2>3. \A t \in Queued' : \E i \in 1..(n - 1) : t = sql_buffer_'[i]
        BY <1>3 DEF Queued
    <2> QED
        BY <2>1, <2>2, <2>3
<1>7. InFlight' = InFlight \cup {s}
    <2>1. /\ at' = [at EXCEPT ![v] = "query"] /\ at[v] = "pop"
          /\ at \in [Workers -> WorkerPlaces]
          /\ hand \in [Workers -> 0..MaxSubmit]
        BY DEF PopStatement, Go, IInv, TypeOK
    <2> QED
        BY <1>1, <2>1 DEF InFlight
<1>8. Logged' = Logged /\ HandingOver' = HandingOver
    BY DEF PopStatement, mainState, Logged, HandingOver
<1>9. popEnd = "oldest" =>
         s = sql_buffer_[1] /\ sql_buffer_' = Tail(sql_buffer_)
    BY <1>1 DEF pop
<1> QED
    BY <1>1, <1>3, <1>4, <1>5, <1>6, <1>7, <1>8, <1>9

(* Appending to the log adds a performed statement. *)
LEMMA LogPlaces ==
    ASSUME IInv, NEW s \in Statements, log' = Append(log, s)
    PROVE  /\ Logged' = Logged \cup {s}
           /\ Len(log') = Len(log) + 1
           /\ Len(log) \in Nat
           /\ DOMAIN log = 1..Len(log)
           /\ DOMAIN log' = 1..(Len(log) + 1)
           /\ \A i \in DOMAIN log : log'[i] = log[i]
           /\ log'[Len(log) + 1] = s
<1>1. /\ DOMAIN log = 1..Len(log)
      /\ Len(log) \in Nat
      /\ Len(log') = Len(log) + 1
      /\ DOMAIN log' = 1..(Len(log) + 1)
      /\ \A i \in 1..Len(log) : log'[i] = log[i]
      /\ log'[Len(log) + 1] = s
    BY DEF IInv, TypeOK
<1>2. Logged' = Logged \cup {s}
    BY <1>1 DEF Logged
<1> QED
    BY <1>1, <1>2

LEMMA DonePlaces ==
    ASSUME IInv, Unique, NEW v \in Workers, QueryDone(v)
    PROVE  /\ hand[v] \in InFlight /\ hand[v] \in Statements
           /\ InFlight' = InFlight \ {hand[v]}
           /\ Logged' = Logged \cup {hand[v]}
           /\ Queued' = Queued
           /\ HandingOver' = HandingOver
<1>1. /\ at' = [at EXCEPT ![v] = "loop"] /\ at[v] = "query"
      /\ hand' = [hand EXCEPT ![v] = 0]
      /\ at \in [Workers -> WorkerPlaces]
      /\ hand \in [Workers -> 0..MaxSubmit]
    BY DEF QueryDone, Go, IInv, TypeOK
<1>2. hand[v] \in InFlight /\ hand[v] \in Statements
    BY <1>1 DEF InFlight, IInv, InHand
<1>3. InFlight' = InFlight \ {hand[v]}
    BY <1>1 DEF InFlight, Unique
<1>4. Logged' = Logged \cup {hand[v]}
    BY <1>2, LogPlaces DEF QueryDone
<1>5. Queued' = Queued /\ HandingOver' = HandingOver
    BY DEF QueryDone, mainState, Queued, HandingOver
<1> QED
    BY <1>2, <1>3, <1>4, <1>5

(* Neither buffer nor consumer is touched by the caller's other steps. *)
LEMMA CallerPlaces ==
    ASSUME IInv, QueryAsyncCall \/ QueryCall \/ QueryAsyncFull \/ QueryReturn
                    \/ ClearRunning
    PROVE  /\ Queued' = Queued
           /\ InFlight' = InFlight
           /\ UNCHANGED <<sql_buffer_, at, hand>>
           /\ ~QueryReturn => Logged' = Logged
<1>1. UNCHANGED <<sql_buffer_, at, hand>>
    BY DEF QueryAsyncCall, QueryCall, QueryAsyncFull, QueryReturn,
           ClearRunning, workerState
<1>2. ~QueryReturn => UNCHANGED log
    BY DEF QueryAsyncCall, QueryCall, QueryAsyncFull, ClearRunning, history
<1> QED
    BY <1>1, <1>2 DEF Queued, InFlight, Logged
----------------------------------------------------------------------------
LEMMA InitUnique == Init => Unique
<1> SUFFICES ASSUME Init PROVE Unique
    OBVIOUS
<1>1. Queued = {} /\ InFlight = {} /\ Logged = {} /\ HandingOver = {}
    BY DEF Init, Queued, InFlight, Logged, HandingOver
<1> QED
    BY <1>1 DEF Init, Unique, Placed

(* What a busy step of the caller hands over. *)
LEMMA CallerKeepsUnique ==
    ASSUME IInv, Unique, QueryAsyncCall \/ QueryCall \/ QueryAsyncFull
                            \/ QueryReturn \/ ClearRunning
    PROVE  Unique'
<1>1. /\ Queued' = Queued
      /\ InFlight' = InFlight
      /\ UNCHANGED <<sql_buffer_, at, hand>>
      /\ ~QueryReturn => Logged' = Logged
    BY CallerPlaces
<1>2. /\ Placed' \cup HandingOver' = 1..submitted'
      /\ Placed' \cap HandingOver' = {}
    <2>1. CASE QueryAsyncCall \/ QueryCall
        <3>1. /\ submitted' = submitted + 1 /\ submitted \in Nat
              /\ HandingOver = {} /\ HandingOver' = {submitted + 1}
              /\ dropped' = dropped
            BY <2>1 DEF QueryAsyncCall, QueryCall, history, HandingOver, IInv, TypeOK
        <3>2. ~QueryReturn
            BY <2>1 DEF QueryAsyncCall, QueryCall, QueryReturn
        <3>3. Placed' = Placed
            BY <1>1, <3>1, <3>2 DEF Placed
        <3>4. 1..(submitted + 1) = (1..submitted) \cup {submitted + 1}
            BY <3>1
        <3>5. Placed = 1..submitted
            BY <3>1 DEF Unique
        <3> QED
            BY <3>1, <3>3, <3>4, <3>5
    <2>2. CASE QueryAsyncFull
        <3>1. /\ HandingOver = {submitted} /\ HandingOver' = {}
              /\ dropped' = dropped \cup {submitted} /\ submitted' = submitted
            BY <2>2 DEF QueryAsyncFull, startup, HandingOver
        <3>2. ~QueryReturn
            BY <2>2 DEF QueryAsyncFull, QueryReturn
        <3>3. Placed' = Placed \cup {submitted}
            BY <1>1, <3>1, <3>2 DEF Placed
        <3> QED
            BY <3>1, <3>3 DEF Unique
    <2>3. CASE QueryReturn
        <3>1. /\ HandingOver = {submitted} /\ HandingOver' = {}
              /\ dropped' = dropped /\ submitted' = submitted
              /\ log' = Append(log, submitted)
              /\ submitted \in Statements
            BY <2>3 DEF QueryReturn, startup, HandingOver, IInv, InHand
        <3>2. Logged' = Logged \cup {submitted}
            BY <3>1, LogPlaces
        <3>3. Placed' = Placed \cup {submitted}
            BY <1>1, <3>1, <3>2 DEF Placed
        <3> QED
            BY <3>1, <3>3 DEF Unique
    <2>4. CASE ClearRunning
        <3>1. /\ HandingOver = {} /\ HandingOver' = {}
              /\ dropped' = dropped /\ submitted' = submitted
            BY <2>4 DEF ClearRunning, startup, HandingOver
        <3>2. ~QueryReturn
            BY <2>4 DEF ClearRunning, QueryReturn
        <3>3. Placed' = Placed
            BY <1>1, <3>1, <3>2 DEF Placed
        <3> QED
            BY <3>1, <3>3 DEF Unique
    <2> QED
        BY <2>1, <2>2, <2>3, <2>4
<1>3. ~running_' => mainAt' \in {"notify", "join", "joined"}
    BY DEF Unique, QueryAsyncCall, QueryCall, QueryAsyncFull, QueryReturn, ClearRunning
<1> QED
    BY <1>1, <1>2, <1>3 DEF Unique

LEMMA UniqueStep == IInv /\ Unique /\ [Next]_vars => Unique'
<1> SUFFICES ASSUME IInv, Unique, [Next]_vars PROVE Unique'
    OBVIOUS
<1>1. CASE Idle
    <2>1. /\ Queued' = Queued /\ InFlight' = InFlight
          /\ Placed' = Placed /\ HandingOver' = HandingOver
        BY <1>1, IdlePlaces DEF Placed, Idle
    <2> QED
        BY <1>1, <2>1 DEF Unique, Idle
<1>2. CASE QueryAsyncCall \/ QueryCall \/ QueryAsyncFull \/ QueryReturn
              \/ ClearRunning
    BY <1>2, CallerKeepsUnique
<1>3. CASE QueryAsyncPush
    <2>1. /\ submitted \in Statements
          /\ sql_buffer_' = Append(sql_buffer_, submitted)
          /\ Queued' = Queued \cup {submitted}
          /\ \A w \in Workers : at'[w] = "query" <=> at[w] = "query"
          /\ InFlight' = InFlight
          /\ Logged' = Logged
          /\ HandingOver = {submitted} /\ HandingOver' = {}
        BY <1>3, PushPlaces
    <2>2. /\ hand' = hand /\ dropped' = dropped /\ submitted' = submitted
          /\ running_' = running_
          /\ mainAt = "push"
        BY <1>3 DEF QueryAsyncPush, startup, history
    <2>3. \A i, j \in DOMAIN sql_buffer_' :
             sql_buffer_'[i] = sql_buffer_'[j] => i = j
        <3>1. /\ DOMAIN sql_buffer_ = 1..Len(sql_buffer_)
              /\ Len(sql_buffer_) \in Nat
              /\ DOMAIN sql_buffer_' = 1..(Len(sql_buffer_) + 1)
              /\ \A i \in 1..Len(sql_buffer_) : sql_buffer_'[i] = sql_buffer_[i]
              /\ sql_buffer_'[Len(sql_buffer_) + 1] = submitted
            BY <2>1 DEF IInv, TypeOK
        <3>2. \A i \in 1..Len(sql_buffer_) : sql_buffer_[i] # submitted
            BY <2>1, <3>1 DEF Unique, Placed, Queued
        <3> QED
            BY <3>1, <3>2 DEF Unique
    <2>4. Placed' = Placed \cup {submitted}
        BY <2>1, <2>2 DEF Placed
    <2>5. submitted \notin InFlight
        BY <2>1 DEF Unique, Placed
    <2>6. running_'
        BY <2>2 DEF Unique
    <2>7. Queued' \cap InFlight' = {}
        BY <2>1, <2>5 DEF Unique
    <2>8. Placed' \cup HandingOver' = 1..submitted' /\ Placed' \cap HandingOver' = {}
        BY <2>1, <2>2, <2>4 DEF Unique
    <2> QED
        BY <2>1, <2>2, <2>3, <2>6, <2>7, <2>8 DEF Unique
<1>4. ASSUME NEW v \in Workers, PopStatement(v) PROVE Unique'
    <2>1. PICK s \in Queued :
              /\ popEnd = "oldest" =>
                    s = sql_buffer_[1] /\ sql_buffer_' = Tail(sql_buffer_)
              /\ Len(sql_buffer_') = Len(sql_buffer_) - 1
              /\ \A i \in DOMAIN sql_buffer_' :
                    sql_buffer_'[i] = sql_buffer_[IF popEnd = "oldest" THEN i + 1 ELSE i]
              /\ hand' = [hand EXCEPT ![v] = s]
              /\ Queued' = Queued \ {s}
              /\ InFlight' = InFlight \cup {s}
              /\ Logged' = Logged
              /\ HandingOver' = HandingOver
        BY <1>4, PopPlaces
    <2>2. /\ at' = [at EXCEPT ![v] = "query"]
          /\ at \in [Workers -> WorkerPlaces]
          /\ hand \in [Workers -> 0..MaxSubmit]
          /\ UNCHANGED <<dropped, submitted, running_, mainAt>>
        BY <1>4 DEF PopStatement, Go, mainState, IInv, TypeOK
    <2>3. \A i, j \in DOMAIN sql_buffer_' :
             sql_buffer_'[i] = sql_buffer_'[j] => i = j
        <3>1. sql_buffer_' \in Seq(Statements) /\ sql_buffer_ \in Seq(Statements)
            BY <1>4, PopTypes DEF PopStatement, IInv, TypeOK
        <3>2. /\ DOMAIN sql_buffer_' = 1..(Len(sql_buffer_) - 1)
              /\ DOMAIN sql_buffer_ = 1..Len(sql_buffer_)
              /\ Len(sql_buffer_) \in Nat
            BY <2>1, <3>1
        <3> QED
            BY <2>1, <3>2 DEF Unique
    <2>4. Placed' = Placed
        BY <2>1, <2>2 DEF Placed
    <2>5. \A w \in Workers : at[w] = "query" => hand[w] # s
        BY <2>1 DEF Unique, InFlight
    <2>6. \A u, w \in Workers :
             at'[u] = "query" /\ at'[w] = "query" /\ hand'[u] = hand'[w] => u = w
        BY <2>1, <2>2, <2>5 DEF Unique
    <2>7. Queued' \cap InFlight' = {}
        BY <2>1 DEF Unique
    <2> QED
        BY <2>1, <2>2, <2>3, <2>4, <2>6, <2>7 DEF Unique
<1>5. ASSUME NEW v \in Workers, QueryDone(v) PROVE Unique'
    <2>1. /\ hand[v] \in InFlight /\ hand[v] \in Statements
          /\ InFlight' = InFlight \ {hand[v]}
          /\ Logged' = Logged \cup {hand[v]}
          /\ Queued' = Queued
          /\ HandingOver' = HandingOver
        BY <1>5, DonePlaces
    <2>2. /\ at' = [at EXCEPT ![v] = "loop"]
          /\ hand' = [hand EXCEPT ![v] = 0]
          /\ at \in [Workers -> WorkerPlaces]
          /\ hand \in [Workers -> 0..MaxSubmit]
          /\ UNCHANGED <<sql_buffer_, dropped, submitted, running_, mainAt>>
        BY <1>5 DEF QueryDone, Go, mainState, IInv, TypeOK
    <2>3. Placed' = Placed
        BY <2>1, <2>2 DEF Placed
    <2>4. \A u, w \in Workers :
             at'[u] = "query" /\ at'[w] = "query" /\ hand'[u] = hand'[w] => u = w
        BY <2>2 DEF Unique
    <2>5. Queued' \cap InFlight' = {}
        BY <2>1 DEF Unique
    <2> QED
        BY <2>1, <2>2, <2>3, <2>4, <2>5 DEF Unique
<1> QED
    BY IdleOrBusy, <1>1, <1>2, <1>3, <1>4, <1>5 DEF Busy

LEMMA AlwaysUnique == SafetySpec => [](IInv /\ Unique)
<1>1. SafetySpec => []IInv
    BY AlwaysIInv
<1> QED
    BY <1>1, InitUnique, UniqueStep, PTL DEF SafetySpec
----------------------------------------------------------------------------
(* Synchronous statements.  One that is not being performed right now is in
   the log, with nothing but earlier statements before it. *)
Ahead(s) == \E i \in DOMAIN log : log[i] = s /\ \A j \in 1..i : log[j] <= s

SyncDone == \A s \in direct : (mainAt = "query" /\ s = submitted) \/ Ahead(s)

(* A longer log moves nothing that is in it. *)
LEMMA AheadStays ==
    ASSUME IInv, NEW t \in Statements, log' = Append(log, t), NEW s, Ahead(s)
    PROVE  Ahead(s)'
<1>1. /\ DOMAIN log = 1..Len(log)
      /\ Len(log) \in Nat
      /\ DOMAIN log' = 1..(Len(log) + 1)
      /\ \A i \in DOMAIN log : log'[i] = log[i]
    BY LogPlaces
<1>2. PICK i \in DOMAIN log : log[i] = s /\ \A j \in 1..i : log[j] <= s
    BY DEF Ahead
<1>3. i \in DOMAIN log' /\ \A j \in 1..i : j \in DOMAIN log
    BY <1>1
<1>4. log'[i] = s /\ \A j \in 1..i : log'[j] <= s
    BY <1>1, <1>2, <1>3
<1> QED
    BY <1>3, <1>4 DEF Ahead

LEMMA SyncDoneStep == IInv /\ Unique /\ SyncDone /\ [Next]_vars => SyncDone'
<1> SUFFICES ASSUME IInv, Unique, SyncDone, [Next]_vars PROVE SyncDone'
    OBVIOUS
<1>1. CASE Idle
    BY <1>1 DEF Idle, SyncDone, Ahead
<1>2. CASE QueryAsyncCall \/ QueryCall
    <2>1. /\ mainAt = "serving" /\ log' = log /\ submitted' = submitted + 1
          /\ \/ direct' = direct
             \/ mainAt' = "query" /\ direct' = direct \cup {submitted + 1}
        BY <1>2 DEF QueryAsyncCall, QueryCall, history
    <2> QED
        BY <2>1 DEF SyncDone, Ahead
<1>3. CASE QueryAsyncPush \/ QueryAsyncFull \/ ClearRunning
    <2>1. mainAt # "query" /\ UNCHANGED <<log, direct>>
        BY <1>3 DEF QueryAsyncPush, QueryAsyncFull, ClearRunning, history
    <2> QED
        BY <2>1 DEF SyncDone, Ahead
<1>4. CASE QueryReturn
    <2>1. /\ log' = Append(log, submitted) /\ submitted \in Statements
          /\ direct' = direct
        BY <1>4 DEF QueryReturn, IInv, InHand
    <2>2. /\ DOMAIN log = 1..Len(log)
          /\ Len(log) \in Nat
          /\ DOMAIN log' = 1..(Len(log) + 1)
          /\ \A i \in DOMAIN log : log'[i] = log[i]
          /\ log'[Len(log) + 1] = submitted
        BY <2>1, LogPlaces
    <2>3. \A i \in DOMAIN log : log[i] \in 1..submitted
        BY DEF Unique, Placed, Logged
    <2>4. \A j \in 1..(Len(log) + 1) : log'[j] <= submitted
        BY <2>1, <2>2, <2>3 DEF Statements
    <2>5. Len(log) + 1 \in DOMAIN log'
        BY <2>2
    <2>6. Ahead(submitted)'
        <3>1. submitted' = submitted
            BY <1>4 DEF QueryReturn, startup
        <3> QED
            BY <2>2, <2>4, <2>5, <3>1 DEF Ahead
    <2>7. \A s \in direct : Ahead(s) => Ahead(s)'
        BY <2>1, AheadStays
    <2>8. submitted' = submitted
        BY <1>4 DEF QueryReturn, startup
    <2>9. ASSUME NEW s \in direct PROVE Ahead(s)'
        <3>1. CASE s = submitted
            BY <2>2, <2>4, <2>5, <3>1 DEF Ahead
        <3>2. CASE Ahead(s)
            BY <2>7, <3>2
        <3> QED
            BY <3>1, <3>2 DEF SyncDone
    <2> QED
        BY <2>1, <2>9 DEF SyncDone
<1>5. ASSUME NEW v \in Workers, PopStatement(v) \/ QueryDone(v) PROVE SyncDone'
    <2>1. UNCHANGED <<mainAt, submitted, direct>>
        BY <1>5 DEF PopStatement, QueryDone, mainState
    <2>2. CASE PopStatement(v)
        BY <2>1, <2>2 DEF PopStatement, SyncDone, Ahead
    <2>3. CASE QueryDone(v)
        <3>1. log' = Append(log, hand[v]) /\ hand[v] \in Statements
            BY <2>3, DonePlaces DEF QueryDone
        <3>2. \A s \in direct : Ahead(s) => Ahead(s)'
            BY <3>1, AheadStays
        <3> QED
            BY <2>1, <3>2 DEF SyncDone
    <2> QED
        BY <1>5, <2>2, <2>3
<1> QED
    BY IdleOrBusy, <1>1, <1>2, <1>3, <1>4, <1>5 DEF Busy

(* A synchronous Query has been performed when anything else is handed over,
   and precedes all of that, for any number of consumer threads and whichever
   end the buffer pops. *)
THEOREM SyncPrecedesLater == SafetySpec => []SyncBeforeLater
<1>1. Init => SyncDone
    BY DEF Init, SyncDone
<1>2. IInv /\ SyncDone => SyncBeforeLater
    <2> SUFFICES ASSUME IInv, SyncDone, NEW s \in direct, s < submitted
                 PROVE  Ahead(s)
        BY DEF SyncBeforeLater, Ahead
    <2>1. s # submitted
        BY DEF IInv, TypeOK, Statements
    <2> QED
        BY <2>1 DEF SyncDone
<1> QED
    BY <1>1, <1>2, AlwaysUnique, SyncDoneStep, PTL DEF SafetySpec
----------------------------------------------------------------------------
(* The order in which consumers take what was queued. *)
Sorted ==
    /\ mainAt = "query" => submitted \in direct
    /\ popEnd = "oldest" =>
          /\ \A i, j \in DOMAIN sql_buffer_ : i < j => sql_buffer_[i] < sql_buffer_[j]
          /\ \A s \in (Logged \ direct) \cup InFlight, t \in Queued : s < t

LEMMA SortedStep == IInv /\ Unique /\ Sorted /\ [Next]_vars => Sorted'
<1> SUFFICES ASSUME IInv, Unique, Sorted, [Next]_vars PROVE Sorted'
    OBVIOUS
<1>1. CASE Idle
    <2>1. Queued' = Queued /\ InFlight' = InFlight /\ Logged' = Logged
        BY <1>1, IdlePlaces
    <2> QED
        BY <1>1, <2>1 DEF Idle, Sorted
<1>2. CASE QueryAsyncCall \/ QueryCall \/ QueryAsyncFull \/ QueryReturn
              \/ ClearRunning
    <2>1. /\ Queued' = Queued
          /\ InFlight' = InFlight
          /\ sql_buffer_' = sql_buffer_
          /\ ~QueryReturn => Logged' = Logged
        BY <1>2, CallerPlaces
    <2>2. /\ popEnd' = popEnd
          /\ direct \subseteq direct'
          /\ mainAt' = "query" => submitted' \in direct'
        BY <1>2 DEF QueryAsyncCall, QueryCall, QueryAsyncFull, QueryReturn,
                    ClearRunning, startup, history
    <2>3. Logged' \ direct' \subseteq Logged \ direct
        <3>1. CASE QueryReturn
            <4>1. /\ submitted \in direct /\ direct' = direct
                  /\ log' = Append(log, submitted) /\ submitted \in Statements
                BY <3>1 DEF QueryReturn, Sorted, IInv, InHand
            <4>2. Logged' = Logged \cup {submitted}
                BY <4>1, LogPlaces
            <4> QED
                BY <4>1, <4>2
        <3> QED
            BY <2>1, <2>2, <3>1
    <2> QED
        BY <2>1, <2>2, <2>3 DEF Sorted
<1>3. CASE QueryAsyncPush
    <2>1. /\ submitted \in Statements
          /\ sql_buffer_' = Append(sql_buffer_, submitted)
          /\ Queued' = Queued \cup {submitted}
          /\ InFlight' = InFlight
          /\ Logged' = Logged
          /\ HandingOver = {submitted}
        BY <1>3, PushPlaces
    <2>2. UNCHANGED <<popEnd, direct, submitted>> /\ mainAt' # "query"
        BY <1>3 DEF QueryAsyncPush, startup, history
    <2>3. \A s \in Placed : s < submitted
        BY <2>1 DEF Unique, Statements
    <2>4. ASSUME popEnd = "oldest", NEW i \in DOMAIN sql_buffer_',
                 NEW j \in DOMAIN sql_buffer_', i < j
          PROVE  sql_buffer_'[i] < sql_buffer_'[j]
        <3>1. /\ DOMAIN sql_buffer_ = 1..Len(sql_buffer_)
              /\ Len(sql_buffer_) \in Nat
              /\ DOMAIN sql_buffer_' = 1..(Len(sql_buffer_) + 1)
              /\ \A k \in 1..Len(sql_buffer_) : sql_buffer_'[k] = sql_buffer_[k]
              /\ sql_buffer_'[Len(sql_buffer_) + 1] = submitted
            BY <2>1 DEF IInv, TypeOK
        <3>2. sql_buffer_'[i] = sql_buffer_[i] /\ i \in DOMAIN sql_buffer_
            BY <2>4, <3>1
        <3>3. sql_buffer_[i] < submitted
            BY <2>3, <3>2 DEF Placed, Queued
        <3> QED
            BY <2>4, <3>1, <3>2, <3>3 DEF Sorted
    <2> QED
        BY <2>1, <2>2, <2>3, <2>4 DEF Sorted, Placed
<1>4. ASSUME NEW v \in Workers, PopStatement(v) PROVE Sorted'
    <2>1. PICK s \in Queued :
              /\ popEnd = "oldest" =>
                    s = sql_buffer_[1] /\ sql_buffer_' = Tail(sql_buffer_)
              /\ Len(sql_buffer_') = Len(sql_buffer_) - 1
              /\ \A i \in DOMAIN sql_buffer_' :
                    sql_buffer_'[i] = sql_buffer_[IF popEnd = "oldest" THEN i + 1 ELSE i]
              /\ hand' = [hand EXCEPT ![v] = s]
              /\ Queued' = Queued \ {s}
              /\ InFlight' = InFlight \cup {s}
              /\ Logged' = Logged
              /\ HandingOver' = HandingOver
        BY <1>4, PopPlaces
    <2>2. UNCHANGED <<popEnd, direct, submitted, mainAt>>
        BY <1>4 DEF PopStatement, mainState
    <2>3. sql_buffer_' \in Seq(Statements) /\ sql_buffer_ \in Seq(Statements)
        BY <1>4, PopTypes DEF PopStatement, IInv, TypeOK
    <2>4. /\ DOMAIN sql_buffer_' = 1..(Len(sql_buffer_) - 1)
          /\ DOMAIN sql_buffer_ = 1..Len(sql_buffer_)
          /\ Len(sql_buffer_) \in Nat
        BY <2>1, <2>3
    <2>5. ASSUME popEnd = "oldest"
          PROVE  \A i, j \in DOMAIN sql_buffer_' : i < j => sql_buffer_'[i] < sql_buffer_'[j]
        BY <2>1, <2>4, <2>5 DEF Sorted
    <2>6. ASSUME popEnd = "oldest" PROVE \A t \in Queued' : s < t
        <3>1. ASSUME NEW t \in Queued \ {s} PROVE s < t
            <4>1. PICK i \in 1..Len(sql_buffer_) : t = sql_buffer_[i]
                BY <2>4, <3>1 DEF Queued
            <4>2. i # 1 /\ 1 \in 1..Len(sql_buffer_) /\ 1 < i
                BY <2>1, <2>4, <2>6, <3>1, <4>1
            <4> QED
                BY <2>1, <2>4, <2>6, <4>1, <4>2 DEF Sorted
        <3> QED
            BY <2>1, <3>1
    <2> QED
        BY <2>1, <2>2, <2>5, <2>6 DEF Sorted
<1>5. ASSUME NEW v \in Workers, QueryDone(v) PROVE Sorted'
    <2>1. /\ hand[v] \in InFlight
          /\ InFlight' = InFlight \ {hand[v]}
          /\ Logged' = Logged \cup {hand[v]}
          /\ Queued' = Queued
        BY <1>5, DonePlaces
    <2>2. UNCHANGED <<sql_buffer_, popEnd, direct, submitted, mainAt>>
        BY <1>5 DEF QueryDone, mainState
    <2> QED
        BY <2>1, <2>2 DEF Sorted
<1> QED
    BY IdleOrBusy, <1>1, <1>2, <1>3, <1>4, <1>5 DEF Busy

(* With a buffer that pops its oldest element nothing queued is older than
   what a consumer has taken: for any number of consumers and any capacity. *)
THEOREM TakenOldestFirst == SafetySpec => []TakenInOrder
<1>1. Init => Sorted
    BY DEF Init, Sorted, Queued
<1>2. Sorted => TakenInOrder
    BY DEF Sorted, TakenInOrder
<1> QED
    BY <1>1, <1>2, AlwaysUnique, SortedStep, PTL DEF SafetySpec
----------------------------------------------------------------------------
(* Counting: the places of a statement add up. *)
Calling == {w \in Workers : at[w] = "query"}

Counted ==
    submitted = Cardinality(HandingOver) + Len(sql_buffer_)
                   + Cardinality(Calling) + Len(log) + Cardinality(dropped)

LEMMA CountTypes ==
    ASSUME IInv
    PROVE  /\ submitted \in Nat
           /\ Len(sql_buffer_) \in Nat
           /\ Len(log) \in Nat
           /\ IsFiniteSet(Calling) /\ Cardinality(Calling) \in Nat
           /\ IsFiniteSet(Active) /\ Cardinality(Active) \in Nat
           /\ IsFiniteSet(Workers) /\ Cardinality(Workers) \in Nat
           /\ IsFiniteSet(dropped) /\ Cardinality(dropped) \in Nat
           /\ Cardinality({}) = 0
           /\ Cardinality({submitted}) = 1
<1>1. submitted \in Nat /\ Len(sql_buffer_) \in Nat /\ Len(log) \in Nat
    BY DEF IInv, TypeOK
<1>2. IsFiniteSet(Workers)
    BY ThreadsAssumption
<1>3. Calling \in SUBSET Workers /\ Active \in SUBSET Workers
    BY DEF Calling, Active
<1>4. IsFiniteSet(Calling) /\ IsFiniteSet(Active)
    BY <1>2, <1>3, FS_Subset
<1>5. IsFiniteSet(dropped)
    <2>1. IsFiniteSet(1..MaxSubmit)
        BY BoundAssumption, FS_Interval
    <2>2. dropped \in SUBSET (1..MaxSubmit)
        BY DEF IInv, TypeOK, Statements
    <2> QED
        BY <2>1, <2>2, FS_Subset
<1>6. /\ Cardinality(Calling) \in Nat
      /\ Cardinality(Active) \in Nat
      /\ Cardinality(Workers) \in Nat
      /\ Cardinality(dropped) \in Nat
    BY <1>2, <1>4, <1>5, FS_CardinalityType
<1> QED
    BY <1>1, <1>2, <1>4, <1>5, <1>6, FS_EmptySet, FS_Singleton

LEMMA CountedStep == IInv /\ Unique /\ Counted /\ [Next]_vars => Counted'
<1> SUFFICES ASSUME IInv, Unique, Counted, [Next]_vars PROVE Counted'
    OBVIOUS
<1>0. /\ submitted \in Nat
      /\ Len(sql_buffer_) \in Nat
      /\ Len(log) \in Nat
      /\ IsFiniteSet(Calling) /\ Cardinality(Calling) \in Nat
      /\ IsFiniteSet(dropped) /\ Cardinality(dropped) \in Nat
      /\ Cardinality({}) = 0
      /\ Cardinality({submitted}) = 1
    BY CountTypes
<1>1. CASE Idle
    <2>1. Calling' = Calling /\ HandingOver' = HandingOver
        BY <1>1, IdlePlaces DEF Idle, Calling
    <2> QED
        BY <1>1, <2>1 DEF Idle, Counted
<1>2. CASE QueryAsyncCall \/ QueryCall
    <2>1. /\ submitted' = submitted + 1
          /\ HandingOver = {} /\ HandingOver' = {submitted'}
          /\ UNCHANGED <<sql_buffer_, at, log, dropped>>
        BY <1>2 DEF QueryAsyncCall, QueryCall, history, workerState, HandingOver
    <2>2. Cardinality({submitted'}) = 1
        BY FS_Singleton
    <2>3. Calling' = Calling
        BY <2>1 DEF Calling
    <2>4. /\ Cardinality(HandingOver) = 0 /\ Cardinality(HandingOver') = 1
          /\ Cardinality(Calling') = Cardinality(Calling)
          /\ Cardinality(dropped') = Cardinality(dropped)
          /\ Len(sql_buffer_') = Len(sql_buffer_) /\ Len(log') = Len(log)
        BY <1>0, <2>1, <2>2, <2>3
    <2> QED
        BY <1>0, <2>1, <2>4 DEF Counted
<1>3. CASE QueryAsyncFull
    <2>1. /\ submitted' = submitted
          /\ HandingOver = {submitted} /\ HandingOver' = {}
          /\ dropped' = dropped \cup {submitted}
          /\ UNCHANGED <<sql_buffer_, at, log>>
        BY <1>3 DEF QueryAsyncFull, startup, workerState, HandingOver
    <2>2. submitted \notin dropped
        BY <2>1 DEF Unique, Placed
    <2>3. Cardinality(dropped') = Cardinality(dropped) + 1
        BY <1>0, <2>1, <2>2, FS_AddElement
    <2>4. Calling' = Calling
        BY <2>1 DEF Calling
    <2>5. /\ Cardinality(HandingOver) = 1 /\ Cardinality(HandingOver') = 0
          /\ Cardinality(Calling') = Cardinality(Calling)
          /\ Len(sql_buffer_') = Len(sql_buffer_) /\ Len(log') = Len(log)
        BY <1>0, <2>1, <2>4
    <2> QED
        BY <1>0, <2>1, <2>3, <2>5 DEF Counted
<1>4. CASE QueryReturn
    <2>1. /\ submitted' = submitted /\ submitted \in Statements
          /\ HandingOver = {submitted} /\ HandingOver' = {}
          /\ log' = Append(log, submitted)
          /\ UNCHANGED <<sql_buffer_, at, dropped>>
        BY <1>4 DEF QueryReturn, startup, workerState, HandingOver, IInv, InHand
    <2>2. Len(log') = Len(log) + 1
        BY <2>1, LogPlaces
    <2>3. Calling' = Calling
        BY <2>1 DEF Calling
    <2>4. /\ Cardinality(HandingOver) = 1 /\ Cardinality(HandingOver') = 0
          /\ Cardinality(Calling') = Cardinality(Calling)
          /\ Cardinality(dropped') = Cardinality(dropped)
          /\ Len(sql_buffer_') = Len(sql_buffer_)
        BY <1>0, <2>1, <2>3
    <2> QED
        BY <1>0, <2>1, <2>2, <2>4 DEF Counted
<1>5. CASE ClearRunning
    <2>1. /\ HandingOver' = HandingOver
          /\ UNCHANGED <<submitted, sql_buffer_, at, log, dropped>>
        BY <1>5 DEF ClearRunning, startup, workerState, HandingOver
    <2>2. Calling' = Calling
        BY <2>1 DEF Calling
    <2> QED
        BY <2>1, <2>2 DEF Counted
<1>6. CASE QueryAsyncPush
    <2>1. /\ submitted \in Statements
          /\ sql_buffer_' = Append(sql_buffer_, submitted)
          /\ \A w \in Workers : at'[w] = "query" <=> at[w] = "query"
          /\ HandingOver = {submitted} /\ HandingOver' = {}
        BY <1>6, PushPlaces
    <2>2. Len(sql_buffer_') = Len(sql_buffer_) + 1
        BY <2>1, AppendProperties DEF IInv, TypeOK
    <2>3. Calling' = Calling
        BY <2>1 DEF Calling
    <2>4. UNCHANGED <<submitted, log, dropped>>
        BY <1>6 DEF QueryAsyncPush, startup, history
    <2>5. /\ Cardinality(HandingOver) = 1 /\ Cardinality(HandingOver') = 0
          /\ Cardinality(Calling') = Cardinality(Calling)
          /\ Cardinality(dropped') = Cardinality(dropped)
          /\ Len(log') = Len(log)
        BY <1>0, <2>1, <2>3, <2>4
    <2> QED
        BY <1>0, <2>2, <2>4, <2>5 DEF Counted
<1>7. ASSUME NEW v \in Workers, PopStatement(v) PROVE Counted'
    <2>1. Len(sql_buffer_') = Len(sql_buffer_) - 1 /\ HandingOver' = HandingOver
        BY <1>7, PopPlaces
    <2>2. Calling' = Calling \cup {v} /\ v \notin Calling
        BY <1>7 DEF PopStatement, Go, Calling, IInv, TypeOK
    <2>3. Cardinality(Calling') = Cardinality(Calling) + 1
        BY <1>0, <2>2, FS_AddElement
    <2>4. UNCHANGED <<submitted, log, dropped>>
        BY <1>7 DEF PopStatement, mainState
    <2>5. Cardinality(HandingOver) \in Nat
        BY <1>0 DEF HandingOver
    <2>6. /\ Cardinality(HandingOver') = Cardinality(HandingOver)
          /\ Cardinality(dropped') = Cardinality(dropped)
          /\ Len(log') = Len(log)
        BY <2>1, <2>4
    <2> QED
        BY <1>0, <2>1, <2>3, <2>4, <2>5, <2>6 DEF Counted
<1>8. ASSUME NEW v \in Workers, QueryDone(v) PROVE Counted'
    <2>1. hand[v] \in Statements /\ HandingOver' = HandingOver
        BY <1>8, DonePlaces
    <2>2. Len(log') = Len(log) + 1
        BY <1>8, <2>1, LogPlaces DEF QueryDone
    <2>3. Calling' = Calling \ {v} /\ v \in Calling
        BY <1>8 DEF QueryDone, Go, Calling, IInv, TypeOK
    <2>4. Cardinality(Calling') = Cardinality(Calling) - 1
        BY <1>0, <2>3, FS_RemoveElement
    <2>5. UNCHANGED <<submitted, sql_buffer_, dropped>>
        BY <1>8 DEF QueryDone, mainState
    <2>6. Cardinality(HandingOver) \in Nat
        BY <1>0 DEF HandingOver
    <2>7. /\ Cardinality(HandingOver') = Cardinality(HandingOver)
          /\ Cardinality(dropped') = Cardinality(dropped)
          /\ Len(sql_buffer_') = Len(sql_buffer_)
        BY <2>1, <2>5
    <2>8. submitted = submitted'
        BY <2>5
    <2> DEFINE h == Cardinality(HandingOver)
               c == Cardinality(Calling)
               d == Cardinality(dropped)
               b == Len(sql_buffer_)
               l == Len(log)
    <2>9. h + b + c + l + d = h + b + (c - 1) + (l + 1) + d
        <3>1. h \in Nat /\ b \in Nat /\ c \in Nat /\ l \in Nat /\ d \in Nat
            BY <1>0, <2>6
        <3> HIDE DEF h, c, d, b, l
        <3> QED
            BY <3>1
    <2> QED
        BY <2>2, <2>4, <2>7, <2>8, <2>9 DEF Counted
<1> QED
    BY IdleOrBusy, <1>1, <1>2, <1>3, <1>4, <1>5, <1>6, <1>7, <1>8 DEF Busy

(* None of the statements handed over disappears, and none is in two places:
   with the caller, in the buffer, with a consumer, performed or dropped. *)
THEOREM NoneLostNoneTwice == SafetySpec => []EachStatementOnce
<1>1. Init => Counted
    <2> SUFFICES ASSUME Init PROVE Counted
        OBVIOUS
    <2>1. HandingOver = {} /\ Calling = {} /\ dropped = {} /\ Len(log) = 0
          /\ Len(sql_buffer_) = 0 /\ submitted = 0
        BY DEF Init, HandingOver, Calling
    <2> QED
        BY <2>1, FS_EmptySet DEF Counted
<1>2. Unique /\ Counted => EachStatementOnce
    BY DEF Unique, Counted, EachStatementOnce, Placed, Calling
<1> QED
    BY <1>1, <1>2, AlwaysUnique, CountedStep, PTL DEF SafetySpec
----------------------------------------------------------------------------
(* Once running_ is cleared, a consumer that is past the test of it has one
   statement left to perform, and the others have none. *)
Stopping ==
    ~running_ =>
        Len(log) + Cardinality(Active) <= loggedAtStop + Cardinality(Workers)

LEMMA StoppingStep == IInv /\ Unique /\ Stopping /\ [Next]_vars => Stopping'
<1> SUFFICES ASSUME IInv, Unique, Stopping, [Next]_vars PROVE Stopping'
    OBVIOUS
<1>0. /\ Len(log) \in Nat /\ loggedAtStop \in Nat
      /\ IsFiniteSet(Active) /\ Cardinality(Active) \in Nat
      /\ IsFiniteSet(Workers) /\ Cardinality(Workers) \in Nat
    BY CountTypes DEF IInv, TypeOK
<1>1. CASE Idle
    <2>1. running_ \/ Active' \in SUBSET Active
        BY <1>1 DEF Idle
    <2>2. running_ \/ Cardinality(Active') <= Cardinality(Active)
        BY <1>0, <2>1, FS_Subset
    <2>3. running_ \/ Cardinality(Active') \in Nat
        BY <1>0, <2>1, FS_Subset, FS_CardinalityType
    <2> QED
        BY <1>0, <1>1, <2>2, <2>3 DEF Idle, Stopping
<1>2. CASE QueryAsyncCall \/ QueryCall \/ QueryAsyncPush \/ QueryAsyncFull
              \/ QueryReturn
    <2>1. running_ /\ running_' = running_
        BY <1>2 DEF QueryAsyncCall, QueryCall, QueryAsyncPush, QueryAsyncFull,
                    QueryReturn, Unique
    <2> QED
        BY <2>1 DEF Stopping
<1>3. CASE ClearRunning
    <2>1. loggedAtStop' = Len(log) /\ log' = log /\ at' = at
        BY <1>3 DEF ClearRunning, workerState
    <2>2. Active' = Active /\ Active \in SUBSET Workers
        BY <2>1 DEF Active
    <2>3. Cardinality(Active) <= Cardinality(Workers)
        BY <1>0, <2>2, FS_Subset
    <2> QED
        BY <1>0, <2>1, <2>2, <2>3 DEF Stopping
<1>4. ASSUME NEW v \in Workers, PopStatement(v) PROVE Stopping'
    <2>1. Active' = Active
        BY <1>4 DEF PopStatement, Go, Active, IInv, TypeOK
    <2>2. UNCHANGED <<running_, log, loggedAtStop>>
        BY <1>4 DEF PopStatement, mainState
    <2> QED
        BY <2>1, <2>2 DEF Stopping
<1>5. ASSUME NEW v \in Workers, QueryDone(v) PROVE Stopping'
    <2>1. Active' = Active \ {v} /\ v \in Active
        BY <1>5 DEF QueryDone, Go, Active, IInv, TypeOK
    <2>2. Cardinality(Active') = Cardinality(Active) - 1
        BY <1>0, <2>1, FS_RemoveElement
    <2>3. hand[v] \in Statements
        BY <1>5, DonePlaces
    <2>4. Len(log') = Len(log) + 1
        BY <1>5, <2>3, LogPlaces DEF QueryDone
    <2>5. UNCHANGED <<running_, loggedAtStop>>
        BY <1>5 DEF QueryDone, mainState
    <2> QED
        BY <1>0, <2>2, <2>4, <2>5 DEF Stopping
<1> QED
    BY IdleOrBusy, <1>1, <1>2, <1>3, <1>4, <1>5 DEF Busy

(* The destructor cuts the queue short: at most one statement per consumer is
   performed after running_ was cleared, for any number of consumers. *)
THEOREM StopsShort == SafetySpec => []BoundedShutdown
<1>1. Init => Stopping
    BY DEF Init, Stopping
<1>2. IInv /\ Stopping => BoundedShutdown
    <2> SUFFICES ASSUME IInv, Stopping, ~running_ PROVE BoundedShutdown
        BY DEF BoundedShutdown
    <2>1. /\ Len(log) \in Nat /\ loggedAtStop \in Nat
          /\ Cardinality(Active) \in Nat /\ Cardinality(Workers) \in Nat
        BY CountTypes DEF IInv, TypeOK
    <2> QED
        BY <2>1 DEF Stopping, BoundedShutdown
<1> QED
    BY <1>1, <1>2, AlwaysUnique, StoppingStep, PTL DEF SafetySpec
----------------------------------------------------------------------------
(* The refinement: what is queued or with a consumer is pending. *)
LEMMA SinkInitially == Init => Sink!SinkInit
BY DEF Init, Sink!SinkInit, Queued, InFlight

(* The statement being handed over is new to the sink. *)
LEMMA HandedOverIsFresh ==
    ASSUME Unique, HandingOver = {submitted}
    PROVE  Sink!Fresh(submitted)
BY DEF Unique, Placed, Sink!Fresh, Sink!Performed, Logged

LEMMA SinkStep == IInv /\ Unique /\ [Next]_vars => [Sink!SinkNext]_Sink!sinkVars
<1> SUFFICES ASSUME IInv, Unique, [Next]_vars
             PROVE  [Sink!SinkNext]_Sink!sinkVars
    OBVIOUS
<1>1. CASE Idle \/ QueryAsyncCall \/ QueryCall
    <2>1. UNCHANGED <<log, dropped, running_>>
        BY <1>1 DEF Idle, QueryAsyncCall, QueryCall, history
    <2>2. Queued' = Queued /\ InFlight' = InFlight
        BY <1>1, IdlePlaces, CallerPlaces
    <2> QED
        BY <2>1, <2>2 DEF Sink!sinkVars
<1>2. CASE QueryAsyncPush
    <2>1. /\ submitted \in Statements
          /\ Queued' = Queued \cup {submitted}
          /\ InFlight' = InFlight
          /\ HandingOver = {submitted}
        BY <1>2, PushPlaces
    <2>2. Sink!Fresh(submitted)
        BY <2>1, HandedOverIsFresh
    <2>3. running_ /\ UNCHANGED <<log, dropped, running_>>
        BY <1>2 DEF QueryAsyncPush, history, Unique
    <2>4. Sink!Accept(submitted)
        BY <2>1, <2>2, <2>3 DEF Sink!Accept
    <2> QED
        BY <2>1, <2>4 DEF Sink!SinkNext
<1>3. CASE QueryAsyncFull
    <2>1. /\ submitted \in Statements
          /\ HandingOver = {submitted}
          /\ running_ /\ UNCHANGED <<log, running_>>
          /\ dropped' = dropped \cup {submitted}
        BY <1>3 DEF QueryAsyncFull, HandingOver, IInv, InHand, Unique
    <2>2. Sink!Fresh(submitted)
        BY <2>1, HandedOverIsFresh
    <2>3. Queued' = Queued /\ InFlight' = InFlight
        BY <1>3, CallerPlaces
    <2>4. Sink!Refuse(submitted)
        BY <2>1, <2>2, <2>3 DEF Sink!Refuse
    <2> QED
        BY <2>1, <2>4 DEF Sink!SinkNext
<1>4. CASE QueryReturn
    <2>1. /\ submitted \in Statements
          /\ HandingOver = {submitted}
          /\ running_ /\ UNCHANGED <<dropped, running_>>
          /\ log' = Append(log, submitted)
        BY <1>4 DEF QueryReturn, HandingOver, IInv, InHand, Unique
    <2>2. Sink!Fresh(submitted)
        BY <2>1, HandedOverIsFresh
    <2>3. Queued' = Queued /\ InFlight' = InFlight
        BY <1>4, CallerPlaces
    <2>4. Sink!PerformNow(submitted)
        BY <2>1, <2>2, <2>3 DEF Sink!PerformNow
    <2> QED
        BY <2>1, <2>4 DEF Sink!SinkNext
<1>5. CASE ClearRunning
    <2>1. running_ /\ running_' = FALSE /\ UNCHANGED <<log, dropped>>
        BY <1>5 DEF ClearRunning, Unique
    <2>2. Queued' = Queued /\ InFlight' = InFlight
        BY <1>5, CallerPlaces
    <2>3. Sink!Close
        BY <2>1, <2>2 DEF Sink!Close
    <2> QED
        BY <2>3 DEF Sink!SinkNext
<1>6. ASSUME NEW v \in Workers, PopStatement(v)
      PROVE  UNCHANGED Sink!sinkVars
    <2>1. Queued' \cup InFlight' = Queued \cup InFlight
        BY <1>6, PopPlaces
    <2>2. UNCHANGED <<log, dropped, running_>>
        BY <1>6 DEF PopStatement, mainState
    <2> QED
        BY <2>1, <2>2 DEF Sink!sinkVars
<1>7. ASSUME NEW v \in Workers, QueryDone(v) PROVE Sink!SinkNext
    <2>1. /\ hand[v] \in InFlight /\ hand[v] \in Statements
          /\ InFlight' = InFlight \ {hand[v]}
          /\ Queued' = Queued
        BY <1>7, DonePlaces
    <2>2. hand[v] \notin Queued
        BY <2>1 DEF Unique
    <2>3. UNCHANGED <<dropped, running_>> /\ log' = Append(log, hand[v])
        BY <1>7 DEF QueryDone, mainState
    <2>4. Sink!Perform(hand[v])
        BY <2>1, <2>2, <2>3 DEF Sink!Perform
    <2> QED
        BY <2>1, <2>4 DEF Sink!SinkNext
<1> QED
    BY IdleOrBusy, <1>1, <1>2, <1>3, <1>4, <1>5, <1>6, <1>7 DEF Busy

(* DBHandler implements the safety part of SqlSink: a statement is refused at
   once or performed at most once, a synchronous one before its call returns. *)
THEOREM SinkImplemented == SafetySpec => ImplementsSink
<1>1. SafetySpec => Sink!SinkInit /\ [][Sink!SinkNext]_Sink!sinkVars
    BY SinkInitially, SinkStep, AlwaysUnique, PTL DEF SafetySpec
<1> QED
    BY <1>1 DEF ImplementsSink, Sink!SinkSafety
============================================================================

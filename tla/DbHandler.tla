----------------------------- MODULE DbHandler -----------------------------
(***************************************************************************)
(* DBHandler<T> of src/common/db_handler.h: one caller thread (the UDP      *)
(* receive loop), thread_num_ consumer threads, a bounded ring buffer under *)
(* mutex_, a condition variable, and one database connection conn_ that     *)
(* every thread uses.  Statements are numbered in the order the caller      *)
(* hands them over.  A data base call is two steps (call and return), so    *)
(* that calls of different threads can overlap.                             *)
(*                                                                          *)
(* CircularBuffer is a git submodule whose source is not in the repository; *)
(* popEnd is the end its pop() takes an element from, one of PopEnds.        *)
(***************************************************************************)
EXTENDS Naturals, Sequences, FiniteSets

CONSTANTS
    Workers,    \* the consumer threads, thread_num_ of them
    Main,       \* the thread that calls Init, Query, QueryAsync, Ping
    NoThread,   \* mutex_ is free
    Capacity,   \* slots of sql_buffer_ (1024 in the code)
    PopEnds,    \* subset of {"oldest", "newest"}
    MaxSubmit   \* bound: statements the caller hands over

ASSUME ThreadsAssumption ==
    /\ IsFiniteSet(Workers)
    /\ Main \notin Workers
    /\ NoThread \notin Workers \cup {Main}

ASSUME BufferAssumption ==
    /\ Capacity \in Nat \ {0}
    /\ PopEnds \subseteq {"oldest", "newest"}
    /\ PopEnds # {}

ASSUME BoundAssumption == MaxSubmit \in Nat

VARIABLES
    mainAt,     \* where the caller thread is
    promise,    \* what the thread being started has promised Init
    submitted,  \* number of statements the caller has started to hand over
    sql_buffer_,
    mutex_,     \* the thread that holds it, or NoThread
    running_,
    at,         \* at[w]: where consumer thread w is
    hand,       \* hand[w]: the local variable sql of w, 0 when it has none
    log,        \* statements whose conn_.Query has returned, in that order
    direct,     \* statements handed to the synchronous Query
    dropped,    \* statements for which QueryAsync returned false
    loggedAtStop, \* Len(log) when the destructor cleared running_
    popEnd      \* the end of sql_buffer_ that pop() takes from

vars == <<mainAt, promise, submitted, sql_buffer_, mutex_, running_, at, hand,
          log, direct, dropped, loggedAtStop, popEnd>>

(* The groups of variables most steps leave alone. *)
history == <<log, direct, dropped, loggedAtStop>>
startup == <<promise, submitted, popEnd>>
workerState == <<at, hand>>

Statements == 1..MaxSubmit

MainPlaces ==
    {"connect", "spawn", "await", "serving", "lock", "push", "unlock", "query",
     "ping", "stop", "notify", "join", "joined"}

WorkerPlaces ==
    {"absent", "connect", "loop", "lock", "test", "wait", "woken", "expired",
     "ping", "pop", "query", "gone"}

----------------------------------------------------------------------------
(* Who holds what, read off the places. *)

CriticalWorker(w) == at[w] \in {"test", "ping", "pop"}

CriticalMain == mainAt \in {"push", "unlock"}

(* The threads that are inside a Query on the shared connection conn_. *)
Querying ==
    {w \in Workers : at[w] = "query"}
        \cup (IF mainAt = "query" THEN {Main} ELSE {})

Waiting == {w \in Workers : at[w] = "wait"}

----------------------------------------------------------------------------
(* CircularBuffer, as db_handler.h uses it. *)

isFull == Len(sql_buffer_) = Capacity

isEmpty == sql_buffer_ = <<>>

push(s) == sql_buffer_' = Append(sql_buffer_, s)

(* pop(): the element taken and what is left. *)
pop(s) ==
    /\ sql_buffer_ # <<>>
    /\ \/ /\ popEnd = "oldest"
          /\ s = sql_buffer_[1]
          /\ sql_buffer_' = Tail(sql_buffer_)
       \/ /\ popEnd = "newest"
          /\ s = sql_buffer_[Len(sql_buffer_)]
          /\ sql_buffer_' = SubSeq(sql_buffer_, 1, Len(sql_buffer_) - 1)
----------------------------------------------------------------------------
Init ==
    /\ mainAt = "connect"
    /\ promise = "none"
    /\ submitted = 0
    /\ sql_buffer_ = <<>>
    /\ mutex_ = NoThread
    /\ running_ = TRUE
    /\ at = [w \in Workers |-> "absent"]
    /\ hand = [w \in Workers |-> 0]
    /\ log = <<>>
    /\ direct = {}
    /\ dropped = {}
    /\ loggedAtStop = 0
    /\ popEnd \in PopEnds

(* DBHandler::Init: conn_.Init() and InitSchema; on failure the owner gives
   up and destroys the handler. *)
InitConn(ok) ==
    /\ mainAt = "connect"
    /\ mainAt' = IF ok THEN "spawn" ELSE "stop"
    /\ UNCHANGED <<startup, sql_buffer_, mutex_, running_, workerState, history>>

(* Init's loop starts one thread and then waits for its promise. *)
SpawnThread(w) ==
    /\ mainAt = "spawn"
    /\ at[w] = "absent"
    /\ mainAt' = "await"
    /\ promise' = "none"
    /\ at' = [at EXCEPT ![w] = "connect"]
    /\ UNCHANGED <<submitted, popEnd, sql_buffer_, mutex_, running_, hand, history>>

(* future.get(): a thread that could not connect ends Init with false. *)
AwaitPromise ==
    /\ mainAt = "await"
    /\ promise # "none"
    /\ mainAt' = IF promise = "kept" THEN "spawn" ELSE "stop"
    /\ UNCHANGED <<startup, sql_buffer_, mutex_, running_, workerState, history>>

(* The loop ends after thread_num_ threads: Init returns true. *)
InitDone ==
    /\ mainAt = "spawn"
    /\ \A w \in Workers : at[w] # "absent"
    /\ mainAt' = "serving"
    /\ UNCHANGED <<startup, sql_buffer_, mutex_, running_, workerState, history>>
----------------------------------------------------------------------------
(* The caller.  QueryAsync is lock, test and push, unlock. *)

QueryAsyncCall ==
    /\ mainAt = "serving"
    /\ submitted < MaxSubmit
    /\ submitted' = submitted + 1
    /\ mainAt' = "lock"
    /\ UNCHANGED <<promise, popEnd, sql_buffer_, mutex_, running_, workerState,
                   history>>

QueryAsyncLock ==
    /\ mainAt = "lock"
    /\ mutex_ = NoThread
    /\ mutex_' = Main
    /\ mainAt' = "push"
    /\ UNCHANGED <<startup, sql_buffer_, running_, workerState, history>>

(* Faulty: pushes into a full buffer. *)
QueryAsyncPushUnchecked ==
    /\ mainAt = "push"
    /\ push(submitted)
    /\ mainAt' = "unlock"
    /\ UNCHANGED <<startup, mutex_, running_, workerState, history>>

(* Faulty: pushes and forgets to notify. *)
QueryAsyncPushSilent ==
    /\ mainAt = "push"
    /\ ~isFull
    /\ push(submitted)
    /\ mainAt' = "unlock"
    /\ UNCHANGED <<startup, mutex_, running_, workerState, history>>

(* Faulty: the statement jumps the queue. *)
QueryAsyncPushFront ==
    /\ mainAt = "push"
    /\ ~isFull
    /\ sql_buffer_' = <<submitted>> \o sql_buffer_
    /\ \/ Waiting = {} /\ UNCHANGED at
       \/ \E w \in Waiting : at' = [at EXCEPT ![w] = "woken"]
    /\ mainAt' = "unlock"
    /\ UNCHANGED <<startup, mutex_, running_, hand, history>>

(* Room in the buffer: push, and wake one waiting thread if there is one. *)
QueryAsyncPush ==
    /\ mainAt = "push"
    /\ ~isFull
    /\ push(submitted)
    /\ \/ Waiting = {} /\ UNCHANGED at
       \/ \E w \in Waiting : at' = [at EXCEPT ![w] = "woken"]
    /\ mainAt' = "unlock"
    /\ UNCHANGED <<startup, mutex_, running_, hand, history>>

(* No room: return false; the statement is gone. *)
QueryAsyncFull ==
    /\ mainAt = "push"
    /\ isFull
    /\ dropped' = dropped \cup {submitted}
    /\ mainAt' = "unlock"
    /\ UNCHANGED <<startup, sql_buffer_, mutex_, running_, workerState, log,
                   direct, loggedAtStop>>

QueryAsyncUnlock ==
    /\ mainAt = "unlock"
    /\ mutex_' = NoThread
    /\ mainAt' = "serving"
    /\ UNCHANGED <<startup, sql_buffer_, running_, workerState, history>>

(* Faulty: a "synchronous" statement that goes through the queue. *)
QueryCallQueued ==
    /\ mainAt = "serving"
    /\ submitted < MaxSubmit
    /\ submitted' = submitted + 1
    /\ direct' = direct \cup {submitted + 1}
    /\ mainAt' = "lock"
    /\ UNCHANGED <<promise, popEnd, sql_buffer_, mutex_, running_, workerState, log,
                   dropped, loggedAtStop>>

(* Query: conn_.Query on the caller's thread, without mutex_. *)
QueryCall ==
    /\ mainAt = "serving"
    /\ submitted < MaxSubmit
    /\ submitted' = submitted + 1
    /\ direct' = direct \cup {submitted + 1}
    /\ mainAt' = "query"
    /\ UNCHANGED <<promise, popEnd, sql_buffer_, mutex_, running_, workerState, log,
                   dropped, loggedAtStop>>

QueryReturn ==
    /\ mainAt = "query"
    /\ log' = Append(log, submitted)
    /\ mainAt' = "serving"
    /\ UNCHANGED <<startup, sql_buffer_, mutex_, running_, workerState, direct,
                   dropped, loggedAtStop>>

PingCall ==
    /\ mainAt = "serving"
    /\ mainAt' = "ping"
    /\ UNCHANGED <<startup, sql_buffer_, mutex_, running_, workerState, history>>

PingReturn ==
    /\ mainAt = "ping"
    /\ mainAt' = "serving"
    /\ UNCHANGED <<startup, sql_buffer_, mutex_, running_, workerState, history>>
----------------------------------------------------------------------------
(* The destructor: running_ = false without mutex_, notify_all, join. *)

BeginDestroy ==
    /\ mainAt = "serving"
    /\ mainAt' = "stop"
    /\ UNCHANGED <<startup, sql_buffer_, mutex_, running_, workerState, history>>

ClearRunning ==
    /\ mainAt = "stop"
    /\ running_' = FALSE
    /\ loggedAtStop' = Len(log)
    /\ mainAt' = "notify"
    /\ UNCHANGED <<startup, sql_buffer_, mutex_, workerState, log, direct,
                   dropped>>

NotifyAll ==
    /\ mainAt = "notify"
    /\ at' = [w \in Workers |-> IF at[w] = "wait" THEN "woken" ELSE at[w]]
    /\ mainAt' = "join"
    /\ UNCHANGED <<startup, sql_buffer_, mutex_, running_, hand, history>>

JoinThreads ==
    /\ mainAt = "join"
    /\ \A w \in Workers : at[w] \in {"absent", "gone"}
    /\ mainAt' = "joined"
    /\ UNCHANGED <<startup, sql_buffer_, mutex_, running_, workerState, history>>
----------------------------------------------------------------------------
(* ConsumeQueryThread.  mainState is what only the caller changes. *)

mainState ==
    <<mainAt, submitted, running_, direct, dropped, loggedAtStop, popEnd>>

Go(w, place) == at' = [at EXCEPT ![w] = place]

(* The thread's own connection is opened and never used again. *)
Connect(w, ok) ==
    /\ at[w] = "connect"
    /\ promise' = IF ok THEN "kept" ELSE "broken"
    /\ Go(w, "loop")
    /\ UNCHANGED <<mainState, sql_buffer_, mutex_, hand, log>>

(* Faulty: drains the queue before it looks at running_. *)
LoopAgainDraining(w) ==
    /\ at[w] = "loop"
    /\ running_ \/ ~isEmpty
    /\ Go(w, "lock")
    /\ UNCHANGED <<mainState, promise, sql_buffer_, mutex_, hand, log>>

(* while (running_) *)
LoopAgain(w) ==
    /\ at[w] = "loop"
    /\ running_
    /\ Go(w, "lock")
    /\ UNCHANGED <<mainState, promise, sql_buffer_, mutex_, hand, log>>

LoopExit(w) ==
    /\ at[w] = "loop"
    /\ ~running_
    /\ Go(w, "gone")
    /\ UNCHANGED <<mainState, promise, sql_buffer_, mutex_, hand, log>>

Lock(w) ==
    /\ at[w] = "lock"
    /\ mutex_ = NoThread
    /\ mutex_' = w
    /\ Go(w, "test")
    /\ UNCHANGED <<mainState, promise, sql_buffer_, hand, log>>

(* The first isEmpty(): wait_for releases mutex_ and sleeps in one step. *)
TestEmpty(w) ==
    /\ at[w] = "test"
    /\ IF isEmpty
         THEN mutex_' = NoThread /\ Go(w, "wait")
         ELSE UNCHANGED mutex_ /\ Go(w, "pop")
    /\ UNCHANGED <<mainState, promise, sql_buffer_, hand, log>>

(* Faulty: wait instead of wait_for. *)
WaitForEver(w) ==
    /\ at[w] \in {}
    /\ UNCHANGED vars

(* 60 seconds without a notification. *)
WaitTimeout(w) ==
    /\ at[w] = "wait"
    /\ Go(w, "expired")
    /\ UNCHANGED <<mainState, promise, sql_buffer_, mutex_, hand, log>>

(* A condition variable may wake up on its own. *)
SpuriousWake(w) ==
    /\ at[w] = "wait"
    /\ Go(w, "woken")
    /\ UNCHANGED <<mainState, promise, sql_buffer_, mutex_, hand, log>>

(* Faulty: goes on after the wait without waiting for mutex_. *)
RelockUnguarded(w) ==
    /\ at[w] \in {"woken", "expired"}
    /\ mutex_' = w
    /\ Go(w, IF at[w] = "expired" THEN "ping" ELSE "pop")
    /\ UNCHANGED <<mainState, promise, sql_buffer_, hand, log>>

(* wait_for takes mutex_ back before it returns. *)
Relock(w) ==
    /\ at[w] \in {"woken", "expired"}
    /\ mutex_ = NoThread
    /\ mutex_' = w
    /\ Go(w, IF at[w] = "expired" THEN "ping" ELSE "pop")
    /\ UNCHANGED <<mainState, promise, sql_buffer_, hand, log>>

(* Faulty: pings until the data base answers. *)
PingDoneRetry(w) == at[w] = "ping" /\ UNCHANGED vars

(* After a timeout conn_.Ping() runs with mutex_ held. *)
PingDone(w) ==
    /\ at[w] = "ping"
    /\ Go(w, "pop")
    /\ UNCHANGED <<mainState, promise, sql_buffer_, mutex_, hand, log>>

(* Faulty: the statement is copied and stays in the buffer. *)
PopStatementKeeps(w) ==
    /\ at[w] = "pop"
    /\ sql_buffer_ # <<>>
    /\ hand' = [hand EXCEPT ![w] = sql_buffer_[1]]
    /\ mutex_' = NoThread
    /\ Go(w, "query")
    /\ UNCHANGED <<mainState, promise, sql_buffer_, log>>

(* The second isEmpty(), with something to do: pop, unlock, call. *)
PopStatement(w) ==
    /\ at[w] = "pop"
    /\ \E s \in Statements : pop(s) /\ hand' = [hand EXCEPT ![w] = s]
    /\ mutex_' = NoThread
    /\ Go(w, "query")
    /\ UNCHANGED <<mainState, promise, log>>

(* The second isEmpty(), with nothing to do: the lock goes out of scope. *)
NothingToPop(w) ==
    /\ at[w] = "pop"
    /\ isEmpty
    /\ mutex_' = NoThread
    /\ Go(w, "loop")
    /\ UNCHANGED <<mainState, promise, sql_buffer_, hand, log>>

(* Faulty: performs the statement again. *)
QueryDoneRetry(w) ==
    /\ at[w] = "query"
    /\ Len(log) < 2 * MaxSubmit
    /\ log' = Append(log, hand[w])
    /\ UNCHANGED <<mainState, promise, sql_buffer_, mutex_, at, hand>>

(* conn_.Query returns; its result is not looked at. *)
QueryDone(w) ==
    /\ at[w] = "query"
    /\ log' = Append(log, hand[w])
    /\ hand' = [hand EXCEPT ![w] = 0]
    /\ Go(w, "loop")
    /\ UNCHANGED <<mainState, promise, sql_buffer_, mutex_>>
----------------------------------------------------------------------------
CallerStep ==
    \/ \E ok \in BOOLEAN : InitConn(ok)
    \/ \E w \in Workers : SpawnThread(w)
    \/ AwaitPromise
    \/ InitDone
    \/ QueryAsyncCall
    \/ QueryAsyncLock
    \/ QueryAsyncPush
    \/ QueryAsyncFull
    \/ QueryAsyncUnlock
    \/ QueryCall
    \/ QueryReturn
    \/ PingCall
    \/ PingReturn
    \/ BeginDestroy
    \/ ClearRunning
    \/ NotifyAll
    \/ JoinThreads

WorkerStep(w) ==
    \/ \E ok \in BOOLEAN : Connect(w, ok)
    \/ LoopAgain(w)
    \/ LoopExit(w)
    \/ Lock(w)
    \/ TestEmpty(w)
    \/ WaitTimeout(w)
    \/ SpuriousWake(w)
    \/ Relock(w)
    \/ PingDone(w)
    \/ PopStatement(w)
    \/ NothingToPop(w)
    \/ QueryDone(w)

(* The handler is destroyed and every thread it started has been joined. *)
Terminated == mainAt = "joined" /\ UNCHANGED vars

Next ==
    \/ CallerStep
    \/ \E w \in Workers : WorkerStep(w)
    \/ Terminated

SafetySpec == Init /\ [][Next]_vars

(* What the scheduling gives: a call in progress goes on, a consumer thread
   runs unless it waits on the condition variable.  When to call, and when to
   destroy the handler, is up to the owner; spurious wake-ups are not
   promised, and of the 60 second timeout see below.  The mutex is only contended for moments (the consumers sleep
   60 seconds when there is nothing to do), so the caller gets it if it is
   free again and again. *)
CallInProgress ==
    \/ \E ok \in BOOLEAN : InitConn(ok)
    \/ \E w \in Workers : SpawnThread(w)
    \/ AwaitPromise
    \/ InitDone
    \/ QueryAsyncPush
    \/ QueryAsyncFull
    \/ QueryAsyncUnlock
    \/ QueryReturn
    \/ PingReturn
    \/ ClearRunning
    \/ NotifyAll
    \/ JoinThreads

PromptStep(w) ==
    \/ \E ok \in BOOLEAN : Connect(w, ok)
    \/ LoopAgain(w)
    \/ LoopExit(w)
    \/ Lock(w)
    \/ TestEmpty(w)
    \/ Relock(w)
    \/ PingDone(w)
    \/ PopStatement(w)
    \/ NothingToPop(w)
    \/ QueryDone(w)

CallerFairness == WF_vars(CallInProgress) /\ SF_vars(QueryAsyncLock)

Spec ==
    /\ SafetySpec
    /\ CallerFairness
    /\ \A w \in Workers : WF_vars(PromptStep(w))

(* wait_for expires; assumed only where a property says so. *)
TimeoutsExpire == \A w \in Workers : WF_vars(WaitTimeout(w))
----------------------------------------------------------------------------
(* Properties. *)

Queued == {sql_buffer_[i] : i \in DOMAIN sql_buffer_}

InFlight == {hand[w] : w \in {v \in Workers : at[v] = "query"}}

Logged == {log[i] : i \in DOMAIN log}

(* The statement the caller is handing over right now. *)
HandingOver == IF mainAt \in {"lock", "push", "query"} THEN {submitted} ELSE {}

(* Every variable has its type; the ring buffer never holds more than its
   capacity, because QueryAsync tests isFull() under mutex_ before it pushes. *)
TypeOK ==
    /\ mainAt \in MainPlaces
    /\ promise \in {"none", "kept", "broken"}
    /\ submitted \in 0..MaxSubmit
    /\ sql_buffer_ \in Seq(Statements)
    /\ Len(sql_buffer_) <= Capacity
    /\ mutex_ \in Workers \cup {Main, NoThread}
    /\ running_ \in BOOLEAN
    /\ at \in [Workers -> WorkerPlaces]
    /\ hand \in [Workers -> 0..MaxSubmit]
    /\ log \in Seq(Statements)
    /\ direct \subseteq Statements
    /\ dropped \subseteq Statements
    /\ loggedAtStop \in Nat
    /\ popEnd \in PopEnds

(* Whoever works on the buffer or pings after the timeout holds mutex_, so no
   two threads are in QueryAsync's and ConsumeQueryThread's critical sections
   together. *)
LockHeld ==
    /\ CriticalMain <=> mutex_ = Main
    /\ \A w \in Workers : CriticalWorker(w) <=> mutex_ = w

(* Every statement handed over is in exactly one place: with the caller, in
   the buffer, in the hands of one consumer, performed, or dropped; none is
   popped twice, none is performed twice, none disappears. *)
EachStatementOnce ==
    /\ 1..submitted =
          HandingOver \cup Queued \cup InFlight \cup Logged \cup dropped
    /\ submitted = Cardinality(HandingOver) + Len(sql_buffer_)
                      + Cardinality({w \in Workers : at[w] = "query"})
                      + Len(log) + Cardinality(dropped)

(* A synchronous Query (a session's SessionList row, a client's IpList row)
   has been performed when anything else is handed over, so it precedes
   everything handed over after it. *)
SyncBeforeLater ==
    \A s \in direct : s < submitted =>
        \E i \in DOMAIN log : log[i] = s /\ \A j \in 1..i : log[j] <= s

(* With a buffer that pops its oldest element nothing that is still queued is
   older than what a consumer has taken: a statement is overtaken only while
   some consumer performs it, and a single consumer keeps the order. *)
TakenInOrder ==
    popEnd = "oldest" =>
        \A s \in (Logged \ direct) \cup InFlight, t \in Queued : s < t

(* Once the destructor has cleared running_, every consumer thread performs
   at most one more statement, however many are queued. *)
BoundedShutdown ==
    ~running_ => Len(log) <= loggedAtStop + Cardinality(Workers)

(* sqlite_handler.cpp opens conn_ with SQLITE_OPEN_NOMUTEX, for which
   sqlite3.h asks that each thread is using a different connection. *)
NoSharedConnUse == Cardinality(Querying) <= 1

(* The destructor returns if the timeouts expire: a consumer that read
   running_ just before it was cleared and then misses the notification is
   woken by its timeout. *)
ShutdownCompletes ==
    TimeoutsExpire => (mainAt = "stop" ~> mainAt = "joined")

(* QueryAsync returns, also when a consumer holds mutex_ over a slow ping. *)
QueryAsyncReturns == mainAt = "lock" ~> mainAt = "serving"

(* What DBHandler promises, whatever its threads do. *)
Sink == INSTANCE SqlSink WITH
    pending <- Queued \cup InFlight,
    refused <- dropped,
    open <- running_

(* DBHandler keeps the safety part of that promise: a statement is refused at
   once or performed at most once, a synchronous one before the call returns. *)
ImplementsSink == Sink!SinkSafety

(* While the handler is open its statements are worked off by notifications
   alone: no thread sleeps beside a full queue until the timeout. *)
WorkedOff == Sink!SinkSpec
============================================================================

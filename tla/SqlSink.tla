------------------------------ MODULE SqlSink ------------------------------
(***************************************************************************)
(* What the rest of the program expects of DBHandler (common/db_handler.h),*)
(* whatever its threads do: a statement handed over is refused on the spot, *)
(* or it is performed at most once, in any order relative to the others     *)
(* still pending; a synchronous statement is performed before the call      *)
(* returns; after Close whatever is pending may be left undone.             *)
(***************************************************************************)
EXTENDS Naturals, Sequences

CONSTANT Statements

VARIABLES
    pending,  \* accepted, not yet performed
    log,      \* performed statements, oldest first
    refused,  \* handed over while there was no room
    open      \* FALSE once the handler is being destroyed

sinkVars == <<pending, log, refused, open>>

Performed == {log[i] : i \in DOMAIN log}

Fresh(s) == s \notin pending \cup Performed \cup refused

SinkInit ==
    /\ pending = {}
    /\ log = <<>>
    /\ refused = {}
    /\ open = TRUE

Accept(s) ==
    /\ open
    /\ Fresh(s)
    /\ pending' = pending \cup {s}
    /\ UNCHANGED <<log, refused, open>>

Refuse(s) ==
    /\ open
    /\ Fresh(s)
    /\ refused' = refused \cup {s}
    /\ UNCHANGED <<pending, log, open>>

Perform(s) ==
    /\ s \in pending
    /\ pending' = pending \ {s}
    /\ log' = Append(log, s)
    /\ UNCHANGED <<refused, open>>

PerformNow(s) ==
    /\ open
    /\ Fresh(s)
    /\ log' = Append(log, s)
    /\ UNCHANGED <<pending, refused, open>>

Close ==
    /\ open
    /\ open' = FALSE
    /\ UNCHANGED <<pending, log, refused>>

PerformSome == open /\ \E s \in Statements : Perform(s)

SinkNext ==
    \/ \E s \in Statements :
          Accept(s) \/ Refuse(s) \/ Perform(s) \/ PerformNow(s)
    \/ Close

SinkSafety == SinkInit /\ [][SinkNext]_sinkVars

(* While the handler is open, pending work does not wait for ever. *)
SinkSpec == SinkSafety /\ WF_sinkVars(PerformSome)
============================================================================

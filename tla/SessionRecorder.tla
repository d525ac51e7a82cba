-------------------------- MODULE SessionRecorder --------------------------
(***************************************************************************)
(* What a PacketHouse is for: the rows it writes for one game.  Each        *)
(* session is opened by a SessionList row (its header); everything written  *)
(* afterwards belongs to the session opened last, and the per-second batch  *)
(* is written at most once per second.                                      *)
(***************************************************************************)
EXTENDS Integers, Sequences

VARIABLES
    headers,  \* SessionList rows in writing order: [session, begin]
    rows      \* the other rows: [table, header, begin, cur, of, item]

recorderVars == <<headers, rows>>

Current == headers[Len(headers)]

BatchTimes(R) == {r.cur : r \in {q \in R : q.table = "batch"}}

RecorderInit == headers = <<>> /\ rows = {}

(* A session is opened, no earlier than the one before it. *)
Open ==
    /\ Len(headers') = Len(headers) + 1
    /\ SubSeq(headers', 1, Len(headers)) = headers
    /\ headers # <<>> => headers'[Len(headers')].begin >= Current.begin
    /\ UNCHANGED rows

(* Rows are added, all of the session opened last. *)
Write ==
    /\ headers # <<>>
    /\ rows \subseteq rows'
    /\ \A r \in rows' \ rows :
          /\ r.header = Len(headers)
          /\ r.begin = Current.begin
          /\ r.of \subseteq {Current.session}
    /\ \A t \in BatchTimes(rows' \ rows), u \in BatchTimes(rows) : t > u
    /\ UNCHANGED headers

RecorderSpec == RecorderInit /\ [][Open \/ Write]_recorderVars
============================================================================

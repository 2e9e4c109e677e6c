---------------------------- MODULE Diagnostics ----------------------------
(***************************************************************************)
(* The state that a router call leaves behind for the accessors            *)
(* bsolve_last_*_api and for the snapshot (src/src/bsolver.c): the grey    *)
(* event store, the orthogonality maximum, the core rank interval and QR   *)
(* rank, the source rank interval, the formation-guard counters.  All of   *)
(* it is _Thread_local.  A value is abstracted to its provenance: the set  *)
(* of calls whose data it was computed from.  Calls of different threads   *)
(* interleave at every write.                                              *)
(***************************************************************************)
EXTENDS Naturals, FiniteSets, SequencesExt

CONSTANTS Threads,    \* the threads of the client program
          Rows,       \* indices of source rows
          GreyStore,  \* BS_GREY_STORE_MAX, 64 in the code
          Kinds,      \* the entry points this client uses
          MaxCalls,   \* bound: calls started
          MaxEvents,  \* bound: grey events of the calls running at one time
          MaxChecks   \* bound: formation-guard checks of one call

EntryPoints == {"router", "rejected", "route", "stream", "counters"}

ASSUME DiagnosticsAssumption ==
    /\ GreyStore \in Nat \ {0} /\ MaxCalls \in Nat /\ MaxEvents \in Nat /\ MaxChecks \in Nat
    /\ Kinds \subseteq EntryPoints

VARIABLES tls,      \* the thread-local diagnostics, one record per thread
          running,  \* the call each thread is executing
          calls,    \* how many calls have started; the last one's number
          answer    \* what the last call to return gave its caller

vars == <<tls, running, calls, answer>>

Calls == 1..MaxCalls
Idle  == [call |-> 0, kind |-> "none", before |-> 0, events |-> <<>>, checked |-> 0]
NoAnswer == [of |-> "none"]

\* What the program starts with, and what a thread starts with.
Fresh == [total |-> 0, rows |-> <<>>, eta |-> {}, interval |-> {}, qr |-> {},
          source |-> {}, checks |-> 0]

Init == /\ tls = [t \in Threads |-> Fresh]
        /\ running = [t \in Threads |-> Idle]
        /\ calls = 0
        /\ answer = NoAnswer

----------------------------------------------------------------------------
\* diag_reset, as it was before it cleared the core QR rank.
DiagResetKeepingQr(d) ==
    [d EXCEPT !.total = 0, !.rows = <<>>, !.eta = {}, !.interval = {}]

\* diag_reset: everything but the cumulative counters and the source interval.
DiagReset(d) ==
    [d EXCEPT !.total = 0, !.rows = <<>>, !.eta = {}, !.interval = {}, !.qr = {}]

\* The head of solve_router clears the source rank interval.
SourceReset(d) == [d EXCEPT !.source = {}]

\* grey_record with the capacity test off by one.
GreyRecordPastTheEnd(d, row) ==
    [d EXCEPT !.total = @ + 1,
              !.rows  = IF row \notin ToSet(@) /\ Len(@) <= GreyStore
                        THEN Append(@, row) ELSE @]

\* grey_record storing a row that is already there.
GreyRecordRepeats(d, row) ==
    [d EXCEPT !.total = @ + 1,
              !.rows  = IF Len(@) < GreyStore THEN Append(@, row) ELSE @]

\* grey_record: every event is counted, a row is stored once while there is room.
GreyRecord(d, row) ==
    [d EXCEPT !.total = @ + 1,
              !.rows  = IF row \notin ToSet(@) /\ Len(@) < GreyStore
                        THEN Append(@, row) ELSE @]

\* The fields a caller can read, and, for a snapshot, the counters it reports.
Read(d) == [total |-> d.total, rows |-> d.rows, eta |-> d.eta,
            interval |-> d.interval, qr |-> d.qr]

\* capture_router_diagnostics reporting the cumulative counter.
CaptureAbsolute(d, before) == d.checks

\* capture_router_diagnostics reports the counters' increase over the call.
Capture(d, before) == d.checks - before

----------------------------------------------------------------------------
Enters(t, kind) ==
    /\ kind \in Kinds
    /\ running[t] = Idle
    /\ calls < MaxCalls
    /\ calls' = calls + 1

\* A router entry point with finite input: bsolve_router_api, _meta_api,
\* _diag_api, abs_router_snapshot_internal, bsolve_router_policy_api.
BeginRouter(t) ==
    /\ Enters(t, "router")
    /\ tls' = [tls EXCEPT ![t] = SourceReset(DiagReset(@))]
    /\ running' = [running EXCEPT ![t] =
                     [Idle EXCEPT !.call = calls', !.kind = "router",
                                  !.before = tls[t].checks]]
    /\ answer' = NoAnswer

\* bsolve_router_diag_api on non-finite data: the router returns before
\* diag_reset, then the grey rows of the store are copied out all the same.
RejectNonfinite(t) ==
    /\ Enters(t, "rejected")
    /\ answer' = [of |-> "rejected", rows |-> tls[t].rows]
    /\ UNCHANGED <<tls, running>>

\* An exported route (bsolve_auto_api, bsolve_block_api, ...) resets nothing.
BeginRoute(t) ==
    /\ Enters(t, "route")
    /\ running' = [running EXCEPT ![t] =
                     [Idle EXCEPT !.call = calls', !.kind = "route",
                                  !.before = tls[t].checks]]
    /\ answer' = NoAnswer
    /\ UNCHANGED tls

\* abs_stream_insert measures the orthogonality defect of its own basis in
\* dependency_distance_interval, and resets nothing.
StreamInsert(t) ==
    /\ Enters(t, "stream")
    /\ tls' = [tls EXCEPT ![t].eta = @ \union {calls'}]
    /\ answer' = NoAnswer
    /\ UNCHANGED running

\* bsolve_fg_counters_reset_api.
ResetCounters(t) ==
    /\ Enters(t, "counters")
    /\ tls' = [tls EXCEPT ![t].checks = 0]
    /\ answer' = NoAnswer
    /\ UNCHANGED running

\* The writes of a call that is running.
Writes(t, d) ==
    /\ running[t] # Idle
    /\ tls' = [tls EXCEPT ![t] = d]
    /\ UNCHANGED <<calls, answer>>

GreyEvent(t, row) ==
    /\ Cardinality(UNION {{u} \X DOMAIN running[u].events : u \in Threads}) < MaxEvents
    /\ Writes(t, GreyRecord(tls[t], row))
    /\ running' = [running EXCEPT ![t].events = Append(@, row)]

Measure(t) ==
    /\ Writes(t, [tls[t] EXCEPT !.eta = @ \union {running[t].call}])
    /\ UNCHANGED running

CoreQr(t) ==
    /\ Writes(t, [tls[t] EXCEPT !.qr = {running[t].call}])
    /\ UNCHANGED running

CoreBoundary(t) ==
    /\ tls[t].qr = {running[t].call}
    /\ Writes(t, [tls[t] EXCEPT !.interval = {running[t].call}])
    /\ UNCHANGED running

SourceInterval(t) ==
    /\ Writes(t, [tls[t] EXCEPT !.source = {running[t].call}])
    /\ UNCHANGED running

\* g_fg_checks, g_fg_escalations and g_source_qrcp_calls, as one counter.
GuardCheck(t) ==
    /\ running[t].checked < MaxChecks
    /\ Writes(t, [tls[t] EXCEPT !.checks = @ + 1])
    /\ running' = [running EXCEPT ![t].checked = @ + 1]

Finish(t) ==
    /\ running[t] # Idle
    /\ running' = [running EXCEPT ![t] = Idle]
    /\ answer' = IF running[t].kind = "router"
                 THEN [of |-> "snapshot", ran |-> running[t], read |-> Read(tls[t]),
                       source |-> tls[t].source,
                       checks |-> Capture(tls[t], running[t].before)]
                 ELSE NoAnswer
    /\ UNCHANGED <<tls, calls>>

\* bsolve_last_grey_total_api and its siblings.
Accessor(t) ==
    /\ running[t] = Idle
    /\ answer' = [of |-> "accessor", read |-> Read(tls[t])]
    /\ UNCHANGED <<tls, running, calls>>

Next == \E t \in Threads :
           \/ BeginRouter(t) \/ RejectNonfinite(t) \/ BeginRoute(t)
           \/ StreamInsert(t) \/ ResetCounters(t)
           \/ \E row \in Rows : GreyEvent(t, row)
           \/ Measure(t) \/ CoreQr(t) \/ CoreBoundary(t) \/ SourceInterval(t)
           \/ GuardCheck(t) \/ Finish(t) \/ Accessor(t)

Spec == Init /\ [][Next]_vars

----------------------------------------------------------------------------
TlsType == [total : Nat, rows : Seq(Rows), eta : SUBSET Calls,
            interval : SUBSET Calls, qr : SUBSET Calls, source : SUBSET Calls,
            checks : Nat]

\* The types of the variables; the store never holds more
\* rows than its capacity, nor than there were events (grey_record).
TypeOK == /\ calls \in 0..MaxCalls
          /\ \A t \in Threads :
                /\ running[t].call \in 0..calls
                /\ tls[t] \in TlsType
                /\ Len(tls[t].rows) <= GreyStore
                /\ Len(tls[t].rows) <= tls[t].total

Snapshot == answer.of = "snapshot"

\* A snapshot describes one system: every diagnostic it holds, and the source
\* interval its rank interval is read from, was computed by the very call
\* that returns it, whatever calls, routes and streams ran before on this
\* thread or run now on another (diag_reset, solve_router's head, the
\* _Thread_local storage class).
SnapshotOfOneCall ==
    Snapshot => /\ answer.read.eta      \subseteq {answer.ran.call}
                /\ answer.read.interval \subseteq {answer.ran.call}
                /\ answer.read.qr       \subseteq {answer.ran.call}
                /\ answer.source        \subseteq {answer.ran.call}

\* The grey store is the history of its call, cut off at its capacity: every
\* event is in the total, and the i-th stored row is the one whose first event
\* made the i-th distinct row (grey_record, BS_GREY_STORE_MAX).
GreyIsHistory ==
    Snapshot =>
      LET rows   == answer.read.rows
          events == answer.ran.events
          First(row) == SelectInSeq(events, LAMBDA e : e = row)
          Distinct(k) == Cardinality(ToSet(SubSeq(events, 1, k)))
      IN /\ answer.read.total = Len(events)
         /\ Len(rows) = IF Distinct(Len(events)) < GreyStore
                        THEN Distinct(Len(events)) ELSE GreyStore
         /\ \A i \in DOMAIN rows : /\ rows[i] \in ToSet(events)
                                   /\ Distinct(First(rows[i])) = i

\* The counters of a snapshot count the guard checks of its own call, though
\* they are cumulative, a route may have raised them and the client may have
\* reset them in between (abs_router_snapshot_internal's "before").
CountersOfOneCall == Snapshot => answer.checks = answer.ran.checked

\* src/src/bsolver.c:302-307: the accessors report the most recent router call,
\* so each entry point has to clear all of their state; a rejected call has no
\* grey rows of its own.
RejectedCallIsClean == answer.of = "rejected" => answer.rows = <<>>
=============================================================================

-------------------------- MODULE DiagnosticsProofs --------------------------
(***************************************************************************)
(* Theorems about Diagnostics, for every number of threads, rows, calls    *)
(* and events, every capacity of the grey store and every mix of entry     *)
(* points: a snapshot describes the call that returns it.                  *)
(*                                                                         *)
(* The properties speak of the snapshot.  Owned says of the call under way *)
(* on a thread what the snapshot will say of it: that everything it could  *)
(* report was computed by it since its reset.  For the grey store that is  *)
(* History: the stored rows are the first distinct rows of its events.     *)
(***************************************************************************)
EXTENDS Diagnostics, FiniteSetTheorems, SequenceTheorems, TLAPS

RunType == [call : 0..MaxCalls, kind : {"none", "router", "route"}, before : Nat,
            events : Seq(Rows), checked : Nat]

\* The rows of the first k events.
First(events, k) == {events[j] : j \in 1..k}

\* Event k is the first that met its row.
IsFirst(events, k) == \A j \in 1..k-1 : events[j] # events[k]

\* The store holds the distinct rows in the order of their first events, all
\* of them while it has room.
History(rows, events) ==
    /\ IsFiniteSet(ToSet(events))
    /\ Len(rows) = IF Cardinality(ToSet(events)) < GreyStore
                   THEN Cardinality(ToSet(events)) ELSE GreyStore
    /\ Len(rows) < GreyStore => ToSet(events) \subseteq ToSet(rows)
    /\ \A i \in 1..Len(rows) : \E k \in 1..Len(events) :
          /\ events[k] = rows[i]
          /\ IsFirst(events, k)
          /\ Cardinality(First(events, k)) = i

\* What the diagnostics of a thread are while its router call runs.
Owned(d, run) ==
    /\ d.eta \subseteq {run.call} /\ d.interval \subseteq {run.call}
    /\ d.qr \subseteq {run.call} /\ d.source \subseteq {run.call}
    /\ d.checks = run.before + run.checked
    /\ d.total = Len(run.events)
    /\ History(d.rows, run.events)

Typed ==
    /\ calls \in 0..MaxCalls
    /\ tls \in [Threads -> TlsType]
    /\ running \in [Threads -> RunType]
    /\ \A t \in Threads : /\ running[t].call \in 0..calls
                          /\ Len(tls[t].rows) <= GreyStore
                          /\ Len(tls[t].rows) <= tls[t].total
                          /\ running[t] # Idle =>
                               running[t].kind # "none" /\ running[t].call # 0

RunsOwned == \A t \in Threads :
                running[t].kind = "router" => Owned(tls[t], running[t])

\* What a snapshot says of the grey events of its call.
Recorded ==
    Snapshot => /\ answer.read.rows \in Seq(Rows) /\ answer.ran.events \in Seq(Rows)
                /\ answer.read.total = Len(answer.ran.events)
                /\ History(answer.read.rows, answer.ran.events)

Told == SnapshotOfOneCall /\ CountersOfOneCall /\ Recorded

DiagnosticsInv == Typed /\ RunsOwned /\ Told

-----------------------------------------------------------------------------
(***************************************************************************)
(* The grey store.                                                         *)
(***************************************************************************)
LEMMA RowsOfPrefix ==
  ASSUME NEW s \in Seq(Rows), NEW k \in 0..Len(s)
  PROVE  ToSet(SubSeq(s, 1, k)) = First(s, k)
<1>1. Len(s) \in Nat /\ \A i \in 1..k : s[i] \in Rows
  BY LenProperties, ElementOfSeq
<1>2. /\ SubSeq(s, 1, k) \in Seq(Rows)
      /\ Len(SubSeq(s, 1, k)) = k
      /\ \A i \in 1..k : SubSeq(s, 1, k)[i] = s[i]
  <2>1. /\ SubSeq(s, 1, k) \in Seq(Rows)
        /\ Len(SubSeq(s, 1, k)) = IF 1 <= k THEN k - 1 + 1 ELSE 0
        /\ \A i \in 1..k - 1 + 1 : SubSeq(s, 1, k)[i] = s[1 + i - 1]
    BY <1>1, SubSeqProperties
  <2> QED BY <2>1
<1>3. DOMAIN SubSeq(s, 1, k) = 1..k
  BY <1>2, LenProperties
<1> QED BY <1>2, <1>3 DEF ToSet, First

\* A store is its own longest beginning.
LEMMA RowsOfAll ==
  ASSUME NEW s \in Seq(Rows)
  PROVE  ToSet(s) = First(s, Len(s)) /\ Len(s) \in Nat /\ DOMAIN s = 1..Len(s)
BY LenProperties DEF ToSet, First

\* A row is added at the end of what was stored.
LEMMA RowsOfAppend ==
  ASSUME NEW s \in Seq(Rows), NEW row \in Rows
  PROVE  /\ ToSet(Append(s, row)) = ToSet(s) \union {row}
         /\ \A k \in 0..Len(s) : First(Append(s, row), k) = First(s, k)
         /\ \A k \in 1..Len(s) : IsFirst(s, k) => IsFirst(Append(s, row), k)
<1>1. /\ Append(s, row) \in Seq(Rows)
      /\ Len(Append(s, row)) = Len(s) + 1
      /\ \A i \in 1..Len(s) : Append(s, row)[i] = s[i]
      /\ Append(s, row)[Len(s) + 1] = row
  BY AppendProperties
<1>2. Len(s) \in Nat
  BY LenProperties
<1>3. \A k \in 0..Len(s) : First(Append(s, row), k) = First(s, k)
  BY <1>1, <1>2 DEF First
<1>4. \A k \in 1..Len(s) : IsFirst(s, k) => IsFirst(Append(s, row), k)
  BY <1>1, <1>2 DEF IsFirst
<1>5. First(Append(s, row), Len(s) + 1) = First(s, Len(s)) \union {row}
  <2>1. 1..(Len(s) + 1) = (1..Len(s)) \union {Len(s) + 1}
    BY <1>2
  <2> QED BY <2>1, <1>1 DEF First
<1> QED BY <1>1, <1>3, <1>4, <1>5, RowsOfAll

\* One event: grey_record.
LEMMA RecordKeepsHistory ==
  ASSUME NEW rows \in Seq(Rows), NEW events \in Seq(Rows), NEW row \in Rows,
         History(rows, events)
  PROVE  History(IF row \notin ToSet(rows) /\ Len(rows) < GreyStore
                 THEN Append(rows, row) ELSE rows, Append(events, row))
<1> DEFINE next == Append(events, row)
           c == Cardinality(ToSet(events))
<1>1. /\ Len(rows) \in Nat /\ Len(events) \in Nat /\ next \in Seq(Rows)
      /\ Len(next) = Len(events) + 1 /\ next[Len(events) + 1] = row
      /\ \A i \in 1..Len(events) : next[i] = events[i]
  BY LenProperties, AppendProperties
<1>2. c \in Nat /\ GreyStore \in Nat \ {0}
  BY FS_CardinalityType, DiagnosticsAssumption DEF History
<1>3. /\ ToSet(next) = ToSet(events) \union {row}
      /\ IsFiniteSet(ToSet(next))
      /\ Cardinality(ToSet(next)) = IF row \in ToSet(events) THEN c ELSE c + 1
  BY RowsOfAppend, FS_AddElement DEF History
<1>4. \A i \in 1..Len(rows) : \E k \in 1..Len(next) :
         next[k] = rows[i] /\ IsFirst(next, k) /\ Cardinality(First(next, k)) = i
  <2>1. SUFFICES ASSUME NEW i \in 1..Len(rows)
                 PROVE  \E k \in 1..Len(next) :
                          next[k] = rows[i] /\ IsFirst(next, k) /\ Cardinality(First(next, k)) = i
    OBVIOUS
  <2>2. PICK k \in 1..Len(events) :
           events[k] = rows[i] /\ IsFirst(events, k) /\ Cardinality(First(events, k)) = i
    BY DEF History
  <2>3. k \in 1..Len(next) /\ k \in 0..Len(events) /\ next[k] = rows[i]
    BY <1>1, <2>2
  <2> QED BY <2>2, <2>3, RowsOfAppend
<1>5. CASE row \in ToSet(events)
  <2>1. ~(row \notin ToSet(rows) /\ Len(rows) < GreyStore)
    BY <1>5 DEF History
  <2> QED BY <1>3, <1>4, <1>5, <2>1 DEF History
<1>6. CASE row \notin ToSet(events) /\ Len(rows) = GreyStore
  <2>1. ~(c < GreyStore)
    BY <1>2, <1>6 DEF History
  <2>2. History(rows, next)
    <3>1. ~(Cardinality(ToSet(next)) < GreyStore) /\ ~(Len(rows) < GreyStore)
      BY <1>2, <1>3, <1>6, <2>1
    <3> HIDE DEF next
    <3> QED BY <1>3, <1>4, <1>6, <3>1 DEF History
  <2> QED BY <1>6, <2>2
<1>7. CASE row \notin ToSet(events) /\ Len(rows) < GreyStore
  <2> DEFINE more == Append(rows, row)
  <2>1. Len(rows) = c /\ ToSet(events) \subseteq ToSet(rows)
    BY <1>2, <1>7 DEF History
  <2>2. row \notin ToSet(rows)
    <3>1. ToSet(rows) \subseteq ToSet(events)
      BY RowsOfAll DEF History, ToSet
    <3> QED BY <3>1, <1>7
  <2>3. /\ Len(more) = c + 1 /\ more[c + 1] = row
        /\ \A i \in 1..c : more[i] = rows[i]
        /\ ToSet(more) = ToSet(rows) \union {row}
    BY <2>1, AppendProperties, RowsOfAppend
  <2>4. /\ next[Len(next)] = row /\ IsFirst(next, Len(next))
        /\ Cardinality(First(next, Len(next))) = c + 1
    <3>1. \A j \in 1..Len(events) : events[j] \in ToSet(events)
      BY RowsOfAll DEF ToSet
    <3>2. IsFirst(next, Len(next))
      BY <1>1, <1>7, <3>1 DEF IsFirst
    <3> QED BY <1>1, <1>3, <1>7, <3>2, RowsOfAll
  <2>5. \A i \in 1..Len(more) : \E k \in 1..Len(next) :
           next[k] = more[i] /\ IsFirst(next, k) /\ Cardinality(First(next, k)) = i
    <3>1. SUFFICES ASSUME NEW i \in 1..Len(more)
                   PROVE  \E k \in 1..Len(next) :
                            next[k] = more[i] /\ IsFirst(next, k) /\ Cardinality(First(next, k)) = i
      OBVIOUS
    <3>2. CASE i = c + 1
      <4>1. Len(next) \in 1..Len(next)
        BY <1>1
      <4> QED BY <3>2, <4>1, <2>3, <2>4
    <3>3. CASE i \in 1..c
      BY <3>3, <1>4, <2>1, <2>3
    <3> QED BY <1>2, <2>3, <3>2, <3>3
  <2>6. Len(more) = IF Cardinality(ToSet(next)) < GreyStore
                    THEN Cardinality(ToSet(next)) ELSE GreyStore
    BY <1>2, <1>3, <1>7, <2>1, <2>3
  <2>7. ToSet(next) \subseteq ToSet(more)
    BY <1>3, <2>1, <2>3
  <2> QED BY <1>3, <1>7, <2>2, <2>5, <2>6, <2>7 DEF History
<1> QED BY <1>1, <1>2, <1>5, <1>6, <1>7 DEF History
\* A store that is the history of its events answers for it: the index that
\* SelectInSeq finds is the one History speaks of.
LEMMA HistoryIsGrey ==
  ASSUME NEW rows \in Seq(Rows), NEW events \in Seq(Rows), History(rows, events)
  PROVE  LET Where(row) == SelectInSeq(events, LAMBDA e : e = row)
             Distinct(k) == Cardinality(ToSet(SubSeq(events, 1, k)))
         IN  /\ Len(rows) = IF Distinct(Len(events)) < GreyStore
                            THEN Distinct(Len(events)) ELSE GreyStore
             /\ \A i \in DOMAIN rows : /\ rows[i] \in ToSet(events)
                                       /\ Distinct(Where(rows[i])) = i
<1>1. ToSet(SubSeq(events, 1, Len(events))) = ToSet(events)
  BY SubSeqFull
<1>2. ASSUME NEW i \in DOMAIN rows
      PROVE  /\ rows[i] \in ToSet(events)
             /\ Cardinality(ToSet(SubSeq(events, 1,
                  SelectInSeq(events, LAMBDA e : e = rows[i])))) = i
  <2>1. i \in 1..Len(rows) /\ Len(events) \in Nat
    BY LenProperties
  <2>2. PICK k \in 1..Len(events) :
           events[k] = rows[i] /\ IsFirst(events, k) /\ Cardinality(First(events, k)) = i
    BY <2>1 DEF History
  <2> DEFINE I == {j \in 1..Len(events) : events[j] = rows[i]}
  <2>3. k \in I /\ \A j \in I : k <= j
    BY <2>1, <2>2 DEF IsFirst
  <2>4. \A m \in I : (\A j \in I : m <= j) => m = k
    BY <2>1, <2>3
  <2>5. (CHOOSE m \in I : \A j \in I : m <= j) = k
    BY <2>3, <2>4
  <2>6. SelectInSeq(events, LAMBDA e : e = rows[i]) = k
    BY <2>3, <2>5 DEF SelectInSeq, Min
  <2>7. ToSet(SubSeq(events, 1, k)) = First(events, k)
    BY <2>1, <2>2, RowsOfPrefix
  <2>8. rows[i] \in ToSet(events)
    BY <2>2, RowsOfAll DEF ToSet
  <2> QED BY <2>2, <2>6, <2>7, <2>8
<1> QED BY <1>1, <1>2 DEF History
-----------------------------------------------------------------------------
(***************************************************************************)
(* The steps.                                                              *)
(***************************************************************************)
LEMMA NothingTold == answer.of # "snapshot" => Told
BY DEF Told, SnapshotOfOneCall, CountersOfOneCall, Recorded, Snapshot

\* An answer once given stays what was told.
LEMMA ToldKept == Told /\ UNCHANGED answer => Told'
BY DEF Told, SnapshotOfOneCall, CountersOfOneCall, Recorded, Snapshot

\* A step leaves what thread t has, and what it runs, well typed and owned.
LEMMA ThreadStep ==
  ASSUME DiagnosticsInv, NEW t \in Threads, NEW d \in TlsType, NEW r \in RunType,
         tls' = [tls EXCEPT ![t] = d], running' = [running EXCEPT ![t] = r],
         calls' \in 0..MaxCalls, calls <= calls', r.call <= calls',
         r # Idle => r.kind # "none" /\ r.call # 0,
         Len(d.rows) <= GreyStore, Len(d.rows) <= d.total,
         r.kind = "router" => Owned(d, r)
  PROVE  Typed' /\ RunsOwned'
<1>1. /\ tls' \in [Threads -> TlsType] /\ running' \in [Threads -> RunType]
      /\ tls'[t] = d /\ running'[t] = r
      /\ \A u \in Threads \ {t} : tls'[u] = tls[u] /\ running'[u] = running[u]
  BY DEF DiagnosticsInv, Typed
<1>2. ASSUME NEW u \in Threads
      PROVE  /\ running'[u].call \in 0..calls'
             /\ Len(tls'[u].rows) <= GreyStore
             /\ Len(tls'[u].rows) <= tls'[u].total
             /\ running'[u] # Idle => running'[u].kind # "none" /\ running'[u].call # 0
  <2>1. CASE u = t
    <3>1. r.call \in 0..calls'
      BY DEF RunType
    <3> QED BY <1>1, <2>1, <3>1
  <2>2. CASE u # t
    <3>1. running[u].call \in 0..calls /\ calls \in 0..MaxCalls
      BY DEF DiagnosticsInv, Typed
    <3>2. running[u].call \in 0..calls'
      BY <3>1
    <3> QED BY <1>1, <2>2, <3>2 DEF DiagnosticsInv, Typed
  <2> QED BY <2>1, <2>2
<1>3. Typed'
  <2>1. Idle' = Idle
    BY DEF Idle
  <2> QED BY <1>1, <1>2, <2>1 DEF Typed
<1>4. RunsOwned'
  <2>1. ASSUME NEW u \in Threads, running'[u].kind = "router"
        PROVE  Owned(tls'[u], running'[u])
    <3>1. CASE u = t
      BY <1>1, <2>1, <3>1
    <3>2. CASE u # t
      BY <1>1, <2>1, <3>2 DEF DiagnosticsInv, RunsOwned
    <3> QED BY <3>1, <3>2
  <2> QED BY <2>1 DEF RunsOwned
<1> QED BY <1>3, <1>4

\* What thread t has and runs, in any state of the invariant.
LEMMA ThreadTyped ==
  ASSUME DiagnosticsInv, NEW t \in Threads
  PROVE  /\ tls[t] \in TlsType /\ running[t] \in RunType
         /\ calls \in 0..MaxCalls /\ running[t].call \in 0..calls
         /\ Len(tls[t].rows) <= GreyStore /\ Len(tls[t].rows) <= tls[t].total
         /\ running[t] # Idle => running[t].kind # "none" /\ running[t].call # 0
         /\ running[t].kind = "router" => Owned(tls[t], running[t])
         /\ Told
BY DEF DiagnosticsInv, Typed, RunsOwned

\* Between calls a thread runs nothing.
LEMMA IdleTyped == Idle \in RunType /\ Idle.call = 0 /\ Idle.kind = "none"
<1>1. <<>> \in Seq(Rows)
  BY EmptySeq
<1>2. 0 \in 0..MaxCalls
  BY DiagnosticsAssumption
<1> QED BY <1>1, <1>2 DEF Idle, RunType

\* A router call begins with nothing but the cumulative counters.
LEMMA FreshHistory == History(<<>>, <<>>)
<1>1. Len(<<>>) = 0 /\ ToSet(<<>>) = {}
  BY DEF ToSet
<1>2. Cardinality({}) = 0 /\ IsFiniteSet({}) /\ GreyStore \in Nat \ {0}
  BY FS_EmptySet, DiagnosticsAssumption
<1> DEFINE none == <<>>
<1>3. \A i \in 1..Len(none) : FALSE
  BY <1>1
<1>4. Len(none) = 0 /\ ToSet(none) = {} /\ 0 < GreyStore
  BY <1>1, <1>2
<1> HIDE DEF none
<1>5. History(none, none)
  BY <1>2, <1>3, <1>4 DEF History
<1> QED BY <1>5 DEF none

\* An entry that resets starts from a clear store.
LEMMA BeginRouterPreserves ==
  ASSUME DiagnosticsInv, NEW t \in Threads, BeginRouter(t)
  PROVE  DiagnosticsInv'
<1> DEFINE d == SourceReset(DiagReset(tls[t]))
           r == [Idle EXCEPT !.call = calls', !.kind = "router", !.before = tls[t].checks]
<1>1. /\ tls[t] \in TlsType /\ calls \in 0..MaxCalls /\ tls[t].checks \in Nat
      /\ calls' = calls + 1 /\ calls < MaxCalls /\ MaxCalls \in Nat
  BY ThreadTyped, DiagnosticsAssumption DEF BeginRouter, Enters, TlsType
<1>2. tls' = [tls EXCEPT ![t] = d] /\ running' = [running EXCEPT ![t] = r]
  BY DEF BeginRouter, SourceReset, DiagReset
<1>3. calls' \in 0..MaxCalls /\ calls <= calls' /\ calls' # 0
  BY <1>1
<1>4. /\ d \in TlsType /\ d.total = 0 /\ d.rows = <<>> /\ d.eta = {} /\ d.interval = {}
      /\ d.qr = {} /\ d.source = {} /\ d.checks = tls[t].checks
  <2>1. <<>> \in Seq(Rows)
    BY EmptySeq
  <2> QED BY <1>1, <2>1 DEF SourceReset, DiagReset, TlsType
<1>5. /\ r \in RunType /\ r.call = calls' /\ r.kind = "router" /\ r.before = tls[t].checks
      /\ r.events = <<>> /\ r.checked = 0
  <2>1. <<>> \in Seq(Rows)
    BY EmptySeq
  <2> QED BY <1>1, <1>3, <2>1 DEF Idle, RunType
<1>6. Owned(d, r)
  BY <1>1, <1>4, <1>5, FreshHistory DEF Owned
<1>7. Typed' /\ RunsOwned'
  <2>1. Len(d.rows) <= GreyStore /\ Len(d.rows) <= d.total
    BY <1>4, DiagnosticsAssumption
  <2>2. r.call <= calls' /\ r.kind # "none" /\ r.call # 0
    BY <1>3, <1>5
  <2> HIDE DEF d, r
  <2> QED BY <1>2, <1>3, <1>4, <1>5, <1>6, <2>1, <2>2, ThreadStep
<1>8. (answer.of # "snapshot")'
  BY DEF BeginRouter, NoAnswer
<1>9. Told'
  BY <1>8, NothingTold, PTL
<1> QED BY <1>7, <1>9 DEF DiagnosticsInv, Told
\* An entry that does not reset goes on with what there is.
LEMMA BeginRoutePreserves ==
  ASSUME DiagnosticsInv, NEW t \in Threads, BeginRoute(t)
  PROVE  DiagnosticsInv'
<1> DEFINE r == [Idle EXCEPT !.call = calls', !.kind = "route", !.before = tls[t].checks]
<1>1. /\ tls[t] \in TlsType /\ calls \in 0..MaxCalls /\ tls[t].checks \in Nat
      /\ calls' = calls + 1 /\ calls < MaxCalls /\ MaxCalls \in Nat
      /\ Len(tls[t].rows) <= GreyStore /\ Len(tls[t].rows) <= tls[t].total
  BY ThreadTyped, DiagnosticsAssumption DEF BeginRoute, Enters, TlsType
<1>2. running' = [running EXCEPT ![t] = r] /\ tls' = [tls EXCEPT ![t] = tls[t]]
  BY DEF BeginRoute, DiagnosticsInv, Typed
<1>3. calls' \in 0..MaxCalls /\ calls <= calls' /\ calls' # 0
  BY <1>1
<1>4. r \in RunType /\ r.call = calls' /\ r.kind = "route"
  <2>1. <<>> \in Seq(Rows)
    BY EmptySeq
  <2> QED BY <1>1, <1>3, <2>1 DEF Idle, RunType
<1>5. r.call <= calls' /\ r.kind # "none" /\ r.call # 0 /\ r.kind # "router"
  BY <1>3, <1>4
<1>6. Typed' /\ RunsOwned'
  <2> HIDE DEF r
  <2> QED BY <1>1, <1>2, <1>3, <1>4, <1>5, ThreadStep
<1>7. (answer.of # "snapshot")'
  BY DEF BeginRoute, NoAnswer
<1>8. Told'
  BY <1>7, NothingTold, PTL
<1> QED BY <1>6, <1>8 DEF DiagnosticsInv, Told

\* The entries that are over at once: a rejected call, a stream, a reset of the
\* counters.  No call is under way on their thread.
LEMMA AtOncePreserves ==
  ASSUME DiagnosticsInv, NEW t \in Threads,
         RejectNonfinite(t) \/ StreamInsert(t) \/ ResetCounters(t)
  PROVE  DiagnosticsInv'
<1>1. /\ tls[t] \in TlsType /\ calls \in 0..MaxCalls /\ running[t] = Idle
      /\ calls' = calls + 1 /\ calls < MaxCalls /\ MaxCalls \in Nat
      /\ Len(tls[t].rows) <= GreyStore /\ Len(tls[t].rows) <= tls[t].total
      /\ UNCHANGED running
  BY ThreadTyped, DiagnosticsAssumption DEF RejectNonfinite, StreamInsert, ResetCounters, Enters
<1>2. calls' \in 0..MaxCalls /\ calls <= calls' /\ Idle.call <= calls' /\ calls' \in Calls
  BY <1>1, IdleTyped DEF Calls
<1>3. running' = [running EXCEPT ![t] = Idle]
  BY <1>1 DEF DiagnosticsInv, Typed
<1>4. \E d \in TlsType : /\ tls' = [tls EXCEPT ![t] = d]
                         /\ d.rows = tls[t].rows /\ d.total = tls[t].total
  <2>1. CASE RejectNonfinite(t)
    <3>1. tls' = [tls EXCEPT ![t] = tls[t]]
      BY <2>1 DEF RejectNonfinite, DiagnosticsInv, Typed
    <3> QED BY <1>1, <3>1
  <2>2. CASE StreamInsert(t)
    <3> DEFINE d == [tls[t] EXCEPT !.eta = @ \union {calls'}]
    <3>1. d \in TlsType /\ d.rows = tls[t].rows /\ d.total = tls[t].total
      BY <1>1, <1>2 DEF TlsType
    <3>2. tls' = [tls EXCEPT ![t] = d]
      BY <2>2 DEF StreamInsert
    <3> QED BY <3>1, <3>2
  <2>3. CASE ResetCounters(t)
    <3> DEFINE d == [tls[t] EXCEPT !.checks = 0]
    <3>1. d \in TlsType /\ d.rows = tls[t].rows /\ d.total = tls[t].total
      BY <1>1 DEF TlsType
    <3>2. tls' = [tls EXCEPT ![t] = d]
      BY <2>3 DEF ResetCounters
    <3> QED BY <3>1, <3>2
  <2> QED BY <2>1, <2>2, <2>3
<1>5. Typed' /\ RunsOwned'
  BY <1>1, <1>2, <1>3, <1>4, IdleTyped, ThreadStep
<1>6. (answer.of # "snapshot")'
  BY DEF RejectNonfinite, StreamInsert, ResetCounters, NoAnswer
<1>7. Told'
  BY <1>6, NothingTold, PTL
<1> QED BY <1>5, <1>7 DEF DiagnosticsInv, Told

\* A grey row is counted, and stored if there is room and it is new.
LEMMA GreyEventPreserves ==
  ASSUME DiagnosticsInv, NEW t \in Threads, NEW row \in Rows, GreyEvent(t, row)
  PROVE  DiagnosticsInv'
<1> DEFINE d == GreyRecord(tls[t], row)
           r == [running[t] EXCEPT !.events = Append(@, row)]
           rows == IF row \notin ToSet(tls[t].rows) /\ Len(tls[t].rows) < GreyStore
                   THEN Append(tls[t].rows, row) ELSE tls[t].rows
<1>1. /\ tls[t] \in TlsType /\ running[t] \in RunType /\ running[t] # Idle
      /\ running[t].kind # "none" /\ running[t].call # 0
      /\ calls \in 0..MaxCalls /\ running[t].call \in 0..calls
      /\ Len(tls[t].rows) <= GreyStore /\ Len(tls[t].rows) <= tls[t].total
      /\ tls[t].rows \in Seq(Rows) /\ running[t].events \in Seq(Rows)
      /\ tls[t].total \in Nat
  BY ThreadTyped DEF GreyEvent, Writes, TlsType, RunType
<1>2. /\ tls' = [tls EXCEPT ![t] = d] /\ running' = [running EXCEPT ![t] = r]
      /\ calls' = calls /\ UNCHANGED answer
  BY DEF GreyEvent, Writes
<1>3. /\ rows \in Seq(Rows) /\ Len(rows) <= GreyStore /\ Len(rows) <= tls[t].total + 1
      /\ Append(running[t].events, row) \in Seq(Rows)
      /\ Len(Append(running[t].events, row)) = Len(running[t].events) + 1
  BY <1>1, AppendProperties, LenProperties, DiagnosticsAssumption
<1>4. /\ d.total = tls[t].total + 1 /\ d.rows = rows /\ d.eta = tls[t].eta
      /\ d.interval = tls[t].interval /\ d.qr = tls[t].qr /\ d.source = tls[t].source
      /\ d.checks = tls[t].checks /\ d \in TlsType
  <2>1. d = [tls[t] EXCEPT !.total = tls[t].total + 1, !.rows = rows]
    BY <1>1 DEF GreyRecord
  <2> HIDE DEF rows, d
  <2>2. /\ tls[t].eta \in SUBSET Calls /\ tls[t].interval \in SUBSET Calls
        /\ tls[t].qr \in SUBSET Calls /\ tls[t].source \in SUBSET Calls
        /\ tls[t].checks \in Nat /\ tls[t].total + 1 \in Nat
        /\ tls[t] = [total |-> tls[t].total, rows |-> tls[t].rows, eta |-> tls[t].eta,
                     interval |-> tls[t].interval, qr |-> tls[t].qr,
                     source |-> tls[t].source, checks |-> tls[t].checks]
    BY <1>1 DEF TlsType
  <2>3. d = [total |-> tls[t].total + 1, rows |-> rows, eta |-> tls[t].eta,
             interval |-> tls[t].interval, qr |-> tls[t].qr,
             source |-> tls[t].source, checks |-> tls[t].checks]
    BY <1>1, <2>1 DEF TlsType
  <2> QED BY <1>3, <2>2, <2>3 DEF TlsType
<1>5. /\ r \in RunType /\ r.call = running[t].call /\ r.kind = running[t].kind
      /\ r.before = running[t].before /\ r.checked = running[t].checked
      /\ r.events = Append(running[t].events, row)
  BY <1>1, <1>3 DEF RunType
<1>6. r.kind = "router" => Owned(d, r)
  <2>1. SUFFICES ASSUME running[t].kind = "router" PROVE Owned(d, r)
    BY <1>5
  <2>2. Owned(tls[t], running[t])
    BY <2>1, ThreadTyped
  <2>3. History(rows, Append(running[t].events, row))
    BY <1>1, <2>2, RecordKeepsHistory DEF Owned
  <2> HIDE DEF d, r, rows
  <2> QED BY <1>3, <1>4, <1>5, <2>2, <2>3 DEF Owned
<1>7. Typed' /\ RunsOwned'
  <2>1. /\ r.call <= calls' /\ calls' \in 0..MaxCalls /\ calls <= calls'
        /\ Len(d.rows) <= GreyStore /\ Len(d.rows) <= d.total
        /\ r.kind # "none" /\ r.call # 0
    BY <1>1, <1>2, <1>3, <1>4, <1>5
  <2> HIDE DEF d, r, rows
  <2> QED BY <1>2, <1>4, <1>5, <1>6, <2>1, ThreadStep
<1>8. Told'
  BY <1>2, ToldKept DEF DiagnosticsInv
<1> QED BY <1>7, <1>8 DEF DiagnosticsInv, Told

\* The other writes of a call.
LEMMA WritePreserves ==
  ASSUME DiagnosticsInv, NEW t \in Threads,
         \/ Measure(t) \/ CoreQr(t) \/ CoreBoundary(t) \/ SourceInterval(t)
         \/ GuardCheck(t)
  PROVE  DiagnosticsInv'
<1>1. /\ tls[t] \in TlsType /\ running[t] \in RunType /\ running[t] # Idle
      /\ running[t].kind # "none" /\ running[t].call # 0
      /\ calls \in 0..MaxCalls /\ running[t].call \in 0..calls
      /\ Len(tls[t].rows) <= GreyStore /\ Len(tls[t].rows) <= tls[t].total
      /\ UNCHANGED <<calls, answer>>
      /\ running[t].kind = "router" => Owned(tls[t], running[t])
  BY ThreadTyped DEF Measure, CoreQr, CoreBoundary, SourceInterval, GuardCheck, Writes
<1>2. /\ running[t].call \in Calls /\ running[t].call <= calls'
      /\ calls' \in 0..MaxCalls /\ calls <= calls' /\ MaxCalls \in Nat
  BY <1>1, DiagnosticsAssumption DEF Calls
<1>3. running' = running => running' = [running EXCEPT ![t] = running[t]]
  BY DEF DiagnosticsInv, Typed
<1>4. \E d \in TlsType, r \in RunType :
         /\ tls' = [tls EXCEPT ![t] = d] /\ running' = [running EXCEPT ![t] = r]
         /\ d.rows = tls[t].rows /\ d.total = tls[t].total
         /\ r.call = running[t].call /\ r.kind = running[t].kind
         /\ r.kind = "router" => Owned(d, r)
  <2>1. CASE Measure(t)
    <3> DEFINE d == [tls[t] EXCEPT !.eta = @ \union {running[t].call}]
    <3>1. /\ d \in TlsType /\ d.rows = tls[t].rows /\ d.total = tls[t].total
          /\ running[t].kind = "router" => Owned(d, running[t])
      BY <1>1, <1>2 DEF TlsType, Owned
    <3>2. tls' = [tls EXCEPT ![t] = d] /\ UNCHANGED running
      BY <2>1 DEF Measure, Writes
    <3> QED BY <1>1, <1>3, <3>1, <3>2
  <2>2. CASE CoreQr(t)
    <3> DEFINE d == [tls[t] EXCEPT !.qr = {running[t].call}]
    <3>1. /\ d \in TlsType /\ d.rows = tls[t].rows /\ d.total = tls[t].total
          /\ running[t].kind = "router" => Owned(d, running[t])
      BY <1>1, <1>2 DEF TlsType, Owned
    <3>2. tls' = [tls EXCEPT ![t] = d] /\ UNCHANGED running
      BY <2>2 DEF CoreQr, Writes
    <3> QED BY <1>1, <1>3, <3>1, <3>2
  <2>3. CASE CoreBoundary(t)
    <3> DEFINE d == [tls[t] EXCEPT !.interval = {running[t].call}]
    <3>1. /\ d \in TlsType /\ d.rows = tls[t].rows /\ d.total = tls[t].total
          /\ running[t].kind = "router" => Owned(d, running[t])
      BY <1>1, <1>2 DEF TlsType, Owned
    <3>2. tls' = [tls EXCEPT ![t] = d] /\ UNCHANGED running
      BY <2>3 DEF CoreBoundary, Writes
    <3> QED BY <1>1, <1>3, <3>1, <3>2
  <2>4. CASE SourceInterval(t)
    <3> DEFINE d == [tls[t] EXCEPT !.source = {running[t].call}]
    <3>1. /\ d \in TlsType /\ d.rows = tls[t].rows /\ d.total = tls[t].total
          /\ running[t].kind = "router" => Owned(d, running[t])
      BY <1>1, <1>2 DEF TlsType, Owned
    <3>2. tls' = [tls EXCEPT ![t] = d] /\ UNCHANGED running
      BY <2>4 DEF SourceInterval, Writes
    <3> QED BY <1>1, <1>3, <3>1, <3>2
  <2>5. CASE GuardCheck(t)
    <3> DEFINE d == [tls[t] EXCEPT !.checks = @ + 1]
               r == [running[t] EXCEPT !.checked = @ + 1]
    <3>1. tls[t].checks + 1 \in Nat /\ running[t].checked + 1 \in Nat
      BY <1>1 DEF TlsType, RunType
    <3>2. /\ d \in TlsType /\ d.rows = tls[t].rows /\ d.total = tls[t].total
          /\ d.eta = tls[t].eta /\ d.interval = tls[t].interval /\ d.qr = tls[t].qr
          /\ d.source = tls[t].source /\ d.checks = tls[t].checks + 1
      BY <1>1, <3>1 DEF TlsType
    <3>3. /\ r \in RunType /\ r.call = running[t].call /\ r.kind = running[t].kind
          /\ r.before = running[t].before /\ r.events = running[t].events
          /\ r.checked = running[t].checked + 1
      BY <1>1, <3>1 DEF RunType
    <3>4. running[t].before \in Nat /\ running[t].checked \in Nat
      BY <1>1 DEF RunType
    <3>5. tls' = [tls EXCEPT ![t] = d] /\ running' = [running EXCEPT ![t] = r]
      BY <2>5 DEF GuardCheck, Writes
    <3> HIDE DEF d, r
    <3>6. running[t].kind = "router" => Owned(d, r)
      <4> SUFFICES ASSUME running[t].kind = "router" PROVE Owned(d, r)
        OBVIOUS
      <4>1. Owned(tls[t], running[t])
        BY <1>1
      <4>2. d.checks = r.before + r.checked
        BY <3>2, <3>3, <3>4, <4>1 DEF Owned
      <4> QED BY <3>2, <3>3, <4>1, <4>2 DEF Owned
    <3> QED BY <3>2, <3>3, <3>5, <3>6
  <2> QED BY <2>1, <2>2, <2>3, <2>4, <2>5
<1>5. Typed' /\ RunsOwned'
  <2>1. PICK d \in TlsType, r \in RunType :
           /\ tls' = [tls EXCEPT ![t] = d] /\ running' = [running EXCEPT ![t] = r]
           /\ d.rows = tls[t].rows /\ d.total = tls[t].total
           /\ r.call = running[t].call /\ r.kind = running[t].kind
           /\ r.kind = "router" => Owned(d, r)
    BY <1>4
  <2>2. /\ r.call <= calls' /\ r.kind # "none" /\ r.call # 0
        /\ Len(d.rows) <= GreyStore /\ Len(d.rows) <= d.total
    BY <1>1, <1>2, <2>1
  <2> QED BY <1>2, <2>1, <2>2, ThreadStep
<1>6. Told'
  BY <1>1, ToldKept DEF DiagnosticsInv
<1> QED BY <1>5, <1>6 DEF DiagnosticsInv, Told

\* A call ends; its snapshot is of what it recorded.
LEMMA FinishPreserves ==
  ASSUME DiagnosticsInv, NEW t \in Threads, Finish(t)
  PROVE  DiagnosticsInv'
<1>1. /\ tls[t] \in TlsType /\ running[t] \in RunType /\ running[t] # Idle
      /\ calls \in 0..MaxCalls
      /\ Len(tls[t].rows) <= GreyStore /\ Len(tls[t].rows) <= tls[t].total
      /\ UNCHANGED <<tls, calls>> /\ running' = [running EXCEPT ![t] = Idle]
  BY ThreadTyped DEF Finish
<1>2. tls' = [tls EXCEPT ![t] = tls[t]] /\ calls' = calls /\ 0 <= calls
  BY <1>1 DEF DiagnosticsInv, Typed
<1>3. Typed' /\ RunsOwned'
  <2>1. /\ Idle.call <= calls' /\ calls' \in 0..MaxCalls /\ calls <= calls'
        /\ ~(Idle.kind = "router")
    BY <1>1, <1>2, IdleTyped
  <2> QED BY <1>1, <1>2, <2>1, IdleTyped, ThreadStep
<1>4. CASE running[t].kind # "router"
  <2>1. (answer.of # "snapshot")'
    BY <1>4 DEF Finish, NoAnswer
  <2>2. Told'
    BY <2>1, NothingTold, PTL
  <2> QED BY <1>3, <2>2 DEF DiagnosticsInv, Told
<1>5. CASE running[t].kind = "router"
  <2>1. Owned(tls[t], running[t])
    BY <1>5, ThreadTyped
  <2>2. /\ answer'.ran = running[t] /\ answer'.read = Read(tls[t])
        /\ answer'.source = tls[t].source
        /\ answer'.checks = Capture(tls[t], running[t].before)
    BY <1>5 DEF Finish
  <2>3. /\ answer'.read.eta = tls[t].eta /\ answer'.read.interval = tls[t].interval
        /\ answer'.read.qr = tls[t].qr /\ answer'.read.total = tls[t].total
        /\ answer'.read.rows = tls[t].rows
    BY <2>2 DEF Read
  <2>4. SnapshotOfOneCall'
    BY <2>1, <2>2, <2>3 DEF SnapshotOfOneCall, Owned
  <2>5. CountersOfOneCall'
    <3>1. running[t].before \in Nat /\ running[t].checked \in Nat
      BY <1>1 DEF RunType
    <3> QED BY <2>1, <2>2, <3>1 DEF CountersOfOneCall, Capture, Owned
  <2>6. Recorded'
    <3>1. /\ tls[t].rows \in Seq(Rows) /\ running[t].events \in Seq(Rows)
          /\ History(tls[t].rows, running[t].events)
          /\ tls[t].total = Len(running[t].events)
      BY <1>1, <2>1 DEF TlsType, RunType, Owned
    <3> QED BY <2>2, <2>3, <3>1 DEF Recorded
  <2> QED BY <1>3, <2>4, <2>5, <2>6 DEF DiagnosticsInv, Told
<1> QED BY <1>4, <1>5

\* An accessor reads and changes nothing.
LEMMA AccessorPreserves ==
  ASSUME DiagnosticsInv, NEW t \in Threads, Accessor(t)
  PROVE  DiagnosticsInv'
<1>1. UNCHANGED <<tls, running, calls>>
  BY DEF Accessor
<1>2. Typed' /\ RunsOwned'
  BY <1>1 DEF DiagnosticsInv, Typed, RunsOwned
<1>3. (answer.of # "snapshot")'
  BY DEF Accessor
<1>4. Told'
  BY <1>3, NothingTold, PTL
<1> QED BY <1>2, <1>4 DEF DiagnosticsInv, Told

\* A thread starts with a clear store.
LEMMA InitEstablishes == Init => DiagnosticsInv
<1> SUFFICES ASSUME Init PROVE DiagnosticsInv
  OBVIOUS
<1>1. <<>> \in Seq(Rows) /\ Len(<<>>) = 0
  BY EmptySeq
<1>2. Fresh \in TlsType /\ Fresh.rows = <<>> /\ Fresh.total = 0
  BY <1>1 DEF Fresh, TlsType
<1>3. Typed
  BY <1>1, <1>2, IdleTyped, DiagnosticsAssumption DEF Init, Typed
<1>4. RunsOwned
  BY IdleTyped DEF Init, RunsOwned
<1>5. Told
  BY NothingTold DEF Init, NoAnswer
<1> QED BY <1>3, <1>4, <1>5 DEF DiagnosticsInv, Told

-----------------------------------------------------------------------------
(***************************************************************************)
(* The theorems.                                                           *)
(***************************************************************************)

\* In every state the diagnostics of a thread are those of the router call
\* that runs on it, and every snapshot taken was of such a call.
THEOREM DiagnosticsInvariant == Spec => []DiagnosticsInv
<1>1. DiagnosticsInv /\ [Next]_vars => DiagnosticsInv'
  <2> SUFFICES ASSUME DiagnosticsInv, [Next]_vars
               PROVE  DiagnosticsInv'
    OBVIOUS
  <2>1. ASSUME NEW t \in Threads, BeginRouter(t)
        PROVE  DiagnosticsInv'
    BY <2>1, BeginRouterPreserves
  <2>2. ASSUME NEW t \in Threads, BeginRoute(t)
        PROVE  DiagnosticsInv'
    BY <2>2, BeginRoutePreserves
  <2>3. ASSUME NEW t \in Threads, RejectNonfinite(t) \/ StreamInsert(t) \/ ResetCounters(t)
        PROVE  DiagnosticsInv'
    BY <2>3, AtOncePreserves
  <2>4. ASSUME NEW t \in Threads, NEW row \in Rows, GreyEvent(t, row)
        PROVE  DiagnosticsInv'
    BY <2>4, GreyEventPreserves
  <2>5. ASSUME NEW t \in Threads,
               \/ Measure(t) \/ CoreQr(t) \/ CoreBoundary(t) \/ SourceInterval(t)
               \/ GuardCheck(t)
        PROVE  DiagnosticsInv'
    BY <2>5, WritePreserves
  <2>6. ASSUME NEW t \in Threads, Finish(t)
        PROVE  DiagnosticsInv'
    BY <2>6, FinishPreserves
  <2>7. ASSUME NEW t \in Threads, Accessor(t)
        PROVE  DiagnosticsInv'
    BY <2>7, AccessorPreserves
  <2>8. CASE UNCHANGED vars
    BY <2>8, ToldKept DEF vars, DiagnosticsInv, Typed, RunsOwned
  <2> QED BY <2>1, <2>2, <2>3, <2>4, <2>5, <2>6, <2>7, <2>8 DEF Next
<1> QED BY <1>1, InitEstablishes, PTL DEF Spec

\* Types; the store never holds more rows than its capacity or than events.
THEOREM DiagnosticsTypes == Spec => []TypeOK
<1>1. DiagnosticsInv => TypeOK
  BY DEF DiagnosticsInv, Typed, TypeOK
<1> QED BY <1>1, DiagnosticsInvariant, PTL

\* A snapshot holds nothing of another call.  (diag_reset, _Thread_local)
THEOREM DiagnosticsOfOneCall == Spec => []SnapshotOfOneCall
<1>1. DiagnosticsInv => SnapshotOfOneCall
  BY DEF DiagnosticsInv, Told
<1> QED BY <1>1, DiagnosticsInvariant, PTL

\* The grey store of a snapshot is the history of its call, cut off at the
\* capacity.  (grey_record)
THEOREM DiagnosticsGrey == Spec => []GreyIsHistory
<1>1. DiagnosticsInv => GreyIsHistory
  <2> SUFFICES ASSUME DiagnosticsInv PROVE GreyIsHistory
    OBVIOUS
  <2>1. CASE ~Snapshot
    BY <2>1 DEF GreyIsHistory
  <2>2. CASE Snapshot
    <3> DEFINE rows == answer.read.rows
               events == answer.ran.events
    <3>1. /\ rows \in Seq(Rows) /\ events \in Seq(Rows) /\ History(rows, events)
          /\ answer.read.total = Len(events)
      BY <2>2 DEF DiagnosticsInv, Told, Recorded
    <3> QED BY <3>1, HistoryIsGrey DEF GreyIsHistory
  <2> QED BY <2>1, <2>2
<1> QED BY <1>1, DiagnosticsInvariant, PTL

\* The counters of a snapshot are those of its call.
\* (abs_router_snapshot_internal)
THEOREM DiagnosticsCounters == Spec => []CountersOfOneCall
<1>1. DiagnosticsInv => CountersOfOneCall
  BY DEF DiagnosticsInv, Told
<1> QED BY <1>1, DiagnosticsInvariant, PTL
=============================================================================

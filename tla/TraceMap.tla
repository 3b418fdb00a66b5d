------------------------------ MODULE TraceMap ------------------------------
(***************************************************************************)
(* The collector's trace map, src/src/collector/assembler.c: a hash table  *)
(* of partial traces, each gathering the spans of one trace id until it    *)
(* has been inactive for a timeout and is flushed to the caller.           *)
(*                                                                         *)
(* trace_map_insert and the scan of trace_map_flush run under the map's    *)
(* lock and are one action each; trace_map_flush reads the clock before it *)
(* takes the lock, which is an action of its own.  A span keeps only what  *)
(* the map looks at: its trace, whether it is a root span, its sampling    *)
(* bit, the number of its insertion and the clock at that moment.          *)
(***************************************************************************)
EXTENDS Integers, Sequences, FiniteSets, TLC

CONSTANTS
    Traces,            \* trace ids
    SpanInputs,        \* the spans inserted: records [trace, root, sampled]
    NumBuckets,        \* chains of the hash table
    Hash,              \* trace_id_hash: the chain of each trace id
    MaxTraces,         \* max_traces, 0 = unlimited
    MaxSpansPerTrace,  \* max_spans_per_trace, 0 = unlimited
    Timeouts,          \* the timeout_sec values trace_map_flush is called with
    BatchSizes,        \* the max_out values it is called with
    TicksPerSec,       \* clock ticks in a second
    MaxTicks,          \* bound on the clock
    MaxInserts,        \* bound on the calls of trace_map_insert
    MemoryFails        \* whether calloc may return NULL

ASSUME MapAssumption ==
    /\ SpanInputs \subseteq [trace : Traces, root : BOOLEAN, sampled : BOOLEAN]
    /\ NumBuckets \in Nat \ {0}
    /\ Hash \in [Traces -> 1..NumBuckets]
    /\ MaxTraces \in Nat /\ MaxSpansPerTrace \in Nat
    /\ Timeouts \subseteq Nat
    /\ BatchSizes \subseteq Nat \ {0}
    /\ TicksPerSec \in Nat \ {0}
    /\ MaxTicks \in Nat /\ MaxInserts \in Nat
    /\ MemoryFails \in BOOLEAN

VARIABLES
    buckets,        \* the chains: for each bucket, its partial traces in order
    count,          \* tm->count
    tracesDropped,  \* tm->traces_dropped
    spansDropped,   \* tm->spans_dropped
    clock,          \* CLOCK_MONOTONIC, in ticks
    flushNow,       \* trace_map_flush's local now, or NotSampled
    closed,         \* partial traces handed to callers of trace_map_flush
    inserts,        \* calls of trace_map_insert so far
    refused,        \* insertions that returned -1 for want of memory
    destroyed,      \* trace_map_destroy has been called
    freed           \* numbers of the insertions whose spans it freed

mapVars == <<buckets, count, tracesDropped, spansDropped, clock, flushNow,
             closed, inserts, refused, destroyed, freed>>

NotSampled == -1

MapInit ==
    /\ buckets = [b \in 1..NumBuckets |-> <<>>]
    /\ count = 0
    /\ tracesDropped = 0 /\ spansDropped = 0
    /\ clock = 0
    /\ flushNow = NotSampled
    /\ closed = <<>>
    /\ inserts = 0 /\ refused = 0
    /\ destroyed = FALSE /\ freed = {}

-----------------------------------------------------------------------------
(* partial_trace_create, partial_trace_add_span *)

Node(span) == [n |-> inserts + 1, root |-> span.root, at |-> clock,
               sampled |-> span.sampled]

NewTrace(trace) ==
    [id |-> trace, spans |-> <<>>, hasRoot |-> FALSE, sampled |-> FALSE,
     last |-> clock]

\* Mutants of AddSpan: the old list is lost; the trace is not renewed.
AddSpanUnlinked(pt, span) ==
    [pt EXCEPT !.spans = <<Node(span)>>,
               !.hasRoot = pt.hasRoot \/ span.root,
               !.sampled = IF pt.spans = <<>> THEN span.sampled ELSE pt.sampled,
               !.last = clock]

AddSpanStale(pt, span) ==
    [pt EXCEPT !.spans = <<Node(span)>> \o pt.spans,
               !.hasRoot = pt.hasRoot \/ span.root,
               !.sampled = IF pt.spans = <<>> THEN span.sampled ELSE pt.sampled]

\* Prepend the node; the first span decides `sampled`.
AddSpan(pt, span) ==
    [id |-> pt.id,
     spans |-> <<Node(span)>> \o pt.spans,
     hasRoot |-> pt.hasRoot \/ span.root,
     sampled |-> IF pt.spans = <<>> THEN span.sampled ELSE pt.sampled,
     last |-> clock]

-----------------------------------------------------------------------------
(* trace_map_insert *)

Chain(trace) == buckets[Hash[trace]]

\* The search of the chain ends at its i-th trace, or finds nothing.
FoundAt(trace, i) ==
    /\ Chain(trace)[i].id = trace
    /\ \A j \in 1..(i - 1) : Chain(trace)[j].id # trace

Unknown(trace) == \A i \in DOMAIN Chain(trace) : Chain(trace)[i].id # trace

\* Mutant of AtTraceCap: off by one.
AboveTraceCap == MaxTraces > 0 /\ count > MaxTraces

AtTraceCap == MaxTraces > 0 /\ count >= MaxTraces
AtSpanCap(pt) == MaxSpansPerTrace > 0 /\ Len(pt.spans) >= MaxSpansPerTrace

CallInsert ==
    /\ ~destroyed
    /\ inserts < MaxInserts
    /\ inserts' = inserts + 1
    /\ UNCHANGED <<destroyed, freed>>

\* A known trace with room takes the span: the call returns 0.
InsertKnown(span) ==
    LET t == span.trace
    IN  /\ CallInsert
        /\ \E i \in DOMAIN Chain(t) :
              /\ FoundAt(t, i)
              /\ ~AtSpanCap(Chain(t)[i])
              /\ buckets' = [buckets EXCEPT
                                ![Hash[t]][i] = AddSpan(Chain(t)[i], span)]
        /\ UNCHANGED <<count, tracesDropped, spansDropped, clock, flushNow,
                       closed, refused>>

\* A new trace goes to the head of its chain and takes the span.
InsertNew(span) ==
    LET t == span.trace
    IN  /\ CallInsert
        /\ Unknown(t)
        /\ ~AtTraceCap
        /\ buckets' = [buckets EXCEPT
                          ![Hash[t]] = <<AddSpan(NewTrace(t), span)>> \o @]
        /\ count' = count + 1
        /\ UNCHANGED <<tracesDropped, spansDropped, clock, flushNow, closed,
                       refused>>

\* The map is full: the span of an unknown trace is dropped.
InsertTraceDropped(span) ==
    /\ CallInsert
    /\ Unknown(span.trace)
    /\ AtTraceCap
    /\ tracesDropped' = tracesDropped + 1
    /\ UNCHANGED <<buckets, count, spansDropped, clock, flushNow, closed,
                   refused>>

\* The trace is full: the span is dropped and does not renew the trace.
InsertSpanDropped(span) ==
    LET t == span.trace
    IN  /\ CallInsert
        /\ \E i \in DOMAIN Chain(t) : FoundAt(t, i) /\ AtSpanCap(Chain(t)[i])
        /\ spansDropped' = spansDropped + 1
        /\ UNCHANGED <<buckets, count, tracesDropped, clock, flushNow, closed,
                       refused>>

\* No memory for the node of a known trace, or for a new trace.
InsertNoMemory(span) ==
    LET t == span.trace
    IN  /\ MemoryFails
        /\ CallInsert
        /\ \/ Unknown(t) /\ ~AtTraceCap
           \/ \E i \in DOMAIN Chain(t) : FoundAt(t, i) /\ ~AtSpanCap(Chain(t)[i])
        /\ refused' = refused + 1
        /\ UNCHANGED <<buckets, count, tracesDropped, spansDropped, clock,
                       flushNow, closed>>

\* Memory for the new trace but not for its node: an empty trace stays.
InsertEmptyTrace(span) ==
    LET t == span.trace
    IN  /\ MemoryFails
        /\ CallInsert
        /\ Unknown(t)
        /\ ~AtTraceCap
        /\ buckets' = [buckets EXCEPT ![Hash[t]] = <<NewTrace(t)>> \o @]
        /\ count' = count + 1
        /\ refused' = refused + 1
        /\ UNCHANGED <<tracesDropped, spansDropped, clock, flushNow, closed>>

InsertStored(span) == InsertKnown(span) \/ InsertNew(span)

InsertRejected(span) ==
    \/ InsertTraceDropped(span) \/ InsertSpanDropped(span)
    \/ InsertNoMemory(span) \/ InsertEmptyTrace(span)

-----------------------------------------------------------------------------
(* The partial traces by their places <<bucket, position>>, and the order  *)
(* in which the map is scanned.                                            *)

Places == UNION {{b} \X DOMAIN buckets[b] : b \in 1..NumBuckets}

At(p) == buckets[p[1]][p[2]]

Numbers(pt) == {pt.spans[i].n : i \in DOMAIN pt.spans}

Precedes(p, q) == p[1] < q[1] \/ (p[1] = q[1] /\ p[2] < q[2])

\* How many of the places P the scan visits before p, and its k-th of them.
Rank(p, P) == Cardinality({q \in P : Precedes(q, p)})

Nth(P, k) == CHOOSE p \in P : Rank(p, P) = k - 1

InOrder(P) == [k \in 1..Cardinality(P) |-> At(Nth(P, k))]

-----------------------------------------------------------------------------
(* trace_map_flush *)

FlushSample ==
    /\ ~destroyed
    /\ flushNow = NotSampled
    /\ flushNow' = clock
    /\ UNCHANGED <<buckets, count, tracesDropped, spansDropped, clock, closed,
                   inserts, refused, destroyed, freed>>

\* Mutant of ElapsedSec: the nanoseconds are not looked at.
ElapsedNoBorrow(now, last) ==
    (now \div TicksPerSec) - (last \div TicksPerSec)

\* tv_sec difference, less one when tv_nsec has to borrow.
ElapsedSec(now, last) ==
    (now \div TicksPerSec) - (last \div TicksPerSec)
        - IF now % TicksPerSec < last % TicksPerSec THEN 1 ELSE 0

TimedOut(pt, timeout) == ElapsedSec(flushNow, pt.last) >= timeout

Due(timeout) == {p \in Places : TimedOut(At(p), timeout)}

\* Mutant of Batch: the scan skips the rest of a chain after a removal.
BatchOnePerChain(timeout, maxOut) ==
    {p \in Due(timeout) : /\ Rank(p, Due(timeout)) < maxOut
                          /\ \A q \in Due(timeout) : q[1] = p[1] => q[2] >= p[2]}

\* The partial traces one scan removes: the first maxOut timed-out ones.
Batch(timeout, maxOut) ==
    {p \in Due(timeout) : Rank(p, Due(timeout)) < maxOut}

FlushScan(timeout, maxOut) ==
    LET out == Batch(timeout, maxOut)
        kept == Places \ out
    IN  /\ flushNow # NotSampled
        /\ buckets' = [b \in 1..NumBuckets |-> InOrder({p \in kept : p[1] = b})]
        /\ count' = count - Cardinality(out)
        /\ closed' = closed \o
              [k \in 1..Cardinality(out) |->
                  [pt |-> InOrder(out)[k], timeout |-> timeout]]
        /\ flushNow' = NotSampled
        /\ UNCHANGED <<tracesDropped, spansDropped, clock, inserts, refused,
                       destroyed, freed>>

\* trace_map_destroy, while nobody is in the map: what it still holds is
\* freed, and counted nowhere.
MapDestroy ==
    /\ ~destroyed
    /\ flushNow = NotSampled
    /\ destroyed' = TRUE
    /\ freed' = UNION {Numbers(At(p)) : p \in Places}
    /\ buckets' = [b \in 1..NumBuckets |-> <<>>]
    /\ count' = 0
    /\ UNCHANGED <<tracesDropped, spansDropped, clock, flushNow, closed,
                   inserts, refused>>

Tick ==
    /\ clock < MaxTicks
    /\ clock' = clock + 1
    /\ UNCHANGED <<buckets, count, tracesDropped, spansDropped, flushNow,
                   closed, inserts, refused, destroyed, freed>>

-----------------------------------------------------------------------------
MapNext ==
    \/ \E span \in SpanInputs : InsertStored(span) \/ InsertRejected(span)
    \/ FlushSample
    \/ \E timeout \in Timeouts : \E maxOut \in BatchSizes :
          FlushScan(timeout, maxOut)
    \/ MapDestroy
    \/ Tick

MapSpec == MapInit /\ [][MapNext]_mapVars

-----------------------------------------------------------------------------
(* Properties *)

SpanNode == [n : 1..MaxInserts, root : BOOLEAN, at : 0..MaxTicks,
             sampled : BOOLEAN]

PartialTrace == [id : Traces, spans : Seq(SpanNode), hasRoot : BOOLEAN,
                 sampled : BOOLEAN, last : 0..MaxTicks]

\* The types of the map's variables.
MapTypeOK ==
    /\ buckets \in [1..NumBuckets -> Seq(PartialTrace)]
    /\ count \in Nat /\ tracesDropped \in Nat /\ spansDropped \in Nat
    /\ clock \in 0..MaxTicks
    /\ flushNow \in 0..clock \union {NotSampled}
    /\ closed \in Seq([pt : PartialTrace, timeout : Timeouts])
    /\ inserts \in 0..MaxInserts /\ refused \in Nat
    /\ destroyed \in BOOLEAN /\ freed \subseteq 1..MaxInserts

\* A trace id has at most one partial trace, in the chain it hashes to; the
\* count is right, so the cap on traces really bounds the map; no trace
\* exceeds the cap on spans (assembler.c:188-234, 257-297).
MapWellFormed ==
    /\ \A p, q \in Places : At(p).id = At(q).id => p = q
    /\ \A p \in Places : Hash[At(p).id] = p[1]
    /\ count = Cardinality(Places)
    /\ MaxTraces > 0 => count <= MaxTraces
    /\ MaxSpansPerTrace > 0 =>
          \A p \in Places : Len(At(p).spans) <= MaxSpansPerTrace

\* What holds a partial trace: its place in the map, or <<0, i>> when it is
\* the i-th handed out.
Holders == Places \union ({0} \X DOMAIN closed)

Held(h) == IF h[1] = 0 THEN closed[h[2]].pt ELSE At(h)

\* The insertions whose span is in a partial trace, or was freed in the map.
Stored == (UNION {Numbers(Held(h)) : h \in Holders}) \union freed

\* Every span whose insertion returned 0 is in exactly one partial trace,
\* open or handed out, and in it once, or was freed with the map; every other
\* call is counted as a drop or failed for want of memory: flushing,
\* inserting and destroying the map lose and duplicate nothing, and a span
\* handed out is never freed again (assembler.c:142-160, 188-234, 257-297).
SpansConserved ==
    /\ \A g, h \in Holders :
          g # h => Numbers(Held(g)) \intersect Numbers(Held(h)) = {}
    /\ \A h \in Holders : \A i, j \in DOMAIN Held(h).spans :
          Held(h).spans[i].n = Held(h).spans[j].n => i = j
    /\ \A h \in Holders : Numbers(Held(h)) \intersect freed = {}
    /\ Cardinality(Stored) = inserts - tracesDropped - spansDropped - refused

\* The oldest activity of a partial trace.
First(pt) == IF pt.spans = <<>> THEN pt.last ELSE pt.spans[Len(pt.spans)].at

\* Two partial traces of the same id are always separated by at least the
\* timeout the earlier one was flushed with: spans of one trace that arrive
\* closer together are never written as two records, whatever the scan's
\* stale clock and the insertions interleave to (assembler.c:257-297).
SplitOnlyByInactivity ==
    \A i \in DOMAIN closed : \A h \in Holders :
        Held(h).id = closed[i].pt.id /\ (h[1] = 0 => h[2] > i)
        => First(Held(h)) - closed[i].pt.last >= closed[i].timeout * TicksPerSec

\* A scan that returns fewer traces than it may has left none behind that
\* had timed out when the clock was read: the caller's loop may stop at an
\* empty scan (assembler.c:270-293, main.c:48-58).
ScanExhaustive ==
    [][\A timeout \in Timeouts : \A maxOut \in BatchSizes :
          (FlushScan(timeout, maxOut) /\ Len(closed') - Len(closed) < maxOut)
             => \A p \in Places' : ~TimedOut(At(p)', timeout)]_mapVars

-----------------------------------------------------------------------------
(* The sessions this map implements. *)

Session(pt) == [nodes |-> [i \in DOMAIN pt.spans |-> pt.spans[i].at],
                last |-> pt.last]

OpenSessions ==
    [t \in {At(p).id : p \in Places} |->
        Session(At(CHOOSE p \in Places : At(p).id = t))]

ClosedSessions ==
    [i \in DOMAIN closed |-> [id |-> closed[i].pt.id] @@ Session(closed[i].pt)]

Sessions == INSTANCE TraceSessions
            WITH open <- OpenSessions, sessions <- ClosedSessions

\* Hashing, chaining and batching change nothing: the map gathers sessions
\* and closes them only when they have expired (assembler.c:188-297).
ImplementsSessions == Sessions!SessionSpec
=============================================================================

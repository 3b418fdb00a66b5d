------------------------------ MODULE TraceTree ------------------------------
(***************************************************************************)
(* A trace from the processes that make its spans to the tree the analysis *)
(* makes of it: identifiers and hierarchy (trace.c, span.c), contexts that *)
(* carry a trace into another process (context.c), and the records of the  *)
(* collector's log.  Between the processes and the log spans are lost,     *)
(* reordered and duplicated, and a trace that was inactive for a while     *)
(* becomes several records: a record is any sequence of spans that carry   *)
(* one trace id.                                                           *)
(*                                                                         *)
(* Every process has its own counters, from 1.  How long a span lasts is   *)
(* drawn when it is made, as it matters only in the log.                   *)
(***************************************************************************)
EXTENDS Hierarchy

CONSTANTS
    Procs,        \* processes
    Kinds,        \* names and durations (in microseconds) spans may have
    MaxTraces,    \* traces created (bound)
    MaxSpans,     \* spans created (bound)
    MaxRecords,   \* records of the log (bound)
    MaxStored     \* spans of all records together (bound)

ASSUME TreeAssumption ==
    /\ \A kind \in Kinds : kind.dur \in Nat
    /\ {MaxTraces, MaxSpans, MaxRecords, MaxStored} \subseteq Nat

VARIABLES
    nextTrace,  \* g_next_trace_id of each process
    nextSpan,   \* g_next_span_id of each process
    traces,     \* every trace_t made
    spans,      \* every span_t made; `cause` is the span it was made under
    live,       \* the links of the spans, and of each trace its root_span
    log         \* the records and the links the reader gives their spans

vars == <<nextTrace, nextSpan, traces, spans, live, log>>

Init ==
    /\ nextTrace = [p \in Procs |-> 1] /\ nextSpan = [p \in Procs |-> 1]
    /\ traces = <<>> /\ spans = <<>>
    /\ live = [roots |-> <<>>, links |-> Unlinked(0)]
    /\ log = <<>>

(***************************************************************************)
(* The processes.                                                          *)
(***************************************************************************)

CountTrace(p) == nextTrace' = [nextTrace EXCEPT ![p] = @ + 1]

\* Mutant of CountSpan: the counter advances twice.
CountSpanTwice(p) == nextSpan' = [nextSpan EXCEPT ![p] = @ + 2]

CountSpan(p) == nextSpan' = [nextSpan EXCEPT ![p] = @ + 1]

\* trace_create and trace_create_sampled: the decision is the sampler's, or
\* TRUE without one.
TraceCreate ==
    \E p \in Procs, sampled \in BOOLEAN :
        /\ Len(traces) < MaxTraces
        /\ traces' = Append(traces, [proc |-> p, id |-> nextTrace[p],
                                     sampled |-> sampled])
        /\ CountTrace(p)
        /\ live' = [live EXCEPT !.roots = Append(@, Null)]
        /\ UNCHANGED <<nextSpan, spans, log>>

\* The part of span_create that makes the span: t is its trace_t as it is
\* when the call begins.
NewSpan(trace, t, parentId, cause) ==
    \E kind \in Kinds :
        spans' = Append(spans, [trace |-> trace, tid |-> t.id, id |-> nextSpan[t.proc],
                                parentId |-> parentId, sampled |-> t.sampled,
                                name |-> kind.name, dur |-> kind.dur, cause |-> cause])

\* The links of one span more, not linked to any yet.
Grown(h) == [h EXCEPT !.parent = Append(@, Null), !.firstChild = Append(@, Null),
                      !.nextSibling = Append(@, Null)]

\* The part that links the span to its parent or makes it the root.
LinkNewSpan(trace, parent) ==
    LET s == Len(spans) + 1 IN
    IF parent # Null
    THEN live' = [live EXCEPT !.links = AppendChild(Grown(@), parent, s)]
    ELSE live' = [live EXCEPT !.links = Grown(@),
                              !.roots[trace] = IF @ = Null THEN s ELSE @]

SpanCreate ==
    \E t \in DOMAIN traces : \E parent \in {Null} \union DOMAIN spans :
        /\ Len(spans) < MaxSpans
        /\ parent # Null => spans[parent].trace = t
        /\ CountSpan(traces[t].proc)
        /\ NewSpan(t, traces[t], IF parent = Null THEN 0 ELSE spans[parent].id, parent)
        /\ LinkNewSpan(t, parent)
        /\ UNCHANGED <<nextTrace, traces, log>>

\* Mutant of Adopt: the decision of the other process is left behind.
AdoptIdOnly(trace, span) == [trace EXCEPT !.id = span.tid]

\* What span_create_from_context does to the trace_t: the context is what
\* context_inject writes of a span and context_extract reads.
Adopt(trace, span) == [trace EXCEPT !.id = span.tid, !.sampled = span.sampled]

\* Callers adopt a context into a trace_t that has no spans yet.
SpanCreateFromContext ==
    \E t \in DOMAIN traces, remote \in DOMAIN spans :
        /\ Len(spans) < MaxSpans
        /\ \A s \in DOMAIN spans : spans[s].trace # t
        /\ traces' = [traces EXCEPT ![t] = Adopt(@, spans[remote])]
        /\ CountSpan(traces[t].proc)
        /\ NewSpan(t, traces'[t], spans[remote].id, remote)
        /\ LinkNewSpan(t, Null)
        /\ UNCHANGED <<nextTrace, log>>

(***************************************************************************)
(* The log and its reader.                                                 *)
(***************************************************************************)

\* The spans of a record as span_deserialize returns them.
Decoded(record) == [i \in DOMAIN record |-> spans[record[i]]]

\* How many spans the log has (for the bound).
StoredSpans == FoldLeft(LAMBDA n, record : n + Len(record.spans), 0, log)

\* storage_write_trace, of what has arrived of a trace id, and read_one_trace.
StoreTrace ==
    \E s \in DOMAIN spans : \E n \in 1..MaxStored :
        LET same == {r \in DOMAIN spans : spans[r].tid = spans[s].tid} IN
        /\ s = Min(same)
        /\ Len(log) < MaxRecords /\ StoredSpans + n <= MaxStored
        /\ \E record \in [1..n -> same] :
              log' = Append(log, [spans |-> record,
                                  links |-> RebuildHierarchy(Decoded(record))])
        /\ UNCHANGED <<nextTrace, nextSpan, traces, spans, live>>

-----------------------------------------------------------------------------

Next == TraceCreate \/ SpanCreate \/ SpanCreateFromContext \/ StoreTrace

Spec == Init /\ [][Next]_vars

(***************************************************************************)
(* Properties.                                                             *)
(***************************************************************************)

\* Type invariant.
TypeOK ==
    LET Spans == 1..Len(spans)
        Ids == 1..MaxSpans
    IN /\ {nextTrace, nextSpan} \subseteq [Procs -> Nat \ {0}]
       /\ traces \in Seq([proc : Procs, id : 1..MaxTraces, sampled : BOOLEAN])
       /\ spans \in Seq([trace : DOMAIN traces, tid : 1..MaxTraces, id : Ids,
                         parentId : {0} \union Ids, sampled : BOOLEAN,
                         name : {kind.name : kind \in Kinds},
                         dur : {kind.dur : kind \in Kinds}, cause : {Null} \union Spans])
       /\ live \in [roots : [DOMAIN traces -> {Null} \union Spans],
                    links : [root : {Null}, parent : [Spans -> {Null} \union Spans],
                             firstChild : [Spans -> {Null} \union Spans],
                             nextSibling : [Spans -> {Null} \union Spans]]]
       /\ \A k \in DOMAIN log : log[k].spans \in Seq(Spans)

\* The trace a span belongs to in the eyes of the application: the one its
\* own trace_t, through the contexts it was made from, began as.
Origin(s) ==
    LET first[t \in DOMAIN traces] ==
            LET root == live.roots[t]
            IN IF root = Null \/ spans[root].cause = Null THEN t
               ELSE first[spans[spans[root].cause].trace]
    IN first[spans[s].trace]

\* Head-based sampling: every span that one span led to, in whatever process,
\* carries the decision of the trace they began in.
OneDecisionPerTrace ==
    \A s \in DOMAIN spans : spans[s].sampled = traces[Origin(s)].sampled

\* Record k links every span to a copy of the span it was made under, if one
\* is there, and has a span without one as its root.
LinkedAsCaused(k) ==
    LET record == log[k].spans
        h == log[k].links
        CauseOf(i) == spans[record[i]].cause
    IN /\ \A i \in DOMAIN record :
             IF CauseOf(i) \in ToSet(record)
             THEN h.parent[i] # Null /\ record[h.parent[i]] = CauseOf(i)
             ELSE h.parent[i] = Null
       /\ IF \E i \in DOMAIN record : CauseOf(i) = Null
          THEN h.root # Null /\ CauseOf(h.root) = Null
          ELSE h.root = Null

\* Whether no two spans made with the trace id of record k have the same id.
DistinctIds(k) ==
    \A r, s \in DOMAIN spans :
        spans[r].tid = spans[log[k].spans[1]].tid /\ spans[s].tid = spans[r].tid
        /\ spans[r].id = spans[s].id => r = s

\* Reading the log rebuilds the hierarchy the processes made, whatever part
\* of a trace a record has, in any order, and with spans in it twice, as
\* long as the trace's spans have ids of their own.
HierarchyFromDistinctIds == \A k \in DOMAIN log : DistinctIds(k) => LinkedAsCaused(k)

\* What analysis.h and span.c say without that condition: span ids are
\* unique and hierarchies are reconstructed from them.
HierarchyRebuilt == \A k \in DOMAIN log : LinkedAsCaused(k)

\* A walk visits each span at most once, exactly those whose parents lead to
\* the root, and a parent before its children, whatever ids the spans carry.
WalkVisitsOnce ==
    \A k \in DOMAIN log :
        LET h == log[k].links
            walk == Preorder(h)
            n == Len(log[k].spans)
            below[d \in 0..n] ==
                IF d = 0 THEN {h.root}
                ELSE {h.root} \union {i \in 1..n : h.parent[i] \in below[d - 1]}
        IN /\ IsInjective(walk)
           /\ h.root # Null => ToSet(walk) = below[n]
           /\ \A v \in DOMAIN walk : h.parent[walk[v]] # Null =>
                 \E u \in 1..v - 1 : walk[u] = h.parent[walk[v]]

\* The critical path goes from the root to a span without children, from
\* parent to child, and no brother of a span on it lasts longer, each span
\* taken by itself; the array it is written to has room for it
\* (critical_path.c:47-110).  The comments in the code go by the duration of
\* the subtree instead, which no run could confirm: see
\* CriticalChildBySubtree.
CriticalPathToLeaf ==
    \A k \in DOMAIN log :
        LET h == log[k].links
            loaded == Decoded(log[k].spans)
            path == CriticalPath(loaded, h)
        IN h.root # Null =>
              /\ path[1] = h.root /\ h.firstChild[Last(path)] = Null
              /\ \A v \in 2..Len(path) :
                    /\ h.parent[path[v]] = path[v - 1]
                    /\ \A i \in DOMAIN loaded : h.parent[i] = path[v - 1] =>
                          loaded[i].dur <= loaded[path[v]].dur

Loaded ==
    [k \in DOMAIN log |-> [id    |-> spans[log[k].spans[1]].tid,
                           spans |-> Decoded(log[k].spans),
                           links |-> log[k].links]]

\* The exported document has its parents before their children, and names
\* them by the ids the spans carry; the critical path goes along these names
\* from the first span and has no more of them than the document has spans.
ExportedAsLinked ==
    \A trace \in ToSet(Loaded) :
        LET doc == ExportedTrace(trace)
            path == doc.criticalPath
        IN /\ \A v \in 2..Len(doc.spans) : \E u \in 1..v - 1 :
                 doc.spans[u].id = doc.spans[v].parentId
           /\ path # <<>> => path[1] = doc.spans[1].id
           /\ \A v \in 2..Len(path) : \E u \in DOMAIN doc.spans :
                 doc.spans[u].id = path[v] /\ doc.spans[u].parentId = path[v - 1]
           /\ Len(path) <= Len(doc.spans)

\* The walk, the critical path and the exported document follow the links,
\* however damaged the hierarchy is (span_walk.h, critical_path.c,
\* export_json.c).
WalkedAsLinked == WalkVisitsOnce /\ CriticalPathToLeaf /\ ExportedAsLinked

\* The spans visited whose name is that of a group, up to the v-th.
Own(visited, group, v) == {u \in 1..v : visited[u].name = group.name}

\* The statistics put every span visited in the group of its own name, in the
\* order of the visits, up to the limit of the samples.  A name is left out
\* only when MAX_GROUPS others were all met before it, and then each time.
\* Spans that the root does not lead to are not visited: see
\* AllSpansAggregated.
GroupsHoldVisited ==
    LET visited == Visited(Loaded)
        groups == Groups(Loaded)
    IN /\ Len(groups) <= MaxGroups
       /\ \A g, k \in DOMAIN groups : groups[g].name = groups[k].name => g = k
       /\ \A g \in DOMAIN groups :
             LET own == Own(visited, groups[g], Len(visited))
                 samples == groups[g].latencies
             IN /\ own # {}
                /\ Len(samples) = Min({Cardinality(own), MaxSamples})
                /\ \A v \in own :
                      LET place == Cardinality(Own(visited, groups[g], v))
                      IN place <= MaxSamples => samples[place] = visited[v].dur
       /\ \A v \in DOMAIN visited :
             \/ \E g \in DOMAIN groups : groups[g].name = visited[v].name
             \/ /\ Len(groups) = MaxGroups
                /\ \A g \in DOMAIN groups : Own(visited, groups[g], v) # {}

\* The latencies of a name: the median is the textbook one, the largest
\* hundredth of them (but one, rounded up) is all that the 99th percentile is
\* below, and the mean lies between the extremes.
StatsAsDefined ==
    LET groups == Groups(Loaded) IN
    \A g \in DOMAIN groups :
        LET st == ServiceStats(groups[g])
            n == st.count
            sorted == Sorted(groups[g].latencies, groups[g].latencies)
            above == (n + 98) \div 100
        IN /\ st.p50 = 50 * (sorted[(n + 1) \div 2] + sorted[n \div 2 + 1])
           /\ 100 * sorted[n - above] <= st.p99
           /\ st.p99 <= 100 * sorted[Min({n, n - above + 1})]
           /\ st.min * n <= st.total /\ st.total <= st.max * n

\* Of the records of the log those with the slowest roots are returned, each
\* once and the slowest first, and the query by id finds the last of an id.
\* A record without a root is taken for one whose root lasts no time, not
\* skipped: see RootlessSkipped.
SlowestAsDefined ==
    /\ \A limit \in 1..MaxRecords :
          LET slowest == SlowestTraces(Loaded, limit)
              Slower(t) == {i \in DOMAIN log :
                               RootDuration(Loaded[i]) > RootDuration(t)}
          IN /\ Len(slowest) = Min({limit, Len(log)})
             /\ \A v \in DOMAIN slowest : Cardinality(Slower(slowest[v])) < v
             /\ \E from \in Injection(DOMAIN slowest, DOMAIN log) :
                   \A v \in DOMAIN slowest : slowest[v] = Loaded[from[v]]
    /\ \A k \in DOMAIN log :
          LET found == TraceById(Loaded, Loaded[k].id)
          IN found >= k /\ Loaded[found].id = Loaded[k].id

\* The statistics of aggregate_by_service, by name, and the queries by
\* duration and by id (aggregation.c, query.c:273-348).
AggregatedAsDefined == GroupsHoldVisited /\ StatsAsDefined /\ SlowestAsDefined

(***************************************************************************)
(* What the comments of the library say and its code does not do.          *)
(***************************************************************************)

\* Span i and the spans that lead to it through their parents.
Subtree(h, i) ==
    LET n == Len(h.parent)
        below[d \in 0..n] ==
            IF d = 0 THEN {i}
            ELSE {i} \union {j \in 1..n : h.parent[j] \in below[d - 1]}
    IN below[n]

\* analysis.h:109-110, critical_path.c:8-9: "the critical child is the one with
\* the largest subtree duration".  Whatever that is of a subtree, it is no less
\* than the longest span of it and no more than all of them in a row.
CriticalChildBySubtree ==
    \A t \in ToSet(Loaded) :
        LET path == CriticalPath(t.spans, t.links)
            Total(i) == MapThenSumSet(LAMBDA j : t.spans[j].dur,
                                      Subtree(t.links, i))
        IN \A v \in 2..Len(path) : \A i \in DOMAIN t.spans :
              t.links.parent[i] = path[v - 1] =>
                 \A j \in Subtree(t.links, i) : t.spans[j].dur <= Total(path[v])

\* analysis.h:86: "Traces without a root span are skipped."
RootlessSkipped ==
    \A t \in ToSet(SlowestTraces(Loaded, MaxRecords)) : t.links.root # Null

\* analysis.h:150: "Walks all spans across the given traces", so that, while
\* there is room, every span is counted.
AllSpansAggregated ==
    LET all == FlattenSeq([t \in DOMAIN log |-> Loaded[t].spans])
        names == {s.name : s \in ToSet(all)}
    IN Cardinality(names) <= MaxGroups /\ Len(all) <= MaxSamples =>
          FoldLeft(LAMBDA n, g : n + Len(g.latencies), 0, Groups(Loaded)) = Len(all)

\* What these three comments say, so weakly that a log which refutes it
\* refutes each of them.
AnalysisAsDocumented ==
    RootlessSkipped \/ AllSpansAggregated \/ CriticalChildBySubtree

=============================================================================

------------------------------ MODULE Hierarchy ------------------------------
(***************************************************************************)
(* What the analysis library does with the spans of a trace: rebuilding    *)
(* the pointers between them (query.c), walking the tree (span_walk.h),    *)
(* the critical path (critical_path.c) and statistics per span name        *)
(* (aggregation.c).                                                        *)
(*                                                                         *)
(* The spans of a trace are a sequence of records with the fields id,      *)
(* parentId, name and dur; a pointer is a position in it, and 0 is NULL.   *)
(* The links of a trace are its root_span and the three pointers of every  *)
(* span.                                                                   *)
(***************************************************************************)
EXTENDS Integers, Sequences, FiniteSets, FiniteSetsExt, SequencesExt

CONSTANTS
    MaxGroups,    \* MAX_GROUPS
    MaxSamples    \* MAX_SAMPLES

ASSUME AnalysisAssumption == {MaxGroups, MaxSamples} \subseteq Nat \ {0}

Null == 0

(***************************************************************************)
(* Links.                                                                  *)
(***************************************************************************)

Unlinked(n) ==
    LET none == [i \in 1..n |-> Null]
    IN [root |-> Null, parent |-> none, firstChild |-> none, nextSibling |-> none]

LastSibling(h, child) ==
    LET last[i \in DOMAIN h.nextSibling] ==
            IF h.nextSibling[i] = Null THEN i ELSE last[h.nextSibling[i]]
    IN last[child]

\* span i becomes the last child of span p.
AppendChild(h, p, i) ==
    LET linked == [h EXCEPT !.parent[i] = p]
    IN IF h.firstChild[p] = Null
       THEN [linked EXCEPT !.firstChild[p] = i]
       ELSE [linked EXCEPT !.nextSibling[LastSibling(h, h.firstChild[p])] = i]

SetRoot(h, i) == IF h.root = Null THEN [h EXCEPT !.root = i] ELSE h

FindSpanById(spans, id) ==
    LET found == {i \in DOMAIN spans : spans[i].id = id}
    IN IF found = {} THEN Null ELSE Min(found)

\* Mutant of LinkSpan: a span whose parent is missing becomes a root.
LinkOrphanAsRoot(spans, h, i) ==
    LET p == FindSpanById(spans, spans[i].parentId)
    IN IF p = Null THEN SetRoot(h, i) ELSE AppendChild(h, p, i)

\* One round of the loop of rebuild_hierarchy.
LinkSpan(spans, h, i) ==
    LET p == FindSpanById(spans, spans[i].parentId)
    IN CASE spans[i].parentId = 0              -> SetRoot(h, i)
         [] spans[i].parentId # 0 /\ p # Null  -> AppendChild(h, p, i)
         [] OTHER                              -> h

RebuildHierarchy(spans) ==
    LET linked[i \in 0..Len(spans)] ==
            IF i = 0 THEN Unlinked(Len(spans)) ELSE LinkSpan(spans, linked[i - 1], i)
    IN linked[Len(spans)]

(***************************************************************************)
(* Walks.  The loop over the children of a span and the recursion into     *)
(* each are one recursion, along first_child and next_sibling.  Where the  *)
(* root does not lead these may go round in circles (to a span that is its *)
(* own parent, say), so the functions below count the pointers they still  *)
(* follow: no span is more of them from the root than there are spans.     *)
(***************************************************************************)

\* span_tree_walk_preorder from the root; visit[d][i] is the walk of span i,
\* of what is below it, and of its later siblings.
Preorder(h) ==
    LET n == Len(h.parent)
        visit[d \in 0..n] ==
            [i \in 0..n |->
                IF d = 0 \/ i = Null THEN <<>>
                ELSE <<i>> \o visit[d - 1][h.firstChild[i]]
                          \o visit[d - 1][h.nextSibling[i]]]
    IN IF h.root = Null THEN <<>>
       ELSE <<h.root>> \o visit[n][h.firstChild[h.root]]

(***************************************************************************)
(* The critical path.                                                      *)
(***************************************************************************)

\* deepest[d][i] is the largest depth of span i and its later siblings.
CriticalPathDepth(h) ==
    LET n == Len(h.parent)
        deepest[d \in 0..n] ==
            [i \in 0..n |->
                IF d = 0 \/ i = Null THEN 0
                ELSE Max({1 + deepest[d - 1][h.firstChild[i]],
                          deepest[d - 1][h.nextSibling[i]]})]
    IN 1 + deepest[n][h.firstChild[h.root]]

\* Mutant of FindCriticalChild: only a child that lasts longer than the ones
\* before it is taken, so that one may be left out.
FindPositiveChild(spans, h, i) ==
    LET n == Len(spans)
        from[child \in 0..n] ==
            [best \in 0..n |->
                IF child = Null THEN best
                ELSE LET longest == IF best = Null THEN 0 ELSE spans[best].dur
                     IN from[h.nextSibling[child]]
                            [IF spans[child].dur > longest THEN child ELSE best]]
    IN from[h.firstChild[i]][Null]

\* The first of the children that last longest: the loop from a child on,
\* with the best before it.
FindCriticalChild(spans, h, i) ==
    LET n == Len(spans)
        from[child \in 0..n] ==
            [best \in 0..n |->
                IF child = Null THEN best
                ELSE from[h.nextSibling[child]]
                         [IF best = Null \/ spans[child].dur > spans[best].dur
                          THEN child ELSE best]]
    IN from[h.firstChild[i]][Null]

\* An array of as many places as the tree is deep is filled from the root.
CriticalPath(spans, h) ==
    LET path[places \in 0..CriticalPathDepth(h)] ==
            [i \in 0..Len(spans) |->
                IF places = 0 \/ i = Null THEN <<>>
                ELSE <<i>> \o path[places - 1][FindCriticalChild(spans, h, i)]]
    IN IF h.root = Null THEN <<>> ELSE path[CriticalPathDepth(h)][h.root]

(***************************************************************************)
(* Statistics per name.                                                    *)
(***************************************************************************)

\* A group and its samples, up to MAX_SAMPLES of them.
AddSample(g, dur) ==
    IF Len(g.latencies) < MaxSamples
    THEN [g EXCEPT !.latencies = Append(@, dur)] ELSE g

\* A span goes to the group of its name, or to a new one while there are
\* fewer than MAX_GROUPS.
CollectSpan(groups, span) ==
    LET known == {g \in DOMAIN groups : groups[g].name = span.name}
    IN CASE known # {} ->
              [groups EXCEPT ![Min(known)] = AddSample(@, span.dur)]
         [] known = {} /\ Len(groups) < MaxGroups ->
              Append(groups, AddSample([name |-> span.name, latencies |-> <<>>],
                                       span.dur))
         [] OTHER -> groups

\* The spans aggregate_by_service visits, in order: those of each trace that
\* can be reached from its root.
Visited(traces) ==
    FlattenSeq([t \in DOMAIN traces |->
                   LET order == Preorder(traces[t].links)
                   IN [k \in DOMAIN order |-> traces[t].spans[order[k]]]])

Groups(traces) == FoldLeft(CollectSpan, <<>>, Visited(traces))

\* Mutant of Percentile: rounding up instead of down before interpolating.
PercentileRoundedUp(sorted, pct) ==
    LET rank == pct * (Len(sorted) - 1)
        lo == (rank + 99) \div 100 + 1
        hi == IF lo = Len(sorted) THEN lo ELSE lo + 1
    IN 100 * sorted[lo] + (rank % 100) * (sorted[hi] - sorted[lo])

\* A hundred times the percentile: the rank falls between two samples, and
\* the value is interpolated between them.
Percentile(sorted, pct) ==
    LET rank == pct * (Len(sorted) - 1)
        lo == rank \div 100 + 1
        hi == IF lo = Len(sorted) THEN lo ELSE lo + 1
    IN 100 * sorted[lo] + (rank % 100) * (sorted[hi] - sorted[lo])

\* The elements of s in an order in which their keys do not fall.  qsort
\* leaves open where elements of the same key go, and so does CHOOSE.
Sorted(s, key) ==
    LET n == Len(s)
        order == CHOOSE p \in [1..n -> 1..n] : \A i, j \in 1..n :
                    i < j => p[i] # p[j] /\ key[p[i]] <= key[p[j]]
    IN [i \in 1..n |-> s[order[i]]]

ServiceStats(g) ==
    LET sorted == Sorted(g.latencies, g.latencies)
        n == Len(sorted)
    IN [name |-> g.name, count |-> n, total |-> FoldLeft(+, 0, sorted),
        p50 |-> Percentile(sorted, 50), p99 |-> Percentile(sorted, 99),
        min |-> sorted[1], max |-> sorted[n]]

(***************************************************************************)
(* Queries and the exported document.  A trace here is a record with its   *)
(* id, its spans and their links.                                          *)
(***************************************************************************)

\* trace_root_duration_us
RootDuration(t) == IF t.links.root = Null THEN 0 ELSE t.spans[t.links.root].dur

\* query_trace_by_id: every match replaces the one before.
TraceById(traces, id) ==
    LET found == {t \in DOMAIN traces : traces[t].id = id}
    IN IF found = {} THEN Null ELSE Max(found)

\* query_slowest_traces
SlowestTraces(traces, limit) ==
    LET sorted == Sorted(traces, [t \in DOMAIN traces |-> -RootDuration(traces[t])])
    IN SubSeq(sorted, 1, Min({limit, Len(traces)}))

\* export_trace_json when memory is left: what a reader of the document can
\* rebuild the tree from.
ExportedTrace(t) ==
    LET order == Preorder(t.links)
        path == CriticalPath(t.spans, t.links)
    IN [duration |-> RootDuration(t),
        spans |-> [k \in DOMAIN order |-> t.spans[order[k]]],
        criticalPath |-> [k \in DOMAIN path |-> t.spans[path[k]].id]]
=============================================================================

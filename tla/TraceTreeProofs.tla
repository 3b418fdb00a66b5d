-------------------------- MODULE TraceTreeProofs --------------------------
(***************************************************************************)
(* Proofs about TraceTree, for any processes, any bounds and any names and *)
(* durations: the types, that a decision taken where a trace begins is     *)
(* that of every span it led to, that the reader rebuilds the hierarchy of *)
(* the spans of a trace with ids of their own, and that the analysis       *)
(* follows the links of any record and counts what it walks.               *)
(*                                                                         *)
(* OneDecisionPerTrace follows the contexts back to the trace_t where a    *)
(* trace began.  The inductive invariant, TreeInv, has only single steps   *)
(* of that way: a span carries the decision of its trace_t (DecidedByTrace)*)
(* and of the span it was made under (DecidedByCause), and the way goes    *)
(* back in time, since the root of a trace_t is the oldest of its spans    *)
(* (RootIsFirst) and was made after its cause.  That the way ends, and so  *)
(* Origin is defined, is an induction over that order (OriginExists).      *)
(*                                                                         *)
(* HierarchyFromDistinctIds says nothing of spans that no record has yet.  *)
(* TreeInv keeps how ids follow causes, also where they are not distinct   *)
(* (IdsOfCause), and what the reader did with the ids alone (RecordsLinked,*)
(* by a step per span of rebuild_hierarchy: SpanLinked).                   *)
(*                                                                         *)
(* WalkedAsLinked holds of records whose ids are missing or repeated too,  *)
(* since first_child and next_sibling list the spans with the same parent  *)
(* in the order of the record (RecordsListed).  What the root leads to is  *)
(* then a tree, though the rest may go round in circles: a span the root   *)
(* leads to is one number of pointers away from it, less than there are    *)
(* spans (Distances), and the walks are followed by that number.           *)
(*                                                                         *)
(* AggregatedAsDefined follows the groups span by span (GroupsHold).       *)
(* Sorting is only known to return an order; that there is one is shown by *)
(* exchanging each element with the smallest after it (OrderExists).       *)
(***************************************************************************)
EXTENDS TraceTree, SequenceTheorems, FiniteSetTheorems, WellFoundedInduction,
        TLAPS

-----------------------------------------------------------------------------
(* The inductive invariant. *)

\* A counter is ahead of the traces or spans its process made.
Numbered ==
    \A p \in Procs : nextTrace[p] <= Len(traces) + 1 /\ nextSpan[p] <= Len(spans) + 1

\* A trace_t with spans has the first of them as its root, made after the
\* span it was made under.
RootIsFirst ==
    /\ \A s \in DOMAIN spans : /\ live.roots[spans[s].trace] # Null
                               /\ live.roots[spans[s].trace] <= s
    /\ \A t \in DOMAIN traces : live.roots[t] # Null =>
          LET root == live.roots[t]
          IN spans[root].trace = t /\ spans[root].cause < root

DecidedByTrace ==
    \A s \in DOMAIN spans : spans[s].sampled = traces[spans[s].trace].sampled

DecidedByCause ==
    \A s \in DOMAIN spans : spans[s].cause # Null =>
        spans[spans[s].cause].sampled = spans[s].sampled

\* A span has the trace id of its trace_t and of the span it was made under,
\* and that span's id as its parent's.
IdsOfCause ==
    \A s \in DOMAIN spans :
        /\ spans[s].tid = traces[spans[s].trace].id
        /\ spans[s].cause = Null => spans[s].parentId = 0
        /\ spans[s].cause # Null =>
              /\ spans[spans[s].cause].tid = spans[s].tid
              /\ spans[s].parentId = spans[spans[s].cause].id

\* The parent rebuild_hierarchy finds for span i, by the ids.
ParentById(loaded, i) ==
    IF loaded[i].parentId = 0 THEN Null ELSE FindSpanById(loaded, loaded[i].parentId)

\* h links the first n of the spans loaded, and has one of them as its
\* root if one has no parent.
LinkedById(loaded, h, n) ==
    /\ \A i \in DOMAIN loaded :
          h.parent[i] = IF i <= n THEN ParentById(loaded, i) ELSE Null
    /\ IF \E i \in 1..n : loaded[i].parentId = 0
       THEN h.root \in 1..n /\ loaded[h.root].parentId = 0
       ELSE h.root = Null

\* A record has spans of one trace id, linked by their ids.
RecordsLinked ==
    \A k \in DOMAIN log :
        LET record == log[k].spans
        IN /\ Len(record) >= 1
           /\ \A i \in DOMAIN record : spans[record[i]].tid = spans[record[1]].tid
           /\ LinkedById(Decoded(record), log[k].links, Len(record))

\* The links of n spans.
Trees(n) ==
    [root : {Null} \union 1..n, parent : [1..n -> {Null} \union 1..n],
     firstChild : [1..n -> {Null} \union 1..n],
     nextSibling : [1..n -> {Null} \union 1..n]]

\* The least of the positions S, NULL if there is none.
IsFirst(i, S) == IF S = {} THEN i = Null ELSE i \in S /\ \A j \in S : i <= j

\* The spans that have the same parent as span i and come after it.
LaterSiblings(h, n, i) ==
    {j \in 1..n : h.parent[i] # Null /\ h.parent[j] = h.parent[i] /\ i < j}

\* The lists of children hold the spans with the same parent, in their order.
ListsChildren(h, n) ==
    \A i \in 1..n : /\ IsFirst(h.firstChild[i], {j \in 1..n : h.parent[j] = i})
                    /\ IsFirst(h.nextSibling[i], LaterSiblings(h, n, i))

\* The links of a record have its spans in lists.
RecordsListed ==
    \A k \in DOMAIN log :
        LET n == Len(log[k].spans)
        IN log[k].links \in Trees(n) /\ ListsChildren(log[k].links, n)

\* The log is a list.
LogIsASeq == log \in Seq({log[k] : k \in DOMAIN log})

TreeInv ==
    /\ TypeOK /\ LogIsASeq /\ Numbered /\ RootIsFirst
    /\ DecidedByTrace /\ DecidedByCause /\ IdsOfCause
    /\ RecordsLinked /\ RecordsListed

-----------------------------------------------------------------------------
(* Types. *)

TraceValues == [proc : Procs, id : 1..MaxTraces, sampled : BOOLEAN]

\* Spans of the first m traces, made under one of the first n spans.
SpanValues(m, n) ==
    [trace : 1..m, tid : 1..MaxTraces, id : 1..MaxSpans,
     parentId : {0} \union 1..MaxSpans, sampled : BOOLEAN,
     name : {kind.name : kind \in Kinds}, dur : {kind.dur : kind \in Kinds},
     cause : {Null} \union 1..n]

Links(n) ==
    [root : {Null}, parent : [1..n -> {Null} \union 1..n],
     firstChild : [1..n -> {Null} \union 1..n],
     nextSibling : [1..n -> {Null} \union 1..n]]

Lives(m, n) ==
    [roots : [1..m -> {Null} \union 1..n], links : Links(n)]

\* The type invariant for m traces and n spans.
LEMMA Types ==
  /\ TypeOK <=>
        /\ nextTrace \in [Procs -> Nat \ {0}] /\ nextSpan \in [Procs -> Nat \ {0}]
        /\ traces \in Seq(TraceValues)
        /\ spans \in Seq(SpanValues(Len(traces), Len(spans)))
        /\ live \in Lives(Len(traces), Len(spans))
        /\ \A k \in DOMAIN log : log[k].spans \in Seq(1..Len(spans))
<1>1. traces \in Seq(TraceValues) => DOMAIN traces = 1..Len(traces)
  BY LenProperties
<1> QED
  BY <1>1 DEF TypeOK, TraceValues, SpanValues, Links, Lives

LEMMA Lengths ==
  ASSUME TypeOK
  PROVE  /\ Len(traces) \in Nat /\ DOMAIN traces = 1..Len(traces)
         /\ Len(spans) \in Nat /\ DOMAIN spans = 1..Len(spans)
         /\ \A t \in DOMAIN traces : traces[t] \in TraceValues
         /\ \A s \in DOMAIN spans : spans[s] \in SpanValues(Len(traces), Len(spans))
BY Types, LenProperties, ElementOfSeq

LEMMA LinksGrow ==
  ASSUME NEW n \in Nat, NEW h \in Links(n)
  PROVE  Grown(h) \in Links(n + 1)
<1> DEFINE N == {Null} \union 1..n
           M == {Null} \union 1..n + 1
<1>1. ASSUME NEW f \in [1..n -> N] PROVE Append(f, Null) \in [1..n + 1 -> M]
  <2>1. N \subseteq M /\ Null \in M
    OBVIOUS
  <2>2. f \in Seq(M) /\ Len(f) = n
    <3>1. f \in [1..n -> M]
      BY <2>1
    <3>2. f \in Seq(M)
      BY <3>1, SeqDef
    <3>3. DOMAIN f = 1..n
      OBVIOUS
    <3> QED
      BY <3>2, <3>3, LenProperties
  <2> HIDE DEF M, N
  <2>3. Append(f, Null) \in Seq(M) /\ Len(Append(f, Null)) = n + 1
    BY <2>1, <2>2, AppendProperties
  <2> QED
    BY <2>3, LenProperties
<1>2. /\ h.parent \in [1..n -> N] /\ h.firstChild \in [1..n -> N]
      /\ h.nextSibling \in [1..n -> N] /\ h.root = Null
  BY DEF Links
<1>3. /\ Append(h.parent, Null) \in [1..n + 1 -> M]
      /\ Append(h.firstChild, Null) \in [1..n + 1 -> M]
      /\ Append(h.nextSibling, Null) \in [1..n + 1 -> M]
  <2> HIDE DEF M, N
  <2> QED
    BY <1>1, <1>2
<1>4. Grown(h) = [root |-> Null, parent |-> Append(h.parent, Null),
                  firstChild |-> Append(h.firstChild, Null),
                  nextSibling |-> Append(h.nextSibling, Null)]
  <2> DEFINE a == Append(h.parent, Null)
             b == Append(h.firstChild, Null)
             c == Append(h.nextSibling, Null)
  <2>1. Grown(h) = [h EXCEPT !.parent = a, !.firstChild = b, !.nextSibling = c]
    BY Zenon DEF Grown
  <2>2. h \in [root : {Null}, parent : [1..n -> N], firstChild : [1..n -> N],
               nextSibling : [1..n -> N]]
    BY DEF Links
  <2> HIDE DEF a, b, c, N, M
  <2>3. [h EXCEPT !.parent = a, !.firstChild = b, !.nextSibling = c]
          \in [root : {Null}, parent : {a}, firstChild : {b}, nextSibling : {c}]
    BY <2>2
  <2> QED
    BY <2>1, <2>3 DEF a, b, c
<1> QED
  BY <1>3, <1>4 DEF Links

LEMMA ChildAppended ==
  ASSUME NEW n \in Nat, NEW h \in Links(n), NEW p \in 1..n, NEW i \in 1..n
  PROVE  AppendChild(h, p, i) \in Links(n)
<1> DEFINE l == LastSibling(h, h.firstChild[p])
           linked == [h EXCEPT !.parent[i] = p]
<1>1. linked \in Links(n) /\ linked.nextSibling = h.nextSibling
  BY DEF Links
<1> HIDE DEF l, linked
<1>2. [linked EXCEPT !.firstChild[p] = i] \in Links(n)
  BY <1>1 DEF Links
<1>3. [linked EXCEPT !.nextSibling[l] = i] \in Links(n)
  BY <1>1 DEF Links
<1> QED
  BY <1>2, <1>3 DEF AppendChild, linked, l

-----------------------------------------------------------------------------
(* Numbers. *)

\* There are n numbers from 1 to n.
LEMMA UpTo ==
  ASSUME NEW n \in Nat
  PROVE  IsFiniteSet(1..n) /\ Cardinality(1..n) = n
<1>1. IsFiniteSet(1..n) /\ Cardinality(1..n) = IF 1 > n THEN 0 ELSE n - 1 + 1
  BY FS_Interval
<1> QED
  BY <1>1

\* A set of numbers has a least element.
LEMMA LeastElement ==
  ASSUME NEW S, S \subseteq Nat, S # {}
  PROVE  \E m \in S : \A k \in S : m <= k
<1> DEFINE R == StrictSubsetOrdering(Nat)
           T == {1..k : k \in S}
<1>1. IsWellFoundedOn(R, FiniteSubsetsOf(Nat))
  BY FS_StrictSubsetOrderingWellFounded
<1>2. T \subseteq FiniteSubsetsOf(Nat) /\ T # {}
  <2>1. ASSUME NEW k \in S PROVE 1..k \in FiniteSubsetsOf(Nat)
    <3>1. IsFiniteSet(1..k) /\ 1..k \subseteq Nat
      BY FS_Interval
    <3> QED
      BY <3>1 DEF FiniteSubsetsOf
  <2> QED
    BY <2>1
<1>3. PICK x \in T : \A y \in T : ~(<<y, x>> \in R)
  <2> HIDE DEF R, T
  <2> QED
    BY <1>1, <1>2, WFMin
<1>4. PICK m \in S : x = 1..m
  OBVIOUS
<1>5. ASSUME NEW k \in S, k < m PROVE FALSE
  <2>1. 1..k \in SUBSET Nat /\ 1..m \in SUBSET Nat
    OBVIOUS
  <2>2. 1..k \subseteq 1..m /\ m \in 1..m /\ m \notin 1..k
    BY <1>5
  <2>3. <<1..k, 1..m>> \in R
    BY <2>1, <2>2 DEF StrictSubsetOrdering
  <2> QED
    BY <1>3, <1>4, <2>3
<1> QED
  BY <1>5

\* What holds of 0 and with each number below n of the next holds up to n.
LEMMA OneByOne ==
  ASSUME NEW n \in Nat, NEW S, 0 \in S, \A k \in 0..n - 1 : k \in S => k + 1 \in S
  PROVE  0..n \subseteq S
<1> DEFINE T == (0..n) \ S
<1>1. SUFFICES ASSUME T # {} PROVE FALSE
  OBVIOUS
<1>2. T \subseteq Nat
  OBVIOUS
<1>3. PICK m \in T : \A k \in T : m <= k
  <2> HIDE DEF T
  <2> QED
    BY <1>1, <1>2, LeastElement
<1>4. m \in 0..n /\ m # 0 /\ m \notin S
  OBVIOUS
<1>5. m - 1 \in 0..n - 1 /\ m - 1 \in 0..n /\ ~(m <= m - 1) /\ (m - 1) + 1 = m
  BY <1>4
<1>6. m - 1 \in S
  BY <1>3, <1>5
<1> QED
  BY <1>4, <1>5, <1>6

-----------------------------------------------------------------------------
(* The links the reader makes. *)

\* What find_span_by_id returns.
LEMMA FirstWithId ==
  ASSUME NEW n \in Nat, NEW loaded, DOMAIN loaded = 1..n, NEW id
  PROVE  /\ FindSpanById(loaded, id) \in {Null} \union 1..n
         /\ FindSpanById(loaded, id) # Null =>
               loaded[FindSpanById(loaded, id)].id = id
         /\ FindSpanById(loaded, id) = Null => \A i \in 1..n : loaded[i].id # id
<1> DEFINE found == {i \in DOMAIN loaded : loaded[i].id = id}
<1>1. CASE found = {}
  <2>1. FindSpanById(loaded, id) = Null
    BY <1>1 DEF FindSpanById
  <2> QED
    BY <1>1, <2>1
<1>2. CASE found # {}
  <2>1. FindSpanById(loaded, id) = Min(found)
    BY <1>2 DEF FindSpanById
  <2>2. found \subseteq Nat
    OBVIOUS
  <2>3. Min(found) \in found
    <3> HIDE DEF found
    <3>1. \E m \in found : \A k \in found : m <= k
      BY <1>2, <2>2, LeastElement
    <3> QED
      BY <3>1 DEF Min
  <2> QED
    BY <2>1, <2>3 DEF Null
<1> QED
  BY <1>1, <1>2

\* One round of rebuild_hierarchy's loop.
LEMMA SpanLinked ==
  ASSUME NEW n \in Nat, NEW loaded, DOMAIN loaded = 1..n, NEW h \in Trees(n),
         NEW i \in 1..n, LinkedById(loaded, h, i - 1)
  PROVE  /\ LinkSpan(loaded, h, i) \in Trees(n)
         /\ LinkedById(loaded, LinkSpan(loaded, h, i), i)
<1> DEFINE N == {Null} \union 1..n
           p == FindSpanById(loaded, loaded[i].parentId)
           g == LinkSpan(loaded, h, i)
           orphan(j) == loaded[j].parentId = 0
<1>1. p \in N
  BY FirstWithId
<1>2. /\ h.root \in N /\ h.parent \in [1..n -> N]
      /\ h \in [root : {h.root}, parent : {h.parent},
               firstChild : [1..n -> N], nextSibling : [1..n -> N]]
  BY DEF Trees
<1>3. \A j \in 1..n : (j <= i - 1 \/ j = i \/ i < j) /\ ~(i <= i - 1)
  OBVIOUS
<1>4. /\ \A j \in 1..i : j \in 1..i - 1 \/ j = i
      /\ \A j \in 1..i - 1 : j \in 1..i /\ j \in 1..n
      /\ i \in 1..i
  OBVIOUS
<1>5. h.parent[i] = Null /\ \A j \in 1..n :
        h.parent[j] = IF j <= i - 1 THEN ParentById(loaded, j) ELSE Null
  BY <1>3 DEF LinkedById
<1>6. IF \E j \in 1..i - 1 : orphan(j) THEN h.root \in 1..i - 1 /\ orphan(h.root)
                                       ELSE h.root = Null
  BY DEF LinkedById
<1>7. CASE orphan(i)
  <2>1. g = SetRoot(h, i)
    BY <1>7 DEF LinkSpan
  <2>2. /\ g \in Trees(n) /\ g.parent = h.parent
        /\ g.root = IF h.root = Null THEN i ELSE h.root
    <3> HIDE DEF g
    <3> QED
      BY <2>1, <1>2 DEF SetRoot, Trees
  <2> HIDE DEF g
  <2>3. \A j \in 1..n : g.parent[j] = IF j <= i THEN ParentById(loaded, j) ELSE Null
    BY <1>3, <1>5, <1>7, <2>2 DEF ParentById
  <2>4. g.root \in 1..i /\ orphan(g.root)
    BY <1>4, <1>6, <1>7, <2>2
  <2>5. \E j \in 1..i : orphan(j)
    BY <1>4, <1>7
  <2>6. LinkedById(loaded, g, i)
    BY <2>3, <2>4, <2>5 DEF LinkedById
  <2> QED
    BY <2>2, <2>6 DEF g
<1>8. CASE ~orphan(i)
  <2>1. /\ g \in Trees(n) /\ g.root = h.root
        /\ \A j \in 1..n : g.parent[j] = IF j = i THEN p ELSE h.parent[j]
    <3>1. CASE p = Null
      <4>1. g = h
        BY <1>8, <3>1 DEF LinkSpan
      <4> HIDE DEF g, p
      <4> QED
        BY <1>5, <3>1, <4>1
    <3>2. CASE p # Null
      <4> DEFINE l == LastSibling(h, h.firstChild[p])
                 linked == [h EXCEPT !.parent[i] = p]
      <4>1. g = AppendChild(h, p, i)
        BY <1>8, <3>2 DEF LinkSpan
      <4>2. g = IF h.firstChild[p] = Null THEN [linked EXCEPT !.firstChild[p] = i]
                ELSE [linked EXCEPT !.nextSibling[l] = i]
        BY <4>1 DEF AppendChild
      <4> HIDE DEF g, p, l
      <4>3. /\ linked \in Trees(n) /\ linked.root = h.root
            /\ \A j \in 1..n : linked.parent[j] = IF j = i THEN p ELSE h.parent[j]
        BY <1>1, <1>2 DEF Trees
      <4> HIDE DEF linked
      <4>4. /\ [linked EXCEPT !.firstChild[p] = i] \in Trees(n)
            /\ [linked EXCEPT !.firstChild[p] = i].parent = linked.parent
            /\ [linked EXCEPT !.firstChild[p] = i].root = linked.root
        BY <4>3 DEF Trees
      <4>5. /\ [linked EXCEPT !.nextSibling[l] = i] \in Trees(n)
            /\ [linked EXCEPT !.nextSibling[l] = i].parent = linked.parent
            /\ [linked EXCEPT !.nextSibling[l] = i].root = linked.root
        BY <4>3 DEF Trees
      <4> QED
        BY <4>2, <4>3, <4>4, <4>5
    <3> QED
      BY <3>1, <3>2
  <2>2. p = ParentById(loaded, i)
    BY <1>8 DEF ParentById
  <2> HIDE DEF g, p
  <2>3. \A j \in 1..n : g.parent[j] = IF j <= i THEN ParentById(loaded, j) ELSE Null
    BY <1>3, <1>5, <2>1, <2>2
  <2>4. (\E j \in 1..i : orphan(j)) <=> (\E j \in 1..i - 1 : orphan(j))
    BY <1>4, <1>8
  <2>5. IF \E j \in 1..i : orphan(j) THEN g.root \in 1..i /\ orphan(g.root)
                                     ELSE g.root = Null
    BY <1>4, <1>6, <2>1, <2>4
  <2>6. LinkedById(loaded, g, i)
    BY <2>3, <2>5 DEF LinkedById
  <2> QED
    BY <2>1, <2>6 DEF g
<1> QED
  BY <1>7, <1>8

\* The loop to the end of a list of children.
LEMMA EndOfList ==
  ASSUME NEW n \in Nat, NEW h \in Trees(n), ListsChildren(h, n),
         NEW c \in 1..n, h.parent[c] # Null
  PROVE  LET l == LastSibling(h, c)
         IN /\ l \in 1..n /\ h.parent[l] = h.parent[c]
            /\ \A j \in 1..n : h.parent[j] = h.parent[c] => j <= l
<1> DEFINE next == h.nextSibling
           step(f, i) == IF next[i] = Null THEN i ELSE f[next[i]]
           P(k) == \E f : /\ f = [i \in 1..n |-> f[i]]
                          /\ \A i \in 1..n : n - k < i => f[i] = step(f, i)
           last == CHOOSE f : f = [i \in DOMAIN next |-> step(f, i)]
<1>1. /\ next \in [1..n -> {Null} \union 1..n] /\ h.parent \in [1..n -> {Null} \union 1..n]
      /\ DOMAIN next = 1..n
  BY DEF Trees
<1>2. ASSUME NEW i \in 1..n, next[i] # Null
      PROVE  next[i] \in 1..n /\ i < next[i] /\ h.parent[next[i]] = h.parent[i]
  BY <1>2 DEF ListsChildren, IsFirst, LaterSiblings
<1>3. ASSUME NEW i \in 1..n, next[i] = Null, h.parent[i] # Null,
             NEW j \in 1..n, h.parent[j] = h.parent[i]
      PROVE  j <= i
  <2>1. j \notin LaterSiblings(h, n, i)
    BY <1>3 DEF ListsChildren, IsFirst, LaterSiblings, Null
  <2> QED
    BY <1>3, <2>1 DEF LaterSiblings
<1>4. LastSibling(h, c) = last[c]
  BY Zenon DEF LastSibling
<1> HIDE DEF next
<1>5. P(0)
  <2> DEFINE f == [i \in 1..n |-> 0]
  <2>1. f = [i \in 1..n |-> f[i]] /\ \A i \in 1..n : n - 0 < i => f[i] = step(f, i)
    OBVIOUS
  <2> HIDE DEF f
  <2> QED
    BY <2>1
<1>6. ASSUME NEW k \in 0..n - 1, P(k) PROVE P(k + 1)
  <2> PICK f : f = [i \in 1..n |-> f[i]] /\ \A i \in 1..n : n - k < i => f[i] = step(f, i)
    BY <1>6
  <2> DEFINE g == [i \in 1..n |-> IF n - k < i THEN f[i] ELSE step(f, i)]
  <2>1. g = [i \in 1..n |-> g[i]]
    OBVIOUS
  <2>2. ASSUME NEW i \in 1..n, n - (k + 1) < i PROVE g[i] = step(g, i)
    <3>1. g[i] = step(f, i)
      BY <2>2
    <3>2. next[i] # Null => next[i] \in 1..n /\ n - k < next[i]
      BY <1>2, <2>2
    <3>3. next[i] # Null => g[next[i]] = f[next[i]]
      BY <3>2
    <3> HIDE DEF g
    <3> QED
      BY <3>1, <3>3
  <2> HIDE DEF g
  <2> QED
    BY <2>1, <2>2
<1>7. P(n)
  <2> DEFINE S == {k \in 0..n : P(k)}
  <2> HIDE DEF P
  <2>1. 0 \in S /\ \A k \in 0..n - 1 : k \in S => k + 1 \in S
    BY <1>5, <1>6
  <2>2. 0..n \subseteq S
    <3> HIDE DEF S
    <3> QED
      BY <2>1, OneByOne
  <2> QED
    BY <2>2
<1>8. last = [i \in 1..n |-> step(last, i)]
  <2> PICK f : f = [i \in 1..n |-> f[i]] /\ \A i \in 1..n : n - n < i => f[i] = step(f, i)
    BY <1>7
  <2>1. f = [i \in 1..n |-> step(f, i)]
    OBVIOUS
  <2> QED
    BY <1>1, <2>1
<1> HIDE DEF last
<1> DEFINE T(i) == /\ last[i] \in 1..n /\ h.parent[last[i]] = h.parent[i]
                   /\ \A j \in 1..n : h.parent[j] = h.parent[i] => j <= last[i]
           S == {k \in 0..n : \A i \in 1..n : n - k < i /\ h.parent[i] # Null => T(i)}
<1>9. 0 \in S
  OBVIOUS
<1>10. ASSUME NEW k \in 0..n - 1, k \in S PROVE k + 1 \in S
  <2> SUFFICES ASSUME NEW i \in 1..n, n - (k + 1) < i, h.parent[i] # Null PROVE T(i)
    OBVIOUS
  <2>1. last[i] = step(last, i)
    BY <1>8
  <2>2. CASE next[i] = Null
    BY <1>3, <2>1, <2>2
  <2>3. CASE next[i] # Null
    <3>1. next[i] \in 1..n /\ n - k < next[i] /\ h.parent[next[i]] = h.parent[i]
      BY <1>2, <2>3
    <3>2. T(next[i])
      BY <1>10, <3>1
    <3> QED
      BY <2>1, <2>3, <3>1, <3>2
  <2> QED
    BY <2>2, <2>3
<1>11. 0..n \subseteq S
  <2> HIDE DEF S
  <2> QED
    BY <1>9, <1>10, OneByOne
<1>12. T(c)
  <2>1. n \in S
    BY <1>11
  <2> QED
    BY <2>1
<1> QED
  BY <1>4, <1>12

\* One round of rebuild_hierarchy's loop: a span is later than all linked
\* before and goes to the end of its parent's list.
LEMMA SpanListed ==
  ASSUME NEW n \in Nat, NEW loaded, DOMAIN loaded = 1..n, NEW h \in Trees(n),
         NEW i \in 1..n, LinkedById(loaded, h, i - 1), ListsChildren(h, n)
  PROVE  ListsChildren(LinkSpan(loaded, h, i), n)
<1> DEFINE N == {Null} \union 1..n
           p == FindSpanById(loaded, loaded[i].parentId)
           g == LinkSpan(loaded, h, i)
           Kids(f, q) == {j \in 1..n : f.parent[j] = q}
<1>1. p \in N
  BY FirstWithId
<1>2. /\ h.root \in N /\ h.parent \in [1..n -> N]
      /\ h.firstChild \in [1..n -> N] /\ h.nextSibling \in [1..n -> N]
      /\ h \in [root : {h.root}, parent : {h.parent},
               firstChild : {h.firstChild}, nextSibling : {h.nextSibling}]
  BY DEF Trees
<1>3. \A j \in 1..n : i <= j => h.parent[j] = Null
  <2>1. ASSUME NEW j \in 1..n, i <= j PROVE h.parent[j] = Null
    <3>1. ~(j <= i - 1)
      BY <2>1
    <3> QED
      BY <3>1 DEF LinkedById
  <2> QED
    BY <2>1
<1>4. ASSUME NEW q \in 1..n
      PROVE  /\ IsFirst(h.firstChild[q], Kids(h, q))
             /\ IsFirst(h.nextSibling[q], LaterSiblings(h, n, q))
  BY DEF ListsChildren
<1>5. CASE g.parent = h.parent /\ g.firstChild = h.firstChild /\ g.nextSibling = h.nextSibling
  <2> HIDE DEF g
  <2> SUFFICES ASSUME NEW q \in 1..n
               PROVE  /\ IsFirst(g.firstChild[q], {j \in 1..n : g.parent[j] = q})
                      /\ IsFirst(g.nextSibling[q], LaterSiblings(g, n, q))
    BY Zenon DEF ListsChildren, g
  <2>1. LaterSiblings(g, n, q) = LaterSiblings(h, n, q)
    BY <1>5 DEF LaterSiblings
  <2> QED
    BY <1>4, <1>5, <2>1
<1>6. CASE loaded[i].parentId # 0 /\ p # Null
  <2> DEFINE l == LastSibling(h, h.firstChild[p])
             par == [h.parent EXCEPT ![i] = p]
  <2>1. g = AppendChild(h, p, i)
    BY <1>6 DEF LinkSpan
  <2>2. g.parent = par
        /\ IF h.firstChild[p] = Null
           THEN /\ g.firstChild = [h.firstChild EXCEPT ![p] = i]
                /\ g.nextSibling = h.nextSibling
           ELSE /\ g.firstChild = h.firstChild
                /\ g.nextSibling = [h.nextSibling EXCEPT ![l] = i]
    <3> HIDE DEF l, g, p
    <3> USE DEF l
    <3>1. g = IF h.firstChild[p] = Null
              THEN [[h EXCEPT !.parent[i] = p] EXCEPT !.firstChild[p] = i]
              ELSE [[h EXCEPT !.parent[i] = p] EXCEPT !.nextSibling[l] = i]
      BY <2>1 DEF AppendChild
    <3> HIDE DEF l
    <3> QED
      BY <1>2, <3>1
  <2>3. p \in 1..n
    BY <1>1, <1>6
  <2>4. /\ \A j \in 1..n : par[j] = IF j = i THEN p ELSE h.parent[j]
        /\ h.parent[i] = Null /\ par[i] = p
    BY <1>2, <1>3
  <2>5. \A q \in 1..n : Kids(g, q) = IF q = p THEN Kids(h, q) \union {i} ELSE Kids(h, q)
    <3> SUFFICES ASSUME NEW q \in 1..n
                 PROVE  {j \in 1..n : par[j] = q}
                         = IF q = p THEN Kids(h, q) \union {i} ELSE Kids(h, q)
      BY <2>2
    <3> HIDE DEF par, p
    <3> QED
      BY <2>4 DEF Null
  <2>6. \A j \in 1..n : h.parent[j] # Null => j < i
    BY <1>3
  <2>7. ASSUME NEW q \in 1..n
        PROVE  LaterSiblings(g, n, q)
                = IF h.parent[q] = p THEN LaterSiblings(h, n, q) \union {i}
                  ELSE LaterSiblings(h, n, q)
    <3>1. LaterSiblings(g, n, q)
           = {j \in 1..n : par[q] # Null /\ par[j] = par[q] /\ q < j}
      BY <2>2 DEF LaterSiblings
    <3>2. CASE q = i
      <4>1. ASSUME NEW j \in 1..n, i < j PROVE par[j] = Null
        BY <1>3, <2>4, <4>1
      <4>2. LaterSiblings(g, n, q) = {}
        <5> HIDE DEF par, g, p
        <5> QED
          BY <3>1, <3>2, <4>1
      <4>3. LaterSiblings(h, n, q) = {} /\ h.parent[q] # p
        BY <2>3, <2>4, <3>2 DEF LaterSiblings, Null
      <4> QED
        BY <4>2, <4>3
    <3>3. CASE q # i
      <4>1. par[q] = h.parent[q]
        BY <2>4, <3>3
      <4>2. CASE h.parent[q] = p
        <5>1. q < i
          BY <2>3, <2>6, <4>2 DEF Null
        <5> HIDE DEF par, g, p
        <5> QED
          BY <2>3, <2>4, <3>1, <4>1, <4>2, <5>1 DEF LaterSiblings, Null
      <4>3. CASE h.parent[q] # p
        <5> HIDE DEF par, g, p
        <5> QED
          BY <2>3, <2>4, <3>1, <4>1, <4>3 DEF LaterSiblings, Null
      <4> QED
        BY <4>2, <4>3
    <3> QED
      BY <3>2, <3>3
  <2>8. ASSUME NEW q \in 1..n PROVE IsFirst(g.firstChild[q], Kids(g, q))
    <3>1. CASE q # p
      <4>1. g.firstChild[q] = h.firstChild[q]
        BY <1>2, <2>2, <3>1
      <4> QED
        BY <1>4, <2>5, <3>1, <4>1
    <3>2. CASE q = p /\ h.firstChild[p] = Null
      <4>1. g.firstChild[q] = i
        BY <1>2, <2>2, <2>3, <3>2
      <4>2. Kids(h, q) = {}
        BY <1>4, <3>2 DEF IsFirst, Null
      <4>3. Kids(g, q) = {i}
        BY <2>5, <3>2, <4>2
      <4> HIDE DEF Kids, g
      <4> QED
        BY <4>1, <4>3 DEF IsFirst
    <3>3. CASE q = p /\ h.firstChild[p] # Null
      <4>1. g.firstChild[q] = h.firstChild[q]
        BY <1>2, <2>2, <3>3
      <4>2. h.firstChild[q] \in Kids(h, q) /\ \A j \in Kids(h, q) : h.firstChild[q] <= j
        BY <1>4, <3>3 DEF IsFirst
      <4>3. h.firstChild[q] < i
        BY <2>3, <2>6, <3>3, <4>2 DEF Null
      <4>4. Kids(g, q) = Kids(h, q) \union {i}
        BY <2>5, <3>3
      <4>5. h.firstChild[q] \in Nat
        BY <4>2
      <4> HIDE DEF Kids, g
      <4> QED
        BY <4>1, <4>2, <4>3, <4>4, <4>5 DEF IsFirst
    <3> QED
      BY <3>1, <3>2, <3>3
  <2>9. ASSUME NEW q \in 1..n PROVE IsFirst(g.nextSibling[q], LaterSiblings(g, n, q))
    <3>1. CASE h.firstChild[p] = Null
      <4>1. Kids(h, p) = {}
        BY <1>4, <2>3, <3>1 DEF IsFirst, Null
      <4>2. h.parent[q] # p
        BY <4>1
      <4>3. g.nextSibling[q] = h.nextSibling[q]
        BY <2>2, <3>1
      <4> HIDE DEF g, p
      <4> QED
        BY <1>4, <2>7, <4>2, <4>3
    <3>2. CASE h.firstChild[p] # Null
      <4> DEFINE c == h.firstChild[p]
      <4>1. c \in 1..n /\ h.parent[c] = p
        BY <1>4, <2>3, <3>2 DEF IsFirst
      <4>2. /\ l \in 1..n /\ h.parent[l] = p
            /\ \A j \in 1..n : h.parent[j] = p => j <= l
        <5>1. h.parent[c] # Null
          BY <1>6, <4>1
        <5> HIDE DEF c
        <5>2. /\ LastSibling(h, c) \in 1..n
              /\ h.parent[LastSibling(h, c)] = h.parent[c]
              /\ \A j \in 1..n : h.parent[j] = h.parent[c] => j <= LastSibling(h, c)
          BY <4>1, <5>1, EndOfList
        <5> QED
          BY <4>1, <5>2 DEF c
      <4>3. g.nextSibling = [h.nextSibling EXCEPT ![l] = i]
        BY <2>2, <3>2
      <4> HIDE DEF c, l, g
      <4>4. IsFirst(h.nextSibling[q], LaterSiblings(h, n, q))
        BY <1>4
      <4>5. CASE q = l
        <5>1. g.nextSibling[q] = i
          BY <1>2, <4>2, <4>3, <4>5
        <5>2. LaterSiblings(h, n, q) = {}
          BY <4>2, <4>5 DEF LaterSiblings
        <5>3. LaterSiblings(g, n, q) = {i}
          BY <2>7, <4>2, <4>5, <5>2
        <5> QED
          BY <5>1, <5>3 DEF IsFirst
      <4>6. CASE q # l /\ h.parent[q] = p
        <5>1. g.nextSibling[q] = h.nextSibling[q]
          BY <1>2, <4>3, <4>6
        <5>2. l \in LaterSiblings(h, n, q)
          <6>1. q <= l /\ q < l
            BY <4>2, <4>6
          <6> QED
            BY <1>6, <4>2, <4>6, <6>1 DEF LaterSiblings
        <5>3. /\ h.nextSibling[q] \in LaterSiblings(h, n, q)
              /\ \A j \in LaterSiblings(h, n, q) : h.nextSibling[q] <= j
          BY <4>4, <5>2 DEF IsFirst
        <5>4. h.nextSibling[q] \in 1..n /\ h.nextSibling[q] <= i
          <6>1. h.nextSibling[q] \in 1..n /\ h.parent[h.nextSibling[q]] = p
            BY <4>6, <5>3 DEF LaterSiblings
          <6> QED
            BY <1>6, <2>6, <6>1
        <5>5. LaterSiblings(g, n, q) = LaterSiblings(h, n, q) \union {i}
          BY <2>7, <4>6
        <5> QED
          BY <5>1, <5>3, <5>4, <5>5 DEF IsFirst
      <4>7. CASE h.parent[q] # p
        <5>1. g.nextSibling[q] = h.nextSibling[q]
          BY <1>2, <4>2, <4>3, <4>7
        <5> QED
          BY <2>7, <4>4, <4>7, <5>1
      <4> QED
        BY <4>5, <4>6, <4>7
    <3> QED
      BY <3>1, <3>2
  <2> QED
    BY <2>8, <2>9 DEF ListsChildren
<1>7. CASE loaded[i].parentId = 0 \/ p = Null
  <2>1. g = h \/ g = SetRoot(h, i)
    BY <1>7 DEF LinkSpan
  <2> HIDE DEF g, p
  <2>2. g.parent = h.parent /\ g.firstChild = h.firstChild /\ g.nextSibling = h.nextSibling
    BY <1>2, <2>1 DEF SetRoot
  <2> QED
    BY <1>5, <2>2 DEF g
<1> QED
  BY <1>6, <1>7

\* The whole loop.
LEMMA Rebuilt ==
  ASSUME NEW n \in Nat, NEW loaded, DOMAIN loaded = 1..n, Len(loaded) = n
  PROVE  /\ LinkedById(loaded, RebuildHierarchy(loaded), n)
         /\ RebuildHierarchy(loaded) \in Trees(n)
         /\ ListsChildren(RebuildHierarchy(loaded), n)
<1> DEFINE step(f, i) == IF i = 0 THEN Unlinked(n) ELSE LinkSpan(loaded, f[i - 1], i)
           P(k) == \E f : /\ f = [i \in 0..n |-> f[i]]
                          /\ \A i \in 0..k : f[i] = step(f, i)
           linked == CHOOSE f : f = [i \in 0..n |-> step(f, i)]
<1>1. P(0)
  <2> DEFINE f == [i \in 0..n |-> Unlinked(n)]
  <2>1. f = [i \in 0..n |-> f[i]] /\ \A i \in 0..0 : f[i] = step(f, i)
    OBVIOUS
  <2> HIDE DEF f
  <2> QED
    BY <2>1
<1>2. ASSUME NEW k \in 0..n - 1, P(k) PROVE P(k + 1)
  <2> PICK f : f = [i \in 0..n |-> f[i]] /\ \A i \in 0..k : f[i] = step(f, i)
    BY <1>2
  <2> DEFINE g == [i \in 0..n |-> IF i <= k THEN f[i] ELSE step(f, i)]
  <2>1. g = [i \in 0..n |-> g[i]]
    OBVIOUS
  <2>2. ASSUME NEW i \in 0..k + 1 PROVE g[i] = step(g, i)
    <3>1. i \in 0..n /\ (i # 0 => i - 1 \in 0..n /\ i - 1 <= k)
      OBVIOUS
    <3>2. i # 0 => g[i - 1] = f[i - 1]
      BY <3>1
    <3>3. g[i] = step(f, i)
      <4>1. g[i] = IF i <= k THEN f[i] ELSE step(f, i)
        BY <3>1
      <4>2. i <= k => i \in 0..k
        OBVIOUS
      <4> HIDE DEF g, step
      <4> QED
        BY <4>1, <4>2
    <3> HIDE DEF g
    <3> QED
      BY <3>2, <3>3
  <2> HIDE DEF g
  <2> QED
    BY <2>1, <2>2
<1>3. P(n)
  <2> DEFINE S == {k \in 0..n : P(k)}
  <2> HIDE DEF P
  <2>1. 0 \in S /\ \A k \in 0..n - 1 : k \in S => k + 1 \in S
    BY <1>1, <1>2
  <2>2. 0..n \subseteq S
    <3> HIDE DEF S
    <3> QED
      BY <2>1, OneByOne
  <2> QED
    BY <2>2
<1>4. linked = [i \in 0..n |-> step(linked, i)]
  <2> PICK f : f = [i \in 0..n |-> f[i]] /\ \A i \in 0..n : f[i] = step(f, i)
    BY <1>3
  <2>1. f = [i \in 0..n |-> step(f, i)]
    OBVIOUS
  <2> QED
    BY <2>1
<1>5. RebuildHierarchy(loaded) = linked[n]
  BY Zenon DEF RebuildHierarchy
<1> HIDE DEF linked
<1> DEFINE S == {k \in 0..n : /\ linked[k] \in Trees(n) /\ LinkedById(loaded, linked[k], k)
                            /\ ListsChildren(linked[k], n)}
<1>6. 0 \in S
  <2>1. linked[0] = Unlinked(n)
    BY <1>4
  <2>2. Unlinked(n) \in Trees(n) /\ LinkedById(loaded, Unlinked(n), 0)
    BY DEF Unlinked, Trees, LinkedById
  <2>3. ListsChildren(Unlinked(n), n)
    BY DEF Unlinked, ListsChildren, IsFirst, LaterSiblings, Null
  <2> QED
    BY <2>1, <2>2, <2>3
<1>7. ASSUME NEW k \in 0..n - 1, k \in S PROVE k + 1 \in S
  <2>1. k + 1 \in 1..n /\ k + 1 \in 0..n /\ (k + 1) - 1 = k /\ k + 1 # 0
    OBVIOUS
  <2>2. linked[k + 1] = LinkSpan(loaded, linked[k], k + 1)
    BY <1>4, <2>1
  <2>3. /\ LinkSpan(loaded, linked[k], k + 1) \in Trees(n)
        /\ LinkedById(loaded, LinkSpan(loaded, linked[k], k + 1), k + 1)
        /\ ListsChildren(LinkSpan(loaded, linked[k], k + 1), n)
    <3>1. /\ linked[k] \in Trees(n) /\ LinkedById(loaded, linked[k], (k + 1) - 1)
          /\ ListsChildren(linked[k], n)
      BY <1>7, <2>1
    <3> DEFINE i == k + 1
    <3>2. i \in 1..n /\ LinkedById(loaded, linked[k], i - 1)
      BY <2>1, <3>1
    <3> HIDE DEF i
    <3>3. /\ LinkSpan(loaded, linked[k], i) \in Trees(n)
          /\ LinkedById(loaded, LinkSpan(loaded, linked[k], i), i)
          /\ ListsChildren(LinkSpan(loaded, linked[k], i), n)
      BY <3>1, <3>2, SpanLinked, SpanListed
    <3> QED
      BY <3>3 DEF i
  <2> QED
    BY <2>1, <2>2, <2>3
<1>8. 0..n \subseteq S
  <2> HIDE DEF S
  <2> QED
    BY <1>6, <1>7, OneByOne
<1>9. n \in S
  BY <1>8
<1> QED
  BY <1>5, <1>9

-----------------------------------------------------------------------------
(* The steps. *)

\* An element more: what was there stays.
LEMMA Longer ==
  ASSUME NEW S, NEW w \in Seq(S), NEW x \in S
  PROVE  /\ Append(w, x) \in Seq(S) /\ Len(w) \in Nat /\ DOMAIN w = 1..Len(w)
         /\ Len(Append(w, x)) = Len(w) + 1
         /\ DOMAIN Append(w, x) = 1..Len(w) + 1
         /\ \A i \in 1..Len(w) : Append(w, x)[i] = w[i]
         /\ Append(w, x)[Len(w) + 1] = x
BY AppendProperties, LenProperties

\* Spans of fewer traces and spans are spans of more.
LEMMA SpanValuesGrow ==
  ASSUME NEW m \in Nat, NEW n \in Nat, NEW k \in Nat, NEW l \in Nat,
         m <= k, n <= l
  PROVE  SpanValues(m, n) \subseteq SpanValues(k, l)
<1>1. 1..m \subseteq 1..k /\ {Null} \union 1..n \subseteq {Null} \union 1..l
  OBVIOUS
<1> QED
  BY <1>1 DEF SpanValues

\* What is in the log stays linked as it was: its spans are not changed.
LEMMA RecordsKept ==
  ASSUME TypeOK, RecordsLinked, log' = log,
         \A s \in 1..Len(spans) : spans'[s] = spans[s]
  PROVE  RecordsLinked'
<1> SUFFICES ASSUME NEW k \in DOMAIN log'
             PROVE  LET record == log'[k].spans
                    IN /\ Len(record) >= 1
                       /\ \A i \in DOMAIN record :
                             spans'[record[i]].tid = spans'[record[1]].tid
                       /\ LinkedById([i \in DOMAIN record |-> spans'[record[i]]],
                                     log'[k].links, Len(record))
  BY Zenon DEF RecordsLinked, Decoded
<1> DEFINE record == log[k].spans
<1>1. /\ Len(record) >= 1
      /\ \A i \in DOMAIN record : spans[record[i]].tid = spans[record[1]].tid
      /\ LinkedById(Decoded(record), log[k].links, Len(record))
  BY DEF RecordsLinked
<1>2. record \in Seq(1..Len(spans))
  BY Types
<1> HIDE DEF record
<1>3. \A i \in DOMAIN record : record[i] \in 1..Len(spans)
  BY <1>2, ElementOfSeq, LenProperties
<1>4. Len(record) \in Nat /\ DOMAIN record = 1..Len(record)
  BY <1>2, LenProperties
<1>5. 1 \in DOMAIN record
  BY <1>1, <1>4
<1>6. \A i \in DOMAIN record : spans'[record[i]].tid = spans'[record[1]].tid
  BY <1>1, <1>3, <1>5
<1>7. [i \in DOMAIN record |-> spans'[record[i]]] = Decoded(record)
  BY <1>3 DEF Decoded
<1>8. log'[k].spans = record /\ log'[k].links = log[k].links
  BY DEF record
<1> QED
  BY <1>1, <1>6, <1>7, <1>8

\* trace_create.
LEMMA TraceCreateStep ==
  ASSUME TreeInv, TraceCreate
  PROVE  TreeInv'
<1> /\ TypeOK /\ LogIsASeq /\ Numbered /\ RootIsFirst
    /\ DecidedByTrace /\ DecidedByCause /\ IdsOfCause
    /\ RecordsLinked /\ RecordsListed
  BY DEF TreeInv
<1> PICK p \in Procs, yes \in BOOLEAN :
      /\ Len(traces) < MaxTraces
      /\ traces' = Append(traces, [proc |-> p, id |-> nextTrace[p], sampled |-> yes])
      /\ nextTrace' = [nextTrace EXCEPT ![p] = @ + 1]
      /\ live' = [live EXCEPT !.roots = Append(@, Null)]
      /\ nextSpan' = nextSpan /\ spans' = spans /\ log' = log
  BY DEF TraceCreate, CountTrace
<1> DEFINE m == Len(traces)
           n == Len(spans)
           x == [proc |-> p, id |-> nextTrace[p], sampled |-> yes]
<1>1. /\ m \in Nat /\ n \in Nat /\ MaxTraces \in Nat /\ m < MaxTraces
      /\ DOMAIN traces = 1..m /\ DOMAIN spans = 1..n
      /\ nextTrace \in [Procs -> Nat \ {0}]
      /\ traces \in Seq(TraceValues) /\ spans \in Seq(SpanValues(m, n))
  BY Types, Lengths, TreeAssumption
<1>2. x \in TraceValues
  <2>1. nextTrace[p] <= m + 1 /\ nextTrace[p] \in Nat \ {0}
    BY <1>1 DEF Numbered
  <2>2. nextTrace[p] \in 1..MaxTraces
    BY <1>1, <2>1
  <2> QED
    BY <2>2 DEF TraceValues
<1>3. /\ traces' \in Seq(TraceValues) /\ Len(traces') = m + 1
      /\ DOMAIN traces' = 1..m + 1
      /\ \A t \in 1..m : traces'[t] = traces[t]
  <2> HIDE DEF x
  <2>1. traces' = Append(traces, x)
    BY DEF x
  <2> QED
    BY <1>1, <1>2, <2>1, Longer
<1>4. /\ live'.roots \in [1..m + 1 -> {Null} \union 1..n]
      /\ \A t \in 1..m : live'.roots[t] = live.roots[t]
      /\ live'.roots[m + 1] = Null
      /\ live' \in Lives(m + 1, n)
  <2> DEFINE R == live.roots
             N == {Null} \union 1..n
  <2>1. live \in [roots : [1..m -> N], links : Links(n)]
    BY Types DEF Lives
  <2>2. R \in Seq(N) /\ Len(R) = m
    <3>1. R \in [1..m -> N]
      BY <2>1
    <3> HIDE DEF R, N, m
    <3>2. R \in Seq(N)
      BY <1>1, <3>1, SeqDef
    <3>3. DOMAIN R = 1..m
      BY <3>1
    <3> QED
      BY <1>1, <3>2, <3>3, LenProperties
  <2> DEFINE A == Append(R, Null)
  <2>3. live' = [live EXCEPT !.roots = A]
    OBVIOUS
  <2>4. Null \in N
    OBVIOUS
  <2> HIDE DEF R, N, m
  <2>5. /\ A \in Seq(N) /\ DOMAIN A = 1..m + 1
        /\ \A t \in 1..m : A[t] = R[t]
        /\ A[m + 1] = Null
    BY <2>2, <2>4, Longer
  <2>6. A \in [1..m + 1 -> N]
    BY <2>5, ElementOfSeq, LenProperties
  <2> HIDE DEF A
  <2>7. live'.roots = A /\ live' \in [roots : [1..m + 1 -> N], links : Links(n)]
    BY <2>1, <2>3, <2>6
  <2> QED
    BY <2>5, <2>6, <2>7 DEF R, N, Lives
<1>5. TypeOK'
  <2>1. nextTrace' \in [Procs -> Nat \ {0}] /\ nextSpan' \in [Procs -> Nat \ {0}]
    <3>1. nextTrace[p] + 1 \in Nat \ {0}
      BY <1>1
    <3> QED
      BY <1>1, <3>1, Types
  <2>2. spans' \in Seq(SpanValues(Len(traces'), Len(spans')))
    <3>1. SpanValues(m, n) \subseteq SpanValues(m + 1, n)
      <4>1. m + 1 \in Nat /\ m <= m + 1 /\ n <= n /\ m \in Nat /\ n \in Nat
        BY <1>1
      <4> HIDE DEF m, n
      <4> QED
        BY <4>1, SpanValuesGrow
    <3>2. spans \in Seq(SpanValues(m + 1, n))
      BY <1>1, <3>1, SeqMonotonic
    <3> QED
      BY <1>3, <3>2
  <2>3. \A k \in DOMAIN log' : log'[k].spans \in Seq(1..Len(spans'))
    BY Types
  <2>4. live' \in Lives(Len(traces'), Len(spans'))
    BY <1>3, <1>4
  <2> QED
    BY <1>3, <2>1, <2>2, <2>3, <2>4 DEF TypeOK, TraceValues, SpanValues, Lives, Links
<1>6. Numbered'
  <2>1. ASSUME NEW q \in Procs
        PROVE  nextTrace'[q] <= Len(traces') + 1 /\ nextSpan'[q] <= Len(spans') + 1
    <3>1. nextTrace[q] <= m + 1 /\ nextSpan[q] <= n + 1 /\ nextTrace[q] \in Nat
      BY <1>1 DEF Numbered
    <3>2. nextTrace'[q] = IF q = p THEN nextTrace[q] + 1 ELSE nextTrace[q]
      BY <1>1
    <3> QED
      BY <1>1, <1>3, <3>1, <3>2
  <2> QED
    BY <2>1 DEF Numbered
<1>7. \A s \in 1..n : spans[s].trace \in 1..m
  BY <1>1, Lengths DEF SpanValues
<1>8. RootIsFirst'
  <2>1. \A s \in DOMAIN spans' : /\ live'.roots[spans'[s].trace] # Null
                                 /\ live'.roots[spans'[s].trace] <= s
    BY <1>1, <1>4, <1>7 DEF RootIsFirst
  <2>2. ASSUME NEW t \in DOMAIN traces', live'.roots[t] # Null
        PROVE  /\ spans[live'.roots[t]].trace = t
               /\ spans[live'.roots[t]].cause < live'.roots[t]
    <3>1. t \in 1..m
      BY <1>1, <1>3, <1>4, <2>2
    <3> QED
      BY <1>1, <1>4, <2>2, <3>1 DEF RootIsFirst
  <2> QED
    BY <2>1, <2>2 DEF RootIsFirst
<1>9. DecidedByTrace' /\ DecidedByCause' /\ LogIsASeq'
  BY <1>1, <1>3, <1>7 DEF DecidedByTrace, DecidedByCause, LogIsASeq
<1>10. IdsOfCause'
  BY <1>1, <1>3, <1>7 DEF IdsOfCause
<1>11. RecordsLinked'
  BY RecordsKept
<1>12. RecordsListed'
  BY Zenon DEF RecordsListed
<1> QED
  BY <1>5, <1>6, <1>8, <1>9, <1>10, <1>11, <1>12 DEF TreeInv

\* The links after a span was made: the trace has a root, the new span if it
\* had none.
LEMMA Linked ==
  ASSUME TreeInv, NEW t \in DOMAIN traces, NEW parent \in {Null} \union DOMAIN spans,
         LinkNewSpan(t, parent), parent # Null => live.roots[t] # Null
  PROVE  /\ live' \in Lives(Len(traces), Len(spans) + 1)
         /\ \A u \in DOMAIN traces :
               live'.roots[u] = IF u = t /\ live.roots[t] = Null
                                THEN Len(spans) + 1 ELSE live.roots[u]
<1> DEFINE m == Len(traces)
           n == Len(spans)
           s == n + 1
           M == {Null} \union 1..s
           R == live.roots
           G == Grown(live.links)
           A == AppendChild(G, parent, s)
           B == [R EXCEPT ![t] = IF @ = Null THEN s ELSE @]
<1>1. /\ m \in Nat /\ n \in Nat /\ DOMAIN traces = 1..m /\ DOMAIN spans = 1..n
      /\ live \in Lives(m, n)
  BY Types, Lengths DEF TreeInv
<1>2. /\ live \in [roots : [1..m -> M], links : Links(n)] /\ R \in [1..m -> M]
      /\ live.links \in Links(n) /\ s \in M /\ s \in 1..s /\ s \in Nat /\ t \in 1..m
  <2>1. {Null} \union 1..n \subseteq M
    BY <1>1
  <2>2. [1..m -> {Null} \union 1..n] \subseteq [1..m -> M]
    BY <2>1
  <2>3. live \in [roots : [1..m -> M], links : Links(n)]
    BY <1>1, <2>2 DEF Lives
  <2> QED
    BY <1>1, <2>3
<1>3. G \in Links(s)
  BY <1>1, <1>2, LinksGrow
<1>4. CASE parent # Null
  <2>1. live' = [live EXCEPT !.links = A]
    BY <1>4 DEF LinkNewSpan
  <2>2. A \in Links(s)
    <3>1. parent \in 1..s
      BY <1>1, <1>4
    <3> HIDE DEF G, s
    <3> QED
      BY <1>2, <1>3, <3>1, ChildAppended
  <2> HIDE DEF A, M, s
  <2>3. live' \in [roots : [1..m -> M], links : Links(s)] /\ live'.roots = R
    BY <1>2, <2>1, <2>2
  <2> QED
    BY <1>4, <2>3 DEF Lives, M, s
<1>5. CASE parent = Null
  <2>1. live' = [live EXCEPT !.links = G, !.roots = B]
    BY <1>5 DEF LinkNewSpan
  <2>2. /\ B \in [1..m -> M]
        /\ \A u \in 1..m : B[u] = IF u = t /\ R[t] = Null THEN s ELSE R[u]
    <3> HIDE DEF R, M, s
    <3> QED
      BY <1>2
  <2> HIDE DEF B, G, M, s
  <2>3. live' \in [roots : [1..m -> M], links : Links(s)] /\ live'.roots = B
    BY <1>2, <1>3, <2>1, <2>2
  <2> QED
    BY <1>1, <2>2, <2>3 DEF Lives, M, s
<1> QED
  BY <1>4, <1>5

\* What span_create and span_create_from_context have in common: a span of
\* trace_t t, made under `cause`, with the decision t has now.
LEMMA SpanMade ==
  ASSUME TreeInv, NEW t \in DOMAIN traces, NEW cause \in {Null} \union DOMAIN spans,
         NEW parent \in {Null} \union DOMAIN spans,
         NEW parentId \in {0} \union 1..MaxSpans,
         Len(spans) < MaxSpans, traces' \in Seq(TraceValues),
         Len(traces') = Len(traces),
         \A u \in DOMAIN traces : u # t => traces'[u] = traces[u],
         (\E s \in DOMAIN spans : spans[s].trace = t) => traces'[t] = traces[t],
         CountSpan(traces[t].proc), traces'[t].proc = traces[t].proc,
         NewSpan(t, traces'[t], parentId, cause), LinkNewSpan(t, parent),
         nextTrace' = nextTrace, log' = log,
         parent # Null => spans[parent].trace = t,
         parentId = IF cause = Null THEN 0 ELSE spans[cause].id,
         cause # Null => /\ spans[cause].sampled = traces'[t].sampled
                         /\ spans[cause].tid = traces'[t].id
  PROVE  TreeInv'
<1> /\ TypeOK /\ LogIsASeq /\ Numbered /\ RootIsFirst
    /\ DecidedByTrace /\ DecidedByCause /\ IdsOfCause
    /\ RecordsLinked /\ RecordsListed
  BY DEF TreeInv
<1> DEFINE m == Len(traces)
           n == Len(spans)
           p == traces[t].proc
<1>1. /\ m \in Nat /\ n \in Nat /\ MaxSpans \in Nat /\ n < MaxSpans
      /\ DOMAIN traces = 1..m /\ DOMAIN spans = 1..n
      /\ nextSpan \in [Procs -> Nat \ {0}] /\ p \in Procs /\ t \in 1..m
      /\ spans \in Seq(SpanValues(m, n))
      /\ DOMAIN traces' = 1..m /\ traces'[t] \in TraceValues
  <2>1. p \in Procs
    BY Lengths DEF TraceValues
  <2>2. DOMAIN traces' = 1..m /\ DOMAIN traces = 1..m
    BY LenProperties, Lengths
  <2>3. traces'[t] \in TraceValues
    BY <2>2, ElementOfSeq, LenProperties
  <2> QED
    BY <2>1, <2>2, <2>3, Types, Lengths, TreeAssumption
<1>2. \A s \in 1..n : spans[s].trace \in 1..m /\ spans[s].cause \in {Null} \union 1..n
  BY <1>1, Lengths DEF SpanValues
<1> PICK kind \in Kinds :
      spans' = Append(spans,
                 [trace |-> t, tid |-> traces'[t].id, id |-> nextSpan[traces'[t].proc],
                  parentId |-> parentId, sampled |-> traces'[t].sampled,
                  name |-> kind.name, dur |-> kind.dur, cause |-> cause])
  BY DEF NewSpan
<1> DEFINE x == [trace |-> t, tid |-> traces'[t].id, id |-> nextSpan[p],
                 parentId |-> parentId, sampled |-> traces'[t].sampled,
                 name |-> kind.name, dur |-> kind.dur, cause |-> cause]
<1>3. x \in SpanValues(m, n) /\ spans' = Append(spans, x)
  <2>1. nextSpan[p] \in 1..MaxSpans
    <3>1. nextSpan[p] <= n + 1 /\ nextSpan[p] \in Nat \ {0}
      BY <1>1 DEF Numbered
    <3> QED
      BY <1>1, <3>1
  <2>2. traces'[t].id \in 1..MaxTraces /\ traces'[t].sampled \in BOOLEAN
    BY <1>1 DEF TraceValues
  <2>3. cause \in {Null} \union 1..n
    BY <1>1
  <2> QED
    BY <1>1, <2>1, <2>2, <2>3 DEF SpanValues
<1>4. /\ x.trace = t /\ x.sampled = traces'[t].sampled /\ x.cause = cause
      /\ x.tid = traces'[t].id /\ x.parentId = parentId
  OBVIOUS
<1> HIDE DEF x
<1>5. /\ spans' \in Seq(SpanValues(m, n)) /\ Len(spans') = n + 1
      /\ DOMAIN spans' = 1..n + 1 /\ \A s \in 1..n : spans'[s] = spans[s]
      /\ spans'[n + 1] = x
  BY <1>1, <1>3, Longer
<1>15. ASSUME NEW s \in DOMAIN spans' PROVE s \in 1..n \/ s = n + 1
  <2>1. s \in 1..n + 1
    BY <1>5
  <2> QED
    BY <1>1, <2>1
<1>6. parent # Null => live.roots[t] # Null
  BY <1>1 DEF RootIsFirst
<1>7. /\ live' \in Lives(m, n + 1)
      /\ \A u \in 1..m : live'.roots[u] = IF u = t /\ live.roots[t] = Null
                                          THEN n + 1 ELSE live.roots[u]
  BY <1>1, <1>6, Linked
<1> USE DEF Null
<1>8. TypeOK'
  <2>1. nextSpan' \in [Procs -> Nat \ {0}] /\ nextTrace' \in [Procs -> Nat \ {0}]
    <3>1. nextSpan[p] + 1 \in Nat \ {0}
      BY <1>1
    <3> QED
      BY <1>1, <3>1, Types DEF CountSpan
  <2>2. spans' \in Seq(SpanValues(Len(traces'), Len(spans')))
    <3>1. SpanValues(m, n) \subseteq SpanValues(m, n + 1)
      <4>1. n + 1 \in Nat /\ n <= n + 1 /\ m <= m /\ m \in Nat /\ n \in Nat
        BY <1>1
      <4> HIDE DEF m, n
      <4> QED
        BY <4>1, SpanValuesGrow
    <3>2. spans' \in Seq(SpanValues(m, n + 1))
      BY <1>5, <3>1, SeqMonotonic
    <3> QED
      BY <1>5, <3>2
  <2>3. \A k \in DOMAIN log' : log'[k].spans \in Seq(1..Len(spans'))
    <3>1. 1..n \subseteq 1..n + 1
      BY <1>1
    <3>2. \A k \in DOMAIN log : log[k].spans \in Seq(1..n)
      BY Types
    <3>3. \A k \in DOMAIN log : log[k].spans \in Seq(1..n + 1)
      BY <3>1, <3>2, SeqMonotonic
    <3> QED
      BY <1>5, <3>3
  <2>4. live' \in Lives(Len(traces'), Len(spans'))
    BY <1>5, <1>7
  <2>5. 1..Len(traces') = DOMAIN traces'
    BY <1>1
  <2>6. spans' \in Seq([trace : DOMAIN traces', tid : 1..MaxTraces, id : 1..MaxSpans,
                        parentId : {0} \union 1..MaxSpans, sampled : BOOLEAN,
                        name : {k.name : k \in Kinds}, dur : {k.dur : k \in Kinds},
                        cause : {Null} \union 1..Len(spans')])
    BY <2>2, <2>5 DEF SpanValues
  <2>7. live' \in [roots : [DOMAIN traces' -> {Null} \union 1..Len(spans')],
                   links : Links(Len(spans'))]
    BY <2>4, <2>5 DEF Lives
  <2> QED
    BY <2>1, <2>3, <2>6, <2>7 DEF TypeOK, TraceValues, Links
<1>9. Numbered'
  <2>1. ASSUME NEW q \in Procs
        PROVE  nextTrace'[q] <= Len(traces') + 1 /\ nextSpan'[q] <= Len(spans') + 1
    <3>1. nextTrace[q] <= m + 1 /\ nextSpan[q] <= n + 1 /\ nextSpan[q] \in Nat
      BY <1>1 DEF Numbered
    <3>2. nextSpan'[q] = IF q = p THEN nextSpan[q] + 1 ELSE nextSpan[q]
      BY <1>1 DEF CountSpan
    <3> QED
      BY <1>1, <1>5, <3>1, <3>2
  <2> QED
    BY <2>1 DEF Numbered
<1>10. \A u \in 1..m : live.roots[u] \in {Null} \union 1..n
  BY Types DEF Lives
<1>11. RootIsFirst'
  <2>1. ASSUME NEW s \in DOMAIN spans'
        PROVE  /\ live'.roots[spans'[s].trace] # Null
               /\ live'.roots[spans'[s].trace] <= s
    <3>1. CASE s \in 1..n
      <4>1. /\ spans[s].trace \in 1..m /\ live.roots[spans[s].trace] # Null
            /\ live.roots[spans[s].trace] <= s
        BY <1>1, <1>2, <3>1 DEF RootIsFirst
      <4>2. live'.roots[spans[s].trace] = live.roots[spans[s].trace]
        BY <1>7, <4>1
      <4>3. spans'[s] = spans[s]
        BY <1>5, <3>1
      <4> QED
        BY <4>1, <4>2, <4>3
    <3>2. CASE s = n + 1
      <4>1. spans'[s].trace = t
        BY <1>4, <1>5, <3>2
      <4>2. live.roots[t] \in {Null} \union 1..n /\ t \in 1..m
        BY <1>1, <1>10
      <4>3. live'.roots[t] = IF live.roots[t] = Null THEN n + 1 ELSE live.roots[t]
        BY <1>7, <4>2
      <4> QED
        BY <1>1, <3>2, <4>1, <4>2, <4>3
    <3> QED
      BY <1>15, <3>1, <3>2
  <2>2. ASSUME NEW u \in DOMAIN traces', live'.roots[u] # Null
        PROVE  /\ spans'[live'.roots[u]].trace = u
               /\ spans'[live'.roots[u]].cause < live'.roots[u]
    <3>1. CASE u = t /\ live.roots[t] = Null
      <4>1. live'.roots[u] = n + 1 /\ spans'[n + 1] = x
        BY <1>1, <1>5, <1>7, <3>1
      <4>2. cause < n + 1
        BY <1>1
      <4> QED
        BY <1>4, <3>1, <4>1, <4>2
    <3>2. CASE ~(u = t /\ live.roots[t] = Null)
      <4>1. live'.roots[u] = live.roots[u] /\ u \in 1..m
        BY <1>1, <1>7, <3>2
      <4>2. live.roots[u] \in 1..n
        BY <1>10, <2>2, <4>1
      <4> QED
        BY <1>1, <1>5, <2>2, <4>1, <4>2 DEF RootIsFirst
    <3> QED
      BY <3>1, <3>2
  <2> QED
    BY <2>1, <2>2 DEF RootIsFirst
<1>12. DecidedByTrace'
  <2>1. ASSUME NEW s \in DOMAIN spans'
        PROVE  spans'[s].sampled = traces'[spans'[s].trace].sampled
    <3>1. CASE s \in 1..n
      <4>1. traces'[spans[s].trace] = traces[spans[s].trace]
        BY <1>1, <1>2, <3>1
      <4> QED
        BY <1>1, <1>5, <3>1, <4>1 DEF DecidedByTrace
    <3>2. CASE s = n + 1
      BY <1>4, <1>5, <3>2
    <3> QED
      BY <1>15, <3>1, <3>2
  <2> QED
    BY <2>1 DEF DecidedByTrace
<1>13. DecidedByCause'
  <2>1. ASSUME NEW s \in DOMAIN spans', spans'[s].cause # Null
        PROVE  spans'[spans'[s].cause].sampled = spans'[s].sampled
    <3>1. CASE s \in 1..n
      <4>1. spans[s].cause \in 1..n /\ spans'[s] = spans[s]
        BY <1>2, <1>5, <2>1, <3>1
      <4> QED
        BY <1>1, <1>5, <2>1, <3>1, <4>1 DEF DecidedByCause
    <3>2. CASE s = n + 1
      <4>1. cause # Null /\ cause \in 1..n
        BY <1>1, <1>4, <1>5, <2>1, <3>2
      <4> QED
        BY <1>4, <1>5, <3>2, <4>1
    <3> QED
      BY <1>15, <3>1, <3>2
  <2> QED
    BY <2>1 DEF DecidedByCause
<1>14. LogIsASeq'
  BY DEF LogIsASeq
<1>16. IdsOfCause'
  <2>1. ASSUME NEW s \in DOMAIN spans'
        PROVE  /\ spans'[s].tid = traces'[spans'[s].trace].id
               /\ spans'[s].cause = Null => spans'[s].parentId = 0
               /\ spans'[s].cause # Null =>
                     /\ spans'[spans'[s].cause].tid = spans'[s].tid
                     /\ spans'[s].parentId = spans'[spans'[s].cause].id
    <3>1. CASE s \in 1..n
      <4>1. traces'[spans[s].trace] = traces[spans[s].trace] /\ spans'[s] = spans[s]
        BY <1>1, <1>2, <1>5, <3>1
      <4>2. spans[s].cause # Null => spans'[spans[s].cause] = spans[spans[s].cause]
        BY <1>2, <1>5, <3>1
      <4>3. /\ spans[s].tid = traces[spans[s].trace].id
            /\ spans[s].cause = Null => spans[s].parentId = 0
            /\ spans[s].cause # Null =>
                  /\ spans[spans[s].cause].tid = spans[s].tid
                  /\ spans[s].parentId = spans[spans[s].cause].id
        BY <1>1, <3>1 DEF IdsOfCause
      <4>4. spans'[s].tid = traces'[spans'[s].trace].id
        BY <4>1, <4>3
      <4>5. spans'[s].cause = Null => spans'[s].parentId = 0
        BY <4>1, <4>3
      <4>6. ASSUME spans'[s].cause # Null
            PROVE  /\ spans'[spans'[s].cause].tid = spans'[s].tid
                   /\ spans'[s].parentId = spans'[spans'[s].cause].id
        <5>1. spans[s].cause # Null /\ spans'[s].cause = spans[s].cause
          BY <4>1, <4>6
        <5>2. spans'[spans'[s].cause] = spans[spans[s].cause]
          BY <4>2, <5>1
        <5> QED
          BY <4>1, <4>3, <5>1, <5>2
      <4> QED
        BY <4>4, <4>5, <4>6
    <3>2. CASE s = n + 1
      <4>1. cause # Null => spans'[cause] = spans[cause]
        BY <1>1, <1>5
      <4> QED
        BY <1>4, <1>5, <3>2, <4>1
    <3> QED
      BY <1>15, <3>1, <3>2
  <2> QED
    BY <2>1 DEF IdsOfCause
<1>17. RecordsLinked'
  BY <1>5, RecordsKept
<1>18. RecordsListed'
  BY Zenon DEF RecordsListed
<1> QED
  BY <1>8, <1>9, <1>11, <1>12, <1>13, <1>14, <1>16, <1>17, <1>18 DEF TreeInv

\* span_create: the span is made under its parent, a span of the same trace_t.
LEMMA SpanCreateStep ==
  ASSUME TreeInv, SpanCreate
  PROVE  TreeInv'
<1> TypeOK /\ RootIsFirst /\ DecidedByTrace /\ IdsOfCause
  BY DEF TreeInv
<1> PICK t \in DOMAIN traces, parent \in {Null} \union DOMAIN spans :
      /\ Len(spans) < MaxSpans
      /\ parent # Null => spans[parent].trace = t
      /\ CountSpan(traces[t].proc)
      /\ NewSpan(t, traces[t], IF parent = Null THEN 0 ELSE spans[parent].id, parent)
      /\ LinkNewSpan(t, parent)
      /\ nextTrace' = nextTrace /\ traces' = traces /\ log' = log
  BY DEF SpanCreate
<1> DEFINE parentId == IF parent = Null THEN 0 ELSE spans[parent].id
<1>1. parentId \in {0} \union 1..MaxSpans
  <2>1. ASSUME parent # Null PROVE spans[parent].id \in 1..MaxSpans
    BY <2>1, Lengths DEF SpanValues
  <2> QED
    BY <2>1
<1>2. NewSpan(t, traces'[t], parentId, parent)
  OBVIOUS
<1>5. parentId = IF parent = Null THEN 0 ELSE spans[parent].id
  OBVIOUS
<1> HIDE DEF parentId
<1>3. parent # Null => /\ spans[parent].sampled = traces'[t].sampled
                       /\ spans[parent].tid = traces'[t].id
  BY DEF DecidedByTrace, IdsOfCause
<1>4. traces' \in Seq(TraceValues) /\ Len(traces') = Len(traces)
  BY Types
<1> QED
  BY <1>1, <1>2, <1>3, <1>4, <1>5, SpanMade

\* span_create_from_context: the trace_t, without spans so far, takes the
\* decision of the remote span, under which the new one is made.
LEMMA SpanCreateFromContextStep ==
  ASSUME TreeInv, SpanCreateFromContext
  PROVE  TreeInv'
<1> TypeOK
  BY DEF TreeInv
<1> PICK t \in DOMAIN traces, remote \in DOMAIN spans :
      /\ Len(spans) < MaxSpans
      /\ \A s \in DOMAIN spans : spans[s].trace # t
      /\ traces' = [traces EXCEPT ![t] = Adopt(@, spans[remote])]
      /\ CountSpan(traces[t].proc)
      /\ NewSpan(t, traces'[t], spans[remote].id, remote)
      /\ LinkNewSpan(t, Null)
      /\ nextTrace' = nextTrace /\ log' = log
  BY DEF SpanCreateFromContext
<1> DEFINE m == Len(traces)
           a == Adopt(traces[t], spans[remote])
<1>1. /\ m \in Nat /\ DOMAIN traces = 1..m /\ traces \in Seq(TraceValues)
      /\ traces[t] \in TraceValues /\ spans[remote] \in SpanValues(m, Len(spans))
  BY Types, Lengths
<1>2. /\ a \in TraceValues /\ a.proc = traces[t].proc
      /\ a.sampled = spans[remote].sampled /\ a.id = spans[remote].tid
  <2>1. spans[remote].tid \in 1..MaxTraces /\ spans[remote].sampled \in BOOLEAN
    BY <1>1 DEF SpanValues
  <2> QED
    BY <1>1, <2>1 DEF Adopt, TraceValues
<1>3. traces' = [traces EXCEPT ![t] = a]
  BY Zenon
<1> HIDE DEF a
<1>4. /\ traces' \in Seq(TraceValues) /\ Len(traces') = m /\ traces'[t] = a
      /\ \A u \in DOMAIN traces : u # t => traces'[u] = traces[u]
  BY <1>1, <1>2, <1>3, ExceptSeq
<1>5. spans[remote].id \in {0} \union 1..MaxSpans
  BY <1>1 DEF SpanValues
<1>6. remote # Null
  BY Lengths DEF Null
<1> QED
  BY <1>2, <1>4, <1>5, <1>6, SpanMade

\* A trace stored and read again.
LEMMA StoreTraceStep ==
  ASSUME TreeInv, StoreTrace
  PROVE  TreeInv'
<1> /\ TypeOK /\ LogIsASeq /\ Numbered /\ RootIsFirst
    /\ DecidedByTrace /\ DecidedByCause /\ IdsOfCause
    /\ RecordsLinked /\ RecordsListed
  BY DEF TreeInv
<1> PICK s \in DOMAIN spans, size \in 1..MaxStored :
      /\ \E record \in [1..size -> {r \in DOMAIN spans : spans[r].tid = spans[s].tid}] :
            log' = Append(log, [spans |-> record,
                                links |-> RebuildHierarchy(Decoded(record))])
      /\ UNCHANGED <<nextTrace, nextSpan, traces, spans, live>>
  BY Zenon DEF StoreTrace
<1> PICK record \in [1..size -> {r \in DOMAIN spans : spans[r].tid = spans[s].tid}] :
      log' = Append(log, [spans |-> record,
                          links |-> RebuildHierarchy(Decoded(record))])
  OBVIOUS
<1> DEFINE n == Len(spans)
           x == [spans |-> record, links |-> RebuildHierarchy(Decoded(record))]
           E == {log[k] : k \in DOMAIN log}
           F == E \union {x}
<1>1. record \in Seq(1..n)
  <2>1. size \in Nat
    BY TreeAssumption
  <2>2. record \in [1..size -> 1..n]
    BY Lengths
  <2> QED
    BY <2>1, <2>2, SeqDef
<1>2. x.spans \in Seq(1..n) /\ log' = Append(log, x)
  BY <1>1
<1> HIDE DEF x
<1>3. log \in Seq(F)
  <2>1. log \in Seq(E)
    BY DEF LogIsASeq
  <2> HIDE DEF E
  <2> QED
    BY <2>1, SeqMonotonic
<1>4. x \in F
  OBVIOUS
<1>5. PICK l \in Nat : l = Len(log) /\ DOMAIN log = 1..l
  <2> HIDE DEF F
  <2> QED
    BY <1>3, LenProperties
<1>6. /\ log' \in Seq(F) /\ DOMAIN log' = 1..l + 1
      /\ \A k \in 1..l : log'[k] = log[k]
      /\ log'[l + 1] = x
  <2> HIDE DEF F
  <2> QED
    BY <1>2, <1>3, <1>4, <1>5, Longer
<1>7. ASSUME NEW k \in DOMAIN log' PROVE k \in 1..l \/ k = l + 1
  <2>1. k \in 1..l + 1
    BY <1>6
  <2> QED
    BY <1>5, <2>1
<1>8. \A k \in DOMAIN log' : log'[k].spans \in Seq(1..n)
  <2>1. \A k \in 1..l : log[k].spans \in Seq(1..n)
    BY <1>5, Types
  <2> QED
    BY <1>2, <1>6, <1>7, <2>1
<1>9. LogIsASeq'
  <2> DEFINE G == {log'[k] : k \in DOMAIN log'}
  <2>1. F \subseteq G
    <3>1. 1..l \subseteq 1..l + 1 /\ l + 1 \in 1..l + 1
      BY <1>5
    <3>2. E = {log[k] : k \in 1..l} /\ G = {log'[k] : k \in 1..l + 1}
      BY <1>5, <1>6
    <3> QED
      BY <1>6, <3>1, <3>2
  <2> HIDE DEF F, G
  <2>2. log' \in Seq(G)
    BY <1>6, <2>1, SeqMonotonic
  <2> QED
    BY <2>2 DEF LogIsASeq, G
<1>10. TypeOK'
  <2>1. /\ nextTrace \in [Procs -> Nat \ {0}] /\ nextSpan \in [Procs -> Nat \ {0}]
        /\ traces \in Seq(TraceValues)
        /\ spans \in Seq(SpanValues(Len(traces), n)) /\ live \in Lives(Len(traces), n)
    BY Types
  <2> QED
    BY <1>8, Lengths, <2>1 DEF TypeOK, TraceValues, SpanValues, Lives, Links
<1>11. Numbered' /\ RootIsFirst' /\ DecidedByTrace' /\ DecidedByCause' /\ IdsOfCause'
  BY DEF Numbered, RootIsFirst, DecidedByTrace, DecidedByCause, IdsOfCause
<1>12. ASSUME NEW k \in DOMAIN log'
       PROVE  /\ Len(log'[k].spans) >= 1
              /\ \A i \in DOMAIN log'[k].spans :
                    spans[log'[k].spans[i]].tid = spans[log'[k].spans[1]].tid
              /\ LinkedById(Decoded(log'[k].spans), log'[k].links, Len(log'[k].spans))
              /\ log'[k].links \in Trees(Len(log'[k].spans))
              /\ ListsChildren(log'[k].links, Len(log'[k].spans))
  <2>1. CASE k \in 1..l
    BY <1>5, <1>6, <2>1 DEF RecordsLinked, RecordsListed
  <2>2. CASE k = l + 1
    <3>1. log'[k].spans = record /\ log'[k].links = RebuildHierarchy(Decoded(record))
      BY <1>6, <2>2 DEF x
    <3>2. size \in Nat /\ size >= 1
      BY TreeAssumption
    <3>3. Len(record) = size /\ DOMAIN record = 1..size
      BY <1>1, <3>2, LenProperties
    <3>4. \A i \in 1..size : spans[record[i]].tid = spans[s].tid
      OBVIOUS
    <3>5. /\ LinkedById(Decoded(record), RebuildHierarchy(Decoded(record)), size)
          /\ RebuildHierarchy(Decoded(record)) \in Trees(size)
          /\ ListsChildren(RebuildHierarchy(Decoded(record)), size)
      <4>1. Decoded(record) \in [1..size -> {spans[r] : r \in DOMAIN spans}]
        BY DEF Decoded
      <4>2. Decoded(record) \in Seq({spans[r] : r \in DOMAIN spans})
        BY <3>2, <4>1, SeqDef
      <4>3. DOMAIN Decoded(record) = 1..size
        BY <3>3 DEF Decoded
      <4>4. Len(Decoded(record)) = size
        <5> HIDE DEF Decoded
        <5> QED
          BY <3>2, <4>2, <4>3, LenProperties
      <4> QED
        BY <3>2, <4>3, <4>4, Rebuilt
    <3> QED
      BY <3>1, <3>2, <3>3, <3>4, <3>5
  <2> QED
    BY <1>7, <2>1, <2>2
<1>13. RecordsLinked'
  BY Zenon, <1>12 DEF RecordsLinked, Decoded
<1>14. RecordsListed'
  BY Zenon, <1>12 DEF RecordsListed
<1> QED
  BY <1>9, <1>10, <1>11, <1>13, <1>14 DEF TreeInv

LEMMA InitTreeInv ==
  ASSUME Init
  PROVE  TreeInv
<1>1. /\ nextTrace \in [Procs -> Nat \ {0}] /\ nextSpan \in [Procs -> Nat \ {0}]
      /\ \A p \in Procs : nextTrace[p] = 1 /\ nextSpan[p] = 1
  BY DEF Init
<1>2. \A S : /\ <<>> \in Seq(S) /\ Len(<<>>) = 0 /\ DOMAIN <<>> = 1..0 /\ DOMAIN <<>> = {}
             /\ <<>> \in [1..0 -> S]
  BY EmptySeq
<1>3. live \in Lives(0, 0)
  <2>1. [i \in 1..0 |-> Null] \in [1..0 -> {Null} \union 1..0]
    OBVIOUS
  <2>2. <<>> \in [1..0 -> {Null} \union 1..0]
    BY <1>2
  <2> QED
    BY <2>1, <2>2 DEF Init, Unlinked, Lives, Links
<1>4. TypeOK
  BY <1>1, <1>2, <1>3, Types DEF Init
<1>5. LogIsASeq
  BY <1>2 DEF Init, LogIsASeq
<1>6. /\ Numbered /\ RootIsFirst /\ DecidedByTrace /\ DecidedByCause
      /\ IdsOfCause /\ RecordsLinked /\ RecordsListed
  BY <1>1, <1>2 DEF Init, Numbered, RootIsFirst, DecidedByTrace, DecidedByCause,
                    IdsOfCause, RecordsLinked, RecordsListed
<1> QED
  BY <1>4, <1>5, <1>6 DEF TreeInv

LEMMA StepTreeInv ==
  ASSUME TreeInv, [Next]_vars
  PROVE  TreeInv'
<1>1. CASE vars' = vars
  <2>1. UNCHANGED <<nextTrace, nextSpan, traces, spans, live, log>>
    BY <1>1 DEF vars
  <2>2. TypeOK' = TypeOK
    BY <2>1 DEF TypeOK
  <2>3. /\ LogIsASeq' = LogIsASeq /\ Numbered' = Numbered /\ RootIsFirst' = RootIsFirst
        /\ DecidedByTrace' = DecidedByTrace /\ DecidedByCause' = DecidedByCause
        /\ IdsOfCause' = IdsOfCause
    BY <2>1 DEF LogIsASeq, Numbered, RootIsFirst, DecidedByTrace, DecidedByCause, IdsOfCause
  <2>4. RecordsLinked'
    BY <2>1, RecordsKept DEF TreeInv
  <2>5. RecordsListed' = RecordsListed
    BY <2>1 DEF RecordsListed
  <2> QED
    BY <2>2, <2>3, <2>4, <2>5 DEF TreeInv
<1>2. CASE Next
  BY <1>2, TraceCreateStep, SpanCreateStep, SpanCreateFromContextStep, StoreTraceStep
     DEF Next
<1> QED
  BY <1>1, <1>2

-----------------------------------------------------------------------------
(* The way back to where a trace began. *)

\* A trace began in trace_t t, or in the trace_t t's context came from.
Began(t) == live.roots[t] = Null \/ spans[live.roots[t]].cause = Null

CameFrom(t) == spans[spans[live.roots[t]].cause].trace

\* f leads from every trace_t to where it began.
Leads(f) ==
    f = [t \in DOMAIN traces |-> IF Began(t) THEN t ELSE f[CameFrom(t)]]

\* A trace_t's context came from one whose root is older, and with its decision.
LEMMA BackInTime ==
  ASSUME TreeInv
  PROVE  /\ \A t \in DOMAIN traces : live.roots[t] \in 0..Len(spans)
         /\ \A t \in DOMAIN traces : ~Began(t) =>
               /\ CameFrom(t) \in DOMAIN traces
               /\ live.roots[CameFrom(t)] < live.roots[t]
               /\ traces[CameFrom(t)].sampled = traces[t].sampled
<1> TypeOK /\ RootIsFirst /\ DecidedByTrace /\ DecidedByCause
  BY DEF TreeInv
<1> PICK n \in Nat : n = Len(spans)
  BY Lengths
<1>1. /\ DOMAIN spans = 1..n
      /\ \A s \in 1..n : /\ spans[s].trace \in DOMAIN traces
                         /\ spans[s].cause \in {Null} \union 1..n
  BY Lengths DEF SpanValues
<1>2. \A t \in DOMAIN traces : live.roots[t] \in 0..n
  <2>1. \A t \in DOMAIN traces : live.roots[t] \in {Null} \union 1..n
    BY Types, Lengths DEF Lives
  <2> QED
    BY <2>1 DEF Null
<1>3. ASSUME NEW t \in DOMAIN traces, ~Began(t)
      PROVE  /\ CameFrom(t) \in DOMAIN traces
             /\ live.roots[CameFrom(t)] < live.roots[t]
             /\ traces[CameFrom(t)].sampled = traces[t].sampled
  <2> DEFINE r == live.roots[t]
             c == spans[r].cause
  <2>1. r # Null /\ c # Null /\ CameFrom(t) = spans[c].trace
    BY <1>3 DEF Began, CameFrom
  <2>2. r \in 1..n /\ c \in 1..n
    <3>1. r \in 1..n
      BY <1>2, <2>1 DEF Null
    <3> QED
      BY <1>1, <2>1, <3>1
  <2>3. CameFrom(t) \in DOMAIN traces
    BY <1>1, <2>1, <2>2
  <2>4. spans[r].trace = t /\ c < r
    BY <2>1 DEF RootIsFirst
  <2>5. live.roots[CameFrom(t)] <= c
    BY <1>1, <2>1, <2>2 DEF RootIsFirst
  <2>6. live.roots[CameFrom(t)] \in 0..n
    BY <1>2, <2>3
  <2>7. live.roots[CameFrom(t)] < r
    BY <2>2, <2>4, <2>5, <2>6
  <2>8. /\ spans[r].sampled = traces[t].sampled
        /\ spans[c].sampled = traces[CameFrom(t)].sampled
    BY <1>1, <2>1, <2>2, <2>4 DEF DecidedByTrace
  <2>9. spans[c].sampled = spans[r].sampled
    BY <1>1, <2>1, <2>2 DEF DecidedByCause
  <2> QED
    BY <2>3, <2>7, <2>8, <2>9
<1> QED
  BY <1>2, <1>3

\* There is such a way back: if it could be followed only from the trace_ts
\* with the oldest roots, one more could be led to where another began.
LEMMA OriginExists ==
  ASSUME TreeInv
  PROVE  \E f \in [DOMAIN traces -> DOMAIN traces] : Leads(f)
<1> DEFINE T == DOMAIN traces
           root(t) == live.roots[t]
           step(f, t) == IF Began(t) THEN t ELSE f[CameFrom(t)]
           P(k) == \E f \in [T -> T] : \A t \in T : root(t) <= k => f[t] = step(f, t)
<1> PICK n \in Nat : n = Len(spans)
  BY Lengths DEF TreeInv
<1>1. /\ \A t \in T : root(t) \in 0..n
      /\ \A t \in T : ~Began(t) => CameFrom(t) \in T /\ root(CameFrom(t)) < root(t)
  BY BackInTime
<1>2. P(0)
  <2> DEFINE f == [t \in T |-> t]
  <2>1. ASSUME NEW t \in T, root(t) <= 0 PROVE Began(t)
    <3>1. root(t) = Null
      BY <1>1, <2>1 DEF Null
    <3> QED
      BY <3>1 DEF Began
  <2>2. f \in [T -> T] /\ \A t \in T : root(t) <= 0 => f[t] = step(f, t)
    BY <2>1
  <2> HIDE DEF f
  <2> QED
    BY <2>2
<1>3. ASSUME NEW k \in Nat, P(k) PROVE P(k + 1)
  <2> HIDE DEF T, root
  <2> PICK f \in [T -> T] : \A t \in T : root(t) <= k => f[t] = step(f, t)
    BY <1>3
  <2> DEFINE g == [t \in T |-> IF root(t) <= k THEN f[t] ELSE step(f, t)]
  <2>1. g \in [T -> T]
    BY <1>1
  <2>2. ASSUME NEW t \in T, root(t) <= k + 1 PROVE g[t] = step(g, t)
    <3>1. CASE Began(t)
      <4>1. g[t] = t
        BY <3>1
      <4> QED
        BY <3>1, <4>1
    <3>2. CASE ~Began(t)
      <4>1. CameFrom(t) \in T /\ root(CameFrom(t)) <= k
        <5>1. CameFrom(t) \in T /\ root(CameFrom(t)) < root(t)
          BY <1>1, <3>2
        <5>2. root(CameFrom(t)) \in 0..n /\ root(t) \in 0..n
          BY <1>1, <5>1
        <5> QED
          BY <2>2, <5>1, <5>2
      <4>2. g[CameFrom(t)] = f[CameFrom(t)]
        BY <4>1
      <4>3. g[t] = f[CameFrom(t)]
        BY <3>2
      <4> QED
        BY <3>2, <4>2, <4>3
    <3> QED
      BY <3>1, <3>2
  <2> HIDE DEF g
  <2> QED
    BY <2>1, <2>2
<1>4. P(n)
  <2> DEFINE S == {k \in 0..n : P(k)}
  <2> HIDE DEF P
  <2>1. 0 \in S /\ \A k \in 0..n - 1 : k \in S => k + 1 \in S
    BY <1>2, <1>3
  <2>2. 0..n \subseteq S
    <3> HIDE DEF S
    <3> QED
      BY <2>1, OneByOne
  <2> QED
    BY <2>2
<1> PICK f \in [T -> T] : \A t \in T : root(t) <= n => f[t] = step(f, t)
  BY <1>4
<1>5. \A t \in T : f[t] = step(f, t)
  BY <1>1
<1>6. f = [t \in T |-> step(f, t)]
  BY <1>5
<1> QED
  BY <1>6 DEF Leads

\* The way back keeps the decision: of the trace_ts it led elsewhere, take the
\* one with the oldest root.
LEMMA OriginDecided ==
  ASSUME TreeInv, NEW f, Leads(f), NEW t \in DOMAIN traces
  PROVE  traces[f[t]].sampled = traces[t].sampled
<1> DEFINE T == DOMAIN traces
           Bad == {u \in T : traces[f[u]].sampled # traces[u].sampled}
           S == {live.roots[u] : u \in Bad}
<1>1. SUFFICES ASSUME Bad # {} PROVE FALSE
  OBVIOUS
<1>2. S \subseteq Nat /\ S # {}
  <2>1. Len(spans) \in Nat
    BY Lengths DEF TreeInv
  <2> QED
    BY <1>1, <2>1, BackInTime
<1>3. PICK m \in S : \A k \in S : m <= k
  <2> HIDE DEF S
  <2> QED
    BY <1>2, LeastElement
<1>4. PICK u \in Bad : live.roots[u] = m
  OBVIOUS
<1>5. f[u] = IF Began(u) THEN u ELSE f[CameFrom(u)]
  BY Zenon DEF Leads
<1>6. ~Began(u)
  BY <1>5
<1>7. /\ CameFrom(u) \in T /\ live.roots[CameFrom(u)] < live.roots[u]
      /\ traces[CameFrom(u)].sampled = traces[u].sampled
  BY <1>6, BackInTime
<1>8. CameFrom(u) \in Bad
  BY <1>5, <1>6, <1>7
<1>9. live.roots[CameFrom(u)] \in S
  BY <1>8
<1>10. m <= live.roots[CameFrom(u)] /\ m \in Nat /\ live.roots[CameFrom(u)] \in Nat
  BY <1>2, <1>3, <1>9
<1> QED
  BY <1>4, <1>7, <1>10

LEMMA OneDecision ==
  ASSUME TreeInv
  PROVE  OneDecisionPerTrace
<1> SUFFICES ASSUME NEW s \in DOMAIN spans
             PROVE  spans[s].sampled = traces[Origin(s)].sampled
  BY DEF OneDecisionPerTrace
<1> DEFINE first == CHOOSE f : Leads(f)
<1>1. Leads(first)
  BY OriginExists
<1>2. Origin(s) = first[spans[s].trace]
  BY Zenon DEF Origin, Leads, Began, CameFrom
<1> HIDE DEF first
<1>3. spans[s].trace \in DOMAIN traces
  BY Lengths DEF TreeInv, SpanValues
<1>4. traces[first[spans[s].trace]].sampled = traces[spans[s].trace].sampled
  BY <1>1, <1>3, OriginDecided
<1> QED
  BY <1>2, <1>4 DEF TreeInv, DecidedByTrace

-----------------------------------------------------------------------------
(* The hierarchy of the records. *)

\* Among the spans of a record's trace id that have ids of their own, what is
\* found by an id is the span that was meant.
LEMMA LinkedByIds ==
  ASSUME TreeInv, NEW k \in DOMAIN log, DistinctIds(k)
  PROVE  LinkedAsCaused(k)
<1> TypeOK /\ IdsOfCause /\ RecordsLinked /\ RecordsListed
  BY DEF TreeInv
<1> DEFINE record == log[k].spans
           h == log[k].links
           loaded == Decoded(record)
           CauseOf(i) == spans[record[i]].cause
<1> PICK n \in Nat : n = Len(spans)
  BY Lengths
<1>1. /\ DOMAIN spans = 1..n
      /\ \A s \in 1..n : /\ spans[s].cause \in {Null} \union 1..n
                         /\ spans[s].id \in 1..MaxSpans
  BY Lengths DEF SpanValues
<1>2. record \in Seq(1..n)
  BY Types
<1> PICK m \in Nat : m = Len(record) /\ DOMAIN record = 1..m
  <2> HIDE DEF record
  <2> QED
    BY <1>2, LenProperties
<1>3. \A i \in 1..m : record[i] \in 1..n
  <2> HIDE DEF record
  <2> QED
    BY <1>2, ElementOfSeq
<1>4. /\ m >= 1 /\ \A i \in 1..m : spans[record[i]].tid = spans[record[1]].tid
      /\ LinkedById(loaded, h, m)
  BY DEF RecordsLinked
<1>5. DOMAIN loaded = 1..m /\ \A i \in 1..m : loaded[i] = spans[record[i]]
  BY DEF Decoded
<1>6. ASSUME NEW r \in 1..n, NEW s \in 1..n, spans[r].tid = spans[record[1]].tid,
             spans[s].tid = spans[record[1]].tid, spans[r].id = spans[s].id
      PROVE  r = s
  BY <1>1, <1>6 DEF DistinctIds
<1> HIDE DEF record, h, loaded
<1>7. ASSUME NEW i \in 1..m
      PROVE  /\ CauseOf(i) = Null <=> loaded[i].parentId = 0
             /\ CauseOf(i) # Null =>
                   /\ CauseOf(i) \in 1..n
                   /\ loaded[i].parentId = spans[CauseOf(i)].id
                   /\ spans[CauseOf(i)].tid = spans[record[1]].tid
  <2>1. record[i] \in 1..n /\ loaded[i] = spans[record[i]]
    BY <1>3, <1>5
  <2>2. CASE CauseOf(i) = Null
    BY <1>1, <2>1, <2>2 DEF IdsOfCause
  <2>3. CASE CauseOf(i) # Null
    <3>1. CauseOf(i) \in 1..n
      BY <1>1, <2>1, <2>3
    <3>2. /\ loaded[i].parentId = spans[CauseOf(i)].id
          /\ spans[CauseOf(i)].tid = spans[record[i]].tid
      BY <1>1, <2>1, <2>3 DEF IdsOfCause
    <3>3. spans[CauseOf(i)].id # 0
      <4>1. spans[CauseOf(i)].id \in 1..MaxSpans /\ MaxSpans \in Nat
        BY <1>1, <3>1, TreeAssumption
      <4> QED
        BY <4>1
    <3> QED
      BY <1>4, <2>3, <3>1, <3>2, <3>3
  <2> QED
    BY <2>2, <2>3
<1>8. ASSUME NEW i \in 1..m
      PROVE  IF CauseOf(i) \in ToSet(record)
             THEN h.parent[i] # Null /\ record[h.parent[i]] = CauseOf(i)
             ELSE h.parent[i] = Null
  <2>1. h.parent[i] = ParentById(loaded, i)
    BY <1>4, <1>5 DEF LinkedById
  <2>2. ToSet(record) = {record[j] : j \in 1..m}
    BY DEF ToSet
  <2>3. CASE CauseOf(i) = Null
    <3>1. CauseOf(i) \notin ToSet(record)
      BY <1>3, <2>2, <2>3 DEF Null
    <3>2. h.parent[i] = Null
      BY <1>7, <2>1, <2>3 DEF ParentById
    <3> QED
      BY <3>1, <3>2
  <2>4. CASE CauseOf(i) # Null
    <3> DEFINE c == CauseOf(i)
               p == FindSpanById(loaded, spans[c].id)
    <3>1. c \in 1..n /\ spans[c].tid = spans[record[1]].tid /\ h.parent[i] = p
      BY <1>7, <2>1, <2>4 DEF ParentById
    <3>2. /\ p \in {Null} \union 1..m
          /\ p # Null => loaded[p].id = spans[c].id
          /\ p = Null => \A j \in 1..m : loaded[j].id # spans[c].id
      <4> HIDE DEF c
      <4> QED
        BY <1>5, FirstWithId
    <3> HIDE DEF p, c
    <3>3. p # Null => record[p] = c
      <4>1. SUFFICES ASSUME p \in 1..m, loaded[p].id = spans[c].id PROVE record[p] = c
        BY <3>2
      <4>2. record[p] \in 1..n /\ spans[record[p]].tid = spans[record[1]].tid
        BY <1>3, <1>4, <4>1
      <4>3. spans[record[p]].id = spans[c].id
        BY <1>5, <4>1
      <4> QED
        BY <1>6, <3>1, <4>2, <4>3
    <3>4. c \in ToSet(record) <=> p # Null
      BY <1>5, <2>2, <3>2, <3>3
    <3> QED
      BY <3>1, <3>3, <3>4 DEF c
  <2> QED
    BY <2>3, <2>4
<1>9. IF \E i \in 1..m : CauseOf(i) = Null
      THEN h.root # Null /\ CauseOf(h.root) = Null
      ELSE h.root = Null
  <2>1. IF \E i \in 1..m : loaded[i].parentId = 0
        THEN h.root \in 1..m /\ loaded[h.root].parentId = 0 ELSE h.root = Null
    BY <1>4 DEF LinkedById
  <2> HIDE DEF CauseOf
  <2> QED
    BY <1>7, <2>1 DEF Null
<1> QED
  BY <1>8, <1>9 DEF LinkedAsCaused, record, h

-----------------------------------------------------------------------------
\* Links whose lists hold the children, with a root.
Rooted(h, n) ==
    /\ h \in Trees(n) /\ ListsChildren(h, n)
    /\ h.root \in 1..n /\ h.parent[h.root] = Null

\* A pointer leads from span i on to span x.
PointsTo(h, i, x) == x # Null /\ (h.firstChild[i] = x \/ h.nextSibling[i] = x)

\* R has the spans that pointers from the root lead to, r how many do.
Distances(h, n, R, r) ==
    /\ R \in SUBSET (1..n) /\ r \in [R -> 0..n - 1]
    /\ h.root \in R /\ r[h.root] = 0
    /\ \A i \in R, x \in 1..n : PointsTo(h, i, x) => x \in R /\ r[x] = r[i] + 1
    /\ \A x \in R : x # h.root => \E i \in R : PointsTo(h, i, x)

\* g[k] is what the function F, applied k times, makes of x.
IsIterated(n, V, x, F, g) ==
    /\ g = [k \in 0..n |-> IF k = 0 THEN x ELSE F[g[k - 1]]]
    /\ \A k \in 0..n : g[k] \in V

LEMMA Iterated ==
  ASSUME NEW n \in Nat, NEW V, NEW x \in V, NEW F \in [V -> V]
  PROVE  \E g : IsIterated(n, V, x, F, g)
<1> DEFINE step(g, k) == IF k = 0 THEN x ELSE F[g[k - 1]]
           Q(k) == \E g : /\ g = [j \in 0..n |-> g[j]]
                          /\ \A j \in 0..k : g[j] = step(g, j) /\ g[j] \in V
<1>1. Q(0)
  <2> DEFINE g == [j \in 0..n |-> x]
  <2>1. g = [j \in 0..n |-> g[j]] /\ \A j \in 0..0 : g[j] = step(g, j) /\ g[j] \in V
    OBVIOUS
  <2> HIDE DEF g
  <2> QED
    BY <2>1
<1>2. ASSUME NEW k \in 0..n - 1, Q(k) PROVE Q(k + 1)
  <2> PICK g : /\ g = [j \in 0..n |-> g[j]]
               /\ \A j \in 0..k : g[j] = step(g, j) /\ g[j] \in V
    BY <1>2
  <2> DEFINE f == [j \in 0..n |-> IF j <= k THEN g[j] ELSE F[g[k]]]
  <2>1. f = [j \in 0..n |-> f[j]]
    OBVIOUS
  <2>2. \A j \in 0..n : f[j] = IF j <= k THEN g[j] ELSE F[g[k]]
    OBVIOUS
  <2> HIDE DEF f
  <2>3. ASSUME NEW j \in 0..k + 1 PROVE f[j] = step(f, j) /\ f[j] \in V
    <3>1. CASE j \in 0..k
      <4>1. j \in 0..n /\ j <= k /\ (j # 0 => j - 1 \in 0..n /\ j - 1 <= k)
        BY <3>1
      <4>2. f[j] = g[j] /\ (j # 0 => f[j - 1] = g[j - 1])
        BY <2>2, <4>1
      <4> QED
        BY <3>1, <4>2
    <3>2. CASE j = k + 1
      <4>1. j \in 0..n /\ ~(j <= k) /\ j # 0 /\ j - 1 = k /\ k \in 0..n /\ k <= k /\ k \in 0..k
        BY <3>2
      <4>2. f[j] = F[g[k]] /\ f[j - 1] = g[k]
        BY <2>2, <4>1
      <4> QED
        BY <4>1, <4>2
    <3>3. j \in 0..k \/ j = k + 1
      OBVIOUS
    <3> QED
      BY <3>1, <3>2, <3>3
  <2> QED
    BY <2>1, <2>3
<1>3. Q(n)
  <2> DEFINE S == {k \in 0..n : Q(k)}
  <2> HIDE DEF Q
  <2>1. 0 \in S /\ \A k \in 0..n - 1 : k \in S => k + 1 \in S
    BY <1>1, <1>2
  <2>2. 0..n \subseteq S
    <3> HIDE DEF S
    <3> QED
      BY <2>1, OneByOne
  <2> QED
    BY <2>2
<1> PICK g : /\ g = [j \in 0..n |-> g[j]]
             /\ \A j \in 0..n : g[j] = step(g, j) /\ g[j] \in V
  BY <1>3
<1>4. g = [k \in 0..n |-> step(g, k)]
  OBVIOUS
<1> QED
  BY <1>4 DEF IsIterated

-----------------------------------------------------------------------------
(* The ways from the root. *)

\* Where the pointers of a span lead.
LEMMA Pointers ==
  ASSUME NEW n \in Nat, NEW h, Rooted(h, n), NEW i \in 1..n
  PROVE  /\ h.firstChild[i] \in {Null} \union 1..n
         /\ h.nextSibling[i] \in {Null} \union 1..n
         /\ h.firstChild[i] # Null => h.parent[h.firstChild[i]] = i
         /\ h.nextSibling[i] # Null =>
               /\ h.parent[i] # Null /\ h.parent[h.nextSibling[i]] = h.parent[i]
               /\ i < h.nextSibling[i]
         /\ \A j \in 1..n : h.parent[j] = i =>
               h.firstChild[i] # Null /\ h.firstChild[i] <= j
         /\ \A j \in 1..n : h.parent[i] # Null /\ h.parent[j] = h.parent[i] /\ i < j =>
               h.nextSibling[i] # Null /\ h.nextSibling[i] <= j
<1>1. /\ IsFirst(h.firstChild[i], {j \in 1..n : h.parent[j] = i})
      /\ IsFirst(h.nextSibling[i], LaterSiblings(h, n, i))
  BY DEF Rooted, ListsChildren
<1>2. /\ h.firstChild[i] \in {Null} \union 1..n
      /\ h.nextSibling[i] \in {Null} \union 1..n
  BY DEF Rooted, Trees
<1>3. /\ h.firstChild[i] # Null => h.parent[h.firstChild[i]] = i
      /\ \A j \in 1..n : h.parent[j] = i =>
            h.firstChild[i] # Null /\ h.firstChild[i] <= j
  BY <1>1 DEF IsFirst, Null
<1>4. /\ h.nextSibling[i] # Null => h.nextSibling[i] \in LaterSiblings(h, n, i)
      /\ \A j \in LaterSiblings(h, n, i) : h.nextSibling[i] # Null /\ h.nextSibling[i] <= j
  <2>1. Null \notin LaterSiblings(h, n, i)
    BY DEF LaterSiblings, Null
  <2> QED
    BY <1>1, <2>1 DEF IsFirst
<1> QED
  BY <1>2, <1>3, <1>4 DEF LaterSiblings

\* Only one pointer leads to a span, and none to the root.
LEMMA OneWay ==
  ASSUME NEW n \in Nat, NEW h, Rooted(h, n), NEW x \in 1..n
  PROVE  /\ \A i, j \in 1..n : PointsTo(h, i, x) /\ PointsTo(h, j, x) => i = j
         /\ \A i, j \in 1..n : ~(h.firstChild[i] = x /\ h.nextSibling[j] = x)
         /\ \A i \in 1..n : PointsTo(h, i, x) => x # h.root
<1>1. x # Null
  BY DEF Null
<1>2. ASSUME NEW i \in 1..n, NEW j \in 1..n, h.nextSibling[i] = x, h.nextSibling[j] = x,
             i < j
      PROVE  FALSE
  <2>1. /\ h.parent[i] # Null /\ h.parent[x] = h.parent[i] /\ h.parent[x] = h.parent[j]
        /\ j < x
    BY <1>1, <1>2, Pointers
  <2>2. x <= j
    BY <1>2, <2>1, Pointers
  <2> QED
    BY <2>1, <2>2
<1>3. ASSUME NEW i \in 1..n, NEW j \in 1..n, h.firstChild[i] = x, h.nextSibling[j] = x
      PROVE  FALSE
  <2>1. h.parent[x] = i /\ h.parent[x] = h.parent[j] /\ j < x
    BY <1>1, <1>3, Pointers
  <2>2. x <= j
    BY <1>3, <2>1, Pointers
  <2> QED
    BY <2>1, <2>2
<1>4. ASSUME NEW i \in 1..n, NEW j \in 1..n, h.firstChild[i] = x, h.firstChild[j] = x
      PROVE  i = j
  BY <1>1, <1>4, Pointers
<1>5. ASSUME NEW i \in 1..n, NEW j \in 1..n, PointsTo(h, i, x), PointsTo(h, j, x)
      PROVE  i = j
  <2>1. i < j \/ j < i \/ i = j
    OBVIOUS
  <2> QED
    BY <1>2, <1>3, <1>4, <1>5, <2>1 DEF PointsTo
<1>6. ASSUME NEW i \in 1..n, PointsTo(h, i, x) PROVE x # h.root
  <2>1. h.parent[x] # Null
    BY <1>1, <1>6, Pointers DEF PointsTo, Null
  <2> QED
    BY <2>1 DEF Rooted
<1> QED
  BY <1>3, <1>5, <1>6

\* near[k] has the spans that k pointers or fewer lead to from span x; F adds
\* those that one more leads to.
Near(n, x, F, near) ==
    LET V == SUBSET (1..n)
    IN /\ F \in [V -> V] /\ \A A \in V : A \subseteq F[A]
       /\ \A k \in 0..n : near[k] \in V
       /\ near[0] = {x} /\ \A k \in 0..n - 1 : near[k + 1] = F[near[k]]

\* There is at least one span more with each step, until there are no more.
LEMMA AllNear ==
  ASSUME NEW n \in Nat \ {0}, NEW x \in 1..n, NEW F, NEW near, Near(n, x, F, near)
  PROVE  F[near[n - 1]] = near[n - 1]
<1> /\ F \in [SUBSET (1..n) -> SUBSET (1..n)]
    /\ \A A \in SUBSET (1..n) : A \subseteq F[A]
    /\ \A k \in 0..n : near[k] \in SUBSET (1..n)
    /\ near[0] = {x} /\ \A k \in 0..n - 1 : near[k + 1] = F[near[k]]
  BY DEF Near
<1> DEFINE S == {k \in 0..n - 1 : Cardinality(near[k]) >= k + 1 \/ F[near[k]] = near[k]}
<1>1. IsFiniteSet(1..n) /\ Cardinality(1..n) = n
  <2>1. 1 \in Int /\ n \in Int /\ ~(1 > n) /\ (n - 1) + 1 = n
    OBVIOUS
  <2> QED
    BY <2>1, FS_Interval
<1>6. ASSUME NEW A \in SUBSET (1..n)
      PROVE  IsFiniteSet(A) /\ Cardinality(A) \in Nat /\ Cardinality(A) <= n
  <2> DEFINE N == 1..n
  <2>1. A \in SUBSET N /\ IsFiniteSet(N) /\ Cardinality(N) = n
    BY <1>1
  <2> HIDE DEF N
  <2>2. IsFiniteSet(A) /\ Cardinality(A) <= n
    BY <2>1, FS_Subset
  <2>3. Cardinality(A) \in Nat
    BY <2>2, FS_CardinalityType
  <2> QED
    BY <2>2, <2>3
<1>2. 0 \in S
  <2>1. near[0] = {x} /\ 0 \in 0..n - 1
    OBVIOUS
  <2>2. Cardinality({x}) = 1
    BY FS_Singleton
  <2>3. Cardinality(near[0]) >= 0 + 1
    BY <2>1, <2>2
  <2> QED
    BY <2>1, <2>3
<1>3. ASSUME NEW k \in 0..(n - 1) - 1, k \in S PROVE k + 1 \in S
  <2>1. k \in 0..n /\ k + 1 \in 0..n /\ k + 1 \in 0..n - 1 /\ k + 1 # 0 /\ (k + 1) - 1 = k
    OBVIOUS
  <2>2. near[k + 1] = F[near[k]]
    BY <2>1
  <2>3. near[k] \in SUBSET (1..n) /\ near[k + 1] \in SUBSET (1..n)
    BY <2>1
  <2>4. CASE F[near[k]] = near[k]
    BY <2>1, <2>2, <2>4
  <2>5. CASE F[near[k]] # near[k] /\ Cardinality(near[k]) >= k + 1
    <3> DEFINE A == near[k]
               B == near[k + 1]
    <3>1. A \in SUBSET B /\ A # B
      BY <2>2, <2>3, <2>5
    <3>2. /\ IsFiniteSet(B) /\ Cardinality(A) \in Nat /\ Cardinality(B) \in Nat
      BY <1>6, <2>3
    <3>5. Cardinality(A) >= k + 1
      BY <2>5
    <3> HIDE DEF A, B
    <3>3. Cardinality(A) <= Cardinality(B) /\ Cardinality(A) # Cardinality(B)
      BY <3>1, <3>2, FS_Subset
    <3>4. Cardinality(B) >= (k + 1) + 1
      <4> DEFINE a == Cardinality(A)
                 b == Cardinality(B)
      <4>1. a \in Nat /\ b \in Nat /\ k \in Nat /\ k + 1 <= a /\ a <= b /\ a # b
        BY <3>2, <3>3, <3>5
      <4> HIDE DEF a, b
      <4>2. (k + 1) + 1 <= b
        BY SMT, <4>1
      <4> QED
        BY <4>2 DEF b
    <3> QED
      BY <2>1, <3>4 DEF B
  <2> QED
    BY <1>3, <2>4, <2>5
<1>4. n - 1 \in S
  <2>1. n - 1 \in Nat /\ n - 1 \in 0..n - 1
    OBVIOUS
  <2> DEFINE m == n - 1
  <2>2. 0 \in S /\ \A k \in 0..m - 1 : k \in S => k + 1 \in S
    BY <1>2, <1>3
  <2> HIDE DEF S
  <2>3. m \in Nat
    BY <2>1
  <2> HIDE DEF m
  <2>4. 0..m \subseteq S
    BY <2>2, <2>3, OneByOne
  <2> QED
    BY <2>1, <2>4 DEF m
<1>5. CASE F[near[n - 1]] # near[n - 1]
  <2> DEFINE A == near[n - 1]
  <2>1. A \in SUBSET (1..n) /\ F[A] \in SUBSET (1..n) /\ A \subseteq F[A]
    <3>1. n - 1 \in 0..n
      OBVIOUS
    <3> QED
      BY <3>1
  <2>2. Cardinality(A) >= n
    BY <1>4, <1>5
  <2>3. Cardinality(A) <= n /\ Cardinality(A) \in Nat
    BY <1>6, <2>1
  <2> HIDE DEF A
  <2>4. A = 1..n
    <3> DEFINE N == 1..n
    <3>1. Cardinality(A) = n
      BY <2>2, <2>3
    <3>2. A \in SUBSET N /\ IsFiniteSet(N) /\ Cardinality(N) = Cardinality(A)
      BY <1>1, <2>1, <3>1
    <3> HIDE DEF N
    <3>3. A = N
      BY <3>2, FS_Subset
    <3> QED
      BY <3>3 DEF N
  <2> QED
    BY <1>5, <2>1, <2>4 DEF A
<1> QED
  BY <1>5

\* How far the spans are from the root.
LEMMA SpansHaveDistances ==
  ASSUME NEW n \in Nat, NEW h, Rooted(h, n)
  PROVE  \E R, r : Distances(h, n, R, r)
<1> DEFINE V == SUBSET (1..n)
           root == h.root
           F == [A \in V |-> A \union {x \in 1..n : \E i \in A : PointsTo(h, i, x)}]
<1>1. n \in Nat \ {0} /\ root \in 1..n /\ {root} \in V
  BY DEF Rooted
<1>2. F \in [V -> V] /\ (\A A \in V : A \subseteq F[A])
      /\ \A A \in V : F[A] = A \union {x \in 1..n : \E i \in A : PointsTo(h, i, x)}
  OBVIOUS
<1> HIDE DEF F
<1>3. \E g : IsIterated(n, V, {root}, F, g)
  <2> DEFINE x == {root}
  <2>1. x \in V /\ F \in [V -> V]
    BY <1>1, <1>2
  <2> HIDE DEF x, V
  <2>2. \E g : IsIterated(n, V, x, F, g)
    BY <2>1, Iterated
  <2> QED
    BY <2>2 DEF x
<1>4. PICK near : /\ near = [k \in 0..n |-> IF k = 0 THEN {root} ELSE F[near[k - 1]]]
                  /\ \A k \in 0..n : near[k] \in V
  BY <1>3 DEF IsIterated
<1>5. /\ near[0] = {root} /\ \A k \in 0..n : near[k] \in V
      /\ \A k \in 0..n - 1 : near[k + 1] = F[near[k]]
  <2>1. 0 \in 0..n /\ near[0] = {root}
    BY <1>4
  <2>2. ASSUME NEW k \in 0..n - 1 PROVE near[k + 1] = F[near[k]]
    <3>1. k + 1 \in 0..n /\ k + 1 # 0 /\ (k + 1) - 1 = k
      OBVIOUS
    <3> HIDE DEF root, V
    <3> QED
      BY <1>4, <3>1
  <2> QED
    BY <1>4, <2>1, <2>2
<1>14. F[near[n - 1]] = near[n - 1]
  <2> HIDE DEF root
  <2>1. Near(n, root, F, near)
    BY <1>2, <1>5 DEF Near
  <2>2. n \in Nat \ {0} /\ root \in 1..n
    BY <1>1
  <2> QED
    BY <2>1, <2>2, AllNear
<1> DEFINE R == near[n - 1]
           Is(x, k) == /\ k \in 0..n - 1 /\ x \in near[k]
                       /\ \A j \in 0..n - 1 : x \in near[j] => k <= j
           first(x) == CHOOSE k : Is(x, k)
           r == [x \in R |-> first(x)]
<1>7. r = [x \in R |-> r[x]] /\ \A x \in R : r[x] = first(x)
  <2> HIDE DEF first
  <2> QED
    OBVIOUS
<1>6. ASSUME NEW x \in R PROVE Is(x, r[x])
  <2> DEFINE K == {k \in 0..n - 1 : x \in near[k]}
  <2> HIDE DEF r
  <2>1. r[x] = CHOOSE k : Is(x, k)
    BY <1>7
  <2>2. n - 1 \in K
    BY <1>1
  <2>3. K \subseteq Nat /\ K # {}
    <3>1. K \subseteq Nat
      OBVIOUS
    <3> HIDE DEF K
    <3> QED
      BY <2>2, <3>1
  <2>4. \E k \in K : \A j \in K : k <= j
    <3> HIDE DEF K
    <3> QED
      BY <2>3, LeastElement
  <2>5. \E k : Is(x, k)
    BY <2>4
  <2> HIDE DEF Is
  <2> QED
    BY <2>1, <2>5
<1> HIDE DEF r
<1>8. R \in V
  <2>1. n - 1 \in 0..n
    BY <1>1
  <2> QED
    BY <1>5, <2>1
<1>9. ASSUME NEW j \in 0..n - 1 PROVE near[j] \subseteq R
  <2> DEFINE T == {k \in 0..n - 1 : near[(n - 1) - k] \subseteq R}
  <2>2. 0 \in T
    BY <1>1
  <2>3. ASSUME NEW k \in 0..(n - 1) - 1, k \in T PROVE k + 1 \in T
    <3> DEFINE m == (n - 1) - (k + 1)
    <3>1. m \in 0..n - 1 /\ m + 1 = (n - 1) - k /\ m \in 0..n /\ k + 1 \in 0..n - 1
      BY <1>1
    <3>2. near[m] \subseteq near[m + 1]
      BY <1>2, <1>5, <3>1
    <3> QED
      BY <2>3, <3>1, <3>2
  <2> DEFINE m == n - 1
  <2>4. \A k \in 0..m - 1 : k \in T => k + 1 \in T
    BY <2>3
  <2>5. m \in Nat
    BY <1>1
  <2>6. 0..m \subseteq T
    <3> HIDE DEF m, T
    <3> QED
      BY <2>2, <2>4, <2>5, OneByOne
  <2>7. (n - 1) - j \in 0..m /\ (n - 1) - ((n - 1) - j) = j
    BY <1>1
  <2>8. (n - 1) - j \in T
    BY <2>6, <2>7
  <2> QED
    BY <2>7, <2>8
<1>10. root \in R /\ r[root] = 0
  <2>1. root \in near[0] /\ 0 \in 0..n - 1
    BY <1>1, <1>5
  <2>2. root \in R
    BY <1>9, <2>1
  <2> HIDE DEF R
  <2>3. r[root] \in 0..n - 1 /\ r[root] <= 0
    BY <1>6, <2>1, <2>2
  <2> QED
    BY <2>2, <2>3
<1>11. ASSUME NEW x \in R, x # root
       PROVE  \E i \in R : PointsTo(h, i, x) /\ r[x] = r[i] + 1
  <2> DEFINE k == r[x]
  <2>1. k \in 0..n - 1 /\ x \in near[k] /\ k # 0
    BY <1>5, <1>6, <1>11
  <2>2. k - 1 \in 0..n - 1 /\ k - 1 \in 0..n /\ (k - 1) + 1 = k /\ ~(k <= k - 1)
    BY <2>1
  <2>3. x \in F[near[k - 1]] /\ x \notin near[k - 1]
    <3>1. near[k] = F[near[k - 1]]
      BY <1>5, <2>2
    <3>2. x \notin near[k - 1]
      BY <1>6, <2>2
    <3> QED
      BY <2>1, <3>1, <3>2
  <2>4. PICK i \in near[k - 1] : PointsTo(h, i, x)
    <3> DEFINE A == near[k - 1]
    <3>1. A \in V /\ x \in F[A] /\ x \notin A
      BY <1>5, <2>2, <2>3
    <3> HIDE DEF A, V
    <3>2. x \in A \union {y \in 1..n : \E i \in A : PointsTo(h, i, y)}
      BY <1>2, <3>1
    <3>3. \E i \in A : PointsTo(h, i, x)
      BY <3>1, <3>2
    <3> QED
      BY <3>3 DEF A
  <2>5. i \in R /\ r[i] \in 0..n - 1 /\ i \in near[r[i]] /\ r[i] <= k - 1
    BY <1>6, <1>9, <2>2, <2>4
  <2>6. x \in near[r[i] + 1]
    <3>1. near[r[i] + 1] = F[near[r[i]]] /\ near[r[i]] \in V
      <4>1. r[i] \in 0..n
        BY <2>5
      <4> HIDE DEF V
      <4> QED
        BY <1>5, <2>5, <4>1
    <3>2. x \in 1..n
      BY <1>8
    <3> QED
      BY <1>2, <2>4, <2>5, <3>1, <3>2
  <2>7. k <= r[i] + 1
    <3>1. CASE r[i] + 1 \in 0..n - 1
      BY <1>6, <2>6, <3>1
    <3>2. CASE r[i] + 1 \notin 0..n - 1
      BY <2>1, <2>5, <3>2
    <3> QED
      BY <3>1, <3>2
  <2>8. k = r[i] + 1
    BY <2>1, <2>5, <2>7
  <2> QED
    BY <2>4, <2>5, <2>8
<1>12. ASSUME NEW i \in R, NEW x \in 1..n, PointsTo(h, i, x)
       PROVE  x \in R /\ r[x] = r[i] + 1
  <2>1. x \in R
    BY <1>2, <1>8, <1>12, <1>14
  <2>2. i \in 1..n /\ x # root
    BY <1>8, <1>12, OneWay
  <2>3. PICK j \in R : PointsTo(h, j, x) /\ r[x] = r[j] + 1
    BY <1>11, <2>1, <2>2
  <2>4. j = i
    BY <1>8, <1>12, <2>2, <2>3, OneWay
  <2> QED
    BY <2>1, <2>3, <2>4
<1>13. r \in [R -> 0..n - 1]
  BY <1>6, <1>7
<1> HIDE DEF R
<1>15. Distances(h, n, R, r)
  BY <1>8, <1>10, <1>11, <1>12, <1>13 DEF Distances
<1> QED
  BY <1>15

\* With a span all its children are reached, along their list.
LEMMA ChildrenReached ==
  ASSUME NEW n \in Nat, NEW h, Rooted(h, n), NEW R, NEW r, Distances(h, n, R, r),
         NEW j \in 1..n, h.parent[j] \in R
  PROVE  j \in R
<1> DEFINE p == h.parent[j]
           S == {n - k : k \in {k \in 1..n : k \in R /\ h.parent[k] = p /\ k <= j}}
<1>1. R \subseteq 1..n /\ p \in 1..n
  BY DEF Distances
<1>2. p # Null
  BY <1>1 DEF Null
<1>3. \A i \in R, x \in 1..n : PointsTo(h, i, x) => x \in R
  BY DEF Distances
<1> HIDE DEF p
<1>4. S \subseteq Nat
  OBVIOUS
<1>5. S # {}
  <2> DEFINE c == h.firstChild[p]
  <2>1. c \in 1..n /\ c # Null /\ c <= j /\ h.parent[c] = p
    BY <1>1, Pointers DEF p
  <2>2. c \in R
    <3>1. PointsTo(h, p, c)
      BY <2>1 DEF PointsTo
    <3> HIDE DEF c
    <3> QED
      BY <1>3, <2>1, <3>1 DEF p
  <2> QED
    BY <2>1, <2>2
<1>6. PICK m \in S : \A k \in S : m <= k
  <2> HIDE DEF S
  <2> QED
    BY <1>4, <1>5, LeastElement
<1>7. PICK k \in 1..n : k \in R /\ h.parent[k] = p /\ k <= j /\ m = n - k
  BY <1>6
<1>8. CASE k = j
  BY <1>7, <1>8
<1>9. CASE k # j
  <2> DEFINE s == h.nextSibling[k]
  <2>1. k < j
    BY <1>7, <1>9
  <2>2. s \in 1..n /\ s # Null /\ s <= j /\ h.parent[s] = p /\ k < s
    <3>1. h.parent[k] # Null /\ h.parent[j] = h.parent[k]
      BY <1>2, <1>7 DEF p
    <3>2. s # Null /\ s <= j
      BY <2>1, <3>1, Pointers
    <3> QED
      BY <1>7, <3>2, Pointers
  <2>3. s \in R
    <3>1. PointsTo(h, k, s)
      BY <2>2 DEF PointsTo
    <3> HIDE DEF s
    <3> QED
      BY <1>3, <1>7, <2>2, <3>1
  <2> HIDE DEF s
  <2>4. n - s \in S
    BY <2>2, <2>3
  <2>5. n - k <= n - s
    BY <1>6, <1>7, <2>4
  <2> QED
    BY <2>2, <2>5
<1> QED
  BY <1>8, <1>9

\* What is so far from the root is at least one pointer away from all before.
LEMMA Farther ==
  ASSUME NEW n \in Nat, NEW h, Rooted(h, n), NEW R, NEW r, Distances(h, n, R, r),
         NEW x \in R, x # h.root
  PROVE  \E i \in R : PointsTo(h, i, x) /\ r[x] = r[i] + 1
BY DEF Distances

\* below[d] has the spans whose parents lead to the root in d steps.
IsBelow(h, n, below) ==
    /\ below[0] = {h.root}
    /\ \A d \in 0..n - 1 :
          below[d + 1] = {h.root} \union {i \in 1..n : h.parent[i] \in below[d]}

\* The spans whose parents lead to the root are those pointers lead to.
LEMMA BelowReached ==
  ASSUME NEW n \in Nat, NEW h, Rooted(h, n), NEW R, NEW r, Distances(h, n, R, r),
         NEW below, IsBelow(h, n, below)
  PROVE  below[n] = R
<1> DEFINE root == h.root
           Kids(A) == {i \in 1..n : h.parent[i] \in A}
<1>1. R \subseteq 1..n /\ root \in R /\ (\A x \in R : r[x] \in 0..n - 1) /\ r[root] = 0
      /\ \A x \in R : x # root => \E i \in R : PointsTo(h, i, x) /\ r[x] = r[i] + 1
  <2>1. R \subseteq 1..n /\ root \in R /\ (\A x \in R : r[x] \in 0..n - 1) /\ r[root] = 0
    BY DEF Distances
  <2>2. ASSUME NEW x \in R, x # root
        PROVE  \E i \in R : PointsTo(h, i, x) /\ r[x] = r[i] + 1
    BY <2>2, Farther
  <2> HIDE DEF root
  <2> QED
    BY <2>1, <2>2
<1>2. below[0] = {root}
  BY DEF IsBelow
<1>3. ASSUME NEW d \in 0..n - 1 PROVE below[d + 1] = {root} \union Kids(below[d])
  BY DEF IsBelow
<1> HIDE DEF root
<1>4. ASSUME NEW d \in 0..n PROVE below[d] \subseteq R
  <2> DEFINE S == {k \in 0..n : below[k] \subseteq R}
  <2>1. 0 \in S
    BY <1>1, <1>2
  <2>2. ASSUME NEW k \in 0..n - 1, k \in S PROVE k + 1 \in S
    <3>1. Kids(below[k]) \subseteq R
      BY <2>2, ChildrenReached
    <3> QED
      BY <1>1, <1>3, <3>1
  <2>3. 0..n \subseteq S
    <3> HIDE DEF S
    <3> QED
      BY <2>1, <2>2, OneByOne
  <2> QED
    BY <2>3
<1>5. ASSUME NEW d \in 0..n - 1 PROVE below[d] \subseteq below[d + 1]
  <2> DEFINE S == {k \in 0..n : k < n => below[k] \subseteq below[k + 1]}
  <2>1. 0 \in S
    BY <1>2, <1>3
  <2>2. ASSUME NEW k \in 0..n - 1, k \in S PROVE k + 1 \in S
    <3> SUFFICES ASSUME k + 1 < n PROVE below[k + 1] \subseteq below[(k + 1) + 1]
      OBVIOUS
    <3>2. below[k] \subseteq below[k + 1] /\ k + 1 \in 0..n - 1
      BY <2>2
    <3>3. /\ below[k + 1] = {root} \union Kids(below[k])
          /\ below[(k + 1) + 1] = {root} \union Kids(below[k + 1])
      BY <1>3, <3>2
    <3> QED
      BY <3>2, <3>3
  <2>3. 0..n \subseteq S
    <3> HIDE DEF S
    <3> QED
      BY <2>1, <2>2, OneByOne
  <2> QED
    BY <2>3
<1>6. ASSUME NEW d \in 0..n PROVE \A x \in R : r[x] = d => x \in below[d]
  <2> DEFINE S == {k \in 0..n : \A x \in R : r[x] = k => x \in below[k]}
  <2>1. 0 \in S
    <3> SUFFICES ASSUME NEW x \in R, r[x] = 0 PROVE x = root
      BY <1>2
    <3>1. SUFFICES ASSUME x # root PROVE FALSE
      OBVIOUS
    <3>2. PICK i \in R : r[x] = r[i] + 1
      BY <1>1, <3>1
    <3>3. r[i] \in 0..n - 1
      BY <1>1
    <3> QED
      BY <3>2, <3>3
  <2>2. ASSUME NEW k \in 0..n - 1, k \in S PROVE k + 1 \in S
    <3> SUFFICES ASSUME NEW x \in R, r[x] = k + 1 PROVE x \in below[k + 1]
      OBVIOUS
    <3>1. x # root /\ x \in 1..n
      BY <1>1
    <3>2. PICK i \in R : PointsTo(h, i, x) /\ r[x] = r[i] + 1
      BY <1>1, <3>1
    <3>3. i \in 1..n /\ r[i] = k
      <4>1. r[i] \in Nat /\ i \in 1..n
        BY <1>1
      <4> QED
        BY <3>2, <4>1
    <3>4. i \in below[k]
      BY <2>2, <3>3
    <3>5. CASE h.firstChild[i] = x
      <4>1. h.parent[x] = i
        BY <3>1, <3>3, <3>5, Pointers DEF Null
      <4> QED
        BY <1>3, <3>1, <3>4, <4>1
    <3>6. CASE h.nextSibling[i] = x
      <4>1. h.parent[x] = h.parent[i] /\ h.parent[i] # Null
        BY <3>1, <3>3, <3>6, Pointers DEF Null
      <4>2. i # root
        BY <4>1 DEF Rooted, root
      <4>3. k # 0
        BY <1>2, <3>4, <4>2
      <4>4. k - 1 \in 0..n - 1 /\ (k - 1) + 1 = k
        BY <4>3
      <4>5. below[k] = {root} \union Kids(below[k - 1])
        BY <1>3, <4>4
      <4>6. x \in Kids(below[k - 1])
        BY <3>1, <3>4, <4>1, <4>2, <4>5
      <4> QED
        BY <1>5, <4>5, <4>6
    <3> QED
      BY <3>2, <3>5, <3>6 DEF PointsTo
  <2>3. 0..n \subseteq S
    <3> HIDE DEF S
    <3> QED
      BY <2>1, <2>2, OneByOne
  <2> QED
    BY <2>3
<1>7. ASSUME NEW x \in R PROVE x \in below[n]
  <2> DEFINE S == {k \in 0..n : k >= r[x] => x \in below[k]}
  <2>1. r[x] \in 0..n - 1
    BY <1>1
  <2>2. 0 \in S
    BY <1>6, <2>1
  <2>3. ASSUME NEW k \in 0..n - 1, k \in S PROVE k + 1 \in S
    <3>1. CASE k >= r[x]
      BY <1>5, <2>3, <3>1
    <3>2. CASE ~(k >= r[x])
      <4>1. k + 1 >= r[x] => r[x] = k + 1
        BY <2>1, <3>2
      <4> QED
        BY <1>6, <4>1
    <3> QED
      BY <3>1, <3>2
  <2>4. 0..n \subseteq S
    <3> HIDE DEF S
    <3> QED
      BY <2>2, <2>3, OneByOne
  <2> QED
    BY <2>1, <2>4
<1>8. n \in 0..n
  OBVIOUS
<1> QED
  BY <1>4, <1>7, <1>8

-----------------------------------------------------------------------------
(* The walk. *)

\* A sequence joined to another.
LEMMA Joined ==
  ASSUME NEW S, NEW s \in Seq(S), NEW t \in Seq(S)
  PROVE  /\ s \o t \in Seq(S) /\ Len(s) \in Nat /\ Len(t) \in Nat
         /\ Len(s \o t) = Len(s) + Len(t)
         /\ DOMAIN s = 1..Len(s) /\ DOMAIN t = 1..Len(t)
         /\ DOMAIN (s \o t) = 1..Len(s) + Len(t)
         /\ \A v \in 1..Len(s) : (s \o t)[v] = s[v]
         /\ \A v \in 1..Len(t) : (s \o t)[Len(s) + v] = t[v]
         /\ ToSet(s \o t) = ToSet(s) \union ToSet(t)
<1> DEFINE m == Len(s)
           n == Len(t)
           j == s \o t
<1>1. /\ j \in Seq(S) /\ m \in Nat /\ n \in Nat /\ Len(j) = m + n
      /\ DOMAIN s = 1..m /\ DOMAIN t = 1..n /\ DOMAIN j = 1..m + n
      /\ \A v \in 1..m + n : j[v] = IF v <= m THEN s[v] ELSE t[v - m]
  BY ConcatProperties, LenProperties
<1> HIDE DEF m, n, j
<1>2. \A v \in 1..m : j[v] = s[v]
  <2> SUFFICES ASSUME NEW v \in 1..m PROVE j[v] = s[v]
    OBVIOUS
  <2>1. v \in 1..m + n /\ v <= m
    BY <1>1
  <2> QED
    BY <1>1, <2>1
<1>3. \A v \in 1..n : j[m + v] = t[v]
  <2> SUFFICES ASSUME NEW v \in 1..n PROVE j[m + v] = t[v]
    OBVIOUS
  <2>1. m + v \in 1..m + n /\ ~(m + v <= m) /\ (m + v) - m = v
    BY <1>1
  <2> QED
    BY <1>1, <2>1
<1>4. ToSet(j) = ToSet(s) \union ToSet(t)
  <2>1. /\ ToSet(j) = {j[v] : v \in 1..m + n}
        /\ ToSet(s) = {s[v] : v \in 1..m} /\ ToSet(t) = {t[v] : v \in 1..n}
    BY <1>1 DEF ToSet
  <2>2. ASSUME NEW v \in 1..m + n PROVE j[v] \in ToSet(s) \union ToSet(t)
    <3>1. v \in 1..m \/ (v - m \in 1..n /\ m + (v - m) = v)
      BY <1>1
    <3> QED
      BY <1>2, <1>3, <2>1, <3>1
  <2>3. ASSUME NEW v \in 1..m PROVE s[v] \in ToSet(j)
    <3>1. v \in 1..m + n
      BY <1>1
    <3> QED
      BY <1>2, <2>1, <3>1
  <2>4. ASSUME NEW v \in 1..n PROVE t[v] \in ToSet(j)
    <3>1. m + v \in 1..m + n
      BY <1>1
    <3> QED
      BY <1>3, <2>1, <3>1
  <2> QED
    BY <2>1, <2>2, <2>3, <2>4
<1> QED
  BY <1>1, <1>2, <1>3, <1>4 DEF m, n, j

\* Sequences without repetitions and without a common element.
LEMMA JoinedInjective ==
  ASSUME NEW S, NEW s \in Seq(S), NEW t \in Seq(S),
         IsInjective(s), IsInjective(t), ToSet(s) \cap ToSet(t) = {}
  PROVE  IsInjective(s \o t)
<1> DEFINE m == Len(s)
           n == Len(t)
           j == s \o t
<1>1. /\ m \in Nat /\ n \in Nat /\ DOMAIN s = 1..m /\ DOMAIN t = 1..n
      /\ DOMAIN j = 1..m + n
      /\ \A v \in 1..m : j[v] = s[v]
      /\ \A v \in 1..n : j[m + v] = t[v]
  BY Joined
<1>2. /\ \A u, v \in 1..m : s[u] = s[v] => u = v
      /\ \A u, v \in 1..n : t[u] = t[v] => u = v
  BY <1>1 DEF IsInjective
<1>4. ASSUME NEW u \in 1..m, NEW v \in 1..n PROVE s[u] # t[v]
  <2>1. s[u] \in ToSet(s) /\ t[v] \in ToSet(t)
    BY <1>1 DEF ToSet
  <2> QED
    BY <2>1
<1> HIDE DEF m, n, j
<1>3. ASSUME NEW u \in 1..m + n, NEW v \in 1..m + n, j[u] = j[v] PROVE u = v
  <2>1. \A w \in 1..m + n : w \in 1..m \/ (w - m \in 1..n /\ m + (w - m) = w)
    BY <1>1
  <2>2. CASE u \in 1..m /\ v \in 1..m
    BY <1>1, <1>2, <1>3, <2>2
  <2>3. CASE u - m \in 1..n /\ v - m \in 1..n
    <3>1. t[u - m] = t[v - m]
      BY <1>1, <1>3, <2>1, <2>3
    <3>2. u - m = v - m
      BY <1>2, <2>3, <3>1
    <3> QED
      BY <1>1, <3>2
  <2>4. CASE u \in 1..m /\ v - m \in 1..n
    <3>1. j[u] = s[u] /\ j[v] = t[v - m]
      BY <1>1, <2>1, <2>4
    <3> QED
      BY <1>3, <1>4, <2>4, <3>1
  <2>5. CASE u - m \in 1..n /\ v \in 1..m
    <3>1. j[u] = t[u - m] /\ j[v] = s[v]
      BY <1>1, <2>1, <2>5
    <3> QED
      BY <1>3, <1>4, <2>5, <3>1
  <2> QED
    BY <2>1, <2>2, <2>3, <2>4, <2>5
<1> QED
  BY <1>1, <1>3 DEF IsInjective, j

\* In a walk a span comes after its parent, which may be span p before it.
ParentsFirst(h, walk, p) ==
    \A v \in DOMAIN walk : \/ h.parent[walk[v]] = p
                           \/ \E u \in 1..v - 1 : walk[u] = h.parent[walk[v]]

LEMMA JoinedParentsFirst ==
  ASSUME NEW S, NEW s \in Seq(S), NEW t \in Seq(S), NEW h, NEW p, NEW q,
         ParentsFirst(h, s, p), ParentsFirst(h, t, q), q = p \/ q \in ToSet(s)
  PROVE  ParentsFirst(h, s \o t, p)
<1> DEFINE m == Len(s)
           n == Len(t)
           j == s \o t
<1>1. /\ m \in Nat /\ n \in Nat /\ DOMAIN s = 1..m /\ DOMAIN t = 1..n
      /\ DOMAIN j = 1..m + n
      /\ \A v \in 1..m : j[v] = s[v]
      /\ \A v \in 1..n : j[m + v] = t[v]
  BY Joined
<1>2. ToSet(s) = {s[v] : v \in 1..m}
  BY <1>1 DEF ToSet
<1> HIDE DEF m, n, j
<1> SUFFICES ASSUME NEW v \in 1..m + n
             PROVE  \/ h.parent[j[v]] = p
                    \/ \E u \in 1..v - 1 : j[u] = h.parent[j[v]]
  BY <1>1 DEF ParentsFirst, j
<1>3. v \in 1..m \/ (v - m \in 1..n /\ m + (v - m) = v)
  BY <1>1
<1>4. CASE v \in 1..m
  <2>1. \A u \in 1..v - 1 : u \in 1..m
    BY <1>1, <1>4
  <2>2. h.parent[s[v]] = p \/ \E u \in 1..v - 1 : s[u] = h.parent[s[v]]
    BY <1>1, <1>4 DEF ParentsFirst
  <2> QED
    BY <1>1, <1>4, <2>1, <2>2
<1>5. CASE v - m \in 1..n /\ m + (v - m) = v
  <2> DEFINE w == v - m
  <2>1. w \in 1..n /\ m + w = v /\ j[v] = t[w]
    BY <1>1, <1>5
  <2> HIDE DEF w
  <2>2. h.parent[t[w]] = q \/ \E u \in 1..w - 1 : t[u] = h.parent[t[w]]
    BY <1>1, <2>1 DEF ParentsFirst
  <2>3. CASE h.parent[t[w]] = q
    <3>1. CASE q = p
      BY <2>1, <2>3, <3>1
    <3>2. CASE q \in ToSet(s)
      <4>1. PICK u \in 1..m : s[u] = q
        BY <1>2, <3>2
      <4>2. u \in 1..v - 1 /\ j[u] = q
        <5>1. u < v
          BY <1>1, <2>1
        <5> QED
          BY <1>1, <4>1, <5>1
      <4> QED
        BY <2>1, <2>3, <4>2
    <3> QED
      BY <3>1, <3>2
  <2>4. CASE \E u \in 1..w - 1 : t[u] = h.parent[t[w]]
    <3>1. PICK u \in 1..w - 1 : t[u] = h.parent[t[w]]
      BY <2>4
    <3>2. u \in 1..n /\ m + u \in 1..v - 1
      BY <1>1, <2>1
    <3>3. j[m + u] = t[u]
      BY <1>1, <3>2
    <3> QED
      BY <2>1, <3>1, <3>2, <3>3
  <2> QED
    BY <2>2, <2>3, <2>4
<1> QED
  BY <1>3, <1>4, <1>5

\* The spans A are reached through span i, and each through others of them.
ReachedFrom(h, R, r, i, A) ==
    /\ A \subseteq R
    /\ \A x \in A : /\ i \in R /\ r[i] <= r[x]
                    /\ x # i => \E y \in A : PointsTo(h, y, x)

\* What can be reached through the two pointers of a span is not the same.
LEMMA TwoWays ==
  ASSUME NEW n \in Nat, NEW h, Rooted(h, n), NEW R, NEW r, Distances(h, n, R, r),
         NEW i \in R, NEW A, ReachedFrom(h, R, r, h.firstChild[i], A),
         NEW B, ReachedFrom(h, R, r, h.nextSibling[i], B)
  PROVE  A \cap B = {} /\ i \notin A /\ i \notin B
<1> DEFINE c == h.firstChild[i]
           s == h.nextSibling[i]
           T == {r[x] : x \in A \cap B}
<1>1. /\ R \subseteq 1..n /\ \A x \in R : r[x] \in Nat
      /\ \A x \in R, y \in R : PointsTo(h, x, y) => r[y] = r[x] + 1
  BY DEF Distances
<1>2. ASSUME NEW x \in A
      PROVE  /\ x \in R /\ c \in R /\ r[c] <= r[x] /\ r[c] = r[i] + 1 /\ PointsTo(h, i, c)
             /\ x # c => \E y \in A : PointsTo(h, y, x)
  <2>1. x \in R /\ c \in R /\ r[c] <= r[x] /\ (x # c => \E y \in A : PointsTo(h, y, x))
    BY DEF ReachedFrom
  <2>2. PointsTo(h, i, c)
    BY <1>1, <2>1 DEF PointsTo, Null
  <2> QED
    BY <1>1, <2>1, <2>2
<1>3. ASSUME NEW x \in B
      PROVE  /\ x \in R /\ s \in R /\ r[s] <= r[x] /\ r[s] = r[i] + 1 /\ PointsTo(h, i, s)
             /\ x # s => \E y \in B : PointsTo(h, y, x)
  <2>1. x \in R /\ s \in R /\ r[s] <= r[x] /\ (x # s => \E y \in B : PointsTo(h, y, x))
    BY DEF ReachedFrom
  <2>2. PointsTo(h, i, s)
    BY <1>1, <2>1 DEF PointsTo, Null
  <2> QED
    BY <1>1, <2>1, <2>2
<1>4. \A x \in R : \A y, z \in R : PointsTo(h, y, x) /\ PointsTo(h, z, x) => y = z
  BY <1>1, OneWay
<1>5. c \in R /\ s \in R => c # s
  <2>1. ASSUME c \in R, s = c PROVE FALSE
    <3>1. c \in 1..n /\ i \in 1..n /\ h.firstChild[i] = c /\ h.nextSibling[i] = c
      BY <1>1, <2>1
    <3> HIDE DEF c, s
    <3> QED
      BY <3>1, OneWay
  <2> QED
    BY <2>1
<1> HIDE DEF c, s
<1>6. i \notin A /\ i \notin B
  <2>1. r[i] \in Nat
    BY <1>1
  <2> QED
    BY <1>2, <1>3, <2>1
<1>7. ASSUME A \cap B # {} PROVE FALSE
  <2>1. T \subseteq Nat /\ T # {}
    BY <1>1, <1>2, <1>7
  <2>2. PICK m \in T : \A k \in T : m <= k
    <3> HIDE DEF T
    <3> QED
      BY <2>1, LeastElement
  <2>3. PICK x \in A \cap B : m = r[x]
    BY <2>2
  <2>4. \A y \in A \cap B : r[x] <= r[y]
    BY <2>2, <2>3
  <2>5. CASE x = c
    <3>1. x # s
      BY <1>2, <1>3, <1>5, <2>3, <2>5
    <3>2. PICK y \in B : PointsTo(h, y, x)
      BY <1>3, <2>3, <3>1
    <3>3. PointsTo(h, i, x)
      BY <1>2, <2>3, <2>5
    <3>4. y = i
      BY <1>2, <1>3, <1>4, <2>3, <3>2, <3>3
    <3> QED
      BY <1>6, <3>4
  <2>6. CASE x = s
    <3>1. x # c
      BY <1>2, <1>3, <1>5, <2>3, <2>6
    <3>2. PICK y \in A : PointsTo(h, y, x)
      BY <1>2, <2>3, <3>1
    <3>3. PointsTo(h, i, x)
      BY <1>3, <2>3, <2>6
    <3>4. y = i
      BY <1>2, <1>3, <1>4, <2>3, <3>2, <3>3
    <3> QED
      BY <1>6, <3>4
  <2>7. CASE x # c /\ x # s
    <3>1. PICK y \in A : PointsTo(h, y, x)
      BY <1>2, <2>3, <2>7
    <3>2. PICK z \in B : PointsTo(h, z, x)
      BY <1>3, <2>3, <2>7
    <3>3. y \in R /\ z \in R /\ x \in R /\ y = z
      BY <1>2, <1>3, <1>4, <2>3, <3>1, <3>2
    <3>4. r[x] = r[y] + 1 /\ r[y] \in Nat
      BY <1>1, <3>1, <3>3
    <3>5. r[x] <= r[y]
      BY <2>4, <3>3
    <3> QED
      BY <3>4, <3>5
  <2> QED
    BY <2>5, <2>6, <2>7
<1> QED
  BY <1>6, <1>7

\* The walk from span i, as far as d pointers lead.
WalksFrom(h, R, r, d, i, walk) ==
    /\ walk \in Seq(R) /\ IsInjective(walk) /\ ParentsFirst(h, walk, h.parent[i])
    /\ ReachedFrom(h, R, r, i, ToSet(walk))
    /\ d > 0 /\ i # Null => i \in ToSet(walk)
    /\ \A x \in ToSet(walk) : r[x] - r[i] < d - 1 =>
          \A y \in R : PointsTo(h, x, y) => y \in ToSet(walk)

\* A span, what is below it, and its later siblings.
LEMMA WalkJoined ==
  ASSUME NEW n \in Nat, NEW h, Rooted(h, n), NEW R, NEW r, Distances(h, n, R, r),
         NEW i \in R, NEW d \in Nat, NEW s, NEW t,
         WalksFrom(h, R, r, d, h.firstChild[i], s), WalksFrom(h, R, r, d, h.nextSibling[i], t),
         h.firstChild[i] = Null => s = <<>>, h.nextSibling[i] = Null => t = <<>>
  PROVE  WalksFrom(h, R, r, d + 1, i, <<i>> \o s \o t)
<1> DEFINE c == h.firstChild[i]
           e == h.nextSibling[i]
           A == ToSet(s)
           B == ToSet(t)
           one == <<i>>
           w == <<i>> \o s \o t
<1>1. /\ R \subseteq 1..n /\ \A x \in R : r[x] \in Nat
      /\ \A x \in R, y \in R : PointsTo(h, x, y) => r[y] = r[x] + 1
      /\ \A x \in R, y \in 1..n : PointsTo(h, x, y) => y \in R
  BY DEF Distances
<1>2. /\ s \in Seq(R) /\ t \in Seq(R) /\ IsInjective(s) /\ IsInjective(t)
      /\ ReachedFrom(h, R, r, c, A) /\ ReachedFrom(h, R, r, e, B)
      /\ d > 0 /\ c # Null => c \in A
      /\ d > 0 /\ e # Null => e \in B
      /\ \A x \in A : r[x] - r[c] < d - 1 =>
            \A y \in R : PointsTo(h, x, y) => y \in A
      /\ \A x \in B : r[x] - r[e] < d - 1 =>
            \A y \in R : PointsTo(h, x, y) => y \in B
  BY DEF WalksFrom
<1>3. A \cap B = {} /\ i \notin A /\ i \notin B
  <2> HIDE DEF A, B
  <2> QED
    BY <1>2, TwoWays DEF c, e
<1>4. /\ one \in Seq(R) /\ DOMAIN one = 1..1 /\ one[1] = i
      /\ ToSet(one) = {i} /\ IsInjective(one)
  <2>1. one \in Seq(R) /\ Len(one) = 1 /\ DOMAIN one = 1..1 /\ one[1] = i
    OBVIOUS
  <2>2. \A v \in 1..1 : v = 1
    OBVIOUS
  <2> HIDE DEF one
  <2> QED
    BY <2>1, <2>2 DEF ToSet, IsInjective
<1>5. w = one \o s \o t
  OBVIOUS
<1> HIDE DEF one, w, A, B
<1>6. /\ one \o s \in Seq(R) /\ IsInjective(one \o s)
      /\ ToSet(one \o s) = {i} \union A
  <2>1. one \o s \in Seq(R) /\ ToSet(one \o s) = ToSet(one) \union ToSet(s)
    BY <1>2, <1>4, Joined
  <2>2. ToSet(one) \cap ToSet(s) = {}
    BY <1>3, <1>4 DEF A
  <2>3. IsInjective(one \o s)
    BY <1>2, <1>4, <2>2, JoinedInjective
  <2> QED
    BY <1>4, <2>1, <2>3 DEF A
<1>7. /\ w \in Seq(R) /\ IsInjective(w) /\ ToSet(w) = {i} \union A \union B
  <2>1. w \in Seq(R) /\ ToSet(w) = ToSet(one \o s) \union ToSet(t)
    <3> DEFINE u == one \o s
    <3>1. u \in Seq(R) /\ t \in Seq(R) /\ w = u \o t
      BY <1>2, <1>5, <1>6
    <3> HIDE DEF u
    <3>2. u \o t \in Seq(R) /\ ToSet(u \o t) = ToSet(u) \union ToSet(t)
      BY <3>1, Joined
    <3> QED
      BY <3>1, <3>2 DEF u
  <2>2. ToSet(one \o s) \cap ToSet(t) = {}
    BY <1>3, <1>6 DEF B
  <2>3. IsInjective(w)
    BY <1>2, <1>5, <1>6, <2>2, JoinedInjective
  <2> QED
    BY <1>6, <2>1, <2>3 DEF B
<1>8. ParentsFirst(h, w, h.parent[i])
  <2> DEFINE p == h.parent[i]
  <2>1. ParentsFirst(h, one, p)
    BY <1>4 DEF ParentsFirst
  <2>2. ParentsFirst(h, s, i)
    <3>1. CASE c = Null
      <4>1. s = <<>> /\ DOMAIN s = {}
        BY <3>1 DEF c
      <4> QED
        BY <4>1 DEF ParentsFirst
    <3>2. CASE c # Null
      <4>1. h.parent[c] = i
        BY <1>1, <3>2, Pointers DEF c
      <4>2. ParentsFirst(h, s, h.parent[c])
        BY DEF WalksFrom, c
      <4> QED
        BY <4>1, <4>2
    <3> QED
      BY <3>1, <3>2
  <2>3. ParentsFirst(h, t, p)
    <3>1. CASE e = Null
      <4>1. t = <<>> /\ DOMAIN t = {}
        BY <3>1 DEF e
      <4> QED
        BY <4>1 DEF ParentsFirst
    <3>2. CASE e # Null
      <4>1. h.parent[e] = p
        BY <1>1, <3>2, Pointers DEF e
      <4>2. ParentsFirst(h, t, h.parent[e])
        BY DEF WalksFrom, e
      <4> QED
        BY <4>1, <4>2
    <3> QED
      BY <3>1, <3>2
  <2> HIDE DEF p
  <2>4. i \in ToSet(one)
    BY <1>4
  <2>5. ParentsFirst(h, one \o s, p)
    BY <1>2, <1>4, <2>1, <2>2, <2>4, JoinedParentsFirst
  <2>6. ParentsFirst(h, w, p)
    BY <1>2, <1>5, <1>6, <2>3, <2>5, JoinedParentsFirst
  <2> QED
    BY <2>6 DEF p
<1>9. ASSUME NEW x \in R, r[x] \in Nat, PointsTo(h, i, x) PROVE x = c \/ x = e
  BY <1>9 DEF PointsTo, c, e
<1>10. /\ \A x \in A : /\ c \in R /\ PointsTo(h, i, c) /\ r[c] = r[i] + 1 /\ r[c] <= r[x]
                       /\ x # c => \E y \in A : PointsTo(h, y, x)
       /\ \A x \in B : /\ e \in R /\ PointsTo(h, i, e) /\ r[e] = r[i] + 1 /\ r[e] <= r[x]
                       /\ x # e => \E y \in B : PointsTo(h, y, x)
  <2>1. /\ c \in R => PointsTo(h, i, c)
        /\ e \in R => PointsTo(h, i, e)
    BY <1>1 DEF PointsTo, Null, c, e
  <2> HIDE DEF c, e
  <2> QED
    BY <1>1, <1>2, <2>1 DEF ReachedFrom
<1>11. A \subseteq R /\ B \subseteq R
  BY <1>2 DEF ReachedFrom
<1> HIDE DEF c, e
<1>12. ReachedFrom(h, R, r, i, ToSet(w))
  <2>1. ToSet(w) \subseteq R
    BY <1>7, <1>11
  <2>2. ASSUME NEW x \in ToSet(w)
        PROVE  /\ r[i] <= r[x]
               /\ x # i => \E y \in ToSet(w) : PointsTo(h, y, x)
    <3>1. r[i] \in Nat /\ r[x] \in Nat
      BY <1>1, <2>1
    <3>2. CASE x = i
      BY <3>1, <3>2
    <3>3. CASE x \in A
      BY <1>7, <1>10, <3>1, <3>3
    <3>4. CASE x \in B
      BY <1>7, <1>10, <3>1, <3>4
    <3> QED
      BY <1>7, <3>2, <3>3, <3>4
  <2> QED
    BY <2>1, <2>2 DEF ReachedFrom
<1>13. ASSUME NEW x \in ToSet(w), r[x] - r[i] < (d + 1) - 1,
              NEW y \in R, PointsTo(h, x, y)
       PROVE  y \in ToSet(w)
  <2>1. r[i] \in Nat /\ r[x] \in Nat
    BY <1>1, <1>7, <1>11
  <2>2. CASE x = i
    <3>1. d > 0
      BY <1>13, <2>1, <2>2
    <3>2. y = c \/ y = e
      BY <1>1, <1>9, <1>13, <2>2
    <3>3. y # Null
      BY <1>13 DEF PointsTo
    <3> QED
      BY <1>2, <1>7, <3>1, <3>2, <3>3
  <2>3. CASE x \in A
    <3>1. r[c] = r[i] + 1
      BY <1>10, <2>3
    <3>2. r[x] - r[c] < d - 1
      BY <1>13, <2>1, <3>1
    <3> QED
      BY <1>2, <1>7, <1>13, <2>3, <3>2
  <2>4. CASE x \in B
    <3>1. r[e] = r[i] + 1
      BY <1>10, <2>4
    <3>2. r[x] - r[e] < d - 1
      BY <1>13, <2>1, <3>1
    <3> QED
      BY <1>2, <1>7, <1>13, <2>4, <3>2
  <2> QED
    BY <1>7, <2>2, <2>3, <2>4
<1>14. WalksFrom(h, R, r, d + 1, i, w)
  BY <1>7, <1>8, <1>12, <1>13 DEF WalksFrom
<1> QED
  BY <1>14 DEF w

\* visit is the function Preorder recurs by.
IsVisit(h, n, visit) ==
    /\ \A i \in 0..n : visit[0][i] = <<>>
    /\ \A d \in 0..n - 1 :
          /\ visit[d + 1][Null] = <<>>
          /\ \A i \in 1..n : visit[d + 1][i] =
                <<i>> \o visit[d][h.firstChild[i]] \o visit[d][h.nextSibling[i]]

LEMMA LinksLength ==
  ASSUME NEW n \in Nat, NEW h \in Trees(n)
  PROVE  Len(h.parent) = n
<1> DEFINE f == h.parent
           N == {Null} \union 1..n
<1>1. f \in [1..n -> N]
  BY DEF Trees
<1> HIDE DEF f, N
<1>2. f \in Seq(N)
  BY <1>1, SeqDef
<1>3. DOMAIN f = 1..n
  BY <1>1
<1>4. Len(f) = n
  BY <1>2, <1>3, LenProperties
<1> QED
  BY <1>4 DEF f

LEMMA VisitDefined ==
  ASSUME NEW n \in Nat, NEW h \in Trees(n), h.root # Null
  PROVE  \E visit : /\ IsVisit(h, n, visit)
                    /\ Preorder(h) = <<h.root>> \o visit[n][h.firstChild[h.root]]
<1> DEFINE first == h.firstChild
           next == h.nextSibling
           W == Seq(1..n)
           V == [0..n -> W]
           x == [i \in 0..n |-> <<>>]
           on(v) == [i \in 0..n |-> IF i = Null THEN <<>> ELSE <<i>> \o v[first[i]] \o v[next[i]]]
           F == [v \in V |-> on(v)]
           step(f, d) == [i \in 0..n |->
                            IF d = 0 \/ i = Null THEN <<>>
                            ELSE <<i>> \o f[d - 1][first[i]] \o f[d - 1][next[i]]]
           m == Len(h.parent)
           visit == CHOOSE f : f = [d \in 0..m |-> [i \in 0..m |->
                            IF d = 0 \/ i = Null THEN <<>>
                            ELSE <<i>> \o f[d - 1][first[i]] \o f[d - 1][next[i]]]]
<1>1. Preorder(h) = <<h.root>> \o visit[m][first[h.root]]
  BY Zenon DEF Preorder
<1>2. m = n
  BY LinksLength
<1>3. \A i \in 1..n : first[i] \in 0..n /\ next[i] \in 0..n
  BY DEF Trees, Null
<1>4. x \in V
  <2>1. <<>> \in W
    BY EmptySeq
  <2> HIDE DEF W
  <2> QED
    BY <2>1
<1>5. ASSUME NEW v \in V PROVE on(v) \in V
  <2>1. ASSUME NEW i \in 0..n
        PROVE  (IF i = Null THEN <<>> ELSE <<i>> \o v[first[i]] \o v[next[i]]) \in W
    <3>1. CASE i = Null
      BY <3>1, EmptySeq
    <3>2. CASE i # Null
      <4> DEFINE a == <<i>>
                 b == v[first[i]]
                 c == v[next[i]]
      <4>1. i \in 1..n
        BY <3>2 DEF Null
      <4>2. a \in W
        BY <4>1
      <4>3. b \in W /\ c \in W
        <5> HIDE DEF W
        <5> QED
          BY <1>3, <4>1
      <4> HIDE DEF a, b, c, W
      <4>4. a \o b \in W
        BY <4>2, <4>3, ConcatProperties DEF W
      <4>5. a \o b \o c \in W
        BY <4>3, <4>4, ConcatProperties DEF W
      <4> QED
        BY <3>2, <4>5 DEF a, b, c
    <3> QED
      BY <3>1, <3>2
  <2> HIDE DEF W
  <2> QED
    BY <2>1
<1> HIDE DEF V, x
<1>6. F \in [V -> V]
  <2> HIDE DEF on
  <2> QED
    BY <1>5
<1> HIDE DEF F
<1>12. \E g : IsIterated(n, V, x, F, g)
  BY <1>4, <1>6, Iterated
<1>7. PICK g : /\ g = [k \in 0..n |-> IF k = 0 THEN x ELSE F[g[k - 1]]]
               /\ \A k \in 0..n : g[k] \in V
  BY <1>12 DEF IsIterated
<1>8. g = [d \in 0..n |-> step(g, d)]
  <2>1. ASSUME NEW d \in 0..n
        PROVE  (IF d = 0 THEN x ELSE F[g[d - 1]]) = step(g, d)
    <3>1. CASE d = 0
      BY <3>1 DEF x
    <3>2. CASE d # 0
      <4>1. d - 1 \in 0..n
        BY <3>2
      <4>2. g[d - 1] \in V
        BY <1>7, <4>1
      <4>3. F[g[d - 1]] = on(g[d - 1])
        <5> HIDE DEF on
        <5> QED
          BY <4>2 DEF F
      <4>4. on(g[d - 1]) = step(g, d)
        BY <3>2
      <4> QED
        BY <3>2, <4>3, <4>4
    <3> QED
      BY <3>1, <3>2
  <2> HIDE DEF step
  <2> QED
    BY <1>7, <2>1
<1>9. visit = [d \in 0..n |-> step(visit, d)]
  <2> DEFINE P(f) == f = [d \in 0..n |-> step(f, d)]
  <2>1. visit = CHOOSE f : P(f)
    BY <1>2
  <2>2. P(g)
    BY <1>8
  <2> HIDE DEF P, visit
  <2>3. P(visit)
    BY <2>1, <2>2
  <2> QED
    BY <2>3 DEF P
<1> HIDE DEF visit
<1>10. \A d \in 0..n : visit[d] = step(visit, d)
  <2> HIDE DEF step
  <2> QED
    BY <1>9
<1>11. IsVisit(h, n, visit)
  <2>1. ASSUME NEW i \in 0..n PROVE visit[0][i] = <<>>
    <3>1. visit[0] = step(visit, 0)
      BY <1>10
    <3> QED
      BY <3>1
  <2>2. ASSUME NEW d \in 0..n - 1
        PROVE  /\ visit[d + 1][Null] = <<>>
               /\ \A i \in 1..n : visit[d + 1][i] =
                     <<i>> \o visit[d][first[i]] \o visit[d][next[i]]
    <3>1. d + 1 \in 0..n /\ d + 1 # 0 /\ (d + 1) - 1 = d
      OBVIOUS
    <3>2. visit[d + 1] = step(visit, d + 1)
      BY <1>10, <3>1
    <3>3. visit[d + 1] = [i \in 0..n |-> IF i = Null THEN <<>>
                              ELSE <<i>> \o visit[d][first[i]] \o visit[d][next[i]]]
      BY <3>1, <3>2
    <3>4. Null \in 0..n /\ \A i \in 1..n : i \in 0..n /\ i # Null
      BY DEF Null
    <3> QED
      BY <3>3, <3>4
  <2> QED
    BY <2>1, <2>2 DEF IsVisit
<1> QED
  BY <1>1, <1>2, <1>11

\* span_tree_walk_preorder from the root.
LEMMA WalkOfReached ==
  ASSUME NEW n \in Nat, NEW h, Rooted(h, n), NEW R, NEW r, Distances(h, n, R, r)
  PROVE  /\ Preorder(h) \in Seq(R) /\ IsInjective(Preorder(h))
         /\ ToSet(Preorder(h)) = R
         /\ Len(Preorder(h)) >= 1 /\ Preorder(h)[1] = h.root
         /\ ParentsFirst(h, Preorder(h), Null)
<1> DEFINE root == h.root
           w == Preorder(h)
<1>1. h \in Trees(n) /\ root \in 1..n /\ root # Null /\ h.parent[root] = Null
  BY DEF Rooted, Null
<1>2. PICK visit : /\ IsVisit(h, n, visit)
                   /\ w = <<root>> \o visit[n][h.firstChild[root]]
  BY <1>1, VisitDefined
<1> HIDE DEF w, root
<1>3. /\ R \subseteq 1..n /\ root \in R /\ r[root] = 0 /\ \A x \in R : r[x] \in 0..n - 1
      /\ \A x \in R, y \in 1..n : PointsTo(h, x, y) => y \in R
  BY DEF Distances, root
<1>4. ASSUME NEW d \in Nat, NEW i PROVE i = Null => WalksFrom(h, R, r, d, i, <<>>)
  <2>1. ToSet(<<>>) = {} /\ <<>> \in Seq(R) /\ DOMAIN <<>> = {}
    BY DEF ToSet
  <2> QED
    BY <2>1 DEF WalksFrom, IsInjective, ParentsFirst, ReachedFrom
<1>5. ASSUME NEW i \in R
      PROVE  /\ h.firstChild[i] \in R \union {Null}
             /\ h.nextSibling[i] \in R \union {Null}
  <2>1. i \in 1..n
    BY <1>3
  <2>2. /\ h.firstChild[i] \in {Null} \union 1..n
        /\ h.nextSibling[i] \in {Null} \union 1..n
    BY <2>1, Pointers
  <2> QED
    BY <1>3, <2>2 DEF PointsTo
<1>6. ASSUME NEW d \in 0..n, NEW i \in R \union {Null}
      PROVE  /\ WalksFrom(h, R, r, d, i, visit[d][i])
             /\ i = Null => visit[d][i] = <<>>
  <2> DEFINE Q(k, j) == /\ WalksFrom(h, R, r, k, j, visit[k][j])
                        /\ j = Null => visit[k][j] = <<>>
             S == {k \in 0..n : \A j \in R \union {Null} : Q(k, j)}
  <2>1. 0 \in S
    <3> SUFFICES ASSUME NEW j \in R \union {Null} PROVE Q(0, j)
      OBVIOUS
    <3>1. j \in 0..n
      BY <1>3 DEF Null
    <3>2. visit[0][j] = <<>>
      BY <1>2, <3>1 DEF IsVisit
    <3>3. ToSet(<<>>) = {} /\ <<>> \in Seq(R) /\ DOMAIN <<>> = {}
      BY DEF ToSet
    <3>4. WalksFrom(h, R, r, 0, j, <<>>)
      BY <3>3 DEF WalksFrom, IsInjective, ParentsFirst, ReachedFrom
    <3> QED
      BY <3>2, <3>4
  <2>2. ASSUME NEW k \in 0..n - 1, k \in S PROVE k + 1 \in S
    <3> SUFFICES ASSUME NEW j \in R \union {Null} PROVE Q(k + 1, j)
      OBVIOUS
    <3>1. CASE j = Null
      <4>1. visit[k + 1][j] = <<>>
        BY <1>2, <3>1 DEF IsVisit
      <4>2. WalksFrom(h, R, r, k + 1, j, <<>>)
        BY <1>4, <3>1
      <4> QED
        BY <4>1, <4>2
    <3>2. CASE j \in R
      <4> DEFINE s == visit[k][h.firstChild[j]]
                 t == visit[k][h.nextSibling[j]]
      <4>1. visit[k + 1][j] = <<j>> \o s \o t
        BY <1>2, <1>3, <3>2 DEF IsVisit
      <4>2. /\ WalksFrom(h, R, r, k, h.firstChild[j], s)
            /\ WalksFrom(h, R, r, k, h.nextSibling[j], t)
            /\ h.firstChild[j] = Null => s = <<>>
            /\ h.nextSibling[j] = Null => t = <<>>
        BY <1>5, <2>2, <3>2
      <4> HIDE DEF s, t
      <4>3. WalksFrom(h, R, r, k + 1, j, <<j>> \o s \o t)
        BY <3>2, <4>2, WalkJoined
      <4>4. j # Null
        BY <1>3, <3>2 DEF Null
      <4> QED
        BY <4>1, <4>3, <4>4
    <3> QED
      BY <3>1, <3>2
  <2>3. 0..n \subseteq S
    <3> HIDE DEF S
    <3> QED
      BY <2>1, <2>2, OneByOne
  <2> QED
    BY <2>3
<1> DEFINE s == visit[n][h.firstChild[root]]
<1>7. WalksFrom(h, R, r, n + 1, root, w)
  <2>1. /\ WalksFrom(h, R, r, n, h.firstChild[root], s)
        /\ h.firstChild[root] = Null => s = <<>>
    <3>1. n \in 0..n /\ h.firstChild[root] \in R \union {Null}
      BY <1>3, <1>5
    <3> QED
      BY <1>6, <3>1
  <2>2. h.nextSibling[root] = Null
    BY <1>1, Pointers DEF Null
  <2>3. WalksFrom(h, R, r, n, h.nextSibling[root], <<>>)
    BY <1>4, <2>2
  <2> HIDE DEF s
  <2>4. WalksFrom(h, R, r, n + 1, root, <<root>> \o s \o <<>>)
    BY <1>3, <2>1, <2>3, WalkJoined
  <2>5. <<root>> \o s \o <<>> = <<root>> \o s
    <3> DEFINE a == <<root>>
    <3>1. a \in Seq(R) /\ s \in Seq(R)
      BY <1>3, <2>1 DEF WalksFrom
    <3> HIDE DEF a
    <3>2. a \o s \in Seq(R)
      BY <3>1, ConcatProperties
    <3>3. a \o s \o <<>> = a \o s
      BY <3>2, ConcatEmptySeq
    <3> QED
      BY <3>3 DEF a
  <2> QED
    BY <1>2, <2>4, <2>5 DEF s
<1>8. Len(w) >= 1 /\ w[1] = root
  <2> DEFINE a == <<root>>
  <2>1. a \in Seq(R) /\ Len(a) = 1 /\ a[1] = root
    BY <1>3
  <2>2. s \in Seq(R)
    <3>1. n \in 0..n /\ h.firstChild[root] \in R \union {Null}
      BY <1>3, <1>5
    <3> QED
      BY <1>6, <3>1 DEF WalksFrom
  <2>3. w = a \o s
    BY <1>2
  <2> HIDE DEF a, s
  <2>4. Len(w) = 1 + Len(s) /\ Len(s) \in Nat /\ \A v \in 1..Len(a) : w[v] = a[v]
    <3>1. /\ Len(a \o s) = Len(a) + Len(s) /\ Len(s) \in Nat
          /\ \A v \in 1..Len(a) : (a \o s)[v] = a[v]
      BY <2>1, <2>2, Joined
    <3> QED
      BY <2>1, <2>3, <3>1
  <2>5. 1 \in 1..Len(a)
    BY <2>1
  <2> QED
    BY <2>1, <2>4, <2>5
<1>9. R \subseteq ToSet(w)
  <2>1. /\ root \in ToSet(w) /\ ToSet(w) \subseteq R
        /\ \A x \in ToSet(w) : r[x] - 0 < (n + 1) - 1 =>
              \A y \in R : PointsTo(h, x, y) => y \in ToSet(w)
    BY <1>1, <1>3, <1>7 DEF WalksFrom, ReachedFrom
  <2>2. \A x \in ToSet(w), y \in R : PointsTo(h, x, y) => y \in ToSet(w)
    <3>1. \A x \in R : r[x] - 0 < (n + 1) - 1
      BY <1>3
    <3> QED
      BY <2>1, <3>1
  <2> DEFINE S == {k \in 0..n : \A x \in R : r[x] = k => x \in ToSet(w)}
  <2>3. \A x \in R : x # root => \E i \in R : PointsTo(h, i, x) /\ r[x] = r[i] + 1
    BY Farther DEF root
  <2>4. 0 \in S
    <3> SUFFICES ASSUME NEW x \in R, r[x] = 0 PROVE x \in ToSet(w)
      OBVIOUS
    <3>1. \A i \in R : r[x] # r[i] + 1
      BY <1>3
    <3> QED
      BY <2>1, <2>3, <3>1
  <2>5. ASSUME NEW k \in 0..n - 1, k \in S PROVE k + 1 \in S
    <3> SUFFICES ASSUME NEW x \in R, r[x] = k + 1 PROVE x \in ToSet(w)
      OBVIOUS
    <3>1. x # root
      BY <1>3
    <3>2. PICK i \in R : PointsTo(h, i, x) /\ r[x] = r[i] + 1
      BY <2>3, <3>1
    <3>3. r[i] = k
      BY <1>3, <3>2
    <3>4. i \in ToSet(w)
      BY <2>5, <3>3
    <3> QED
      BY <2>2, <3>2, <3>4
  <2>6. 0..n \subseteq S
    <3> HIDE DEF S
    <3> QED
      BY <2>4, <2>5, OneByOne
  <2> SUFFICES ASSUME NEW x \in R PROVE x \in ToSet(w)
    OBVIOUS
  <2>7. r[x] \in 0..n
    BY <1>3
  <2> QED
    BY <2>6, <2>7
<1>10. /\ w \in Seq(R) /\ IsInjective(w) /\ ParentsFirst(h, w, Null)
       /\ ToSet(w) \subseteq R
  BY <1>1, <1>7 DEF WalksFrom, ReachedFrom
<1> QED
  BY <1>8, <1>9, <1>10 DEF w, root

LEMMA BelowDefined ==
  ASSUME NEW n \in Nat, NEW h, h.root \in 1..n, NEW below,
         below = CHOOSE f : f = [d \in 0..n |->
                    IF d = 0 THEN {h.root}
                    ELSE {h.root} \union {i \in 1..n : h.parent[i] \in f[d - 1]}]
  PROVE  IsBelow(h, n, below)
<1> DEFINE root == h.root
           V == SUBSET (1..n)
           x == {root}
           on(A) == {root} \union {i \in 1..n : h.parent[i] \in A}
           F == [A \in V |-> on(A)]
           step(f, d) == IF d = 0 THEN {root} ELSE on(f[d - 1])
           P(f) == f = [d \in 0..n |-> step(f, d)]
<1>1. x \in V /\ F \in [V -> V] /\ \A A \in V : F[A] = on(A)
  OBVIOUS
<1>2. below = CHOOSE f : P(f)
  OBVIOUS
<1>3. \E g : P(g)
  <2> HIDE DEF V, F, x
  <2>1. PICK g : IsIterated(n, V, x, F, g)
    BY <1>1, Iterated
  <2>2. /\ g = [k \in 0..n |-> IF k = 0 THEN x ELSE F[g[k - 1]]]
        /\ \A k \in 0..n : g[k] \in V
    BY <2>1 DEF IsIterated
  <2>3. ASSUME NEW d \in 0..n PROVE (IF d = 0 THEN x ELSE F[g[d - 1]]) = step(g, d)
    <3>1. CASE d = 0
      BY <3>1 DEF x
    <3>2. CASE d # 0
      <4>1. d - 1 \in 0..n
        BY <3>2
      <4>2. F[g[d - 1]] = on(g[d - 1])
        <5> HIDE DEF on
        <5> QED
          BY <1>1, <2>2, <4>1
      <4> QED
        BY <3>2, <4>2
    <3> QED
      BY <3>1, <3>2
  <2>4. P(g)
    <3> HIDE DEF step
    <3> QED
      BY <2>2, <2>3
  <2> QED
    BY <2>4
<1>4. P(below)
  <2> HIDE DEF P
  <2> QED
    BY <1>2, <1>3
<1>5. \A d \in 0..n : below[d] = step(below, d)
  <2> HIDE DEF step
  <2> QED
    BY <1>4
<1>6. below[0] = {root}
  <2>1. 0 \in 0..n
    OBVIOUS
  <2> QED
    BY <1>5, <2>1
<1>7. ASSUME NEW d \in 0..n - 1 PROVE below[d + 1] = on(below[d])
  <2>1. d + 1 \in 0..n /\ d + 1 # 0 /\ (d + 1) - 1 = d
    OBVIOUS
  <2>2. below[d + 1] = step(below, d + 1)
    BY <1>5, <2>1
  <2> HIDE DEF on
  <2> QED
    BY <2>1, <2>2
<1> QED
  BY <1>6, <1>7 DEF IsBelow

-----------------------------------------------------------------------------
(* The records of the log. *)

\* The links of a record with a root, and the spans loaded from it.
LEMMA RecordRooted ==
  ASSUME TreeInv, NEW k \in DOMAIN log
  PROVE  LET h == log[k].links
             n == Len(log[k].spans)
             loaded == Decoded(log[k].spans)
         IN /\ n \in Nat /\ DOMAIN loaded = 1..n /\ Len(loaded) = n
            /\ \A i \in 1..n : loaded[i].dur \in Nat
            /\ h \in Trees(n) /\ LinkedById(loaded, h, n)
            /\ h.root # Null => Rooted(h, n)
<1> TypeOK /\ RecordsLinked /\ RecordsListed
  BY DEF TreeInv
<1> DEFINE record == log[k].spans
           h == log[k].links
           loaded == Decoded(record)
<1>1. record \in Seq(1..Len(spans))
  BY Types
<1>2. /\ LinkedById(loaded, h, Len(record))
      /\ h \in Trees(Len(record)) /\ ListsChildren(h, Len(record))
  BY DEF RecordsLinked, RecordsListed
<1> HIDE DEF record, h
<1>3. PICK n \in Nat : n = Len(record) /\ DOMAIN record = 1..n
  BY <1>1, LenProperties
<1>4. \A i \in 1..n : record[i] \in 1..Len(spans)
  BY <1>1, <1>3, ElementOfSeq
<1>5. DOMAIN loaded = 1..n /\ \A i \in 1..n : loaded[i] = spans[record[i]]
  BY <1>3 DEF Decoded
<1>6. loaded \in Seq({spans[s] : s \in DOMAIN spans})
  <2>1. loaded \in [1..n -> {spans[s] : s \in DOMAIN spans}]
    BY <1>3, <1>4, Lengths DEF Decoded
  <2> HIDE DEF loaded
  <2> QED
    BY <2>1, SeqDef
<1>7. Len(loaded) = n
  <2> HIDE DEF loaded
  <2> QED
    BY <1>5, <1>6, LenProperties
<1>8. ASSUME NEW i \in 1..n PROVE loaded[i].dur \in Nat
  <2>1. spans[record[i]] \in SpanValues(Len(traces), Len(spans))
    BY <1>4, Lengths
  <2>2. spans[record[i]].dur \in {kind.dur : kind \in Kinds}
    BY <2>1 DEF SpanValues
  <2> QED
    BY <1>5, <2>2, TreeAssumption
<1> HIDE DEF loaded
<1>9. ASSUME h.root # Null PROVE Rooted(h, n)
  <2>1. h.root \in 1..n /\ loaded[h.root].parentId = 0
    BY <1>2, <1>3, <1>9 DEF LinkedById
  <2>2. h.parent[h.root] = Null
    <3>1. h.parent[h.root] = ParentById(loaded, h.root)
      BY <1>2, <1>3, <1>5, <2>1 DEF LinkedById
    <3> QED
      BY <2>1, <3>1 DEF ParentById
  <2> QED
    BY <1>2, <1>3, <2>1, <2>2 DEF Rooted
<1> QED
  BY <1>2, <1>3, <1>5, <1>7, <1>8, <1>9 DEF record, h, loaded

LEMMA WalkedOnce ==
  ASSUME TreeInv
  PROVE  WalkVisitsOnce
<1> SUFFICES ASSUME NEW k \in DOMAIN log
    PROVE  LET h == log[k].links
               walk == Preorder(h)
               n == Len(log[k].spans)
               below[d \in 0..n] ==
                   IF d = 0 THEN {h.root}
                   ELSE {h.root} \union {i \in 1..n : h.parent[i] \in below[d - 1]}
           IN /\ IsInjective(walk)
              /\ h.root # Null => ToSet(walk) = below[n]
              /\ \A v \in DOMAIN walk : h.parent[walk[v]] # Null =>
                    \E u \in 1..v - 1 : walk[u] = h.parent[walk[v]]
  BY Zenon DEF WalkVisitsOnce
<1> DEFINE h == log[k].links
           walk == Preorder(h)
           n == Len(log[k].spans)
           below == CHOOSE f : f = [d \in 0..n |->
                       IF d = 0 THEN {h.root}
                       ELSE {h.root} \union {i \in 1..n : h.parent[i] \in f[d - 1]}]
<1>1. /\ IsInjective(walk)
      /\ h.root # Null => ToSet(walk) = below[n]
      /\ \A v \in DOMAIN walk : h.parent[walk[v]] # Null =>
            \E u \in 1..v - 1 : walk[u] = h.parent[walk[v]]
  <2>1. CASE h.root = Null
    <3>1. walk = <<>> /\ DOMAIN walk = {}
      BY <2>1 DEF Preorder
    <3> HIDE DEF walk
    <3> QED
      BY <2>1, <3>1 DEF IsInjective
  <2>2. CASE h.root # Null
    <3>1. n \in Nat /\ Rooted(h, n)
      BY <2>2, RecordRooted
    <3> HIDE DEF n, h
    <3>2. h.root \in 1..n
      BY <3>1 DEF Rooted
    <3>3. IsBelow(h, n, below)
      <4> HIDE DEF below
      <4>1. below = CHOOSE f : f = [d \in 0..n |->
                       IF d = 0 THEN {h.root}
                       ELSE {h.root} \union {i \in 1..n : h.parent[i] \in f[d - 1]}]
        BY DEF below
      <4> QED
        BY <3>1, <3>2, <4>1, BelowDefined
    <3> HIDE DEF below, walk
    <3>4. PICK R, r : Distances(h, n, R, r)
      BY <3>1, SpansHaveDistances
    <3>5. below[n] = R
      BY <3>1, <3>3, <3>4, BelowReached
    <3>6. IsInjective(walk) /\ ToSet(walk) = R /\ ParentsFirst(h, walk, Null)
      BY <3>1, <3>4, WalkOfReached DEF walk
    <3> QED
      BY <3>5, <3>6 DEF ParentsFirst
  <2> QED
    BY <2>1, <2>2
<1> QED
  BY Zenon, <1>1

-----------------------------------------------------------------------------
(* The critical path. *)

\* deepest is the function CriticalPathDepth recurs by.
IsDeepest(h, n, deepest) ==
    /\ \A d \in 0..n, i \in 0..n : deepest[d][i] \in Nat
    /\ \A d \in 0..n - 1, i \in 1..n :
          /\ 1 + deepest[d][h.firstChild[i]] <= deepest[d + 1][i]
          /\ deepest[d][h.nextSibling[i]] <= deepest[d + 1][i]

LEMMA LargerOfTwo ==
  ASSUME NEW a \in Nat, NEW b \in Nat
  PROVE  Max({a, b}) \in Nat /\ a <= Max({a, b}) /\ b <= Max({a, b})
<1>1. \E m \in {a, b} : \A k \in {a, b} : k <= m
  <2>1. a <= b \/ b <= a
    OBVIOUS
  <2> QED
    BY <2>1
<1>2. /\ Max({a, b}) \in {a, b} /\ \A k \in {a, b} : k <= Max({a, b})
  <2> DEFINE S == {a, b}
  <2>1. \E m \in S : \A k \in S : m >= k
    BY <1>1
  <2> HIDE DEF S
  <2>2. Max(S) \in S /\ \A k \in S : Max(S) >= k
    BY <2>1 DEF Max
  <2> QED
    BY <2>2 DEF S
<1> QED
  BY <1>2

LEMMA DepthDefined ==
  ASSUME NEW n \in Nat, NEW h \in Trees(n)
  PROVE  \E deepest : /\ IsDeepest(h, n, deepest)
                      /\ CriticalPathDepth(h) = 1 + deepest[n][h.firstChild[h.root]]
<1> DEFINE first == h.firstChild
           next == h.nextSibling
           V == [0..n -> Nat]
           x == [i \in 0..n |-> 0]
           on(v) == [i \in 0..n |-> IF i = Null THEN 0
                                    ELSE Max({1 + v[first[i]], v[next[i]]})]
           F == [v \in V |-> on(v)]
           step(f, d) == [i \in 0..n |->
                            IF d = 0 \/ i = Null THEN 0
                            ELSE Max({1 + f[d - 1][first[i]], f[d - 1][next[i]]})]
           m == Len(h.parent)
           deepest == CHOOSE f : f = [d \in 0..m |-> [i \in 0..m |->
                            IF d = 0 \/ i = Null THEN 0
                            ELSE Max({1 + f[d - 1][first[i]], f[d - 1][next[i]]})]]
<1>1. CriticalPathDepth(h) = 1 + deepest[m][first[h.root]]
  BY Zenon DEF CriticalPathDepth
<1>2. m = n
  BY LinksLength
<1>3. \A i \in 1..n : first[i] \in 0..n /\ next[i] \in 0..n
  BY DEF Trees, Null
<1>4. x \in V
  OBVIOUS
<1>5. ASSUME NEW v \in V PROVE on(v) \in V
  <2>1. ASSUME NEW i \in 0..n
        PROVE  (IF i = Null THEN 0 ELSE Max({1 + v[first[i]], v[next[i]]})) \in Nat
    <3>1. CASE i = Null
      BY <3>1
    <3>2. CASE i # Null
      <4> DEFINE a == 1 + v[first[i]]
                 b == v[next[i]]
      <4>1. i \in 1..n
        BY <3>2 DEF Null
      <4>2. a \in Nat /\ b \in Nat
        BY <1>3, <4>1
      <4> HIDE DEF a, b
      <4>3. Max({a, b}) \in Nat
        BY <4>2, LargerOfTwo
      <4> QED
        BY <3>2, <4>3 DEF a, b
    <3> QED
      BY <3>1, <3>2
  <2> QED
    BY <2>1
<1> HIDE DEF V, x
<1>6. F \in [V -> V]
  <2> HIDE DEF on
  <2> QED
    BY <1>5
<1> HIDE DEF F
<1>7. \E g : IsIterated(n, V, x, F, g)
  BY <1>4, <1>6, Iterated
<1>8. PICK g : /\ g = [k \in 0..n |-> IF k = 0 THEN x ELSE F[g[k - 1]]]
               /\ \A k \in 0..n : g[k] \in V
  BY <1>7 DEF IsIterated
<1>9. g = [d \in 0..n |-> step(g, d)]
  <2>1. ASSUME NEW d \in 0..n
        PROVE  (IF d = 0 THEN x ELSE F[g[d - 1]]) = step(g, d)
    <3>1. CASE d = 0
      BY <3>1 DEF x
    <3>2. CASE d # 0
      <4>1. d - 1 \in 0..n
        BY <3>2
      <4>2. g[d - 1] \in V
        BY <1>8, <4>1
      <4>3. F[g[d - 1]] = on(g[d - 1])
        <5> HIDE DEF on
        <5> QED
          BY <4>2 DEF F
      <4>4. on(g[d - 1]) = step(g, d)
        BY <3>2
      <4> QED
        BY <3>2, <4>3, <4>4
    <3> QED
      BY <3>1, <3>2
  <2> HIDE DEF step
  <2> QED
    BY <1>8, <2>1
<1>10. deepest = [d \in 0..n |-> step(deepest, d)]
  <2> DEFINE P(f) == f = [d \in 0..n |-> step(f, d)]
  <2>1. deepest = CHOOSE f : P(f)
    BY <1>2
  <2>2. P(g)
    BY <1>9
  <2> HIDE DEF P, deepest
  <2>3. P(deepest)
    BY <2>1, <2>2
  <2> QED
    BY <2>3 DEF P
<1> HIDE DEF deepest
<1>11. \A d \in 0..n : deepest[d] = step(deepest, d)
  <2> HIDE DEF step
  <2> QED
    BY <1>10
<1>12. \A d \in 0..n : deepest[d] \in V
  <2> DEFINE S == {k \in 0..n : deepest[k] \in V}
  <2>1. 0 \in S
    <3>1. deepest[0] = step(deepest, 0)
      BY <1>11
    <3>2. step(deepest, 0) = x
      BY DEF x
    <3> QED
      BY <1>4, <3>1, <3>2
  <2>2. ASSUME NEW k \in 0..n - 1, k \in S PROVE k + 1 \in S
    <3>1. k + 1 \in 0..n /\ k + 1 # 0 /\ (k + 1) - 1 = k
      OBVIOUS
    <3>2. deepest[k + 1] = step(deepest, k + 1)
      BY <1>11, <3>1
    <3>3. step(deepest, k + 1) = on(deepest[k])
      BY <3>1
    <3>4. on(deepest[k]) \in V
      BY <1>5, <2>2
    <3> QED
      BY <3>1, <3>2, <3>3, <3>4
  <2>3. 0..n \subseteq S
    <3> HIDE DEF S
    <3> QED
      BY <2>1, <2>2, OneByOne
  <2> QED
    BY <2>3
<1>13. IsDeepest(h, n, deepest)
  <2>1. \A d \in 0..n, i \in 0..n : deepest[d][i] \in Nat
    BY <1>12 DEF V
  <2>2. ASSUME NEW d \in 0..n - 1, NEW i \in 1..n
        PROVE  /\ 1 + deepest[d][first[i]] <= deepest[d + 1][i]
               /\ deepest[d][next[i]] <= deepest[d + 1][i]
    <3> DEFINE a == 1 + deepest[d][first[i]]
               b == deepest[d][next[i]]
    <3>1. d \in 0..n /\ d + 1 \in 0..n /\ d + 1 # 0 /\ (d + 1) - 1 = d
          /\ i \in 0..n /\ i # Null
      BY DEF Null
    <3>2. deepest[d + 1] = step(deepest, d + 1)
      BY <1>11, <3>1
    <3>3. deepest[d + 1][i] = Max({a, b})
      BY <3>1, <3>2
    <3>4. a \in Nat /\ b \in Nat
      BY <1>3, <2>1, <3>1
    <3> HIDE DEF a, b
    <3>5. a <= Max({a, b}) /\ b <= Max({a, b})
      BY <3>4, LargerOfTwo
    <3> QED
      BY <3>3, <3>5 DEF a, b
  <2> QED
    BY <2>1, <2>2 DEF IsDeepest
<1> QED
  BY <1>1, <1>2, <1>13

\* The child the critical path takes, and the loop that finds it.
\* c is a child of span i that no other outlasts, NULL if it has none.
IsCriticalChild(loaded, h, n, i, c) ==
    IF h.firstChild[i] = Null THEN c = Null
    ELSE /\ c \in 1..n /\ h.parent[c] = i
         /\ \A j \in 1..n : h.parent[j] = i => loaded[j].dur <= loaded[c].dur

LEMMA CriticalChild ==
  ASSUME NEW n \in Nat, NEW h, Rooted(h, n), NEW loaded, Len(loaded) = n,
         \A j \in 1..n : loaded[j].dur \in Nat, NEW i \in 1..n
  PROVE  IsCriticalChild(loaded, h, n, i, FindCriticalChild(loaded, h, i))
<1> DEFINE next == h.nextSibling
           better(c, b) == IF b = Null \/ loaded[c].dur > loaded[b].dur THEN c ELSE b
           step(f, c) == [b \in 0..n |-> IF c = Null THEN b ELSE f[next[c]][better(c, b)]]
           m == Len(loaded)
           from == CHOOSE f : f = [c \in 0..m |-> [b \in 0..m |->
                       IF c = Null THEN b
                       ELSE f[next[c]][IF b = Null \/ loaded[c].dur > loaded[b].dur
                                       THEN c ELSE b]]]
           P(k) == \E f : /\ f = [c \in 0..n |-> f[c]]
                          /\ \A c \in 0..n : c = Null \/ n - k < c => f[c] = step(f, c)
<1>1. FindCriticalChild(loaded, h, i) = from[h.firstChild[i]][Null]
  BY Zenon DEF FindCriticalChild
<1>2. m = n
  OBVIOUS
<1>3. ASSUME NEW c \in 1..n
      PROVE  /\ next[c] \in {Null} \union 1..n /\ h.parent[c] \in {Null} \union 1..n
             /\ next[c] # Null => c < next[c] /\ h.parent[next[c]] = h.parent[c]
             /\ \A j \in 1..n : h.parent[c] # Null /\ h.parent[j] = h.parent[c] /\ c < j =>
                   next[c] # Null /\ next[c] <= j
  <2>1. h.parent[c] \in {Null} \union 1..n
    BY DEF Rooted, Trees
  <2> QED
    BY <2>1, Pointers
<1> HIDE DEF next
<1>4. P(0)
  <2> DEFINE f == [c \in 0..n |-> [b \in 0..n |-> b]]
  <2>1. f = [c \in 0..n |-> f[c]] /\ f[Null] = step(f, Null)
    BY DEF Null
  <2>2. \A c \in 0..n : ~(n - 0 < c)
    OBVIOUS
  <2> HIDE DEF f, step
  <2> QED
    BY <2>1, <2>2
<1>5. ASSUME NEW k \in 0..n - 1, P(k) PROVE P(k + 1)
  <2>1. PICK f : /\ f = [c \in 0..n |-> f[c]]
                 /\ \A c \in 0..n : c = Null \/ n - k < c => f[c] = step(f, c)
    BY <1>5
  <2> DEFINE g == [c \in 0..n |-> IF c = Null \/ n - k < c THEN f[c] ELSE step(f, c)]
  <2>2. g = [c \in 0..n |-> g[c]]
    OBVIOUS
  <2>3. \A c \in 0..n : g[c] = step(f, c)
    <3> HIDE DEF step
    <3> QED
      BY <2>1
  <2>4. \A c \in 0..n : c = Null \/ n - k < c => g[c] = f[c]
    <3> HIDE DEF step
    <3> QED
      OBVIOUS
  <2> HIDE DEF g
  <2>5. ASSUME NEW c \in 0..n, c = Null \/ n - (k + 1) < c PROVE g[c] = step(g, c)
    <3>1. CASE c = Null
      BY <2>3, <3>1
    <3>2. CASE c # Null
      <4>1. c \in 1..n
        BY <3>2 DEF Null
      <4>2. next[c] \in 0..n /\ (next[c] = Null \/ n - k < next[c])
        BY <1>3, <2>5, <3>2, <4>1 DEF Null
      <4>3. g[next[c]] = f[next[c]]
        BY <2>4, <4>2
      <4> QED
        BY <2>3, <4>3
    <3> QED
      BY <3>1, <3>2
  <2> HIDE DEF step
  <2> QED
    BY <2>2, <2>5
<1>6. P(n)
  <2> DEFINE S == {k \in 0..n : P(k)}
  <2> HIDE DEF P
  <2>1. 0 \in S /\ \A k \in 0..n - 1 : k \in S => k + 1 \in S
    BY <1>4, <1>5
  <2>2. 0..n \subseteq S
    <3> HIDE DEF S
    <3> QED
      BY <2>1, OneByOne
  <2> QED
    BY <2>2
<1>7. \E f : f = [c \in 0..n |-> step(f, c)]
  <2>1. PICK f : /\ f = [c \in 0..n |-> f[c]]
                 /\ \A c \in 0..n : c = Null \/ n - n < c => f[c] = step(f, c)
    BY <1>6
  <2>2. \A c \in 0..n : c = Null \/ n - n < c
    BY DEF Null
  <2> HIDE DEF step
  <2> QED
    BY <2>1, <2>2
<1>8. from = [c \in 0..n |-> step(from, c)]
  <2> DEFINE Q(f) == f = [c \in 0..n |-> step(f, c)]
  <2>1. from = CHOOSE f : Q(f)
    BY <1>2
  <2>2. \E f : Q(f)
    BY <1>7
  <2> HIDE DEF Q, from
  <2>3. Q(from)
    BY <2>1, <2>2
  <2> QED
    BY <2>3 DEF Q
<1> HIDE DEF from
<1>9. \A c \in 0..n, b \in 0..n :
         from[c][b] = IF c = Null THEN b ELSE from[next[c]][better(c, b)]
  <2>1. \A c \in 0..n : from[c] = step(from, c)
    <3> HIDE DEF step
    <3> QED
      BY <1>8
  <2> SUFFICES ASSUME NEW c \in 0..n, NEW b \in 0..n
               PROVE  from[c][b] = IF c = Null THEN b ELSE from[next[c]][better(c, b)]
    OBVIOUS
  <2> DEFINE value(a) == IF c = Null THEN a ELSE from[next[c]][better(c, a)]
  <2>2. from[c] = [a \in 0..n |-> value(a)]
    BY Zenon, <2>1
  <2> HIDE DEF value
  <2>3. from[c][b] = value(b)
    BY <2>2
  <2> QED
    BY Zenon, <2>3 DEF value
<1> DEFINE Best(c, b, e) ==
              /\ e \in 1..n /\ h.parent[e] = h.parent[c]
              /\ b # Null => loaded[b].dur <= loaded[e].dur
              /\ \A j \in 1..n : h.parent[j] = h.parent[c] /\ c <= j =>
                    loaded[j].dur <= loaded[e].dur
           T(c) == \A b \in 0..n : b = Null \/ h.parent[b] = h.parent[c] =>
                      Best(c, b, from[c][b])
           S == {k \in 0..n : \A c \in 1..n : n - k < c /\ h.parent[c] # Null => T(c)}
<1>10. 0 \in S
  <2> HIDE DEF T
  <2>1. ASSUME NEW c \in 1..n, n - 0 < c PROVE T(c)
    <3>1. ~(n - 0 < c)
      OBVIOUS
    <3> QED
      BY Zenon, <2>1, <3>1
  <2>2. \A c \in 1..n : n - 0 < c /\ h.parent[c] # Null => T(c)
    BY Zenon, <2>1
  <2>3. 0 \in 0..n
    OBVIOUS
  <2> SUFFICES ASSUME NEW c \in 1..n, n - 0 < c, h.parent[c] # Null PROVE T(c)
    BY <2>3
  <2> QED
    BY Zenon, <2>1
<1>11. ASSUME NEW k \in 0..n - 1, k \in S PROVE k + 1 \in S
  <2> SUFFICES ASSUME NEW c \in 1..n, n - (k + 1) < c, h.parent[c] # Null,
                      NEW b \in 0..n, b = Null \/ h.parent[b] = h.parent[c]
               PROVE  Best(c, b, from[c][b])
    OBVIOUS
  <2> DEFINE a == better(c, b)
  <2>1. /\ a \in 1..n /\ h.parent[a] = h.parent[c] /\ loaded[c].dur <= loaded[a].dur
        /\ b # Null => loaded[b].dur <= loaded[a].dur
    <3>1. loaded[c].dur \in Nat
      OBVIOUS
    <3>2. CASE b = Null
      BY <3>1, <3>2
    <3>3. CASE b # Null
      <4>1. b \in 1..n /\ loaded[b].dur \in Nat /\ h.parent[b] = h.parent[c]
        BY <3>3 DEF Null
      <4> QED
        BY <3>1, <3>3, <4>1
    <3> QED
      BY <3>2, <3>3
  <2> HIDE DEF a
  <2>2. c \in 0..n /\ c # Null
    BY DEF Null
  <2>3. from[c][b] = from[next[c]][a]
    BY <1>9, <2>2 DEF a
  <2>4. a \in 0..n /\ a # Null
    BY <2>1 DEF Null
  <2>5. CASE next[c] = Null
    <3>1. from[next[c]][a] = a
      BY <1>9, <2>4, <2>5 DEF Null
    <3>2. ASSUME NEW j \in 1..n, h.parent[j] = h.parent[c], c <= j PROVE j = c
      BY <1>3, <2>5, <3>2
    <3> QED
      BY <2>1, <2>3, <3>1, <3>2
  <2>6. CASE next[c] # Null
    <3> DEFINE s == next[c]
               e == from[s][a]
    <3>1. s \in 1..n /\ n - k < s /\ h.parent[s] = h.parent[c]
      BY <1>3, <2>6
    <3>2. Best(s, a, e)
      <4>1. T(s)
        <5> HIDE DEF T, s
        <5> QED
          BY <1>11, <3>1
      <4> HIDE DEF Best, s
      <4> QED
        BY <2>1, <2>4, <3>1, <4>1
    <3>3. /\ e \in 1..n /\ h.parent[e] = h.parent[c] /\ loaded[a].dur <= loaded[e].dur
          /\ \A j \in 1..n : h.parent[j] = h.parent[c] /\ s <= j =>
                loaded[j].dur <= loaded[e].dur
      BY <2>4, <3>1, <3>2
    <3>4. ASSUME NEW j \in 1..n, h.parent[j] = h.parent[c], c <= j PROVE j = c \/ s <= j
      BY <1>3, <3>4
    <3> HIDE DEF s, e
    <3>5. /\ loaded[c].dur \in Nat /\ loaded[a].dur \in Nat /\ loaded[e].dur \in Nat
          /\ b # Null => loaded[b].dur \in Nat
      BY <2>1, <3>3 DEF Null
    <3>6. loaded[c].dur <= loaded[e].dur /\ (b # Null => loaded[b].dur <= loaded[e].dur)
      BY <2>1, <3>3, <3>5
    <3>7. Best(c, b, e)
      BY <3>3, <3>4, <3>6
    <3> QED
      BY <2>3, <3>7 DEF s, e
  <2> QED
    BY <2>5, <2>6
<1>12. 0..n \subseteq S
  <2> HIDE DEF S
  <2> QED
    BY <1>10, <1>11, OneByOne
<1> DEFINE f == h.firstChild[i]
<1>13. CASE f = Null
  <2>1. from[f][Null] = Null
    BY <1>9, <1>13 DEF Null
  <2> QED
    BY <1>1, <1>13, <2>1 DEF IsCriticalChild
<1>14. CASE f # Null
  <2>1. f \in 1..n /\ h.parent[f] = i /\ \A j \in 1..n : h.parent[j] = i => f <= j
    BY <1>14, Pointers
  <2> HIDE DEF f
  <2>2. h.parent[f] # Null /\ n - n < f /\ Null \in 0..n
    BY <2>1 DEF Null
  <2>3. T(f)
    <3> HIDE DEF T
    <3>1. n \in S
      <4>1. n \in 0..n
        OBVIOUS
      <4> HIDE DEF S
      <4> QED
        BY <1>12, <4>1
    <3> QED
      BY Zenon, <2>1, <2>2, <3>1
  <2>4. Best(f, Null, from[f][Null])
    <3> HIDE DEF Best
    <3> QED
      BY <2>2, <2>3
  <2> QED
    BY <1>1, <1>14, <2>1, <2>4 DEF f, IsCriticalChild
<1> QED
  BY <1>13, <1>14

\* What CriticalPathDepth counts from a span on leaves room for each of its
\* later siblings and what is below it.
LEMMA Deeper ==
  ASSUME NEW n \in Nat, NEW h, Rooted(h, n), NEW R, NEW r, Distances(h, n, R, r),
         NEW deepest, IsDeepest(h, n, deepest),
         NEW f \in R, NEW c \in R, h.parent[f] # Null, h.parent[c] = h.parent[f], f <= c,
         NEW e \in 0..n, n - r[f] <= e
  PROVE  \E d \in 0..n : /\ n - r[c] <= d + 1
                         /\ 1 + deepest[d][h.firstChild[c]] <= deepest[e][f]
<1> DEFINE D(a, i) == deepest[a][i]
           first == h.firstChild
           next == h.nextSibling
           Room(i, j, a) == \E d \in 0..n : /\ n - r[j] <= d + 1
                                            /\ 1 + D(d, first[j]) <= D(a, i)
           Before(i, j) == h.parent[i] # Null /\ h.parent[j] = h.parent[i] /\ i <= j
           S == {k \in 0..n : \A i, j \in R, a \in 0..n :
                    n - k < i /\ Before(i, j) /\ n - r[i] <= a => Room(i, j, a)}
<1>1. /\ R \subseteq 1..n /\ \A i \in R : r[i] \in 0..n - 1
      /\ \A i \in R, x \in 1..n : PointsTo(h, i, x) => x \in R /\ r[x] = r[i] + 1
  BY DEF Distances
<1>2. ASSUME NEW i \in R
      PROVE  /\ first[i] \in 0..n /\ next[i] \in 0..n
             /\ next[i] # Null => i < next[i] /\ h.parent[next[i]] = h.parent[i]
             /\ \A j \in 1..n : Before(i, j) /\ i # j => next[i] # Null /\ next[i] <= j
  <2>1. i \in 1..n
    BY <1>1
  <2> QED
    BY <2>1, Pointers DEF Null
<1>3. /\ \A a \in 0..n, i \in 0..n : D(a, i) \in Nat
      /\ \A a \in 0..n - 1, i \in 1..n : /\ 1 + D(a, first[i]) <= D(a + 1, i)
                                         /\ D(a, next[i]) <= D(a + 1, i)
  BY DEF IsDeepest
<1> HIDE DEF D, first, next
<1>4. 0 \in S
  <2> HIDE DEF Room, Before
  <2>1. \A i \in R : ~(n - 0 < i)
    BY <1>1
  <2> QED
    BY <2>1
<1>5. ASSUME NEW k \in 0..n - 1, k \in S PROVE k + 1 \in S
  <2> SUFFICES ASSUME NEW i \in R, NEW j \in R, NEW a \in 0..n,
                      n - (k + 1) < i, Before(i, j), n - r[i] <= a
               PROVE  Room(i, j, a)
    <3> HIDE DEF Room, Before
    <3> QED
      OBVIOUS
  <2>1. i \in 1..n /\ j \in 1..n /\ r[i] \in 0..n - 1 /\ a - 1 \in 0..n - 1 /\ (a - 1) + 1 = a
    BY <1>1
  <2>2. 1 + D(a - 1, first[i]) <= D(a, i) /\ D(a - 1, next[i]) <= D(a, i)
    BY <1>3, <2>1
  <2>3. CASE j = i
    <3>1. a - 1 \in 0..n /\ n - r[j] <= (a - 1) + 1
      BY <2>1, <2>3
    <3> QED
      BY <2>2, <2>3, <3>1
  <2>4. CASE j # i
    <3> DEFINE s == next[i]
    <3>1. s # Null /\ s \in 0..n /\ s <= j /\ i < s /\ h.parent[s] = h.parent[i]
      BY <1>2, <2>1, <2>4
    <3>2. s \in 1..n /\ PointsTo(h, i, s)
      BY <3>1 DEF PointsTo, Null, next
    <3>3. s \in R /\ r[s] = r[i] + 1
      BY <1>1, <3>2
    <3> HIDE DEF s
    <3>4. n - k < s /\ Before(s, j) /\ a - 1 \in 0..n /\ n - r[s] <= a - 1
      BY <2>1, <3>1, <3>2, <3>3
    <3>5. Room(s, j, a - 1)
      <4> HIDE DEF Room, Before
      <4> QED
        BY <1>5, <3>3, <3>4
    <3>6. PICK d \in 0..n : n - r[j] <= d + 1 /\ 1 + D(d, first[j]) <= D(a - 1, s)
      BY <3>5
    <3>7. D(a - 1, s) <= D(a, i)
      BY <2>2 DEF s
    <3>8. /\ D(d, first[j]) \in Nat /\ D(a - 1, s) \in Nat /\ D(a, i) \in Nat
      <4>1. first[j] \in 0..n /\ s \in 0..n /\ i \in 0..n
        BY <1>2, <2>1, <3>1
      <4> QED
        BY <1>3, <2>1, <3>4, <4>1
    <3>9. 1 + D(d, first[j]) <= D(a, i)
      BY <3>6, <3>7, <3>8
    <3> QED
      BY <3>6, <3>9
  <2> QED
    BY <2>3, <2>4
<1>6. 0..n \subseteq S
  <2> HIDE DEF S
  <2> QED
    BY <1>4, <1>5, OneByOne
<1>7. Room(f, c, e)
  <2>1. n \in 0..n /\ n - n < f
    BY <1>1
  <2>2. n \in S
    <3> HIDE DEF S
    <3> QED
      BY <1>6, <2>1
  <2>3. Before(f, c)
    OBVIOUS
  <2> HIDE DEF Room, Before
  <2> QED
    BY <2>1, <2>2, <2>3
<1> QED
  BY <1>7 DEF D, first

\* path is the function CriticalPath recurs by, with up to m places.
IsPath(loaded, h, n, m, path) ==
    /\ \A i \in 0..n : path[0][i] = <<>>
    /\ \A k \in 0..m - 1 :
          /\ path[k + 1][Null] = <<>>
          /\ \A i \in 1..n :
                path[k + 1][i] = <<i>> \o path[k][FindCriticalChild(loaded, h, i)]

LEMMA PathDefined ==
  ASSUME NEW n \in Nat, NEW h, Rooted(h, n), NEW loaded, Len(loaded) = n,
         \A j \in 1..n : loaded[j].dur \in Nat,
         NEW m \in Nat, m = CriticalPathDepth(h)
  PROVE  \E path : /\ IsPath(loaded, h, n, m, path)
                   /\ CriticalPath(loaded, h) = path[m][h.root]
<1> DEFINE child(i) == FindCriticalChild(loaded, h, i)
           W == Seq(1..n)
           V == [0..n -> W]
           x == [i \in 0..n |-> <<>>]
           on(v) == [i \in 0..n |-> IF i = Null THEN <<>> ELSE <<i>> \o v[child(i)]]
           F == [v \in V |-> on(v)]
           step(f, k) == [i \in 0..n |-> IF k = 0 \/ i = Null THEN <<>>
                                         ELSE <<i>> \o f[k - 1][child(i)]]
           depth == CriticalPathDepth(h)
           l == Len(loaded)
           path == CHOOSE f : f = [k \in 0..depth |-> [i \in 0..l |->
                            IF k = 0 \/ i = Null THEN <<>>
                            ELSE <<i>> \o f[k - 1][FindCriticalChild(loaded, h, i)]]]
<1>1. CriticalPath(loaded, h) = path[depth][h.root]
  <2>1. h.root # Null
    BY DEF Rooted, Null
  <2> QED
    BY Zenon, <2>1 DEF CriticalPath
<1>2. depth = m /\ l = n
  OBVIOUS
<1> HIDE DEF depth
<1>3. \A i \in 1..n : child(i) \in 0..n
  <2> SUFFICES ASSUME NEW i \in 1..n PROVE child(i) \in 0..n
    OBVIOUS
  <2> HIDE DEF child
  <2>1. IF h.firstChild[i] = Null THEN child(i) = Null ELSE child(i) \in 1..n
    <3>1. IsCriticalChild(loaded, h, n, i, child(i))
      BY CriticalChild DEF child
    <3> QED
      BY <3>1 DEF IsCriticalChild
  <2> QED
    BY <2>1 DEF Null
<1> HIDE DEF child
<1>4. x \in V
  <2>1. <<>> \in W
    BY EmptySeq
  <2> HIDE DEF W
  <2> QED
    BY <2>1
<1>5. ASSUME NEW v \in V PROVE on(v) \in V
  <2>1. ASSUME NEW i \in 0..n
        PROVE  (IF i = Null THEN <<>> ELSE <<i>> \o v[child(i)]) \in W
    <3>1. CASE i = Null
      BY <3>1, EmptySeq
    <3>2. CASE i # Null
      <4> DEFINE a == <<i>>
                 b == v[child(i)]
      <4>1. i \in 1..n
        BY <3>2 DEF Null
      <4>2. a \in W
        BY <4>1
      <4>3. b \in W
        <5> HIDE DEF W
        <5> QED
          BY <1>3, <4>1
      <4> HIDE DEF a, b, W
      <4>4. a \o b \in W
        BY <4>2, <4>3, ConcatProperties DEF W
      <4> QED
        BY <3>2, <4>4 DEF a, b
    <3> QED
      BY <3>1, <3>2
  <2> HIDE DEF W
  <2> QED
    BY <2>1
<1> HIDE DEF V, x
<1>6. F \in [V -> V]
  <2> HIDE DEF on
  <2> QED
    BY <1>5
<1> HIDE DEF F
<1>7. \E g : IsIterated(m, V, x, F, g)
  BY <1>4, <1>6, Iterated
<1>8. PICK g : /\ g = [k \in 0..m |-> IF k = 0 THEN x ELSE F[g[k - 1]]]
               /\ \A k \in 0..m : g[k] \in V
  BY <1>7 DEF IsIterated
<1>9. g = [k \in 0..m |-> step(g, k)]
  <2>1. ASSUME NEW k \in 0..m
        PROVE  (IF k = 0 THEN x ELSE F[g[k - 1]]) = step(g, k)
    <3>1. CASE k = 0
      BY <3>1 DEF x
    <3>2. CASE k # 0
      <4>1. k - 1 \in 0..m
        BY <3>2
      <4>2. g[k - 1] \in V
        BY <1>8, <4>1
      <4>3. F[g[k - 1]] = on(g[k - 1])
        <5> HIDE DEF on
        <5> QED
          BY <4>2 DEF F
      <4>4. on(g[k - 1]) = step(g, k)
        BY <3>2
      <4> QED
        BY <3>2, <4>3, <4>4
    <3> QED
      BY <3>1, <3>2
  <2> HIDE DEF step
  <2> QED
    BY <1>8, <2>1
<1>10. path = [k \in 0..m |-> step(path, k)]
  <2> DEFINE P(f) == f = [k \in 0..m |-> step(f, k)]
  <2>1. path = CHOOSE f : P(f)
    BY <1>2 DEF child
  <2>2. P(g)
    BY <1>9
  <2> HIDE DEF P, path
  <2>3. P(path)
    BY <2>1, <2>2
  <2> QED
    BY <2>3 DEF P
<1> HIDE DEF path
<1>11. \A k \in 0..m : path[k] = step(path, k)
  <2> HIDE DEF step
  <2> QED
    BY <1>10
<1>12. IsPath(loaded, h, n, m, path)
  <2>1. ASSUME NEW i \in 0..n PROVE path[0][i] = <<>>
    <3>1. path[0] = step(path, 0)
      BY <1>11
    <3> QED
      BY <3>1
  <2>2. ASSUME NEW k \in 0..m - 1
        PROVE  /\ path[k + 1][Null] = <<>>
               /\ \A i \in 1..n : path[k + 1][i] = <<i>> \o path[k][child(i)]
    <3>1. k + 1 \in 0..m /\ k + 1 # 0 /\ (k + 1) - 1 = k
      OBVIOUS
    <3>2. path[k + 1] = step(path, k + 1)
      BY <1>11, <3>1
    <3>3. path[k + 1] = [i \in 0..n |-> IF i = Null THEN <<>>
                              ELSE <<i>> \o path[k][child(i)]]
      BY <3>1, <3>2
    <3>4. Null \in 0..n /\ \A i \in 1..n : i \in 0..n /\ i # Null
      BY DEF Null
    <3> QED
      BY <3>3, <3>4
  <2> QED
    BY <2>1, <2>2 DEF IsPath, child
<1> QED
  BY <1>1, <1>2, <1>12

\* w goes from span i to a span without children, from parent to child, and
\* to a child that no other outlasts.
LeadsToLeaf(loaded, h, n, R, i, w) ==
    /\ w \in Seq(R) /\ Len(w) \in Nat \ {0}
    /\ w[1] = i /\ h.firstChild[w[Len(w)]] = Null
    /\ \A v \in 2..Len(w) :
          /\ h.parent[w[v]] = w[v - 1]
          /\ \A j \in 1..n : h.parent[j] = w[v - 1] => loaded[j].dur <= loaded[w[v]].dur

LEMMA LedFromParent ==
  ASSUME NEW loaded, NEW h, NEW n \in Nat, NEW R, NEW i \in R, NEW c, NEW s,
         LeadsToLeaf(loaded, h, n, R, c, s), h.parent[c] = i,
         \A j \in 1..n : h.parent[j] = i => loaded[j].dur <= loaded[c].dur
  PROVE  LeadsToLeaf(loaded, h, n, R, i, <<i>> \o s)
<1> DEFINE one == <<i>>
           w == one \o s
           m == Len(s)
           Good(a, b) == /\ h.parent[b] = a
                         /\ \A j \in 1..n : h.parent[j] = a => loaded[j].dur <= loaded[b].dur
<1>1. /\ s \in Seq(R) /\ m \in Nat \ {0} /\ s[1] = c /\ h.firstChild[s[m]] = Null
      /\ \A v \in 2..m : Good(s[v - 1], s[v])
  BY DEF LeadsToLeaf
<1>2. Good(i, c)
  OBVIOUS
<1> HIDE DEF Good, m
<1>3. one \in Seq(R) /\ Len(one) = 1 /\ one[1] = i
  OBVIOUS
<1> HIDE DEF one
<1>4. /\ w \in Seq(R) /\ Len(w) = 1 + m /\ w[1] = i
      /\ \A v \in 1..m : w[1 + v] = s[v]
  <2>2. s \in Seq(R) /\ one \in Seq(R) /\ w = one \o s
    BY <1>1, <1>3
  <2> HIDE DEF w
  <2>1. /\ w \in Seq(R) /\ Len(w) = Len(one) + Len(s)
        /\ \A v \in 1..Len(one) : w[v] = one[v]
        /\ \A v \in 1..Len(s) : w[Len(one) + v] = s[v]
    <3>1. /\ one \o s \in Seq(R) /\ Len(one \o s) = Len(one) + Len(s)
          /\ \A v \in 1..Len(one) : (one \o s)[v] = one[v]
      BY <2>2, Joined
    <3>2. \A v \in 1..Len(s) : (one \o s)[Len(one) + v] = s[v]
      BY <2>2, Joined
    <3> QED
      BY Zenon, <2>2, <3>1, <3>2
  <2> QED
    BY <1>3, <2>1 DEF m
<1> HIDE DEF w
<1>5. Len(w) \in Nat \ {0} /\ h.firstChild[w[Len(w)]] = Null
  BY <1>1, <1>4
<1>6. ASSUME NEW v \in 2..Len(w) PROVE Good(w[v - 1], w[v])
  <2>1. v - 1 \in 1..m /\ 1 + (v - 1) = v
    BY <1>1, <1>4
  <2>2. w[v] = s[v - 1]
    BY <1>4, <2>1
  <2>3. CASE v = 2
    BY <1>1, <1>2, <1>4, <2>2, <2>3
  <2>4. CASE v # 2
    <3>1. v - 1 \in 2..m /\ v - 2 \in 1..m /\ 1 + (v - 2) = v - 1 /\ (v - 1) - 1 = v - 2
      BY <1>1, <2>1, <2>4
    <3>2. w[v - 1] = s[v - 2]
      BY <1>4, <3>1
    <3>3. Good(s[v - 2], s[v - 1])
      BY <1>1, <3>1
    <3> QED
      BY <2>2, <3>2, <3>3
  <2> QED
    BY <2>3, <2>4
<1>7. LeadsToLeaf(loaded, h, n, R, i, w)
  BY <1>4, <1>5, <1>6 DEF LeadsToLeaf, Good
<1> QED
  BY <1>7 DEF w, one

\* With as many places as CriticalPathDepth counts the path ends at a leaf.
LEMMA PathToLeaf ==
  ASSUME NEW n \in Nat, NEW h, Rooted(h, n), NEW R, NEW r, Distances(h, n, R, r),
         NEW loaded, Len(loaded) = n, \A j \in 1..n : loaded[j].dur \in Nat,
         NEW deepest, IsDeepest(h, n, deepest),
         NEW m \in Nat, NEW path, IsPath(loaded, h, n, m, path),
         NEW i \in R, NEW e \in 0..n, n - r[i] <= e + 1,
         1 + deepest[e][h.firstChild[i]] <= m
  PROVE  LeadsToLeaf(loaded, h, n, R, i, path[m][i])
<1> DEFINE D(a, j) == deepest[a][j]
           first == h.firstChild
           Ends(k, j) == LeadsToLeaf(loaded, h, n, R, j, path[k][j])
           S == {k \in 0..m : \A j \in R, a \in 0..n :
                    n - r[j] <= a + 1 /\ 1 + D(a, first[j]) <= k => Ends(k, j)}
<1>1. /\ R \subseteq 1..n /\ \A j \in R : r[j] \in 0..n - 1
      /\ \A j \in R, x \in 1..n : PointsTo(h, j, x) => x \in R /\ r[x] = r[j] + 1
  BY DEF Distances
<1>2. \A a \in 0..n, j \in 0..n : D(a, j) \in Nat
  BY DEF IsDeepest
<1>3. \A k \in 0..m : path[k][Null] = <<>>
  <2> SUFFICES ASSUME NEW k \in 0..m PROVE path[k][Null] = <<>>
    OBVIOUS
  <2>1. CASE k = 0
    <3>1. Null \in 0..n
      BY DEF Null
    <3> QED
      BY <2>1, <3>1 DEF IsPath
  <2>2. CASE k # 0
    <3>1. k - 1 \in 0..m - 1 /\ (k - 1) + 1 = k
      BY <2>2
    <3>2. path[(k - 1) + 1][Null] = <<>>
      BY <3>1 DEF IsPath
    <3> QED
      BY <3>1, <3>2
  <2> QED
    BY <2>1, <2>2
<1>4. \A j \in R : first[j] \in 0..n
  <2> SUFFICES ASSUME NEW j \in R PROVE first[j] \in 0..n
    OBVIOUS
  <2> QED
    BY <1>1, Pointers DEF Null
<1> HIDE DEF D
<1>5. 0 \in S
  <2> HIDE DEF Ends
  <2>1. ASSUME NEW j \in R, NEW a \in 0..n PROVE ~(1 + D(a, first[j]) <= 0)
    <3> HIDE DEF first
    <3>1. first[j] \in 0..n
      BY <1>4
    <3>2. D(a, first[j]) \in Nat
      BY <1>2, <3>1
    <3> QED
      BY <3>2
  <2> HIDE DEF first
  <2> QED
    BY <2>1
<1>6. ASSUME NEW k \in 0..m - 1, k \in S PROVE k + 1 \in S
  <2> SUFFICES ASSUME NEW j \in R, NEW a \in 0..n,
                      n - r[j] <= a + 1, 1 + D(a, first[j]) <= k + 1
               PROVE  Ends(k + 1, j)
    <3>1. k + 1 \in 0..m
      OBVIOUS
    <3> HIDE DEF Ends, D, first
    <3>2. \A j \in R, a \in 0..n :
             n - r[j] <= a + 1 /\ 1 + D(a, first[j]) <= k + 1 => Ends(k + 1, j)
      OBVIOUS
    <3> QED
      BY Zenon, <3>1, <3>2
  <2> DEFINE c == FindCriticalChild(loaded, h, j)
             f == first[j]
  <2>1. j \in 1..n /\ j # Null /\ k \in 0..m /\ r[j] \in 0..n - 1
    BY <1>1 DEF Null
  <2>2. path[k + 1][j] = <<j>> \o path[k][c]
    BY <2>1 DEF IsPath
  <2>3. IF f = Null THEN c = Null
        ELSE /\ c \in 1..n /\ h.parent[c] = j
             /\ \A x \in 1..n : h.parent[x] = j => loaded[x].dur <= loaded[c].dur
    <3>1. IsCriticalChild(loaded, h, n, j, c)
      BY <2>1, CriticalChild
    <3> HIDE DEF c
    <3> QED
      BY Zenon, <3>1 DEF IsCriticalChild
  <2>4. f # Null => f \in 1..n /\ h.parent[f] = j
    BY <2>1, Pointers
  <2>5. \A x \in 1..n : h.parent[x] = j => f <= x
    BY <2>1, Pointers
  <2> HIDE DEF c
  <2>6. CASE f = Null
    <3>1. path[k + 1][j] = <<j>> \o <<>>
      BY <1>3, <2>1, <2>2, <2>3, <2>6
    <3> DEFINE one == <<j>>
    <3>2. one \in Seq(R) /\ Len(one) = 1 /\ one[1] = j
      OBVIOUS
    <3> HIDE DEF one
    <3>3. one \o <<>> = one
      BY <3>2, ConcatEmptySeq
    <3>4. LeadsToLeaf(loaded, h, n, R, j, one)
      BY <2>6, <3>2 DEF LeadsToLeaf
    <3> QED
      BY <3>1, <3>3, <3>4 DEF one
  <2>7. CASE f # Null
    <3>1. c \in 1..n /\ h.parent[c] = j /\ f \in 1..n /\ h.parent[f] = j /\ f <= c
      BY <2>3, <2>4, <2>5, <2>7
    <3>2. c \in R
      BY <3>1, ChildrenReached
    <3>3. f \in R /\ r[f] = r[j] + 1
      BY <1>1, <2>1, <2>7, <3>1 DEF PointsTo
    <3> HIDE DEF f
    <3>4. n - r[f] <= a
      BY <2>1, <3>3
    <3>5. PICK d \in 0..n : n - r[c] <= d + 1 /\ 1 + D(d, first[c]) <= D(a, f)
      <4>1. \E d \in 0..n : n - r[c] <= d + 1 /\ 1 + deepest[d][h.firstChild[c]] <= deepest[a][f]
        BY <2>1, <3>1, <3>2, <3>3, <3>4, Deeper
      <4> QED
        BY <4>1 DEF D
    <3>6. 1 + D(d, first[c]) <= k
      <4>1. D(a, f) \in Nat /\ D(d, first[c]) \in Nat
        <5>1. f \in 0..n /\ first[c] \in 0..n
          BY <1>4, <3>1, <3>2
        <5> HIDE DEF first
        <5> QED
          BY <1>2, <5>1
      <4>2. 1 + D(a, f) <= k + 1
        BY DEF f
      <4> HIDE DEF first
      <4> QED
        BY <3>5, <4>1, <4>2
    <3>7. Ends(k, c)
      <4> HIDE DEF Ends, first
      <4> QED
        BY <1>6, <3>2, <3>5, <3>6
    <3> DEFINE s == path[k][c]
    <3>8. LeadsToLeaf(loaded, h, n, R, c, s)
      BY <3>7
    <3> HIDE DEF s
    <3>9. LeadsToLeaf(loaded, h, n, R, j, <<j>> \o s)
      BY <2>3, <2>7, <3>1, <3>8, LedFromParent DEF f
    <3> QED
      BY <2>2, <3>9 DEF s
  <2> QED
    BY <2>6, <2>7
<1>7. 0..m \subseteq S
  <2> HIDE DEF S
  <2> QED
    BY <1>5, <1>6, OneByOne
<1>8. Ends(m, i)
  <2>1. m \in 0..m /\ 1 + D(e, first[i]) <= m
    BY DEF D
  <2>2. m \in S
    <3> HIDE DEF S
    <3> QED
      BY <1>7, <2>1
  <2> HIDE DEF Ends, first
  <2> QED
    BY <2>1, <2>2
<1> QED
  BY <1>8

LEMMA CriticalPathOf ==
  ASSUME NEW n \in Nat, NEW h, Rooted(h, n), NEW R, NEW r, Distances(h, n, R, r),
         NEW loaded, Len(loaded) = n, \A j \in 1..n : loaded[j].dur \in Nat
  PROVE  LeadsToLeaf(loaded, h, n, R, h.root, CriticalPath(loaded, h))
<1> DEFINE root == h.root
           first == h.firstChild
           m == CriticalPathDepth(h)
<1>1. h \in Trees(n) /\ root \in 1..n /\ root \in R /\ r[root] = 0
  BY DEF Rooted, Distances
<1>2. first[root] \in 0..n
  BY <1>1 DEF Trees, Null
<1>3. PICK deepest : IsDeepest(h, n, deepest) /\ m = 1 + deepest[n][first[root]]
  BY <1>1, DepthDefined
<1>4. m \in Nat /\ n \in 0..n
  <2>1. n \in 0..n
    OBVIOUS
  <2>2. deepest[n][first[root]] \in Nat
    BY <1>2, <1>3, <2>1 DEF IsDeepest
  <2> HIDE DEF m
  <2> QED
    BY <1>3, <2>1, <2>2
<1>5. \E path : /\ IsPath(loaded, h, n, m, path)
                /\ CriticalPath(loaded, h) = path[m][root]
  BY <1>4, PathDefined
<1> HIDE DEF m
<1>6. PICK path : IsPath(loaded, h, n, m, path) /\ CriticalPath(loaded, h) = path[m][root]
  BY <1>5
<1>7. n - r[root] <= n + 1 /\ 1 + deepest[n][first[root]] <= m
  <2>1. n - r[root] <= n + 1
    BY <1>1
  <2>2. m <= m
    BY <1>4
  <2> QED
    BY <1>3, <2>1, <2>2
<1> HIDE DEF root
<1>8. LeadsToLeaf(loaded, h, n, R, root, path[m][root])
  BY <1>1, <1>3, <1>4, <1>6, <1>7, PathToLeaf
<1> QED
  BY <1>6, <1>8 DEF root

LEMMA CriticalPathFound ==
  ASSUME TreeInv
  PROVE  CriticalPathToLeaf
<1> SUFFICES ASSUME NEW k \in DOMAIN log
    PROVE  LET h == log[k].links
               loaded == Decoded(log[k].spans)
               path == CriticalPath(loaded, h)
           IN h.root # Null =>
                 /\ path[1] = h.root /\ h.firstChild[Last(path)] = Null
                 /\ \A v \in 2..Len(path) :
                       /\ h.parent[path[v]] = path[v - 1]
                       /\ \A i \in DOMAIN loaded : h.parent[i] = path[v - 1] =>
                             loaded[i].dur <= loaded[path[v]].dur
  BY Zenon DEF CriticalPathToLeaf
<1> DEFINE h == log[k].links
           n == Len(log[k].spans)
           loaded == Decoded(log[k].spans)
           path == CriticalPath(loaded, h)
<1>1. ASSUME h.root # Null
      PROVE  /\ path[1] = h.root /\ h.firstChild[Last(path)] = Null
             /\ \A v \in 2..Len(path) :
                   /\ h.parent[path[v]] = path[v - 1]
                   /\ \A i \in DOMAIN loaded : h.parent[i] = path[v - 1] =>
                         loaded[i].dur <= loaded[path[v]].dur
  <2>1. /\ n \in Nat /\ Rooted(h, n) /\ DOMAIN loaded = 1..n /\ Len(loaded) = n
        /\ \A j \in 1..n : loaded[j].dur \in Nat
    BY <1>1, RecordRooted
  <2> HIDE DEF n, h, loaded
  <2>2. PICK R, r : Distances(h, n, R, r)
    BY <2>1, SpansHaveDistances
  <2>3. LeadsToLeaf(loaded, h, n, R, h.root, path)
    BY <2>1, <2>2, CriticalPathOf
  <2> HIDE DEF path
  <2> QED
    BY <2>1, <2>3 DEF LeadsToLeaf, Last
<1> QED
  BY Zenon, <1>1

-----------------------------------------------------------------------------
(* The exported document. *)

LEMMA Mapped ==
  ASSUME NEW S, NEW s \in Seq(S), NEW t, t = [k \in DOMAIN s |-> t[k]]
  PROVE  Len(s) \in Nat /\ DOMAIN s = 1..Len(s) /\ Len(t) = Len(s) /\ (t # <<>> => s # <<>>)
<1>1. Len(s) \in Nat /\ DOMAIN s = 1..Len(s)
  BY LenProperties
<1> DEFINE m == Len(s)
           T == {t[k] : k \in 1..m}
<1>2. t \in Seq(T) /\ DOMAIN t = 1..m
  <2>1. t \in [1..m -> T]
    BY <1>1
  <2> HIDE DEF T
  <2> QED
    BY <1>1, <2>1, SeqDef
<1> HIDE DEF T
<1>3. Len(t) \in Nat /\ DOMAIN t = 1..Len(t)
  BY <1>2, LenProperties
<1>4. Len(t) = m
  BY <1>1, <1>2, <1>3
<1>5. t # <<>> => s # <<>>
  <2>1. t # <<>> => m # 0
    BY <1>2, <1>4, EmptySeq
  <2>2. m # 0 => s # <<>>
    BY EmptySeq
  <2> QED
    BY <2>1, <2>2
<1> QED
  BY <1>1, <1>4, <1>5

LEMMA ParentNamed ==
  ASSUME NEW n \in Nat, NEW loaded, DOMAIN loaded = 1..n, NEW h, LinkedById(loaded, h, n),
         NEW i \in 1..n, h.parent[i] # Null
  PROVE  loaded[h.parent[i]].id = loaded[i].parentId
<1>1. h.parent[i] = ParentById(loaded, i)
  BY DEF LinkedById
<1>2. h.parent[i] = FindSpanById(loaded, loaded[i].parentId)
  BY <1>1 DEF ParentById
<1> QED
  BY <1>2, FirstWithId

\* Every span that the root leads to, but the root, has a parent.
LEMMA ReachedHasParent ==
  ASSUME NEW n \in Nat, NEW h, Rooted(h, n), NEW R, NEW r, Distances(h, n, R, r),
         NEW x \in R, x # h.root
  PROVE  h.parent[x] # Null
<1>1. PICK i \in R : PointsTo(h, i, x)
  BY Farther
<1>2. i \in 1..n
  BY DEF Distances
<1>3. x # Null /\ (h.firstChild[i] = x \/ h.nextSibling[i] = x)
  BY <1>1 DEF PointsTo
<1>4. i # Null
  BY <1>2 DEF Null
<1> QED
  BY <1>2, <1>3, <1>4, Pointers

\* What ExportedAsLinked says of the document of one trace.
IsLinkedDocument(doc) ==
    LET path == doc.criticalPath
    IN /\ \A v \in 2..Len(doc.spans) : \E u \in 1..v - 1 :
             doc.spans[u].id = doc.spans[v].parentId
       /\ path # <<>> => path[1] = doc.spans[1].id
       /\ \A v \in 2..Len(path) : \E u \in DOMAIN doc.spans :
             doc.spans[u].id = path[v] /\ doc.spans[u].parentId = path[v - 1]
       /\ Len(path) <= Len(doc.spans)

\* A way from the root from parents to children meets no span twice: where it
\* does first, it would have met the parent before.
LEMMA PathInjective ==
  ASSUME NEW n \in Nat, NEW h, Rooted(h, n), NEW R, R \subseteq 1..n,
         NEW loaded, NEW w, LeadsToLeaf(loaded, h, n, R, h.root, w)
  PROVE  w \in Injection(1..Len(w), R)
<1> DEFINE m == Len(w)
           S == {u \in 1..m : \E v \in u + 1..m : w[u] = w[v]}
<1>1. w \in [1..m -> R] /\ m \in Nat
  BY LenProperties DEF LeadsToLeaf
<1>2. w[1] = h.root /\ \A v \in 2..m : h.parent[w[v]] = w[v - 1]
  BY DEF LeadsToLeaf
<1>3. h.parent[h.root] = Null /\ \A v \in 1..m : w[v] # Null
  BY <1>1 DEF Rooted, Null
<1> HIDE DEF m
<1>4. S = {}
  <2>1. SUFFICES ASSUME S # {} PROVE FALSE
    OBVIOUS
  <2>2. S \subseteq Nat
    BY <1>1
  <2>3. PICK u \in S : \A j \in S : u <= j
    BY Zenon, <2>1, <2>2, LeastElement
  <2>4. PICK v \in u + 1..m : w[u] = w[v]
    BY <2>3
  <2>5. u \in 1..m /\ v \in 2..m /\ v - 1 \in 1..m /\ u < v
    BY <1>1, <2>3, <2>4
  <2>6. h.parent[w[v]] = w[v - 1] /\ w[v - 1] # Null
    BY <1>2, <1>3, <2>5
  <2>7. u # 1
    BY <1>2, <1>3, <2>4, <2>6
  <2>8. u \in 2..m /\ u - 1 \in 1..m /\ v - 1 \in u - 1 + 1..m
    BY <1>1, <2>5, <2>7
  <2>9. w[u - 1] = w[v - 1]
    BY <1>2, <2>4, <2>6, <2>8
  <2>10. u - 1 \in S
    BY <2>8, <2>9
  <2> HIDE DEF S
  <2> QED
    BY <2>3, <2>5, <2>10
<1>5. ASSUME NEW u \in 1..m, NEW v \in 1..m, w[u] = w[v], u < v PROVE FALSE
  <2>1. v \in u + 1..m
    BY <1>1, <1>5
  <2> QED
    BY <1>4, <1>5, <2>1
<1> HIDE DEF S
<1>6. ASSUME NEW u \in 1..m, NEW v \in 1..m, w[u] = w[v] PROVE u = v
  <2>1. u < v \/ v < u \/ u = v
    BY <1>1
  <2> QED
    BY <1>5, <1>6, <2>1
<1> QED
  BY <1>1, <1>6 DEF Injection, IsInjective, m

LEMMA DocumentLinked ==
  ASSUME NEW n \in Nat, NEW h, h.root # Null => Rooted(h, n),
         NEW loaded, DOMAIN loaded = 1..n, Len(loaded) = n, LinkedById(loaded, h, n),
         \A j \in 1..n : loaded[j].dur \in Nat,
         NEW trace, trace.spans = loaded, trace.links = h
  PROVE  IsLinkedDocument(ExportedTrace(trace))
<1> DEFINE doc == ExportedTrace(trace)
           walk == Preorder(h)
           path == CriticalPath(loaded, h)
           listed == doc.spans
           ids == doc.criticalPath
           root == h.root
<1>1. /\ listed = [k \in DOMAIN walk |-> loaded[walk[k]]]
      /\ ids = [k \in DOMAIN path |-> loaded[path[k]].id]
  <2>1. doc = [duration |-> RootDuration(trace),
               spans |-> [k \in DOMAIN walk |-> loaded[walk[k]]],
               criticalPath |-> [k \in DOMAIN path |-> loaded[path[k]].id]]
    BY Zenon DEF ExportedTrace
  <2> HIDE DEF doc, walk, path
  <2> QED
    BY <2>1
<1> HIDE DEF doc
<1>2. listed = [k \in DOMAIN walk |-> listed[k]] /\ ids = [k \in DOMAIN path |-> ids[k]]
  <2> HIDE DEF walk, path, listed, ids
  <2> QED
    BY <1>1
<1>3. CASE root = Null
  <2>1. walk = <<>> /\ path = <<>>
    BY <1>3 DEF Preorder, CriticalPath
  <2> HIDE DEF walk, path
  <2>2. walk \in Seq({}) /\ path \in Seq({}) /\ Len(walk) = 0 /\ Len(path) = 0
    BY <2>1, EmptySeq
  <2>3. Len(listed) = 0
    <3> HIDE DEF listed
    <3> QED
      BY <1>2, <2>2, Mapped
  <2>4. Len(ids) = 0 /\ ids = <<>>
    <3> HIDE DEF ids
    <3> QED
      BY <1>2, <2>1, <2>2, Mapped
  <2>5. IsLinkedDocument(doc)
    <3>1. \A v \in Nat : v \notin 2..0
      OBVIOUS
    <3> QED
      BY <2>3, <2>4, <3>1 DEF IsLinkedDocument
  <2> QED
    BY <2>5 DEF doc
<1>4. CASE root # Null
  <2>1. Rooted(h, n)
    BY <1>4
  <2>2. PICK R, r : Distances(h, n, R, r)
    BY <2>1, SpansHaveDistances
  <2>3. R \subseteq 1..n
    BY <2>2 DEF Distances
  <2>4. /\ walk \in Seq(R) /\ IsInjective(walk) /\ ToSet(walk) = R
        /\ Len(walk) >= 1 /\ walk[1] = root /\ ParentsFirst(h, walk, Null)
    BY <2>1, <2>2, WalkOfReached
  <2>5. LeadsToLeaf(loaded, h, n, R, root, path)
    BY <2>1, <2>2, CriticalPathOf
  <2> HIDE DEF walk, path, root
  <2>6. Len(walk) \in Nat /\ DOMAIN walk = 1..Len(walk) /\ Len(listed) = Len(walk)
    <3> HIDE DEF listed
    <3> QED
      BY <1>2, <2>4, Mapped
  <2>7. Len(path) \in Nat /\ DOMAIN path = 1..Len(path) /\ Len(ids) = Len(path)
    <3>1. path \in Seq(R)
      BY <2>5 DEF LeadsToLeaf
    <3> HIDE DEF ids
    <3> QED
      BY <1>2, <3>1, Mapped
  <2> HIDE DEF listed, ids
  <2>8. /\ \A v \in 1..Len(walk) : listed[v] = loaded[walk[v]] /\ walk[v] \in R
        /\ \A v \in 1..Len(path) : ids[v] = loaded[path[v]].id /\ path[v] \in R
    <3>1. path \in Seq(R)
      BY <2>5 DEF LeadsToLeaf
    <3>2. \A v \in 1..Len(walk) : walk[v] \in R
      BY <2>4, <2>6, ElementOfSeq
    <3>3. \A v \in 1..Len(path) : path[v] \in R
      BY <2>7, <3>1, ElementOfSeq
    <3> QED
      BY <1>1, <2>6, <2>7, <3>2, <3>3
  <2>9. ASSUME NEW v \in 2..Len(listed)
        PROVE  \E u \in 1..v - 1 : listed[u].id = listed[v].parentId
    <3> DEFINE x == walk[v]
    <3>1. v \in 1..Len(walk) /\ 1 \in 1..Len(walk) /\ v # 1
      BY <2>6
    <3>2. x \in R /\ x \in 1..n /\ listed[v] = loaded[x]
      BY <2>3, <2>8, <3>1
    <3>3. x # root
      BY <2>4, <2>6, <3>1 DEF IsInjective
    <3>4. h.parent[x] # Null
      BY <2>1, <2>2, <3>2, <3>3, ReachedHasParent DEF root
    <3>5. PICK u \in 1..v - 1 : walk[u] = h.parent[x]
      BY <2>4, <2>6, <3>1, <3>4 DEF ParentsFirst
    <3>6. u \in 1..Len(walk)
      BY <2>6, <3>1
    <3>7. listed[u] = loaded[h.parent[x]]
      BY <2>8, <3>5, <3>6
    <3> HIDE DEF x
    <3>8. loaded[h.parent[x]].id = loaded[x].parentId
      BY <3>2, <3>4, ParentNamed
    <3> QED
      BY <3>2, <3>7, <3>8
  <2>10. ids[1] = listed[1].id
    <3>1. Len(path) >= 1 /\ path[1] = root
      BY <2>5, <2>7 DEF LeadsToLeaf
    <3>2. 1 \in 1..Len(path) /\ 1 \in 1..Len(walk)
      BY <2>4, <2>6, <2>7, <3>1
    <3> QED
      BY <2>4, <2>8, <3>1, <3>2
  <2>11. ASSUME NEW v \in 2..Len(ids)
         PROVE  \E u \in DOMAIN listed : listed[u].id = ids[v] /\ listed[u].parentId = ids[v - 1]
    <3> DEFINE x == path[v]
               p == path[v - 1]
    <3>1. v \in 1..Len(path) /\ v - 1 \in 1..Len(path) /\ v \in 2..Len(path)
      BY <2>7
    <3>2. x \in R /\ p \in R /\ ids[v] = loaded[x].id /\ ids[v - 1] = loaded[p].id
      BY <2>8, <3>1
    <3>3. h.parent[x] = p
      BY <2>5, <3>1 DEF LeadsToLeaf
    <3> HIDE DEF x, p
    <3>4. x \in 1..n /\ p # Null
      BY <2>3, <3>2 DEF Null
    <3>5. loaded[p].id = loaded[x].parentId
      BY <3>3, <3>4, ParentNamed
    <3>6. PICK u \in 1..Len(walk) : walk[u] = x
      BY <2>4, <2>6, <3>2 DEF ToSet
    <3>7. u \in DOMAIN listed /\ listed[u] = loaded[x]
      BY <1>1, <2>6, <2>8, <3>6
    <3> QED
      BY <3>2, <3>5, <3>7
  <2>12. Len(ids) <= Len(listed)
    <3> DEFINE a == Cardinality(R)
               k == Len(walk)
               m == Len(path)
    <3>1. path \in Injection(1..m, R)
      BY <2>1, <2>3, <2>5, PathInjective DEF root
    <3>2. walk \in Surjection(1..k, R)
      BY <2>4, <2>6, <2>8 DEF Surjection, ToSet
    <3>3. IsFiniteSet(R) /\ Cardinality(R) <= Cardinality(1..k)
      BY <3>2, FS_Surjection, FS_Interval
    <3>4. Cardinality(1..m) <= Cardinality(R)
      BY <3>1, <3>3, FS_Injection
    <3>5. k \in Nat /\ m \in Nat /\ Cardinality(1..m) = m /\ Cardinality(1..k) = k
      BY <2>6, <2>7, UpTo
    <3>6. a \in Nat
      BY <3>3, FS_CardinalityType
    <3>7. a <= k /\ m <= a
      BY <3>3, <3>4, <3>5
    <3> HIDE DEF a, k, m
    <3>8. m <= k
      BY <3>5, <3>6, <3>7
    <3> QED
      BY <2>6, <2>7, <3>8 DEF k, m
  <2>13. IsLinkedDocument(doc)
    BY <2>9, <2>10, <2>11, <2>12 DEF IsLinkedDocument, listed, ids
  <2> QED
    BY <2>13 DEF doc
<1> QED
  BY <1>3, <1>4 DEF doc

LEMMA DocumentsLinked ==
  ASSUME TreeInv
  PROVE  ExportedAsLinked
<1>1. ASSUME NEW trace \in ToSet(Loaded)
      PROVE  IsLinkedDocument(ExportedTrace(trace))
  <2>1. PICK k \in DOMAIN log : trace = Loaded[k]
    BY <1>1 DEF ToSet, Loaded
  <2> DEFINE h == log[k].links
             n == Len(log[k].spans)
             loaded == Decoded(log[k].spans)
  <2>2. trace.spans = loaded /\ trace.links = h
    BY <2>1 DEF Loaded
  <2>3. /\ n \in Nat /\ DOMAIN loaded = 1..n /\ Len(loaded) = n
        /\ \A j \in 1..n : loaded[j].dur \in Nat
        /\ LinkedById(loaded, h, n) /\ (h.root # Null => Rooted(h, n))
    BY RecordRooted
  <2> HIDE DEF n, h, loaded
  <2> QED
    BY <2>2, <2>3, DocumentLinked
<1> QED
  BY <1>1 DEF ExportedAsLinked, IsLinkedDocument

-----------------------------------------------------------------------------
(* Folds. *)

LEMMA LargestOf ==
  ASSUME NEW n \in Nat, NEW S \in SUBSET (1..n), S # {}
  PROVE  Max(S) \in S /\ \A i \in S : i <= Max(S)
<1> DEFINE T == {n - i : i \in S}
<1>1. T \subseteq Nat /\ T # {}
  <2>1. PICK i \in S : TRUE
    OBVIOUS
  <2>2. n - i \in T
    BY <2>1
  <2>3. \A j \in S : n - j \in Nat
    OBVIOUS
  <2> QED
    BY <2>2, <2>3
<1>2. PICK m \in T : \A k \in T : m <= k
  <2> HIDE DEF T
  <2> QED
    BY <1>1, LeastElement
<1>3. PICK i \in S : m = n - i
  BY <1>2
<1>4. \A j \in S : i >= j
  <2> SUFFICES ASSUME NEW j \in S PROVE i >= j
    OBVIOUS
  <2>1. m <= n - j
    BY <1>2
  <2> QED
    BY <1>3, <2>1
<1>5. Max(S) \in S /\ \A j \in S : Max(S) >= j
  BY <1>3, <1>4 DEF Max
<1> QED
  BY <1>5

\* What MapThenFoldSet recurs by: F[i] is applied for the largest i of a set to
\* the result for the rest.
IsFold(n, base, F, fold) ==
    fold = [u \in SUBSET (1..n) |->
               IF u = {} THEN base ELSE F[Max(u)][fold[u \ {Max(u)}]]]

LEMMA FoldDefined ==
  ASSUME NEW n \in Nat, NEW A, NEW base \in A, NEW F \in [1..n -> [A -> A]]
  PROVE  \E fold : IsFold(n, base, F, fold)
<1> DEFINE V == SUBSET (1..n)
           step(f, u) == IF u = {} THEN base ELSE F[Max(u)][f[u \ {Max(u)}]]
           P(k) == \E f : f = [u \in V |-> f[u]] /\ \A u \in SUBSET (1..k) : f[u] = step(f, u)
           S == {k \in 0..n : P(k)}
<1>1. 0 \in S
  <2> DEFINE f == [u \in V |-> base]
  <2>1. f = [u \in V |-> f[u]]
    OBVIOUS
  <2>2. ASSUME NEW u \in SUBSET (1..0) PROVE f[u] = step(f, u)
    <3>1. u = {} /\ u \in V
      OBVIOUS
    <3> QED
      BY <3>1
  <2> HIDE DEF f, step
  <2>3. P(0)
    BY <2>1, <2>2
  <2> HIDE DEF P
  <2> QED
    BY <2>3
<1>2. ASSUME NEW k \in 0..n - 1, k \in S PROVE k + 1 \in S
  <2>1. PICK f : f = [u \in V |-> f[u]] /\ \A u \in SUBSET (1..k) : f[u] = step(f, u)
    <3> HIDE DEF step, V
    <3> QED
      BY <1>2
  <2> DEFINE g == [u \in V |-> IF u \in SUBSET (1..k) THEN f[u] ELSE step(f, u)]
  <2>2. g = [u \in V |-> g[u]]
    <3> HIDE DEF step, V
    <3> QED
      OBVIOUS
  <2>3. \A u \in V : g[u] = step(f, u)
    <3> HIDE DEF step
    <3> QED
      BY <2>1
  <2>4. \A u \in SUBSET (1..k) : u \in V /\ g[u] = f[u]
    <3>1. \A u \in SUBSET (1..k) : u \in V
      OBVIOUS
    <3> HIDE DEF step, V
    <3> QED
      BY <3>1
  <2> HIDE DEF g
  <2>5. ASSUME NEW u \in SUBSET (1..k + 1) PROVE g[u] = step(g, u)
    <3>1. CASE u = {}
      BY <2>3, <3>1
    <3>2. CASE u # {}
      <4> DEFINE w == u \ {Max(u)}
      <4>1. u \in V /\ k + 1 \in Nat
        OBVIOUS
      <4>2. Max(u) \in u /\ \A i \in u : i <= Max(u)
        BY <3>2, <4>1, LargestOf
      <4>3. w \in SUBSET (1..k)
        <5> SUFFICES ASSUME NEW i \in w PROVE i \in 1..k
          OBVIOUS
        <5> DEFINE m == Max(u)
        <5>1. m \in u /\ i \in u /\ i <= m /\ i # m
          BY <4>2
        <5> HIDE DEF m
        <5> QED
          BY <5>1
      <4>4. g[w] = f[w]
        BY <2>4, <4>3
      <4>5. g[u] = step(f, u)
        BY <2>3, <4>1
      <4> QED
        BY <4>4, <4>5
    <3> QED
      BY <3>1, <3>2
  <2>6. P(k + 1)
    <3> HIDE DEF step, V
    <3> QED
      BY <2>2, <2>5
  <2>7. k + 1 \in 0..n
    OBVIOUS
  <2> HIDE DEF P
  <2> QED
    BY <2>6, <2>7
<1>3. n \in S
  <2>1. n \in 0..n
    OBVIOUS
  <2> HIDE DEF S
  <2> QED
    BY <1>1, <1>2, <2>1, OneByOne
<1>4. PICK f : f = [u \in V |-> f[u]] /\ \A u \in SUBSET (1..n) : f[u] = step(f, u)
  <2> HIDE DEF step, V
  <2> QED
    BY <1>3
<1>5. f = [u \in V |-> step(f, u)]
  <2> HIDE DEF step
  <2> QED
    BY <1>4
<1> QED
  BY <1>5 DEF IsFold

LEMMA FoldTyped ==
  ASSUME NEW n \in Nat, NEW A, NEW base \in A, NEW F \in [1..n -> [A -> A]],
         NEW fold, IsFold(n, base, F, fold)
  PROVE  \A u \in SUBSET (1..n) : fold[u] \in A
<1> DEFINE V == SUBSET (1..n)
           step(u) == IF u = {} THEN base ELSE F[Max(u)][fold[u \ {Max(u)}]]
           S == {k \in 0..n : \A u \in SUBSET (1..k) : fold[u] \in A}
<1>1. \A u \in V : fold[u] = step(u)
  <2>1. fold = [u \in V |-> step(u)]
    BY DEF IsFold
  <2> HIDE DEF V, step
  <2> QED
    BY Zenon, <2>1
<1>2. 0 \in S
  <2>1. ASSUME NEW u \in SUBSET (1..0) PROVE fold[u] \in A
    <3>1. u = {} /\ u \in V
      OBVIOUS
    <3> QED
      BY <1>1, <3>1
  <2> QED
    BY <2>1
<1>3. ASSUME NEW k \in 0..n - 1, k \in S PROVE k + 1 \in S
  <2>1. ASSUME NEW u \in SUBSET (1..k + 1) PROVE fold[u] \in A
    <3>1. u \in V /\ k + 1 \in Nat
      OBVIOUS
    <3>2. CASE u = {}
      BY <1>1, <3>1, <3>2
    <3>3. CASE u # {}
      <4> DEFINE m == Max(u)
                 w == u \ {m}
      <4>1. m \in u /\ \A i \in u : i <= m
        BY <3>1, <3>3, LargestOf
      <4> HIDE DEF m
      <4>2. w \in SUBSET (1..k) /\ m \in 1..n
        BY <4>1
      <4>3. fold[w] \in A
        BY <1>3, <4>2
      <4>4. fold[u] = F[m][fold[w]]
        BY <1>1, <3>1, <3>3 DEF m
      <4> QED
        BY <4>2, <4>3, <4>4
    <3> QED
      BY <3>2, <3>3
  <2> QED
    BY <2>1
<1>4. n \in S
  <2>1. n \in 0..n
    OBVIOUS
  <2> HIDE DEF S
  <2> QED
    BY <1>2, <1>3, <2>1, OneByOne
<1> QED
  BY <1>4

LEMMA LargestOfFirst ==
  ASSUME NEW k \in Nat
  PROVE  1..k + 1 # {} /\ Max(1..k + 1) = k + 1 /\ (1..k + 1) \ {k + 1} = 1..k
<1> DEFINE m == Max(1..k + 1)
<1>1. k + 1 \in 1..k + 1 /\ k + 1 \in Nat
  OBVIOUS
<1>2. m \in 1..k + 1 /\ k + 1 <= m
  BY <1>1, LargestOf
<1> HIDE DEF m
<1>3. m = k + 1
  BY <1>2
<1>4. (1..k + 1) \ {k + 1} = 1..k
  OBVIOUS
<1>5. 1..k + 1 # {}
  BY <1>1
<1> QED
  BY Zenon, <1>3, <1>4, <1>5 DEF m

\* total_us
LEMMA SumOfFirst ==
  ASSUME NEW n \in Nat, NEW s \in [1..n -> Nat]
  PROVE  \E g : /\ g[0] = 0 /\ FoldLeft(+, 0, s) = g[n]
                /\ \A k \in 0..n - 1 : g[k + 1] = g[k] + s[k + 1]
<1> DEFINE V == SUBSET (1..n)
           step(f, u) == IF u = {} THEN 0 ELSE f[u \ {Max(u)}] + s[Max(u)]
           f == CHOOSE f : f = [u \in V |-> step(f, u)]
           F == [i \in 1..n |-> [a \in Nat |-> a + s[i]]]
           g == [k \in 0..n |-> f[1..k]]
<1>1. FoldLeft(+, 0, s) = f[1..n]
  <2>1. DOMAIN s = 1..n
    OBVIOUS
  <2> QED
    BY Zenon, <2>1 DEF FoldLeft, MapThenFoldSet
<1>2. PICK fold : IsFold(n, 0, F, fold) /\ \A u \in V : fold[u] \in Nat
  <2>1. F \in [1..n -> [Nat -> Nat]]
    OBVIOUS
  <2> HIDE DEF F
  <2>2. PICK h : IsFold(n, 0, F, h)
    BY <2>1, FoldDefined
  <2> QED
    BY <2>1, <2>2, FoldTyped
<1>3. fold = [u \in V |-> step(fold, u)]
  <2>1. ASSUME NEW u \in V, u # {} PROVE F[Max(u)][fold[u \ {Max(u)}]] = fold[u \ {Max(u)}] + s[Max(u)]
    <3> DEFINE m == Max(u)
    <3>1. m \in 1..n /\ u \ {m} \in V
      BY <2>1, LargestOf
    <3> HIDE DEF m
    <3>2. fold[u \ {m}] \in Nat
      BY <1>2, <3>1
    <3> QED
      BY <3>1, <3>2 DEF m
  <2> HIDE DEF F, V
  <2>2. fold = [u \in V |-> IF u = {} THEN 0 ELSE F[Max(u)][fold[u \ {Max(u)}]]]
    BY <1>2 DEF IsFold, V
  <2> QED
    BY <2>1, <2>2
<1>4. f = [u \in V |-> step(f, u)]
  <2> DEFINE P(h) == h = [u \in V |-> step(h, u)]
  <2>1. P(fold)
    BY <1>3
  <2>2. f = CHOOSE h : P(h)
    OBVIOUS
  <2> HIDE DEF P, f
  <2>3. P(f)
    BY <2>1, <2>2
  <2> QED
    BY <2>3 DEF P
<1> HIDE DEF f
<1>5. \A u \in V : f[u] = step(f, u)
  <2> HIDE DEF V, step
  <2> QED
    BY Zenon, <1>4
<1>6. f[1..0] = 0
  <2>1. 1..0 = {} /\ 1..0 \in V
    OBVIOUS
  <2> HIDE DEF V
  <2> QED
    BY <1>5, <2>1
<1>7. ASSUME NEW k \in 0..n - 1 PROVE f[1..k + 1] = f[1..k] + s[k + 1]
  <2>1. 1..k + 1 \in V /\ k \in Nat
    OBVIOUS
  <2>2. f[1..k + 1] = step(f, 1..k + 1)
    <3> HIDE DEF step, V
    <3> QED
      BY <1>5, <2>1
  <2>3. 1..k + 1 # {} /\ Max(1..k + 1) = k + 1 /\ (1..k + 1) \ {k + 1} = 1..k
    BY <2>1, LargestOfFirst
  <2> QED
    BY Zenon, <2>2, <2>3
<1>8. /\ 0 \in 0..n /\ n \in 0..n
      /\ \A k \in 0..n - 1 : k \in 0..n /\ k + 1 \in 0..n
  OBVIOUS
<1>9. g[0] = 0 /\ g[n] = f[1..n] /\ \A k \in 0..n - 1 : g[k + 1] = g[k] + s[k + 1]
  <2>1. \A k \in 0..n : g[k] = f[1..k]
    OBVIOUS
  <2> HIDE DEF g
  <2> QED
    BY <1>6, <1>7, <1>8, <2>1
<1> QED
  BY <1>1, <1>9

-----------------------------------------------------------------------------
(* Statistics per name. *)

Group(N) == [name : N, latencies : Seq(Nat)]

\* next is a group with one sample more, if there is room for it.
IsSampled(g, dur, next) ==
    LET n == Len(g.latencies)
    IN /\ next.name = g.name
       /\ IF n < MaxSamples
          THEN /\ Len(next.latencies) = n + 1 /\ next.latencies[n + 1] = dur
               /\ \A i \in 1..n : next.latencies[i] = g.latencies[i]
          ELSE next = g

LEMMA SampleAdded ==
  ASSUME NEW N, NEW g \in Group(N), NEW dur \in Nat
  PROVE  AddSample(g, dur) \in Group(N) /\ IsSampled(g, dur, AddSample(g, dur))
<1> DEFINE s == g.latencies
           n == Len(s)
           t == Append(s, dur)
           next == AddSample(g, dur)
<1>1. s \in Seq(Nat) /\ n \in Nat /\ g.name \in N
  BY LenProperties DEF Group
<1>2. CASE n < MaxSamples
  <2>1. next = [name |-> g.name, latencies |-> t]
    <3>1. next = [g EXCEPT !.latencies = t]
      BY <1>2 DEF AddSample
    <3>2. g = [name |-> g.name, latencies |-> s]
      BY DEF Group
    <3> HIDE DEF next, t
    <3> QED
      BY <3>1, <3>2
  <2> HIDE DEF s, next
  <2>2. /\ t \in Seq(Nat) /\ Len(t) = n + 1 /\ t[n + 1] = dur
        /\ \A i \in 1..n : t[i] = s[i]
    BY <1>1, AppendProperties
  <2> HIDE DEF t
  <2>3. next \in Group(N) /\ next.name = g.name /\ next.latencies = t
    BY <1>1, <2>1, <2>2 DEF Group
  <2> QED
    BY <1>2, <2>2, <2>3 DEF IsSampled, next, s
<1>3. CASE ~(n < MaxSamples)
  BY <1>3 DEF AddSample, IsSampled
<1> QED
  BY <1>2, <1>3

\* next is the groups with one span more.
IsCollected(groups, span, next) ==
    LET n == Len(groups)
        known == {g \in 1..n : groups[g].name = span.name}
        new == [name |-> span.name, latencies |-> <<>>]
    IN CASE known # {} ->
              /\ Len(next) = n
              /\ \E g \in known : /\ IsSampled(groups[g], span.dur, next[g])
                                  /\ \A k \in 1..n : k # g => next[k] = groups[k]
         [] known = {} /\ n < MaxGroups ->
              /\ Len(next) = n + 1 /\ IsSampled(new, span.dur, next[n + 1])
              /\ \A k \in 1..n : next[k] = groups[k]
         [] known = {} /\ ~(n < MaxGroups) -> next = groups

LEMMA SpanCollected ==
  ASSUME NEW N, NEW groups \in Seq(Group(N)), NEW span, span.name \in N, span.dur \in Nat
  PROVE  /\ CollectSpan(groups, span) \in Seq(Group(N))
         /\ IsCollected(groups, span, CollectSpan(groups, span))
<1> DEFINE n == Len(groups)
           known == {g \in 1..n : groups[g].name = span.name}
           new == [name |-> span.name, latencies |-> <<>>]
           next == CollectSpan(groups, span)
<1>1. n \in Nat /\ DOMAIN groups = 1..n /\ \A g \in 1..n : groups[g] \in Group(N)
  BY LenProperties, ElementOfSeq
<1>2. known = {g \in DOMAIN groups : groups[g].name = span.name}
  BY <1>1
<1>3. CASE known # {}
  <2> DEFINE g == Min(known)
             more == AddSample(groups[g], span.dur)
  <2>1. next = [groups EXCEPT ![g] = more]
    BY <1>2, <1>3 DEF CollectSpan
  <2>2. g \in known
    <3>1. known \subseteq Nat
      OBVIOUS
    <3> HIDE DEF known
    <3>2. \E m \in known : \A k \in known : m <= k
      BY <1>3, <3>1, LeastElement
    <3> QED
      BY <3>2 DEF Min
  <2> HIDE DEF g
  <2>3. g \in 1..n /\ groups[g] \in Group(N)
    BY <1>1, <2>2
  <2>4. more \in Group(N) /\ IsSampled(groups[g], span.dur, more)
    BY <2>3, SampleAdded
  <2> HIDE DEF more, next, n
  <2>5. next \in Seq(Group(N)) /\ Len(next) = n
    BY <2>1, <2>3, <2>4, ExceptSeq DEF n
  <2>6. next[g] = more /\ \A k \in 1..n : k # g => next[k] = groups[k]
    BY <1>1, <2>1, <2>3
  <2>7. IsCollected(groups, span, next)
    BY <1>3, <2>2, <2>4, <2>5, <2>6 DEF IsCollected, n
  <2> QED
    BY <2>5, <2>7 DEF next
<1>4. CASE known = {} /\ n < MaxGroups
  <2> DEFINE more == AddSample(new, span.dur)
  <2>1. next = Append(groups, more)
    BY <1>2, <1>4 DEF CollectSpan
  <2>2. new \in Group(N)
    BY EmptySeq DEF Group
  <2> HIDE DEF new
  <2>3. more \in Group(N) /\ IsSampled(new, span.dur, more)
    BY <2>2, SampleAdded
  <2> HIDE DEF more, next
  <2>4. /\ next \in Seq(Group(N)) /\ Len(next) = n + 1 /\ next[n + 1] = more
        /\ \A k \in 1..n : next[k] = groups[k]
    BY <2>1, <2>3, AppendProperties
  <2>5. IsCollected(groups, span, next)
    BY <1>4, <2>3, <2>4 DEF IsCollected, new
  <2> QED
    BY <2>4, <2>5 DEF next
<1>5. CASE known = {} /\ ~(n < MaxGroups)
  <2>1. next = groups
    BY <1>2, <1>5 DEF CollectSpan
  <2> QED
    BY <1>5, <2>1 DEF IsCollected
<1> QED
  BY <1>3, <1>4, <1>5

\* The groups after each of the spans.
LEMMA GroupsOfFirst ==
  ASSUME NEW N, NEW n \in Nat, NEW s, DOMAIN s = 1..n,
         \A i \in 1..n : s[i].name \in N /\ s[i].dur \in Nat
  PROVE  \E g : /\ g[0] = <<>> /\ FoldLeft(CollectSpan, <<>>, s) = g[n]
                /\ \A k \in 0..n : g[k] \in Seq(Group(N))
                /\ \A k \in 0..n - 1 : IsCollected(g[k], s[k + 1], g[k + 1])
<1> DEFINE A == Seq(Group(N))
           V == SUBSET (1..n)
           step(f, u) == IF u = {} THEN <<>> ELSE CollectSpan(f[u \ {Max(u)}], s[Max(u)])
           f == CHOOSE f : f = [u \in V |-> step(f, u)]
           F == [i \in 1..n |-> [a \in A |-> CollectSpan(a, s[i])]]
           g == [k \in 0..n |-> f[1..k]]
           S == {k \in 0..n : f[1..k] \in A}
<1>1. FoldLeft(CollectSpan, <<>>, s) = f[1..n]
  BY Zenon DEF FoldLeft, MapThenFoldSet
<1>2. \A i \in 1..n, a \in A : CollectSpan(a, s[i]) \in A /\ IsCollected(a, s[i], CollectSpan(a, s[i]))
  BY SpanCollected
<1>3. <<>> \in A
  BY EmptySeq
<1> HIDE DEF A
<1>4. PICK fold : IsFold(n, <<>>, F, fold) /\ \A u \in V : fold[u] \in A
  <2>1. F \in [1..n -> [A -> A]]
    BY <1>2
  <2> HIDE DEF F
  <2>2. PICK h : IsFold(n, <<>>, F, h)
    BY <1>3, <2>1, FoldDefined
  <2> QED
    BY <1>3, <2>1, <2>2, FoldTyped
<1>5. fold = [u \in V |-> step(fold, u)]
  <2>1. ASSUME NEW u \in V, u # {}
        PROVE  F[Max(u)][fold[u \ {Max(u)}]] = CollectSpan(fold[u \ {Max(u)}], s[Max(u)])
    <3> DEFINE m == Max(u)
    <3>1. m \in 1..n /\ u \ {m} \in V
      BY <2>1, LargestOf
    <3> HIDE DEF m
    <3>2. fold[u \ {m}] \in A
      BY <1>4, <3>1
    <3> QED
      BY <3>1, <3>2 DEF m
  <2> HIDE DEF F, V
  <2>2. fold = [u \in V |-> IF u = {} THEN <<>> ELSE F[Max(u)][fold[u \ {Max(u)}]]]
    BY <1>4 DEF IsFold, V
  <2> QED
    BY <2>1, <2>2
<1>6. f = [u \in V |-> step(f, u)]
  <2> DEFINE P(h) == h = [u \in V |-> step(h, u)]
  <2>1. P(fold)
    BY <1>5
  <2>2. f = CHOOSE h : P(h)
    OBVIOUS
  <2> HIDE DEF P, f
  <2>3. P(f)
    BY <2>1, <2>2
  <2> QED
    BY <2>3 DEF P
<1> HIDE DEF f
<1>7. \A u \in V : f[u] = step(f, u)
  <2> HIDE DEF V, step
  <2> QED
    BY Zenon, <1>6
<1>8. f[1..0] = <<>>
  <2>1. 1..0 = {} /\ 1..0 \in V
    OBVIOUS
  <2> HIDE DEF V
  <2> QED
    BY <1>7, <2>1
<1>9. ASSUME NEW k \in 0..n - 1 PROVE f[1..k + 1] = CollectSpan(f[1..k], s[k + 1])
  <2>1. 1..k + 1 \in V /\ k \in Nat
    OBVIOUS
  <2>2. f[1..k + 1] = step(f, 1..k + 1)
    <3> HIDE DEF step, V
    <3> QED
      BY <1>7, <2>1
  <2>3. 1..k + 1 # {} /\ Max(1..k + 1) = k + 1 /\ (1..k + 1) \ {k + 1} = 1..k
    BY <2>1, LargestOfFirst
  <2> QED
    BY Zenon, <2>2, <2>3
<1>10. \A k \in 0..n - 1 : k \in 0..n /\ k + 1 \in 0..n /\ k + 1 \in 1..n
  OBVIOUS
<1>11. 0..n \subseteq S
  <2>1. 0 \in S
    BY <1>3, <1>8
  <2>2. \A k \in 0..n - 1 : k \in S => k + 1 \in S
    BY <1>2, <1>9, <1>10
  <2> HIDE DEF S
  <2> QED
    BY <2>1, <2>2, OneByOne
<1>12. \A k \in 0..n : g[k] = f[1..k] /\ f[1..k] \in A
  BY <1>11
<1>13. ASSUME NEW k \in 0..n - 1 PROVE IsCollected(g[k], s[k + 1], g[k + 1])
  <2>1. IsCollected(f[1..k], s[k + 1], CollectSpan(f[1..k], s[k + 1]))
    BY <1>2, <1>10, <1>12
  <2> HIDE DEF g
  <2> QED
    BY <1>9, <1>10, <1>12, <2>1
<1>14. 0 \in 0..n /\ n \in 0..n
  OBVIOUS
<1> HIDE DEF g
<1> QED
  BY <1>1, <1>8, <1>12, <1>13, <1>14 DEF A

\* A group has, of the spans of its name among the first k, the first ones.
SamplesHeld(s, k, group) ==
    LET samples == group.latencies
        own == Own(s, group, k)
    IN /\ Len(samples) = IF Cardinality(own) <= MaxSamples THEN Cardinality(own) ELSE MaxSamples
       /\ \A v \in own :
             LET place == Cardinality(Own(s, group, v))
             IN place <= MaxSamples => samples[place] = s[v].dur

LEMMA OwnFinite ==
  ASSUME NEW s, NEW k \in Nat, NEW group
  PROVE  /\ IsFiniteSet(Own(s, group, k)) /\ Cardinality(Own(s, group, k)) \in Nat
         /\ \A v \in Own(s, group, k) :
               /\ v \in 1..k
               /\ Cardinality(Own(s, group, v)) \in 1..Cardinality(Own(s, group, k))
<1> DEFINE own(v) == Own(s, group, v)
<1>1. ASSUME NEW v \in Nat PROVE IsFiniteSet(own(v)) /\ Cardinality(own(v)) \in Nat
  <2>1. own(v) \in SUBSET (1..v)
    BY DEF Own
  <2>2. IsFiniteSet(1..v)
    BY FS_Interval
  <2> HIDE DEF own
  <2> QED
    BY <2>1, <2>2, FS_Subset, FS_CardinalityType
<1>2. ASSUME NEW v \in own(k)
      PROVE  v \in 1..k /\ Cardinality(own(v)) \in 1..Cardinality(own(k))
  <2>1. v \in 1..k /\ v \in own(v) /\ own(v) \in SUBSET own(k)
    BY <1>2 DEF Own
  <2> HIDE DEF own
  <2>2. Cardinality(own(v)) <= Cardinality(own(k))
    BY <1>1, <2>1, FS_Subset
  <2>3. Cardinality(own(v)) # 0
    BY <1>1, <2>1, FS_EmptySet
  <2> QED
    BY <1>1, <2>1, <2>2, <2>3
<1> QED
  BY <1>1, <1>2

LEMMA OwnSample ==
  ASSUME NEW s, NEW k \in Nat, NEW N, NEW group \in Group(N), SamplesHeld(s, k, group),
         s[k + 1].name = group.name, NEW next, IsSampled(group, s[k + 1].dur, next)
  PROVE  SamplesHeld(s, k + 1, next) /\ k + 1 \in Own(s, next, k + 1)
<1> DEFINE own(v) == Own(s, group, v)
           c == Cardinality(own(k))
           samples == group.latencies
           more == next.latencies
           n == Len(samples)
<1>1. /\ n = (IF c <= MaxSamples THEN c ELSE MaxSamples)
      /\ \A v \in own(k) : Cardinality(own(v)) <= MaxSamples =>
            samples[Cardinality(own(v))] = s[v].dur
  BY DEF SamplesHeld
<1>2. c \in Nat /\ IsFiniteSet(own(k)) /\ MaxSamples \in Nat \ {0}
  BY OwnFinite, AnalysisAssumption
<1>3. \A v \in own(k) : v \in 1..k /\ Cardinality(own(v)) \in 1..c
  BY OwnFinite
<1>4. \A v : Own(s, next, v) = own(v)
  BY DEF IsSampled, Own
<1>5. own(k + 1) = own(k) \union {k + 1} /\ k + 1 \notin own(k)
  BY DEF Own
<1>6. IF n < MaxSamples
      THEN /\ Len(more) = n + 1 /\ more[n + 1] = s[k + 1].dur
           /\ \A i \in 1..n : more[i] = samples[i]
      ELSE more = samples
  BY DEF IsSampled
<1> HIDE DEF own, samples, more
<1>7. Cardinality(own(k + 1)) = c + 1
  BY <1>2, <1>5, FS_AddElement
<1> HIDE DEF c, n
<1>8. Len(more) = IF c + 1 <= MaxSamples THEN c + 1 ELSE MaxSamples
  <2>1. CASE n < MaxSamples
    BY <1>1, <1>2, <1>6, <2>1
  <2>2. CASE ~(n < MaxSamples)
    BY <1>1, <1>2, <1>6, <2>2 DEF n
  <2> QED
    BY <2>1, <2>2
<1>9. ASSUME NEW v \in own(k + 1), Cardinality(own(v)) <= MaxSamples
      PROVE  more[Cardinality(own(v))] = s[v].dur
  <2>1. CASE v = k + 1
    <3>1. n = c /\ n < MaxSamples
      BY <1>1, <1>2, <1>7, <1>9, <2>1
    <3> QED
      BY <1>6, <1>7, <2>1, <3>1
  <2>2. CASE v \in own(k)
    <3> DEFINE place == Cardinality(own(v))
    <3>1. samples[place] = s[v].dur /\ place \in 1..c /\ place <= MaxSamples
      BY <1>1, <1>3, <1>9, <2>2
    <3> HIDE DEF place
    <3>2. place \in 1..n
      BY <1>1, <1>2, <3>1
    <3>3. more[place] = samples[place]
      BY <1>6, <3>2
    <3> QED
      BY <3>1, <3>3 DEF place
  <2> QED
    BY <1>5, <2>1, <2>2
<1>10. SamplesHeld(s, k + 1, next)
  BY <1>4, <1>7, <1>8, <1>9 DEF SamplesHeld, more
<1> QED
  BY <1>4, <1>5, <1>10

LEMMA OtherSample ==
  ASSUME NEW s, NEW k \in Nat, NEW group, s[k + 1].name # group.name,
         SamplesHeld(s, k, group)
  PROVE  SamplesHeld(s, k + 1, group) /\ Own(s, group, k + 1) = Own(s, group, k)
<1>1. Own(s, group, k + 1) = Own(s, group, k)
  BY DEF Own
<1> QED
  BY <1>1 DEF SamplesHeld

\* The v-th span has a group of its name, or there was no room for one.
Grouped(s, v, groups) ==
    LET m == Len(groups)
    IN \/ \E g \in 1..m : groups[g].name = s[v].name
       \/ m = MaxGroups /\ \A g \in 1..m : Own(s, groups[g], v) # {}

\* What GroupsHoldVisited says after the first k spans.
GroupsHold(s, k, groups) ==
    LET m == Len(groups)
    IN /\ m <= MaxGroups
       /\ \A g, j \in 1..m : groups[g].name = groups[j].name => g = j
       /\ \A g \in 1..m : SamplesHeld(s, k, groups[g]) /\ Own(s, groups[g], k) # {}
       /\ \A v \in 1..k : Grouped(s, v, groups)

LEMMA GroupsHoldNext ==
  ASSUME NEW s, NEW k \in Nat, NEW N, NEW groups \in Seq(Group(N)), GroupsHold(s, k, groups),
         s[k + 1].name \in N, NEW next, IsCollected(groups, s[k + 1], next)
  PROVE  GroupsHold(s, k + 1, next)
<1> DEFINE m == Len(groups)
           span == s[k + 1]
           known == {g \in 1..m : groups[g].name = span.name}
           new == [name |-> span.name, latencies |-> <<>>]
           Good(i, group) == SamplesHeld(s, i, group) /\ Own(s, group, i) # {}
<1>1. /\ m <= MaxGroups
      /\ \A g, j \in 1..m : groups[g].name = groups[j].name => g = j
      /\ \A g \in 1..m : Good(k, groups[g])
      /\ \A v \in 1..k : Grouped(s, v, groups)
  BY DEF GroupsHold
<1>2. m \in Nat /\ MaxGroups \in Nat /\ \A g \in 1..m : groups[g] \in Group(N)
  BY LenProperties, ElementOfSeq, AnalysisAssumption
<1>3. ASSUME NEW g \in 1..m, groups[g].name # span.name PROVE Good(k + 1, groups[g])
  BY <1>1, <1>3, OtherSample
<1>4. ASSUME NEW g \in 1..m, groups[g].name = span.name, NEW x, IsSampled(groups[g], span.dur, x)
      PROVE  Good(k + 1, x) /\ x.name = groups[g].name
  <2>1. SamplesHeld(s, k + 1, x) /\ k + 1 \in Own(s, x, k + 1)
    BY <1>1, <1>2, <1>4, OwnSample
  <2> QED
    BY <1>4, <2>1 DEF IsSampled
<1> HIDE DEF Good
<1>5. \A v \in 1..k + 1 : v \in 1..k \/ v = k + 1
  OBVIOUS
<1>6. CASE known # {}
  <2>1. PICK g \in known : /\ Len(next) = m /\ IsSampled(groups[g], span.dur, next[g])
                           /\ \A j \in 1..m : j # g => next[j] = groups[j]
    BY <1>6 DEF IsCollected
  <2>2. \A j \in 1..m : j # g => groups[j].name # span.name
    BY <1>1, <2>1
  <2>3. next[g].name = groups[g].name /\ Good(k + 1, next[g])
    BY <1>4, <2>1
  <2>4. \A j \in 1..m : next[j].name = groups[j].name /\ Good(k + 1, next[j])
    BY <1>3, <2>1, <2>2, <2>3
  <2>5. \A v \in 1..k : Grouped(s, v, next)
    <3>1. \A j \in 1..m : \A v : Own(s, next[j], v) = Own(s, groups[j], v)
      BY <2>4 DEF Own
    <3> HIDE DEF m
    <3>2. ASSUME NEW v \in 1..k PROVE Grouped(s, v, next)
      <4>1. Grouped(s, v, groups)
        BY <1>1
      <4>2. \/ \E j \in 1..m : groups[j].name = s[v].name
            \/ m = MaxGroups /\ \A j \in 1..m : Own(s, groups[j], v) # {}
        BY <4>1 DEF Grouped, m
      <4>3. \/ \E j \in 1..m : next[j].name = s[v].name
            \/ m = MaxGroups /\ \A j \in 1..m : Own(s, next[j], v) # {}
        BY Zenon, <2>4, <3>1, <4>2
      <4> QED
        BY <2>1, <4>3 DEF Grouped
    <3> QED
      BY <3>2
  <2>6. Grouped(s, k + 1, next)
    BY <2>1, <2>4 DEF Grouped
  <2> HIDE DEF m
  <2> QED
    BY <1>1, <1>5, <2>1, <2>4, <2>5, <2>6 DEF GroupsHold, Good
<1>7. CASE known = {} /\ m < MaxGroups
  <2>1. /\ Len(next) = m + 1 /\ IsSampled(new, span.dur, next[m + 1])
        /\ \A j \in 1..m : next[j] = groups[j]
    BY <1>7 DEF IsCollected
  <2>2. \A j \in 1..m : groups[j].name # span.name
    BY <1>7
  <2>3. next[m + 1].name = span.name /\ Good(k + 1, next[m + 1])
    <3>1. Own(s, new, k) = {}
      <4>1. \A v \in 1..k : \E j \in 1..m : groups[j].name = s[v].name
        BY <1>1, <1>2, <1>7 DEF Grouped
      <4> QED
        BY <2>2, <4>1 DEF Own
    <3>2. new \in Group(N) /\ new.name = span.name /\ new.latencies = <<>> /\ Len(<<>>) = 0
      BY EmptySeq DEF Group
    <3> HIDE DEF new
    <3>3. SamplesHeld(s, k, new)
      <4>1. Cardinality({}) = 0 /\ MaxSamples \in Nat
        BY FS_EmptySet, AnalysisAssumption
      <4> QED
        BY <3>1, <3>2, <4>1 DEF SamplesHeld
    <3>4. SamplesHeld(s, k + 1, next[m + 1]) /\ k + 1 \in Own(s, next[m + 1], k + 1)
      BY <2>1, <3>2, <3>3, OwnSample
    <3> QED
      BY <2>1, <3>2, <3>4 DEF IsSampled, Good
  <2>4. \A j \in 1..m + 1 : j \in 1..m \/ j = m + 1
    BY <1>2
  <2>5. \A j \in 1..m + 1 : Good(k + 1, next[j])
    BY <1>3, <2>1, <2>2, <2>3, <2>4
  <2>6. \A g, j \in 1..m + 1 : next[g].name = next[j].name => g = j
    BY <1>1, <2>1, <2>2, <2>3, <2>4
  <2>7. \A v \in 1..k + 1 : Grouped(s, v, next)
    <3>1. m + 1 \in 1..m + 1 /\ (\A j \in 1..m : j \in 1..m + 1) /\ m # MaxGroups
      BY <1>2, <1>7
    <3>2. ASSUME NEW v \in 1..k PROVE Grouped(s, v, next)
      <4>1. PICK j \in 1..m : groups[j].name = s[v].name
        BY <1>1, <3>1 DEF Grouped
      <4> QED
        BY <2>1, <3>1, <4>1 DEF Grouped
    <3>3. Grouped(s, k + 1, next)
      BY <2>1, <2>3, <3>1 DEF Grouped
    <3> QED
      BY <1>5, <3>2, <3>3
  <2>8. m + 1 <= MaxGroups
    BY <1>2, <1>7
  <2> HIDE DEF m
  <2> QED
    BY <2>1, <2>5, <2>6, <2>7, <2>8 DEF GroupsHold, Good
<1>8. CASE known = {} /\ ~(m < MaxGroups)
  <2>1. next = groups
    BY <1>8 DEF IsCollected
  <2>2. \A j \in 1..m : Good(k + 1, groups[j])
    BY <1>3, <1>8
  <2>3. Grouped(s, k + 1, groups)
    BY <1>1, <1>2, <1>8, <2>2 DEF Good, Grouped
  <2> HIDE DEF m
  <2> QED
    BY <1>1, <1>5, <2>1, <2>2, <2>3 DEF GroupsHold, Good, m
<1> QED
  BY <1>6, <1>7, <1>8

\* The groups after all of the spans.
LEMMA GroupsOfAll ==
  ASSUME NEW N, NEW n \in Nat, NEW s, DOMAIN s = 1..n,
         \A i \in 1..n : s[i].name \in N /\ s[i].dur \in Nat
  PROVE  LET groups == FoldLeft(CollectSpan, <<>>, s)
         IN groups \in Seq(Group(N)) /\ GroupsHold(s, n, groups)
<1>1. PICK g : /\ g[0] = <<>> /\ FoldLeft(CollectSpan, <<>>, s) = g[n]
               /\ \A k \in 0..n : g[k] \in Seq(Group(N))
               /\ \A k \in 0..n - 1 : IsCollected(g[k], s[k + 1], g[k + 1])
  BY GroupsOfFirst
<1> DEFINE S == {k \in 0..n : GroupsHold(s, k, g[k])}
<1>2. 0 \in S
  <2>1. Len(g[0]) = 0 /\ MaxGroups \in Nat /\ 0 \in 0..n
    BY <1>1, EmptySeq, AnalysisAssumption
  <2>2. GroupsHold(s, 0, g[0])
    BY <2>1 DEF GroupsHold
  <2> QED
    BY <2>1, <2>2
<1>3. ASSUME NEW k \in 0..n - 1, k \in S PROVE k + 1 \in S
  <2>1. k \in Nat /\ k \in 0..n /\ k + 1 \in 0..n /\ k + 1 \in 1..n
    OBVIOUS
  <2>2. /\ g[k] \in Seq(Group(N)) /\ GroupsHold(s, k, g[k]) /\ s[k + 1].name \in N
        /\ IsCollected(g[k], s[k + 1], g[k + 1])
    BY <1>1, <1>3, <2>1
  <2>3. GroupsHold(s, k + 1, g[k + 1])
    BY <2>1, <2>2, GroupsHoldNext
  <2> QED
    BY <2>1, <2>3
<1>4. n \in 0..n
  OBVIOUS
<1>5. n \in S
  <2> HIDE DEF S
  <2> QED
    BY <1>2, <1>3, <1>4, OneByOne
<1> QED
  BY <1>1, <1>4, <1>5

\* Sequences one after the other.
LEMMA Flattened ==
  ASSUME NEW V, NEW seqs \in Seq(Seq(V))
  PROVE  FlattenSeq(seqs) \in Seq(V)
<1> DEFINE n == Len(seqs)
           W == Seq(V)
           step(f, i) == IF i = 1 THEN seqs[i] ELSE f[i - 1] \o seqs[i]
           P(k) == \E f : f = [i \in 1..n |-> f[i]] /\ \A i \in 1..k : f[i] = step(f, i)
           flatten == CHOOSE f : f = [i \in 1..n |-> step(f, i)]
           S == {k \in 0..n : P(k)}
           T == {k \in 0..n : \A i \in 1..k : flatten[i] \in W}
<1>1. n \in Nat /\ \A i \in 1..n : seqs[i] \in W
  BY LenProperties, ElementOfSeq
<1>2. CASE n = 0
  <2>1. seqs = <<>>
    BY <1>2, EmptySeq
  <2>2. FlattenSeq(seqs) = seqs
    BY <1>2 DEF FlattenSeq
  <2> QED
    BY <2>1, <2>2, EmptySeq
<1>3. CASE n # 0
  <2>1. FlattenSeq(seqs) = flatten[n]
    BY Zenon, <1>3 DEF FlattenSeq
  <2> HIDE DEF n, W
  <2>2. 0 \in S
    <3> DEFINE f == [i \in 1..n |-> <<>>]
    <3>1. f = [i \in 1..n |-> f[i]] /\ \A i \in 1..0 : f[i] = step(f, i)
      OBVIOUS
    <3> HIDE DEF f, step
    <3>2. P(0)
      BY <3>1
    <3> HIDE DEF P
    <3> QED
      BY <1>1, <3>2
  <2>3. ASSUME NEW k \in 0..n - 1, k \in S PROVE k + 1 \in S
    <3>1. PICK f : f = [i \in 1..n |-> f[i]] /\ \A i \in 1..k : f[i] = step(f, i)
      <4> HIDE DEF step
      <4> QED
        BY <2>3
    <3> DEFINE g == [i \in 1..n |-> IF i <= k THEN f[i] ELSE step(f, i)]
    <3>2. g = [i \in 1..n |-> g[i]]
      OBVIOUS
    <3>3. ASSUME NEW i \in 1..k + 1 PROVE g[i] = step(g, i)
      <4>1. i \in 1..n /\ (i # 1 => i - 1 \in 1..n /\ i - 1 <= k)
        BY <1>1
      <4>2. i # 1 => g[i - 1] = f[i - 1]
        <5> HIDE DEF step
        <5> QED
          BY <4>1
      <4>3. step(g, i) = step(f, i)
        BY <4>2
      <4>4. CASE i <= k
        <5>1. i \in 1..k /\ g[i] = f[i]
          <6> HIDE DEF step
          <6> QED
            BY <4>1, <4>4
        <5> HIDE DEF step, g
        <5> QED
          BY <3>1, <4>3, <5>1
      <4>5. CASE ~(i <= k)
        <5> HIDE DEF step
        <5>1. g[i] = step(f, i)
          BY <4>1, <4>5
        <5> QED
          BY <4>3, <5>1
      <4> QED
        BY <4>4, <4>5
    <3>4. P(k + 1)
      <4> HIDE DEF step, g
      <4> QED
        BY <3>2, <3>3
    <3>5. k + 1 \in 0..n
      BY <1>1
    <3> HIDE DEF P
    <3> QED
      BY <3>4, <3>5
  <2>4. n \in 0..n /\ n \in 1..n
    BY <1>1, <1>3
  <2>5. P(n)
    <3>1. n \in S
      <4> HIDE DEF S
      <4> QED
        BY <1>1, <2>2, <2>3, <2>4, OneByOne
    <3> HIDE DEF P
    <3> QED
      BY <3>1
  <2>6. \E f : f = [i \in 1..n |-> step(f, i)]
    <3> HIDE DEF step
    <3> QED
      BY <2>5
  <2>7. flatten = [i \in 1..n |-> step(flatten, i)]
    <3> DEFINE Q(f) == f = [i \in 1..n |-> step(f, i)]
    <3>1. (\E f : Q(f)) /\ flatten = CHOOSE f : Q(f)
      BY <2>6
    <3> HIDE DEF Q, flatten
    <3>2. Q(flatten)
      BY <3>1
    <3> QED
      BY <3>2 DEF Q
  <2> HIDE DEF flatten
  <2>8. \A i \in 1..n : flatten[i] = step(flatten, i)
    <3> HIDE DEF step
    <3> QED
      BY Zenon, <2>7
  <2>9. 0 \in T
    BY <2>4
  <2>10. ASSUME NEW k \in 0..n - 1, k \in T PROVE k + 1 \in T
    <3>1. k + 1 \in 1..n /\ k + 1 \in 0..n /\ (k + 1) - 1 = k
      BY <1>1
    <3>2. flatten[k + 1] = step(flatten, k + 1) /\ seqs[k + 1] \in W
      BY <1>1, <2>8, <3>1
    <3>3. flatten[k + 1] \in W
      <4>1. CASE k = 0
        BY <3>2, <4>1
      <4>2. CASE k # 0
        <5> DEFINE a == flatten[k]
                   b == seqs[k + 1]
        <5>1. k \in 1..k
          BY <4>2
        <5>4. a \in W /\ b \in W
          BY <2>10, <3>2, <5>1
        <5>5. k + 1 # 1
          BY <4>2
        <5>6. flatten[k + 1] = flatten[(k + 1) - 1] \o b
          BY Zenon, <3>2, <5>5
        <5>2. a \in W /\ b \in W /\ flatten[k + 1] = a \o b
          BY Zenon, <3>1, <5>4, <5>6
        <5> HIDE DEF a, b
        <5>3. a \o b \in W
          BY <5>2, ConcatProperties DEF W
        <5> QED
          BY <5>2, <5>3
      <4> QED
        BY <4>1, <4>2
    <3>4. \A i \in 1..k + 1 : i \in 1..k \/ i = k + 1
      OBVIOUS
    <3> QED
      BY <2>10, <3>1, <3>3, <3>4
  <2>11. n \in T
    <3> HIDE DEF T
    <3> QED
      BY <1>1, <2>4, <2>9, <2>10, OneByOne
  <2>12. flatten[n] \in W
    BY <2>4, <2>11
  <2> QED
    BY <2>1, <2>12 DEF W, flatten
<1> QED
  BY <1>2, <1>3

LEMMA SmallerOfTwo ==
  ASSUME NEW a \in Int, NEW b \in Int
  PROVE  Min({a, b}) = IF a <= b THEN a ELSE b
<1> DEFINE S == {a, b}
           m == Min(S)
<1>1. \E x \in S : \A y \in S : x <= y
  <2>1. a <= b \/ b <= a
    OBVIOUS
  <2> QED
    BY <2>1
<1>2. m \in S /\ \A y \in S : m <= y
  <2> HIDE DEF S
  <2> QED
    BY <1>1 DEF Min
<1> HIDE DEF m
<1>3. m = IF a <= b THEN a ELSE b
  BY <1>2
<1> QED
  BY <1>3 DEF m

\* Of a record aggregate_by_service visits spans the processes made.
LEMMA WalkTyped ==
  ASSUME TreeInv, NEW k \in DOMAIN log
  PROVE  [v \in DOMAIN Preorder(log[k].links) |->
             Decoded(log[k].spans)[Preorder(log[k].links)[v]]]
         \in Seq({spans[s] : s \in DOMAIN spans})
<1> DEFINE h == log[k].links
           record == log[k].spans
           n == Len(record)
           walk == Preorder(h)
           V == {spans[s] : s \in DOMAIN spans}
<1>1. n \in Nat /\ DOMAIN Decoded(record) = 1..n /\ (h.root # Null => Rooted(h, n))
  BY RecordRooted
<1>2. \A i \in 1..n : Decoded(record)[i] \in V
  <2>1. TypeOK
    BY DEF TreeInv
  <2>2. record \in Seq(1..Len(spans)) /\ DOMAIN spans = 1..Len(spans)
    BY <2>1, Types, Lengths
  <2> HIDE DEF record
  <2>3. DOMAIN record = 1..n /\ \A i \in 1..n : record[i] \in DOMAIN spans
    BY <1>1, <2>2, LenProperties, ElementOfSeq
  <2> HIDE DEF n
  <2> QED
    BY <2>3 DEF Decoded
<1> HIDE DEF h, n, V, record
<1>3. walk \in Seq(1..n)
  <2>1. CASE h.root = Null
    BY <2>1, EmptySeq DEF Preorder
  <2>2. CASE h.root # Null
    <3>1. Rooted(h, n)
      BY <1>1, <2>2
    <3>2. PICK R, r : Distances(h, n, R, r)
      BY <1>1, <3>1, SpansHaveDistances
    <3>3. R \subseteq 1..n
      BY <3>2 DEF Distances
    <3>4. walk \in Seq(R)
      BY <1>1, <3>1, <3>2, WalkOfReached
    <3> HIDE DEF walk
    <3>5. /\ Len(walk) \in Nat /\ walk \in [1..Len(walk) -> R]
      BY <3>4, LenProperties
    <3>6. walk \in [1..Len(walk) -> 1..n]
      BY <3>3, <3>5
    <3> QED
      BY <3>5, <3>6, SeqDef
  <2> QED
    BY <2>1, <2>2
<1> HIDE DEF walk
<1>4. Len(walk) \in Nat /\ DOMAIN walk = 1..Len(walk) /\ \A v \in 1..Len(walk) : walk[v] \in 1..n
  BY <1>3, LenProperties, ElementOfSeq
<1> DEFINE t == [v \in DOMAIN walk |-> Decoded(record)[walk[v]]]
           m == Len(walk)
<1>5. t \in [1..m -> V]
  BY <1>2, <1>4
<1>6. t \in Seq(V)
  <2> HIDE DEF t
  <2> QED
    BY <1>4, <1>5, SeqDef
<1> QED
  BY <1>6 DEF walk, h, record, V

LEMMA VisitedTyped ==
  ASSUME TreeInv
  PROVE  Visited(Loaded) \in Seq({spans[s] : s \in DOMAIN spans})
<1> DEFINE V == {spans[s] : s \in DOMAIN spans}
           W == Seq(V)
           visit(k) == [v \in DOMAIN Preorder(log[k].links) |->
                           Decoded(log[k].spans)[Preorder(log[k].links)[v]]]
           seqs == [k \in DOMAIN log |-> visit(k)]
<1>1. Visited(Loaded) = FlattenSeq(seqs)
  <2> DEFINE order(k) == Preorder(Loaded[k].links)
             seqs2 == [k \in DOMAIN Loaded |-> [v \in DOMAIN order(k) |-> Loaded[k].spans[order(k)[v]]]]
  <2>1. Visited(Loaded) = FlattenSeq(seqs2)
    BY Zenon DEF Visited
  <2>2. DOMAIN Loaded = DOMAIN log
    BY DEF Loaded
  <2>3. \A k \in DOMAIN log : Loaded[k].links = log[k].links /\ Loaded[k].spans = Decoded(log[k].spans)
    BY DEF Loaded
  <2>4. \A k \in DOMAIN log : [v \in DOMAIN order(k) |-> Loaded[k].spans[order(k)[v]]] = visit(k)
    BY Zenon, <2>3
  <2>5. seqs2 = seqs
    <3> HIDE DEF order, visit
    <3> QED
      BY <2>2, <2>4
  <2> QED
    BY Zenon, <2>1, <2>5
<1>2. \A k \in DOMAIN log : visit(k) \in W
  BY WalkTyped
<1> HIDE DEF visit, W
<1>3. PICK n \in Nat : DOMAIN log = 1..n
  BY LenProperties DEF TreeInv, LogIsASeq
<1>4. seqs \in [1..n -> W]
  BY <1>2, <1>3
<1>5. seqs \in Seq(W)
  <2> HIDE DEF seqs
  <2> QED
    BY <1>3, <1>4, SeqDef
<1> HIDE DEF seqs, V
<1>6. FlattenSeq(seqs) \in Seq(V)
  BY <1>5, Flattened DEF W
<1> QED
  BY <1>1, <1>6 DEF V

\* aggregate_by_service's groups for the log.
LEMMA LogGrouped ==
  ASSUME TreeInv
  PROVE  LET visited == Visited(Loaded)
             groups == Groups(Loaded)
             N == {spans[s].name : s \in DOMAIN spans}
         IN /\ Len(visited) \in Nat /\ DOMAIN visited = 1..Len(visited)
            /\ groups \in Seq(Group(N)) /\ GroupsHold(visited, Len(visited), groups)
<1> DEFINE V == {spans[s] : s \in DOMAIN spans}
           N == {spans[s].name : s \in DOMAIN spans}
           visited == Visited(Loaded)
           n == Len(visited)
<1>1. visited \in Seq(V)
  BY VisitedTyped
<1>2. \A x \in V : x.name \in N /\ x.dur \in Nat
  <2>1. TypeOK
    BY DEF TreeInv
  <2>2. ASSUME NEW s \in DOMAIN spans PROVE spans[s].dur \in Nat
    <3>1. spans[s] \in SpanValues(Len(traces), Len(spans))
      BY <2>1, Lengths
    <3>2. spans[s].dur \in {kind.dur : kind \in Kinds}
      BY <3>1 DEF SpanValues
    <3> QED
      BY <3>2, TreeAssumption
  <2> QED
    BY <2>2
<1>3. Groups(Loaded) = FoldLeft(CollectSpan, <<>>, visited)
  BY Zenon DEF Groups
<1> HIDE DEF visited, V, N
<1>4. n \in Nat /\ DOMAIN visited = 1..n /\ \A i \in 1..n : visited[i] \in V
  BY <1>1, LenProperties, ElementOfSeq
<1>5. \A i \in 1..n : visited[i].name \in N /\ visited[i].dur \in Nat
  BY <1>2, <1>4
<1> HIDE DEF n
<1> DEFINE groups == FoldLeft(CollectSpan, <<>>, visited)
<1>6. groups \in Seq(Group(N)) /\ GroupsHold(visited, n, groups)
  BY <1>4, <1>5, GroupsOfAll
<1> HIDE DEF groups
<1>7. Groups(Loaded) = groups
  BY <1>3 DEF groups
<1> QED
  BY <1>4, <1>6, <1>7 DEF visited, n, N

LEMMA GroupsHeld ==
  ASSUME TreeInv
  PROVE  GroupsHoldVisited
<1> DEFINE visited == Visited(Loaded)
           groups == Groups(Loaded)
           n == Len(visited)
           m == Len(groups)
           N == {spans[s].name : s \in DOMAIN spans}
<1>1. /\ n \in Nat /\ DOMAIN visited = 1..n
      /\ groups \in Seq(Group(N)) /\ GroupsHold(visited, n, groups)
  BY LogGrouped
<1> HIDE DEF visited, groups, N
<1>2. m \in Nat /\ DOMAIN groups = 1..m
  BY <1>1, LenProperties
<1>3. /\ m <= MaxGroups
      /\ \A g, j \in 1..m : groups[g].name = groups[j].name => g = j
      /\ \A g \in 1..m : SamplesHeld(visited, n, groups[g]) /\ Own(visited, groups[g], n) # {}
      /\ \A v \in 1..n : Grouped(visited, v, groups)
  BY <1>1 DEF GroupsHold
<1>4. ASSUME NEW g \in DOMAIN groups
      PROVE  LET own == Own(visited, groups[g], Len(visited))
                 samples == groups[g].latencies
             IN /\ own # {}
                /\ Len(samples) = Min({Cardinality(own), MaxSamples})
                /\ \A v \in own :
                      LET place == Cardinality(Own(visited, groups[g], v))
                      IN place <= MaxSamples => samples[place] = visited[v].dur
  <2> DEFINE own == Own(visited, groups[g], n)
             c == Cardinality(own)
  <2>1. SamplesHeld(visited, n, groups[g]) /\ own # {}
    BY <1>2, <1>3
  <2>2. c \in Int /\ MaxSamples \in Int
    BY <1>1, OwnFinite, AnalysisAssumption
  <2> HIDE DEF c
  <2>3. Min({c, MaxSamples}) = IF c <= MaxSamples THEN c ELSE MaxSamples
    BY <2>2, SmallerOfTwo
  <2> QED
    BY <2>1, <2>3 DEF SamplesHeld, c
<1>5. \A v \in DOMAIN visited :
         \/ \E g \in DOMAIN groups : groups[g].name = visited[v].name
         \/ /\ Len(groups) = MaxGroups
            /\ \A g \in DOMAIN groups : Own(visited, groups[g], v) # {}
  BY <1>1, <1>2, <1>3 DEF Grouped
<1>6. /\ Len(groups) <= MaxGroups
      /\ \A g, k \in DOMAIN groups : groups[g].name = groups[k].name => g = k
  BY <1>2, <1>3
<1> HIDE DEF m, n
<1> QED
  BY <1>4, <1>5, <1>6 DEF GroupsHoldVisited, visited, groups

-----------------------------------------------------------------------------
(* Sorting. *)

LEMMA SmallestKey ==
  ASSUME NEW n \in Nat, NEW a \in 1..n, NEW key \in [1..n -> Int]
  PROVE  \E m \in a..n : \A j \in a..n : key[m] <= key[j]
<1> DEFINE S == {t \in 0..n - a : \E m \in a..a + t : \A j \in a..a + t : key[m] <= key[j]}
<1>1. 0 \in S
  <2>1. a \in a..a + 0 /\ (\A j \in a..a + 0 : j = a) /\ key[a] <= key[a] /\ 0 \in 0..n - a
    OBVIOUS
  <2> QED
    BY <2>1
<1>2. ASSUME NEW t \in 0..(n - a) - 1, t \in S PROVE t + 1 \in S
  <2>1. PICK m \in a..a + t : \A j \in a..a + t : key[m] <= key[j]
    BY <1>2
  <2> DEFINE b == a + (t + 1)
  <2>2. /\ t + 1 \in 0..n - a /\ b \in 1..n /\ m \in 1..n /\ b \in a..b /\ m \in a..b
        /\ \A j \in a..b : j \in a..a + t \/ j = b
        /\ \A j \in a..b : j \in 1..n
    OBVIOUS
  <2> HIDE DEF b
  <2>3. key[b] \in Int /\ key[m] \in Int /\ \A j \in a..b : key[j] \in Int
    BY <2>2
  <2>4. CASE key[m] <= key[b]
    <3>1. \A j \in a..b : key[m] <= key[j]
      BY <2>1, <2>2, <2>4
    <3> QED
      BY <2>2, <3>1 DEF b
  <2>5. CASE ~(key[m] <= key[b])
    <3>1. ASSUME NEW j \in a..b PROVE key[b] <= key[j]
      <4>1. CASE j = b
        BY <2>3, <4>1
      <4>2. CASE j \in a..a + t
        <5>1. key[m] <= key[j] /\ key[j] \in Int
          BY <2>1, <2>3, <4>2
        <5> QED
          BY <2>3, <2>5, <5>1
      <4> QED
        BY <2>2, <4>1, <4>2
    <3> QED
      BY <2>2, <3>1 DEF b
  <2> QED
    BY <2>4, <2>5
<1>3. n - a \in Nat /\ n - a \in 0..n - a /\ a + (n - a) = n
  OBVIOUS
<1>4. n - a \in S
  <2> DEFINE d == n - a
  <2>1. d \in Nat /\ d \in 0..d /\ 0 \in S /\ \A t \in 0..d - 1 : t \in S => t + 1 \in S
    BY <1>1, <1>2, <1>3
  <2> HIDE DEF S, d
  <2>2. d \in S
    BY <2>1, OneByOne
  <2> QED
    BY <2>2 DEF d
<1> QED
  BY <1>3, <1>4

\* p has the positions 1 to n in an order in which their keys do not fall.
IsOrder(n, key, p) ==
    /\ p \in [1..n -> 1..n]
    /\ \A i, j \in 1..n : i < j => p[i] # p[j] /\ key[p[i]] <= key[p[j]]

\* Found by exchanging each position with that of the smallest key after it.
LEMMA OrderExists ==
  ASSUME NEW n \in Nat, NEW key \in [1..n -> Int]
  PROVE  \E p : IsOrder(n, key, p)
<1> DEFINE Upto(k, p) == /\ p \in [1..n -> 1..n]
                         /\ \A i, j \in 1..n : i < j => p[i] # p[j]
                         /\ \A i \in 1..k, j \in 1..n : i < j => key[p[i]] <= key[p[j]]
           S == {k \in 0..n : \E p : Upto(k, p)}
<1>1. 0 \in S
  <2> DEFINE p == [i \in 1..n |-> i]
  <2>1. p \in [1..n -> 1..n] /\ \A i \in 1..n : p[i] = i
    OBVIOUS
  <2> HIDE DEF p
  <2>2. Upto(0, p)
    BY <2>1
  <2>3. 0 \in 0..n
    OBVIOUS
  <2> HIDE DEF Upto
  <2> QED
    BY <2>2, <2>3
<1>2. ASSUME NEW k \in 0..n - 1, k \in S PROVE k + 1 \in S
  <2> DEFINE a == k + 1
  <2>1. PICK p : Upto(k, p)
    <3> HIDE DEF Upto
    <3> QED
      BY <1>2
  <2>2. /\ p \in [1..n -> 1..n] /\ \A i, j \in 1..n : i < j => p[i] # p[j]
        /\ \A i \in 1..k, j \in 1..n : i < j => key[p[i]] <= key[p[j]]
    BY <2>1
  <2>3. a \in 1..n /\ k + 1 \in 0..n /\ \A i \in 1..a : i \in 1..k \/ i = a
    OBVIOUS
  <2> DEFINE of == [i \in 1..n |-> key[p[i]]]
  <2>4. PICK m \in a..n : \A j \in a..n : of[m] <= of[j]
    <3>1. of \in [1..n -> Int]
      BY <2>2
    <3> HIDE DEF of, a
    <3> QED
      BY <2>3, <3>1, SmallestKey
  <2>5. m \in 1..n /\ \A j \in 1..n : a <= j => key[p[m]] <= key[p[j]]
    <3>1. m \in 1..n /\ \A j \in a..n : j \in 1..n
      OBVIOUS
    <3>2. \A j \in a..n : key[p[m]] <= key[p[j]]
      BY <2>4, <3>1
    <3>3. \A j \in 1..n : a <= j => j \in a..n
      OBVIOUS
    <3> QED
      BY <3>1, <3>2, <3>3
  <2> DEFINE swap(i) == IF i = a THEN m ELSE IF i = m THEN a ELSE i
             q == [i \in 1..n |-> p[swap(i)]]
  <2>6. /\ \A i \in 1..n : swap(i) \in 1..n
        /\ \A i, j \in 1..n : i # j => swap(i) # swap(j)
        /\ \A i \in 1..n : i < a => swap(i) = i
        /\ \A i \in 1..n : a <= i => a <= swap(i)
        /\ swap(a) = m
    BY <2>3, <2>5
  <2>7. q \in [1..n -> 1..n] /\ \A i \in 1..n : q[i] = p[swap(i)]
    BY <2>2, <2>6
  <2> HIDE DEF swap, q
  <2>8. \A i, j \in 1..n : i # j => p[i] # p[j]
    <3>1. \A i, j \in 1..n : i # j => i < j \/ j < i
      OBVIOUS
    <3> QED
      BY <2>2, <3>1
  <2>9. \A i, j \in 1..n : i < j => q[i] # q[j]
    <3>1. \A i, j \in 1..n : i < j => i # j
      OBVIOUS
    <3> QED
      BY <2>6, <2>7, <2>8, <3>1
  <2>10. ASSUME NEW i \in 1..a, NEW j \in 1..n, i < j PROVE key[q[i]] <= key[q[j]]
    <3>1. swap(j) \in 1..n /\ q[j] = p[swap(j)]
      BY <2>6, <2>7
    <3>2. CASE i = a
      <4>1. q[i] = p[m]
        BY <2>3, <2>6, <2>7, <3>2
      <4>2. a <= j
        BY <2>10, <3>2
      <4>3. a <= swap(j)
        BY <2>6, <4>2
      <4> QED
        BY <2>5, <3>1, <4>1, <4>3
    <3>3. CASE i \in 1..k
      <4>1. i \in 1..n /\ i < a /\ q[i] = p[i]
        <5>1. i \in 1..n /\ i < a
          BY <3>3
        <5> QED
          BY <2>6, <2>7, <5>1
      <4>2. i < swap(j)
        <5>1. CASE j < a
          BY <2>6, <2>10, <5>1
        <5>2. CASE ~(j < a)
          <6>1. a <= j
            BY <5>2
          <6> QED
            BY <2>6, <3>1, <4>1, <6>1
        <5> QED
          BY <5>1, <5>2
      <4> QED
        BY <2>2, <3>1, <3>3, <4>1, <4>2
    <3> QED
      BY <2>3, <3>2, <3>3
  <2>11. Upto(k + 1, q)
    BY <2>7, <2>9, <2>10
  <2> HIDE DEF Upto
  <2> QED
    BY <2>3, <2>11
<1>3. n \in S
  <2>1. n \in 0..n
    OBVIOUS
  <2> HIDE DEF S
  <2> QED
    BY <1>1, <1>2, <2>1, OneByOne
<1>4. PICK p : Upto(n, p)
  <2> HIDE DEF Upto
  <2> QED
    BY <1>3
<1>5. IsOrder(n, key, p)
  BY <1>4 DEF IsOrder
<1> QED
  BY <1>5

\* Sorted puts s in the order p.
IsSorting(s, n, key, p) ==
    IsOrder(n, key, p) /\ Sorted(s, key) = [i \in 1..n |-> s[p[i]]]

LEMMA InOrder ==
  ASSUME NEW V, NEW s \in Seq(V), NEW n \in Nat, n = Len(s), NEW key \in [1..n -> Int]
  PROVE  \E p : IsSorting(s, n, key, p)
<1> DEFINE Good(p) == \A i, j \in 1..n : i < j => p[i] # p[j] /\ key[p[i]] <= key[p[j]]
           m == Len(s)
           p == CHOOSE p \in [1..m -> 1..m] : \A i, j \in 1..m :
                    i < j => p[i] # p[j] /\ key[p[i]] <= key[p[j]]
<1>1. \E q \in [1..n -> 1..n] : Good(q)
  BY OrderExists DEF IsOrder
<1>2. Sorted(s, key) = [i \in 1..n |-> s[p[i]]] /\ p = CHOOSE q \in [1..n -> 1..n] : Good(q)
  <2>1. Sorted(s, key) = [i \in 1..m |-> s[p[i]]]
    BY Zenon DEF Sorted
  <2>2. m = n
    OBVIOUS
  <2> HIDE DEF m
  <2> QED
    BY Zenon, <2>1, <2>2
<1>3. p \in [1..n -> 1..n] /\ Good(p)
  <2> HIDE DEF Good, p, m
  <2> QED
    BY <1>1, <1>2
<1>4. IsSorting(s, n, key, p)
  BY <1>2, <1>3 DEF IsOrder, IsSorting
<1> HIDE DEF p
<1> QED
  BY <1>4

\* Every position is somewhere in the order.
IsOnto(n, p) == \A i \in 1..n : \E u \in 1..n : p[u] = i

LEMMA OrderOnto ==
  ASSUME NEW n \in Nat, NEW key, NEW p, IsOrder(n, key, p)
  PROVE  IsOnto(n, p)
<1> DEFINE S == 1..n
<1>1. p \in [S -> S] /\ \A i, j \in S : i # j => p[i] # p[j]
  <2>1. \A i, j \in 1..n : i # j => i < j \/ j < i
    OBVIOUS
  <2> QED
    BY <2>1 DEF IsOrder
<1>2. IsFiniteSet(S)
  BY FS_Interval
<1> HIDE DEF S
<1>3. p \in Injection(S, S)
  BY <1>1 DEF Injection, IsInjective
<1>4. p \in Surjection(S, S)
  BY <1>2, <1>3, FS_Injection
<1>5. \A i \in S : \E u \in S : p[u] = i
  BY <1>4 DEF Surjection
<1> QED
  BY <1>5 DEF IsOnto, S

\* The latencies of a group in the order the percentiles are taken from.
LEMMA SortedLatencies ==
  ASSUME NEW s \in Seq(Nat), NEW n \in Nat, n = Len(s)
  PROVE  /\ Sorted(s, s) \in [1..n -> Nat] /\ Len(Sorted(s, s)) = n
         /\ \A i, j \in 1..n : i <= j => Sorted(s, s)[i] <= Sorted(s, s)[j]
<1>1. s \in [1..n -> Nat] /\ s \in [1..n -> Int]
  OBVIOUS
<1>2. PICK p : IsSorting(s, n, s, p)
  BY <1>1, InOrder
<1>3. p \in [1..n -> 1..n] /\ \A i, j \in 1..n : i < j => s[p[i]] <= s[p[j]]
  BY <1>2 DEF IsSorting, IsOrder
<1>4. \A i, j \in 1..n : i <= j => s[p[i]] <= s[p[j]]
  <2> SUFFICES ASSUME NEW i \in 1..n, NEW j \in 1..n, i <= j PROVE s[p[i]] <= s[p[j]]
    OBVIOUS
  <2>1. s[p[i]] \in Nat
    BY <1>1, <1>3
  <2>2. i = j \/ i < j
    OBVIOUS
  <2> QED
    BY <1>3, <2>1, <2>2
<1> DEFINE sorted == Sorted(s, s)
<1>5. sorted \in [1..n -> Nat] /\ \A i \in 1..n : sorted[i] = s[p[i]]
  BY <1>1, <1>2, <1>3 DEF IsSorting
<1> HIDE DEF sorted
<1>6. \A i, j \in 1..n : i <= j => sorted[i] <= sorted[j]
  BY <1>4, <1>5
<1>7. Len(sorted) = n
  BY <1>5
<1> QED
  BY <1>5, <1>6, <1>7 DEF sorted

\* A value that moves in n steps, each of at least a and at most b.
LEMMA SumBounded ==
  ASSUME NEW n \in Nat, NEW s \in [1..n -> Nat], NEW a \in Nat, NEW b \in Nat,
         \A i \in 1..n : a <= s[i] /\ s[i] <= b
  PROVE  a * n <= FoldLeft(+, 0, s) /\ FoldLeft(+, 0, s) <= b * n
<1>1. PICK g : /\ g[0] = 0 /\ FoldLeft(+, 0, s) = g[n]
               /\ \A k \in 0..n - 1 : g[k + 1] = g[k] + s[k + 1]
  BY SumOfFirst
<1> DEFINE S == {k \in 0..n : g[k] \in Nat /\ a * k <= g[k] /\ g[k] <= b * k}
<1>2. 0 \in S
  <2>1. 0 \in 0..n /\ a * 0 = 0 /\ b * 0 = 0 /\ 0 \in Nat /\ 0 <= 0
    OBVIOUS
  <2>2. g[0] \in Nat /\ a * 0 <= g[0] /\ g[0] <= b * 0
    BY Zenon, <1>1, <2>1
  <2> QED
    BY Zenon, <2>1, <2>2
<1>3. ASSUME NEW k \in 0..n - 1, k \in S PROVE k + 1 \in S
  <2>1. k \in Nat /\ k + 1 \in 0..n /\ k + 1 \in 1..n
    OBVIOUS
  <2>2. g[k] \in Nat /\ a * k <= g[k] /\ g[k] <= b * k
    BY <1>3
  <2>3. s[k + 1] \in Nat /\ a <= s[k + 1] /\ s[k + 1] <= b /\ g[k + 1] = g[k] + s[k + 1]
    BY <1>1, <2>1
  <2> DEFINE x == g[k]
             y == s[k + 1]
             ak == a * k
             bk == b * k
  <2>4. a * (k + 1) = ak + a /\ b * (k + 1) = bk + b /\ ak \in Nat /\ bk \in Nat
    BY <2>1
  <2>5. /\ x \in Nat /\ y \in Nat /\ a <= y /\ y <= b /\ ak <= x /\ x <= bk
        /\ g[k + 1] = x + y
    BY <2>2, <2>3
  <2> HIDE DEF x, y, ak, bk
  <2>6. x + y \in Nat /\ ak + a <= x + y /\ x + y <= bk + b
    BY <2>4, <2>5
  <2> QED
    BY <2>1, <2>4, <2>5, <2>6
<1>4. n \in S
  <2>1. n \in 0..n
    OBVIOUS
  <2> HIDE DEF S
  <2> QED
    BY <1>2, <1>3, <2>1, OneByOne
<1> QED
  BY <1>1, <1>4

\* The places of the two samples the 99th percentile lies between.
LEMMA PercentilePlaces ==
  ASSUME NEW n \in Nat, n >= 1
  PROVE  LET rank == 99 * (n - 1)
             above == (n + 98) \div 100
             lo == rank \div 100 + 1
         IN /\ above \in Nat /\ lo \in 1..n /\ lo = n - above
            /\ rank % 100 \in 0..99 /\ (lo = n <=> above = 0)
            /\ (n + 1) \div 2 \in 1..n
<1> DEFINE above == (n + 98) \div 100
           r == (n + 98) % 100
<1>1. above \in Nat /\ r \in 0..99 /\ n + 98 = 100 * above + r
  OBVIOUS
<1>2. (99 * (n - 1)) \div 100 = n - above - 1 /\ (99 * (n - 1)) % 100 \in 0..99
  OBVIOUS
<1>3. n - above >= 1 /\ n - above <= n
  OBVIOUS
<1>4. (n + 1) \div 2 \in 1..n
  OBVIOUS
<1> HIDE DEF above, r
<1> QED
  BY <1>1, <1>2, <1>3, <1>4 DEF above

\* The median's rank is a sample's, or half way between two.
LEMMA MedianPlaces ==
  ASSUME NEW n \in Nat, n >= 1
  PROVE  LET rank == 50 * (n - 1)
             lo == rank \div 100 + 1
         IN /\ lo = (n + 1) \div 2 /\ lo \in 1..n
            /\ \/ rank % 100 = 0 /\ n \div 2 + 1 = lo
               \/ rank % 100 = 50 /\ n \div 2 + 1 = lo + 1 /\ lo + 1 \in 1..n
<1> DEFINE m == n \div 2
<1>1. m \in Nat /\ (n = 2 * m \/ n = 2 * m + 1)
  OBVIOUS
<1> HIDE DEF m
<1>2. CASE n = 2 * m
  <2>1. 50 * (n - 1) = 100 * (m - 1) + 50 /\ m >= 1
    BY <1>1, <1>2
  <2>2. (50 * (n - 1)) \div 100 = m - 1 /\ (50 * (n - 1)) % 100 = 50
    BY <1>1, <2>1
  <2>3. (n + 1) \div 2 = m
    BY <1>1, <1>2
  <2> QED
    BY <1>1, <1>2, <2>1, <2>2, <2>3 DEF m
<1>3. CASE n = 2 * m + 1
  <2>1. 50 * (n - 1) = 100 * m
    BY <1>1, <1>3
  <2>2. (50 * (n - 1)) \div 100 = m /\ (50 * (n - 1)) % 100 = 0
    BY <1>1, <2>1
  <2>3. (n + 1) \div 2 = m + 1
    BY <1>1, <1>3
  <2> QED
    BY <1>1, <1>3, <2>1, <2>2, <2>3 DEF m
<1> QED
  BY <1>1, <1>2, <1>3

\* Interpolation stays between the two samples.
LEMMA Interpolated ==
  ASSUME NEW x \in Nat, NEW y \in Nat, x <= y, NEW part \in 0..100
  PROVE  LET value == 100 * x + part * (y - x)
         IN 100 * x <= value /\ value <= 100 * y
<1> DEFINE d == y - x
<1>1. d \in Nat /\ y = x + d
  OBVIOUS
<1> HIDE DEF d
<1>2. 0 <= part * d /\ part * d <= 100 * d /\ part * d \in Int
  BY <1>1
<1> DEFINE e == part * d
<1>3. e = part * (y - x)
  BY DEF d
<1>4. 0 <= e /\ e <= 100 * d /\ e \in Int
  BY <1>2
<1> HIDE DEF e
<1> QED
  BY <1>1, <1>3, <1>4

\* What StatsAsDefined says of one group.
StatsDefined(group) ==
    LET st == ServiceStats(group)
        n == st.count
        above == (n + 98) \div 100
        sorted == Sorted(group.latencies, group.latencies)
    IN /\ st.p50 = 50 * (sorted[(n + 1) \div 2] + sorted[n \div 2 + 1])
       /\ 100 * sorted[n - above] <= st.p99
       /\ st.p99 <= 100 * sorted[Min({n, n - above + 1})]
       /\ st.min * n <= st.total /\ st.total <= st.max * n

LEMMA GroupStats ==
  ASSUME NEW group, group.latencies \in Seq(Nat), Len(group.latencies) >= 1
  PROVE  StatsDefined(group)
<1> DEFINE lat == group.latencies
           n == Len(lat)
           sorted == Sorted(lat, lat)
           st == ServiceStats(group)
           above == (n + 98) \div 100
<1>1. n \in Nat /\ n >= 1 /\ lat \in Seq(Nat)
  OBVIOUS
<1>2. /\ sorted \in [1..n -> Nat] /\ Len(sorted) = n
      /\ \A i, j \in 1..n : i <= j => sorted[i] <= sorted[j]
  <2> HIDE DEF lat
  <2> QED
    BY <1>1, SortedLatencies
<1>3. /\ st.count = Len(sorted) /\ st.total = FoldLeft(+, 0, sorted)
      /\ st.p50 = Percentile(sorted, 50) /\ st.p99 = Percentile(sorted, 99)
      /\ st.min = sorted[1] /\ st.max = sorted[Len(sorted)]
  <2> HIDE DEF lat, sorted
  <2>1. \A a, b, c, d, e, f, g :
           LET r == [name |-> a, count |-> b, total |-> c, p50 |-> d, p99 |-> e,
                     min |-> f, max |-> g]
           IN /\ r.count = b /\ r.total = c /\ r.p50 = d /\ r.p99 = e
              /\ r.min = f /\ r.max = g
    OBVIOUS
  <2>2. st = [name |-> group.name, count |-> Len(sorted), total |-> FoldLeft(+, 0, sorted),
              p50 |-> Percentile(sorted, 50), p99 |-> Percentile(sorted, 99),
              min |-> sorted[1], max |-> sorted[Len(sorted)]]
    BY Zenon DEF ServiceStats, sorted, lat
  <2> HIDE DEF st
  <2> QED
    BY Zenon, <2>1, <2>2
<1>4. StatsDefined(group) =
        (/\ st.p50 = 50 * (sorted[(st.count + 1) \div 2] + sorted[st.count \div 2 + 1])
         /\ 100 * sorted[st.count - (st.count + 98) \div 100] <= st.p99
         /\ st.p99 <= 100 * sorted[Min({st.count, st.count - (st.count + 98) \div 100 + 1})]
         /\ st.min * st.count <= st.total /\ st.total <= st.max * st.count)
  BY Zenon DEF StatsDefined
<1> HIDE DEF st, lat, sorted
<1>5. st.count = n
  BY <1>2, <1>3
<1> HIDE DEF n
<1>6. st.p50 = 50 * (sorted[(n + 1) \div 2] + sorted[n \div 2 + 1])
  <2> DEFINE lo == (50 * (n - 1)) \div 100 + 1
             part == (50 * (n - 1)) % 100
             hi == IF lo = n THEN lo ELSE lo + 1
  <2>1. st.p50 = 100 * sorted[lo] + part * (sorted[hi] - sorted[lo])
    BY Zenon, <1>2, <1>3 DEF Percentile
  <2>2. /\ lo = (n + 1) \div 2 /\ lo \in 1..n
        /\ \/ part = 0 /\ n \div 2 + 1 = lo
           \/ part = 50 /\ n \div 2 + 1 = lo + 1 /\ lo + 1 \in 1..n
    BY <1>1, MedianPlaces
  <2> HIDE DEF lo, part
  <2>3. CASE part = 0 /\ n \div 2 + 1 = lo
    <3>1. sorted[lo] \in Nat /\ sorted[hi] \in Nat
      BY <1>1, <1>2, <2>2
    <3> DEFINE x == sorted[lo]
               y == sorted[hi]
    <3>2. st.p50 = 100 * x + 0 * (y - x) /\ x \in Nat /\ y \in Nat
      BY <2>1, <2>3, <3>1
    <3> HIDE DEF x, y
    <3>3. st.p50 = 50 * (x + x)
      BY <3>2
    <3> QED
      BY <2>2, <2>3, <3>3 DEF x
  <2>4. CASE part = 50 /\ n \div 2 + 1 = lo + 1 /\ lo + 1 \in 1..n
    <3>1. hi = lo + 1
      BY <1>1, <2>2, <2>4
    <3> HIDE DEF hi
    <3> DEFINE x == sorted[lo]
               y == sorted[hi]
    <3>2. st.p50 = 100 * x + 50 * (y - x) /\ x \in Nat /\ y \in Nat
      BY <1>2, <2>1, <2>2, <2>4, <3>1
    <3> HIDE DEF x, y
    <3>3. st.p50 = 50 * (x + y)
      BY <3>2
    <3> QED
      BY <2>2, <2>4, <3>1, <3>3 DEF x, y
  <2> QED
    BY <2>2, <2>3, <2>4
<1>7. /\ 100 * sorted[n - above] <= st.p99
      /\ st.p99 <= 100 * sorted[Min({n, n - above + 1})]
  <2> DEFINE lo == (99 * (n - 1)) \div 100 + 1
             part == (99 * (n - 1)) % 100
             hi == IF lo = n THEN lo ELSE lo + 1
  <2>1. st.p99 = 100 * sorted[lo] + part * (sorted[hi] - sorted[lo])
    BY Zenon, <1>2, <1>3 DEF Percentile
  <2>2. /\ above \in Nat /\ lo \in 1..n /\ lo = n - above /\ part \in 0..99
        /\ (lo = n <=> above = 0)
    BY <1>1, PercentilePlaces
  <2> HIDE DEF above, lo, part
  <2>3. Min({n, n - above + 1}) = IF n <= n - above + 1 THEN n ELSE n - above + 1
    <3> DEFINE a == n
               b == n - above + 1
    <3>1. a \in Int /\ b \in Int
      BY <1>1, <2>2
    <3> HIDE DEF a, b
    <3>2. Min({a, b}) = IF a <= b THEN a ELSE b
      BY <3>1, SmallerOfTwo
    <3> QED
      BY <3>2 DEF a, b
  <2>4. hi = Min({n, n - above + 1}) /\ hi \in 1..n /\ lo <= hi
    BY <1>1, <2>2, <2>3
  <2> HIDE DEF hi
  <2> DEFINE x == sorted[lo]
             y == sorted[hi]
  <2>5. x \in Nat /\ y \in Nat /\ x <= y /\ part \in 0..100
    BY <1>2, <2>2, <2>4
  <2>6. st.p99 = 100 * x + part * (y - x)
    BY <2>1
  <2> HIDE DEF x, y
  <2>7. 100 * x <= st.p99 /\ st.p99 <= 100 * y
    BY <2>5, <2>6, Interpolated
  <2> QED
    BY Zenon, <2>2, <2>4, <2>7 DEF x, y
<1>8. st.min * n <= st.total /\ st.total <= st.max * n
  <2> DEFINE a == sorted[1]
             b == sorted[n]
             total == FoldLeft(+, 0, sorted)
  <2>1. 1 \in 1..n /\ n \in 1..n /\ \A i \in 1..n : 1 <= i /\ i <= n
    BY <1>1
  <2>2. a \in Nat /\ b \in Nat /\ \A i \in 1..n : a <= sorted[i] /\ sorted[i] <= b
    BY <1>2, <2>1
  <2>3. st.min = a /\ st.max = b /\ st.total = total
    BY <1>2, <1>3
  <2> HIDE DEF a, b
  <2>4. a * n <= total /\ total <= b * n
    BY <1>1, <1>2, <2>2, SumBounded
  <2> HIDE DEF total
  <2> QED
    BY <2>3, <2>4
<1>9. StatsDefined(group)
  BY Zenon, <1>4, <1>5, <1>6, <1>7, <1>8
<1> QED
  BY <1>9

LEMMA StatsHeld ==
  ASSUME TreeInv
  PROVE  StatsAsDefined
<1> DEFINE visited == Visited(Loaded)
           groups == Groups(Loaded)
           k == Len(visited)
           m == Len(groups)
           N == {spans[s].name : s \in DOMAIN spans}
<1>1. /\ k \in Nat /\ DOMAIN visited = 1..k
      /\ groups \in Seq(Group(N)) /\ GroupsHold(visited, k, groups)
  BY LogGrouped
<1> HIDE DEF visited, N
<1>2. ASSUME NEW g \in DOMAIN groups PROVE StatsDefined(groups[g])
  <2> HIDE DEF groups
  <2>1. m \in Nat /\ DOMAIN groups = 1..m /\ groups[g] \in Group(N)
    BY <1>1, LenProperties
  <2>2. groups[g].latencies \in Seq(Nat)
    BY <2>1 DEF Group
  <2> DEFINE own == Own(visited, groups[g], k)
             c == Cardinality(own)
  <2>3. SamplesHeld(visited, k, groups[g]) /\ own # {}
    BY <1>1, <2>1 DEF GroupsHold
  <2>4. c \in Nat /\ c # 0
    BY <1>1, <2>3, OwnFinite, FS_EmptySet
  <2>5. Len(groups[g].latencies) = IF c <= MaxSamples THEN c ELSE MaxSamples
    BY <2>3 DEF SamplesHeld
  <2> HIDE DEF c
  <2>6. Len(groups[g].latencies) >= 1
    BY <2>4, <2>5, AnalysisAssumption
  <2> QED
    BY <2>2, <2>6, GroupStats
<1> HIDE DEF groups
<1> QED
  BY Zenon, <1>2 DEF StatsAsDefined, StatsDefined, groups

-----------------------------------------------------------------------------
(* The slowest records and the query by id. *)

\* The first of the records in the order of their durations.
SlowestDefined(records, limit) ==
    LET slowest == SlowestTraces(records, limit)
        Slower(t) == {i \in DOMAIN records :
                         RootDuration(records[i]) > RootDuration(t)}
    IN /\ Len(slowest) = Min({limit, Len(records)})
       /\ \A v \in DOMAIN slowest : Cardinality(Slower(slowest[v])) < v
       /\ \E from \in Injection(DOMAIN slowest, DOMAIN records) :
             \A v \in DOMAIN slowest : slowest[v] = records[from[v]]

LEMMA SlowestFirst ==
  ASSUME NEW n \in Nat, NEW records, records \in Seq({records[i] : i \in 1..n}), Len(records) = n,
         \A i \in 1..n : RootDuration(records[i]) \in Nat, NEW limit \in Nat
  PROVE  SlowestDefined(records, limit)
<1> DEFINE r == [i \in 1..n |-> RootDuration(records[i])]
           key == [i \in DOMAIN records |-> -RootDuration(records[i])]
           sorted == Sorted(records, key)
           m == Min({limit, n})
           slowest == SlowestTraces(records, limit)
           Slower(x) == {i \in 1..n : r[i] > x}
<1>1. DOMAIN records = 1..n
  BY LenProperties
<1>2. r \in [1..n -> Nat] /\ \A i \in 1..n : r[i] = RootDuration(records[i])
  OBVIOUS
<1>3. key \in [1..n -> Int] /\ \A i \in 1..n : key[i] = -r[i]
  <2>1. key = [i \in 1..n |-> -RootDuration(records[i])]
    BY Zenon, <1>1
  <2>2. \A i \in 1..n : -RootDuration(records[i]) \in Int
    OBVIOUS
  <2> HIDE DEF key
  <2> QED
    BY <1>2, <2>1, <2>2
<1> HIDE DEF r, key
<1>4. PICK p : IsSorting(records, n, key, p)
  BY <1>3, InOrder
<1>5. /\ p \in [1..n -> 1..n]
      /\ \A i, j \in 1..n : i < j => p[i] # p[j] /\ key[p[i]] <= key[p[j]]
      /\ sorted = [i \in 1..n |-> records[p[i]]]
  BY <1>4 DEF IsSorting, IsOrder
<1>6. \A i \in 1..n : \E u \in 1..n : p[u] = i
  <2>1. IsOrder(n, key, p)
    BY <1>4 DEF IsSorting
  <2>2. IsOnto(n, p)
    BY <2>1, OrderOnto
  <2> QED
    BY <2>2 DEF IsOnto
<1>7. slowest = SubSeq(sorted, 1, m)
  BY Zenon DEF SlowestTraces, key
<1> HIDE DEF sorted
<1>8. m \in Nat /\ m <= n
  <2>1. m = IF limit <= n THEN limit ELSE n
    BY SmallerOfTwo
  <2> HIDE DEF m
  <2> QED
    BY <2>1
<1> HIDE DEF m, slowest
<1>9. Len(slowest) = m /\ DOMAIN slowest = 1..m /\ \A v \in 1..m : slowest[v] = records[p[v]]
  <2>1. sorted \in Seq({records[i] : i \in 1..n}) /\ Len(sorted) = n
        /\ \A v \in 1..n : sorted[v] = records[p[v]]
    BY <1>5
  <2> DEFINE V == {records[i] : i \in 1..n}
             first == SubSeq(sorted, 1, m)
  <2>2. sorted \in Seq(V)
    BY <2>1
  <2> HIDE DEF V
  <2>3. first \in Seq(V) /\ Len(first) = m
    BY <1>8, <2>1, <2>2
  <2>4. ASSUME NEW v \in 1..m PROVE first[v] = sorted[v] /\ v \in 1..n
    <3>1. \A i \in 1..m : i \in 1..n
      BY <1>8
    <3>2. 1 \in Int /\ m \in Int /\ \A i \in 1..m : sorted[i] \in V
      BY <1>8, <2>1, <2>2, <3>1, ElementOfSeq
    <3>3. \A i \in 1..m - 1 + 1 : first[i] = sorted[1 + i - 1]
      BY <3>2, SubSeqProperties DEF first
    <3>4. v \in 1..m - 1 + 1 /\ 1 + v - 1 = v
      BY <1>8
    <3> QED
      BY <3>1, <3>3, <3>4
  <2> HIDE DEF first
  <2>5. DOMAIN first = 1..m
    BY <2>3
  <2> QED
    BY Zenon, <1>7, <2>1, <2>3, <2>4, <2>5 DEF first
<1>10. ASSUME NEW v \in 1..m PROVE Cardinality(Slower(r[p[v]])) < v
  <2> DEFINE S == Slower(r[p[v]])
  <2>1. v \in 1..n /\ p[v] \in 1..n /\ r[p[v]] \in Nat
    <3>1. v \in 1..n
      BY <1>8
    <3>2. p[v] \in 1..n
      BY <1>5, <3>1
    <3> QED
      BY <1>2, <3>1, <3>2
  <2>2. ASSUME NEW i \in S PROVE \E u \in 1..n : p[u] = i /\ u < v
    <3>1. i \in 1..n /\ r[i] > r[p[v]] /\ r[i] \in Nat
      BY <1>2
    <3>2. PICK u \in 1..n : p[u] = i
      BY <1>6, <3>1
    <3>3. u < v \/ u = v \/ v < u
      BY <2>1
    <3>4. u # v
      BY <2>1, <3>1, <3>2
    <3>5. ~(v < u)
      <4>1. v < u => -r[p[v]] <= -r[i]
        BY <1>3, <1>5, <2>1, <3>1, <3>2
      <4> DEFINE a == r[p[v]]
                 b == r[i]
      <4>2. a \in Nat /\ b \in Nat /\ b > a
        BY <2>1, <3>1
      <4>3. v < u => -a <= -b
        BY <4>1
      <4> HIDE DEF a, b
      <4> QED
        BY <4>2, <4>3
    <3> QED
      BY <3>2, <3>3, <3>4, <3>5
  <2> DEFINE k == v - 1
             f == [u \in 1..k |-> p[u]]
             G == {p[u] : u \in 1..k}
  <2>3. k \in Nat /\ \A u \in 1..n : u < v => u \in 1..k
    BY <2>1
  <2>4. S \in SUBSET G
    BY <2>2, <2>3
  <2>5. f \in Surjection(1..k, G)
    BY DEF Surjection
  <2> HIDE DEF S, f, G
  <2>6. IsFiniteSet(1..k) /\ Cardinality(1..k) = k
    BY <2>3, UpTo
  <2>7. IsFiniteSet(G) /\ Cardinality(G) <= k
    BY <2>5, <2>6, FS_Surjection
  <2>8. Cardinality(S) <= Cardinality(G) /\ Cardinality(S) \in Nat /\ Cardinality(G) \in Nat
    BY <2>4, <2>7, FS_Subset, FS_CardinalityType
  <2> DEFINE size == Cardinality(S)
             most == Cardinality(G)
  <2>9. size \in Nat /\ most \in Nat /\ size <= most /\ most <= k
    BY <2>7, <2>8
  <2> HIDE DEF size, most
  <2>10. size < v
    BY <2>1, <2>9
  <2> QED
    BY <2>10 DEF size, S
<1>11. ASSUME NEW v \in 1..m
       PROVE  {i \in DOMAIN records : RootDuration(records[i]) > RootDuration(slowest[v])}
                = Slower(r[p[v]])
  <2>1. v \in 1..n /\ p[v] \in 1..n
    BY <1>5, <1>8
  <2>2. RootDuration(slowest[v]) = r[p[v]]
    BY <1>2, <1>9, <2>1
  <2> QED
    BY <1>1, <1>2, <2>2
<1>12. \A v \in DOMAIN slowest :
          Cardinality({i \in DOMAIN records :
                          RootDuration(records[i]) > RootDuration(slowest[v])}) < v
  BY Zenon, <1>9, <1>10, <1>11
<1>13. Len(slowest) = Min({limit, Len(records)})
  BY Zenon, <1>9 DEF m
<1>14. \E from \in Injection(DOMAIN slowest, DOMAIN records) :
          \A v \in DOMAIN slowest : slowest[v] = records[from[v]]
  <2> DEFINE from == [v \in 1..m |-> p[v]]
  <2>1. \A v \in 1..m : v \in 1..n /\ from[v] = p[v]
    BY <1>8
  <2>2. from \in [1..m -> 1..n]
    BY <1>5, <2>1
  <2>3. ASSUME NEW u \in 1..m, NEW v \in 1..m, from[u] = from[v] PROVE u = v
    <3>1. u < v \/ v < u \/ u = v
      BY <1>8
    <3> HIDE DEF from
    <3>2. u \in 1..n /\ v \in 1..n /\ p[u] = p[v]
      BY <2>1, <2>3
    <3> QED
      BY <1>5, <3>1, <3>2
  <2> HIDE DEF from
  <2>4. from \in Injection(1..m, 1..n)
    BY <2>2, <2>3 DEF Injection, IsInjective
  <2>5. \A v \in 1..m : slowest[v] = records[from[v]]
    BY <1>9, <2>1
  <2> QED
    BY Zenon, <1>1, <1>9, <2>4, <2>5
<1> QED
  BY Zenon, <1>12, <1>13, <1>14 DEF SlowestDefined, slowest

LEMMA SlowestHeld ==
  ASSUME TreeInv
  PROVE  SlowestAsDefined
<1> DEFINE n == Len(log)
<1>1. n \in Nat /\ DOMAIN log = 1..n
  <2>1. LogIsASeq
    BY DEF TreeInv
  <2> QED
    BY <2>1, LenProperties DEF LogIsASeq
<1>2. ASSUME NEW k \in 1..n PROVE RootDuration(Loaded[k]) \in Nat
  <2> DEFINE h == log[k].links
             m == Len(log[k].spans)
             loaded == Decoded(log[k].spans)
  <2>1. Loaded[k].links = h /\ Loaded[k].spans = loaded
    BY <1>1 DEF Loaded
  <2>2. h.root # Null => Rooted(h, m)
    BY <1>1, RecordRooted
  <2>3. \A j \in 1..m : loaded[j].dur \in Nat
    BY <1>1, RecordRooted
  <2> HIDE DEF h, m, loaded
  <2>4. h.root # Null => loaded[h.root].dur \in Nat
    BY <2>2, <2>3 DEF Rooted
  <2> QED
    BY <2>1, <2>4 DEF RootDuration
<1>3. /\ DOMAIN Loaded = 1..n /\ Len(Loaded) = n
      /\ Loaded \in Seq({Loaded[k] : k \in 1..n})
  <2> DEFINE records == Loaded
             V == {records[k] : k \in 1..n}
  <2>1. DOMAIN records = 1..n /\ records = [k \in 1..n |-> records[k]]
    BY <1>1 DEF Loaded
  <2> HIDE DEF records
  <2>2. records \in [1..n -> V]
    BY <2>1
  <2> HIDE DEF V
  <2>3. records \in Seq(V)
    BY <1>1, <2>2, SeqDef
  <2>4. Len(records) = n
    BY <1>1, <2>1, <2>3, LenProperties
  <2> QED
    BY <2>1, <2>3, <2>4 DEF V, records
<1> HIDE DEF n
<1>4. ASSUME NEW limit \in 1..MaxRecords PROVE SlowestDefined(Loaded, limit)
  <2>1. limit \in Nat
    BY TreeAssumption
  <2> QED
    BY <1>1, <1>2, <1>3, <2>1, SlowestFirst
<1>5. ASSUME NEW k \in 1..n
      PROVE  LET found == TraceById(Loaded, Loaded[k].id)
             IN found >= k /\ Loaded[found].id = Loaded[k].id
  <2> DEFINE same == {i \in DOMAIN Loaded : Loaded[i].id = Loaded[k].id}
  <2>1. k \in same /\ same \in SUBSET (1..n) /\ same # {}
    BY <1>3
  <2>2. TraceById(Loaded, Loaded[k].id) = Max(same)
    BY Zenon, <2>1 DEF TraceById
  <2>3. \A i \in same : Loaded[i].id = Loaded[k].id
    OBVIOUS
  <2> HIDE DEF same
  <2>4. Max(same) \in same /\ \A i \in same : i <= Max(same)
    BY <1>1, <2>1, LargestOf
  <2> DEFINE top == Max(same)
  <2>5. top \in 1..n /\ k <= top /\ Loaded[top].id = Loaded[k].id
    BY Zenon, <2>1, <2>3, <2>4
  <2> HIDE DEF top
  <2>6. top >= k
    BY <1>1, <2>5
  <2> QED
    BY Zenon, <2>2, <2>5, <2>6 DEF top
<1>6. \A limit \in 1..MaxRecords :
         LET slowest == SlowestTraces(Loaded, limit)
             Slower(t) == {i \in DOMAIN log : RootDuration(Loaded[i]) > RootDuration(t)}
         IN /\ Len(slowest) = Min({limit, Len(log)})
            /\ \A v \in DOMAIN slowest : Cardinality(Slower(slowest[v])) < v
            /\ \E from \in Injection(DOMAIN slowest, DOMAIN log) :
                  \A v \in DOMAIN slowest : slowest[v] = Loaded[from[v]]
  BY Zenon, <1>1, <1>3, <1>4 DEF SlowestDefined, n
<1> QED
  BY Zenon, <1>1, <1>5, <1>6 DEF SlowestAsDefined

-----------------------------------------------------------------------------

\* The invariant holds in every behaviour, for any processes and bounds.
THEOREM TreeInvariant == Spec => []TreeInv
<1>1. Init => TreeInv
  BY InitTreeInv
<1>2. TreeInv /\ [Next]_vars => TreeInv'
  BY StepTreeInv
<1> QED
  BY <1>1, <1>2, PTL DEF Spec

\* What trace.c and span.c make has its types: identifiers within the counts
\* of traces and spans, links to spans that exist, records of spans.
THEOREM TreeTypeCorrect == Spec => []TypeOK
<1>1. TreeInv => TypeOK
  BY DEF TreeInv
<1> QED
  BY <1>1, TreeInvariant, PTL

\* Head-based sampling: through contexts injected, extracted and adopted, in
\* however many processes, a span carries the decision that was taken where
\* its trace began.
THEOREM TreeOneDecision == Spec => []OneDecisionPerTrace
<1>1. TreeInv => OneDecisionPerTrace
  BY OneDecision
<1> QED
  BY <1>1, TreeInvariant, PTL

\* query.c rebuilds the hierarchy the processes made from any part of a trace,
\* in any order and with repetitions, as long as the trace's spans have ids of
\* their own.
THEOREM TreeHierarchyFromDistinctIds == Spec => []HierarchyFromDistinctIds
<1>1. TreeInv => HierarchyFromDistinctIds
  BY LinkedByIds DEF HierarchyFromDistinctIds
<1> QED
  BY <1>1, TreeInvariant, PTL

\* span_walk.h: span_tree_walk_preorder visits each span of a record once, those
\* whose parents lead to the root and no other, and a parent before its
\* children, though ids may be missing, repeated or in a circle.
THEOREM TreeWalkVisitsOnce == Spec => []WalkVisitsOnce
<1>1. TreeInv => WalkVisitsOnce
  BY WalkedOnce
<1> QED
  BY <1>1, TreeInvariant, PTL

\* critical_path.c: the path goes from the root to a leaf, to a child whose own
\* duration no other child exceeds each time, and has room in the array made
\* for it.
THEOREM TreeCriticalPathToLeaf == Spec => []CriticalPathToLeaf
<1>1. TreeInv => CriticalPathToLeaf
  BY CriticalPathFound
<1> QED
  BY <1>1, TreeInvariant, PTL

\* export_json.c: the document names the parents of its spans before them, and
\* its critical path goes along these names and is no longer than its list of
\* spans.
THEOREM TreeExportedAsLinked == Spec => []ExportedAsLinked
<1>1. TreeInv => ExportedAsLinked
  BY DocumentsLinked
<1> QED
  BY <1>1, TreeInvariant, PTL

\* The three at once: whatever damage a record has, the walk, the critical path
\* and the document follow the links query.c gives its spans.
THEOREM TreeWalkedAsLinked == Spec => []WalkedAsLinked
<1>1. TreeInv => WalkVisitsOnce
  BY WalkedOnce
<1>2. TreeInv => CriticalPathToLeaf
  BY CriticalPathFound
<1>3. TreeInv => ExportedAsLinked
  BY DocumentsLinked
<1>4. TreeInv => WalkedAsLinked
  BY Zenon, <1>1, <1>2, <1>3 DEF WalkedAsLinked
<1> QED
  BY <1>4, TreeInvariant, PTL

\* aggregation.c: every span walked is counted under its own name, in the order
\* of the walk over one record after the other; a name is left out only when
\* MAX_GROUPS others were met before it, a duration only beyond MAX_SAMPLES.
THEOREM TreeGroupsHoldVisited == Spec => []GroupsHoldVisited
<1>1. TreeInv => GroupsHoldVisited
  BY GroupsHeld
<1> QED
  BY <1>1, TreeInvariant, PTL

\* aggregation.c: the median of the durations under a name is the textbook one,
\* the 99th percentile and the mean are within their bounds.
THEOREM TreeStatsAsDefined == Spec => []StatsAsDefined
<1>1. TreeInv => StatsAsDefined
  BY StatsHeld
<1> QED
  BY <1>1, TreeInvariant, PTL

\* query.c: the slowest records are those of the log whose roots last longest,
\* each once, for any limit and wherever qsort leaves ties; the query by id
\* finds the last record of an id.
THEOREM TreeSlowestAsDefined == Spec => []SlowestAsDefined
<1>1. TreeInv => SlowestAsDefined
  BY SlowestHeld
<1> QED
  BY <1>1, TreeInvariant, PTL

\* The three at once: statistics by name and queries by duration and id return
\* what they are defined to, of whatever the log holds.
THEOREM TreeAggregatedAsDefined == Spec => []AggregatedAsDefined
<1>1. TreeInv => GroupsHoldVisited
  BY GroupsHeld
<1>2. TreeInv => StatsAsDefined
  BY StatsHeld
<1>3. TreeInv => SlowestAsDefined
  BY SlowestHeld
<1>4. TreeInv => AggregatedAsDefined
  BY Zenon, <1>1, <1>2, <1>3 DEF AggregatedAsDefined
<1> QED
  BY <1>4, TreeInvariant, PTL
=============================================================================

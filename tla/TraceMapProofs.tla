--------------------------- MODULE TraceMapProofs ---------------------------
(***************************************************************************)
(* Proofs about TraceMap, for every set of traces, hash function, pair of  *)
(* caps, clock resolution, set of timeouts and of batch sizes: the map is  *)
(* well formed, loses and duplicates no span, splits a trace only when it  *)
(* has been inactive, and implements TraceSessions.                        *)
(*                                                                         *)
(* The inductive invariant, MapInv, adds to the three properties that only *)
(* insertions made so far have left spans, and how the clock relates to    *)
(* the partial traces: SplitOnlyByInactivity survives an insertion because *)
(* whatever was handed out had expired by then (Chronology).               *)
(*                                                                         *)
(* A step is understood by where it moves the partial traces: KnownSpan,   *)
(* HeadAdded and ScanMoves say, for every place after the step, where its  *)
(* trace was before.                                                       *)
(***************************************************************************)
EXTENDS TraceMap, FiniteSetTheorems, FunctionTheorems, TLAPS

-----------------------------------------------------------------------------
(* Division. *)

\* A remainder is below the divisor, and division leaves exactly it.
LEMMA DivisionWithRemainder ==
  ASSUME NEW C \in Nat \ {0}, NEW x \in Nat
  PROVE  /\ x % C \in 0..(C - 1)
         /\ x \div C \in Nat
         /\ x = C * (x \div C) + (x % C)
BY SMT

\* A positive multiple of C is at least C.
LEMMA MultipleAtLeast ==
  ASSUME NEW C \in Nat \ {0}, NEW d \in Int, d >= 1
  PROVE  C * d >= C
BY SMT

-----------------------------------------------------------------------------
(* Places of the map, and a set of places in scan order. *)

\* What the constants are, in the form the steps below use.
LEMMA MapConstants ==
  /\ NumBuckets \in Nat \ {0} /\ Hash \in [Traces -> 1..NumBuckets]
  /\ SpanInputs \subseteq [trace : Traces, root : BOOLEAN, sampled : BOOLEAN]
  /\ MaxTraces \in Nat /\ MaxSpansPerTrace \in Nat
  /\ Timeouts \subseteq Nat /\ BatchSizes \subseteq Nat \ {0}
  /\ TicksPerSec \in Nat \ {0} /\ MaxTicks \in Nat /\ MaxInserts \in Nat
BY MapAssumption

\* A place is a bucket and a position in its chain.
LEMMA PlaceFacts ==
  ASSUME NEW p
  PROVE  p \in Places <=> /\ p = <<p[1], p[2]>>
                          /\ p[1] \in 1..NumBuckets
                          /\ p[2] \in DOMAIN buckets[p[1]]
BY DEF Places

\* The map has finitely many places, and a partial trace at each.
LEMMA PlacesFinite ==
  ASSUME buckets \in [1..NumBuckets -> Seq(PartialTrace)]
  PROVE  /\ IsFiniteSet(Places)
         /\ Places \subseteq Nat \X Nat
         /\ \A p \in Places : At(p) \in PartialTrace
<1> DEFINE InChain(b) == {b} \X DOMAIN buckets[b]
           Parts == {InChain(b) : b \in 1..NumBuckets}
           part == [b \in 1..NumBuckets |-> InChain(b)]
<1>1. IsFiniteSet(1..NumBuckets)
  BY FS_Interval, MapConstants
<1>2. IsFiniteSet(Parts)
  <2>1. part \in Surjection(1..NumBuckets, Parts)
    BY DEF Surjection
  <2> QED
    BY <1>1, <2>1, FS_Surjection
<1>3. ASSUME NEW b \in 1..NumBuckets PROVE IsFiniteSet(InChain(b))
  <2>1. Len(buckets[b]) \in Nat /\ DOMAIN buckets[b] = 1..Len(buckets[b])
    OBVIOUS
  <2>2. IsFiniteSet(1..Len(buckets[b])) /\ IsFiniteSet({b})
    <3>1. 1 \in Int /\ Len(buckets[b]) \in Int
      BY <2>1
    <3> QED
      BY <3>1, FS_Interval, FS_Singleton
  <2> QED
    BY <2>1, <2>2, FS_Product
<1>4. IsFiniteSet(UNION Parts)
  BY <1>2, <1>3, FS_UNION
<1>5. IsFiniteSet(Places)
  BY <1>4 DEF Places
<1>6. ASSUME NEW p \in Places
      PROVE  p \in Nat \X Nat /\ At(p) \in PartialTrace
  <2>1. /\ p = <<p[1], p[2]>> /\ p[1] \in 1..NumBuckets
        /\ p[2] \in DOMAIN buckets[p[1]]
    BY <1>6, PlaceFacts
  <2>2. buckets[p[1]] \in Seq(PartialTrace)
    BY <2>1
  <2> QED
    BY <2>1, <2>2, MapConstants DEF At
<1> QED
  BY <1>5, <1>6

\* The scan order is a strict total order.
LEMMA ScanOrder ==
  ASSUME NEW p \in Nat \X Nat, NEW q \in Nat \X Nat, NEW r \in Nat \X Nat
  PROVE  /\ ~Precedes(p, p)
         /\ Precedes(p, q) \/ Precedes(q, p) \/ p = q
         /\ Precedes(p, q) /\ Precedes(q, r) => Precedes(p, r)
BY DEF Precedes

\* Ranks number the places of a finite set from 0 on, in scan order.
LEMMA RankFacts ==
  ASSUME NEW P \in SUBSET (Nat \X Nat), IsFiniteSet(P)
  PROVE  /\ Cardinality(P) \in Nat
         /\ \A p \in P : Rank(p, P) \in 0..(Cardinality(P) - 1)
         /\ \A p, q \in P : Rank(p, P) = Rank(q, P) => p = q
         /\ \A i \in 0..(Cardinality(P) - 1) : \E p \in P : Rank(p, P) = i
<1> DEFINE Earlier(p) == {q \in P : Precedes(q, p)}
           n == Cardinality(P)
           rank == [p \in P |-> Rank(p, P)]
<1>1. n \in Nat
  BY FS_CardinalityType
<1>2. ASSUME NEW p \in P
      PROVE  /\ IsFiniteSet(Earlier(p)) /\ Rank(p, P) \in Nat
             /\ Rank(p, P) <= n - 1
             /\ Rank(p, P) \in 0..(n - 1)
  <2>1. Earlier(p) \in SUBSET (P \ {p})
    BY ScanOrder
  <2>2. IsFiniteSet(P \ {p}) /\ Cardinality(P \ {p}) = n - 1
    BY FS_RemoveElement
  <2>3. IsFiniteSet(Earlier(p)) /\ Cardinality(Earlier(p)) <= n - 1
    BY <2>1, <2>2, FS_Subset
  <2>4. Cardinality(Earlier(p)) \in Nat
    BY <2>3, FS_CardinalityType
  <2>5. Rank(p, P) \in Nat /\ Rank(p, P) <= n - 1
    BY <2>3, <2>4 DEF Rank
  <2> QED
    BY <1>1, <2>3, <2>5
<1>3. ASSUME NEW p \in P, NEW q \in P, Precedes(p, q)
      PROVE  Rank(p, P) < Rank(q, P)
  <2>1. Earlier(p) \in SUBSET Earlier(q) /\ p \in Earlier(q) \ Earlier(p)
    BY <1>3, ScanOrder
  <2>2. /\ Cardinality(Earlier(p)) <= Cardinality(Earlier(q))
        /\ Cardinality(Earlier(p)) # Cardinality(Earlier(q))
    BY <1>2, <2>1, FS_Subset
  <2>3. /\ Rank(p, P) = Cardinality(Earlier(p)) /\ Rank(p, P) \in Nat
        /\ Rank(q, P) = Cardinality(Earlier(q)) /\ Rank(q, P) \in Nat
    BY <1>2 DEF Rank
  <2> QED
    BY <2>2, <2>3
<1>4. ASSUME NEW p \in P, NEW q \in P, Rank(p, P) = Rank(q, P)
      PROVE  p = q
  <2>1. Rank(p, P) \in Nat
    BY <1>2
  <2>2. ~Precedes(p, q) /\ ~Precedes(q, p)
    BY <1>3, <1>4, <2>1
  <2> QED
    BY <2>2, ScanOrder
<1>5. rank \in Injection(P, 0..(n - 1))
  <2>1. \A p \in P : Rank(p, P) \in 0..(n - 1)
    BY <1>2
  <2>2. rank \in [P -> 0..(n - 1)] /\ \A p \in P : rank[p] = Rank(p, P)
    BY <2>1
  <2> QED
    BY <1>4, <2>2, Fun_IsInj
<1>6. IsFiniteSet(0..(n - 1)) /\ Cardinality(0..(n - 1)) = n
  <2>1. 0 \in Int /\ n - 1 \in Int
    BY <1>1
  <2>2. /\ IsFiniteSet(0..(n - 1))
        /\ Cardinality(0..(n - 1)) = IF 0 > n - 1 THEN 0 ELSE (n - 1) - 0 + 1
    BY <2>1, FS_Interval
  <2> QED
    BY <1>1, <2>2
<1>7. rank \in Surjection(P, 0..(n - 1))
  BY <1>5, <1>6, FS_Injection
<1>8. \A i \in 0..(n - 1) : \E p \in P : rank[p] = i
  <2> HIDE DEF rank, n
  <2> QED
    BY <1>7, Zenon DEF Surjection
<1>9. \A p \in P : Rank(p, P) \in 0..(n - 1)
  BY <1>2
<1> QED
  BY <1>1, <1>4, <1>8, <1>9

\* Nth enumerates a finite set of places.
LEMMA NthFacts ==
  ASSUME NEW P \in SUBSET (Nat \X Nat), IsFiniteSet(P)
  PROVE  /\ Cardinality(P) \in Nat
         /\ \A k \in 1..Cardinality(P) : Nth(P, k) \in P
         /\ \A j, k \in 1..Cardinality(P) : Nth(P, j) = Nth(P, k) => j = k
         /\ \A p \in P : \E k \in 1..Cardinality(P) : Nth(P, k) = p
<1>1. Cardinality(P) \in Nat
  BY RankFacts
<1>2. ASSUME NEW k \in 1..Cardinality(P)
      PROVE  Nth(P, k) \in P /\ Rank(Nth(P, k), P) = k - 1
  <2>1. k - 1 \in 0..(Cardinality(P) - 1)
    BY <1>1
  <2>2. \E p \in P : Rank(p, P) = k - 1
    BY <2>1, RankFacts
  <2> QED
    BY <2>2 DEF Nth
<1>3. ASSUME NEW p \in P
      PROVE  \E k \in 1..Cardinality(P) : Nth(P, k) = p
  <2>1. Rank(p, P) \in 0..(Cardinality(P) - 1)
    BY RankFacts
  <2>2. Rank(p, P) + 1 \in 1..Cardinality(P)
    BY <1>1, <2>1
  <2>3. Rank(Nth(P, Rank(p, P) + 1), P) = Rank(p, P)
    BY <1>2, <2>1, <2>2
  <2> QED
    BY <1>2, <2>2, <2>3, RankFacts
<1> QED
  BY <1>1, <1>2, <1>3

-----------------------------------------------------------------------------
(* Time. *)

\* The comparison of seconds with a borrow is exact: a trace has timed out
\* exactly when the timeout has passed since its last update.
LEMMA ElapsedMeans ==
  ASSUME NEW now \in Nat, NEW last \in Nat, NEW t \in Nat
  PROVE  ElapsedSec(now, last) >= t <=> now - last >= t * TicksPerSec
<1> DEFINE T == TicksPerSec
           a == now \div T
           r == now % T
           b == last \div T
           s == last % T
           d == a - b
<1>1. T \in Nat \ {0}
  BY MapConstants
<1>2. /\ a \in Nat /\ r \in 0..(T - 1) /\ now = T * a + r
      /\ b \in Nat /\ s \in 0..(T - 1) /\ last = T * b + s
  BY <1>1, DivisionWithRemainder
<1>3. ElapsedSec(now, last) = d - IF r < s THEN 1 ELSE 0
  BY DEF ElapsedSec
<1> HIDE DEF T, a, r, b, s
<1>4. d \in Int /\ now - last = T * d + (r - s)
  BY <1>1, <1>2
<1> HIDE DEF d
<1>5. T * d = T * t + T * (d - t) /\ T * (d - t) = -(T * (t - d))
  BY <1>1, <1>4
<1>6. /\ d - t >= 1 => T * (d - t) >= T
      /\ t - d >= 1 => T * (t - d) >= T
      /\ d = t => T * (d - t) = 0
  BY <1>1, <1>4, MultipleAtLeast
<1>7. /\ T * (d - t) \in Int /\ T * (t - d) \in Int /\ T * t \in Int
      /\ T * t = t * TicksPerSec
  BY <1>1, <1>4 DEF T
<1>8. CASE r >= s
  <2>1. ElapsedSec(now, last) = d
    BY <1>2, <1>3, <1>4, <1>8
  <2> QED
    BY <1>1, <1>2, <1>4, <1>5, <1>6, <1>7, <1>8, <2>1
<1>9. CASE r < s
  <2>1. ElapsedSec(now, last) = d - 1
    BY <1>3, <1>9
  <2> QED
    BY <1>1, <1>2, <1>4, <1>5, <1>6, <1>7, <1>9, <2>1
<1> QED
  BY <1>2, <1>8, <1>9

-----------------------------------------------------------------------------
(* The inductive invariant. *)

\* No partial trace was updated in the future, and those handed out had been
\* inactive for their timeout when they were.
Chronology ==
    /\ \A h \in Holders : Held(h).last <= clock
    /\ \A i \in DOMAIN closed :
          clock - closed[i].pt.last >= closed[i].timeout * TicksPerSec

\* Only insertions made so far have left spans.
StoredEarlier == Stored \subseteq 1..inserts

\* Spans are freed with the map only.
FreedAtEnd == ~destroyed => freed = {}

\* The inductive invariant.
MapInv ==
    /\ MapTypeOK
    /\ MapWellFormed
    /\ SpansConserved
    /\ StoredEarlier
    /\ Chronology
    /\ SplitOnlyByInactivity
    /\ FreedAtEnd

-----------------------------------------------------------------------------
(* A span added to a partial trace. *)

\* It is one longer, belongs to the same trace, and is renewed; its oldest
\* span is the one it had.
LEMMA AddSpanFacts ==
  ASSUME MapTypeOK, CallInsert,
         NEW span \in SpanInputs, NEW pt \in PartialTrace
  PROVE  LET new == AddSpan(pt, span)
         IN  /\ new \in PartialTrace
             /\ new.id = pt.id /\ new.last = clock
             /\ Len(new.spans) = Len(pt.spans) + 1
             /\ new.spans[1].n = inserts + 1
             /\ \A j \in 1..Len(pt.spans) : new.spans[j + 1] = pt.spans[j]
             /\ First(new) = IF pt.spans = <<>> THEN clock ELSE First(pt)
<1> DEFINE new == AddSpan(pt, span)
           node == Node(span)
<1>1. node \in SpanNode /\ node.n = inserts + 1 /\ node.at = clock
  BY MapConstants DEF MapTypeOK, CallInsert, Node, SpanNode
<1>2. /\ pt.id \in Traces /\ pt.spans \in Seq(SpanNode)
      /\ pt.hasRoot \in BOOLEAN /\ pt.sampled \in BOOLEAN
      /\ span.root \in BOOLEAN /\ span.sampled \in BOOLEAN
      /\ clock \in 0..MaxTicks
  BY MapConstants DEF PartialTrace, MapTypeOK
<1>3. /\ new = [id |-> pt.id, spans |-> <<node>> \o pt.spans,
                hasRoot |-> pt.hasRoot \/ span.root,
                sampled |-> IF pt.spans = <<>> THEN span.sampled
                                               ELSE pt.sampled,
                last |-> clock]
  BY DEF AddSpan
<1> HIDE DEF new, node
<1>4. /\ <<node>> \o pt.spans \in Seq(SpanNode)
      /\ Len(<<node>> \o pt.spans) = Len(pt.spans) + 1
      /\ (<<node>> \o pt.spans)[1] = node
      /\ \A j \in 1..Len(pt.spans) :
            (<<node>> \o pt.spans)[j + 1] = pt.spans[j]
      /\ Len(pt.spans) \in Nat
  BY <1>1, <1>2
<1>5. new \in PartialTrace
  BY <1>2, <1>3, <1>4 DEF PartialTrace
<1>6. First(new) = IF pt.spans = <<>> THEN clock ELSE First(pt)
  <2>1. new.spans # <<>> /\ new.spans = <<node>> \o pt.spans
    BY <1>3, <1>4
  <2>2. First(new) = (<<node>> \o pt.spans)[Len(pt.spans) + 1].at
    BY <1>4, <2>1 DEF First
  <2>3. CASE pt.spans = <<>>
    BY <1>1, <1>4, <2>2, <2>3
  <2>4. CASE pt.spans # <<>>
    <3>1. Len(pt.spans) \in 1..Len(pt.spans)
      BY <1>2, <2>4
    <3> QED
      BY <1>4, <2>2, <2>4, <3>1 DEF First
  <2> QED
    BY <2>3, <2>4
<1> QED
  BY <1>1, <1>3, <1>4, <1>5, <1>6 DEF new, node

\* The numbers of a partial trace that has taken a span.
LEMMA AddSpanNumbers ==
  ASSUME MapTypeOK, CallInsert,
         NEW span \in SpanInputs, NEW pt \in PartialTrace
  PROVE  Numbers(AddSpan(pt, span)) = Numbers(pt) \union {inserts + 1}
<1> DEFINE new == AddSpan(pt, span)
<1>1. /\ new \in PartialTrace /\ pt.spans \in Seq(SpanNode)
      /\ Len(pt.spans) \in Nat /\ new.spans \in Seq(SpanNode)
      /\ Len(new.spans) = Len(pt.spans) + 1
      /\ new.spans[1].n = inserts + 1
      /\ \A j \in 1..Len(pt.spans) : new.spans[j + 1] = pt.spans[j]
  BY AddSpanFacts DEF PartialTrace
<1> HIDE DEF new
<1>2. DOMAIN new.spans = 1..(Len(pt.spans) + 1)
      /\ DOMAIN pt.spans = 1..Len(pt.spans)
  BY <1>1
<1>3. Numbers(new) \subseteq Numbers(pt) \union {inserts + 1}
  <2> SUFFICES ASSUME NEW i \in 1..(Len(pt.spans) + 1), i # 1
               PROVE  new.spans[i].n \in Numbers(pt)
    BY <1>1, <1>2 DEF Numbers
  <2>1. i - 1 \in 1..Len(pt.spans) /\ new.spans[(i - 1) + 1] = pt.spans[i - 1]
    BY <1>1
  <2>2. new.spans[i] = pt.spans[i - 1]
    BY <2>1
  <2> QED
    BY <1>2, <2>1, <2>2 DEF Numbers
<1>4. Numbers(pt) \union {inserts + 1} \subseteq Numbers(new)
  <2>1. inserts + 1 \in Numbers(new)
    BY <1>1, <1>2 DEF Numbers
  <2>2. ASSUME NEW j \in 1..Len(pt.spans)
        PROVE  pt.spans[j].n \in Numbers(new)
    <3>1. j + 1 \in DOMAIN new.spans /\ new.spans[j + 1] = pt.spans[j]
      BY <1>1, <1>2
    <3> QED
      BY <3>1 DEF Numbers
  <2> QED
    BY <1>2, <2>1, <2>2 DEF Numbers
<1> QED
  BY <1>3, <1>4 DEF new

-----------------------------------------------------------------------------
(* What holds a partial trace. *)

\* The parts of a partial trace, and of one that was handed out.
LEMMA PartialTraceFacts ==
  ASSUME NEW pt \in PartialTrace
  PROVE  /\ pt.id \in Traces /\ pt.spans \in Seq(SpanNode)
         /\ pt.last \in 0..MaxTicks /\ pt.last \in Nat
BY MapConstants DEF PartialTrace

\* The types of what was handed out.
LEMMA ClosedFacts ==
  ASSUME MapTypeOK, NEW i \in DOMAIN closed
  PROVE  /\ i \in 1..Len(closed)
         /\ closed[i].pt \in PartialTrace
         /\ closed[i].pt.last \in Nat
         /\ closed[i].timeout \in Timeouts
         /\ closed[i].timeout \in Nat
         /\ closed[i].timeout * TicksPerSec \in Nat
<1> DEFINE S == [pt : PartialTrace, timeout : Timeouts]
<1>1. closed \in Seq(S) /\ i \in 1..Len(closed)
  BY DEF MapTypeOK
<1> HIDE DEF S
<1>2. closed[i] \in S
  BY <1>1
<1>3. closed[i].pt \in PartialTrace /\ closed[i].timeout \in Timeouts
  BY <1>2 DEF S
<1>4. closed[i].timeout * TicksPerSec \in Nat
  <2>1. closed[i].timeout \in Nat /\ TicksPerSec \in Nat
    BY <1>3, MapConstants
  <2>2. \A m, n \in Nat : m * n \in Nat
    OBVIOUS
  <2> QED
    BY <2>1, <2>2
<1> QED
  BY <1>1, <1>3, <1>4, PartialTraceFacts, MapConstants

\* What the two kinds of holders hold.
LEMMA HolderFacts ==
  ASSUME MapTypeOK
  PROVE  /\ \A p \in Places : /\ p \in Holders /\ Held(p) = At(p)
                              /\ p[1] \in 1..NumBuckets
         /\ \A i \in DOMAIN closed : /\ <<0, i>> \in Holders
                                     /\ Held(<<0, i>>) = closed[i].pt
         /\ \A h \in Holders : Held(h) \in PartialTrace
         /\ \A h \in Holders : h[1] # 0 => h \in Places
         /\ \A h \in Holders : h[1] = 0 => h[2] \in DOMAIN closed
                                           /\ h = <<0, h[2]>>
<1>1. ASSUME NEW p \in Places
      PROVE  /\ p \in Holders /\ Held(p) = At(p) /\ p[1] \in 1..NumBuckets
             /\ At(p) \in PartialTrace
  BY PlaceFacts, PlacesFinite, MapConstants DEF Holders, Held, MapTypeOK
<1>2. ASSUME NEW i \in DOMAIN closed
      PROVE  /\ <<0, i>> \in Holders /\ Held(<<0, i>>) = closed[i].pt
             /\ closed[i].pt \in PartialTrace
  BY ClosedFacts DEF Holders, Held
<1>3. ASSUME NEW h \in Holders
      PROVE  \/ h \in Places
             \/ h[1] = 0 /\ h[2] \in DOMAIN closed /\ h = <<0, h[2]>>
  BY DEF Holders
<1> QED
  BY <1>1, <1>2, <1>3, MapConstants

\* The numbers of a partial trace are those of its spans.
LEMMA NumbersFacts ==
  ASSUME MapTypeOK, NEW h \in Holders
  PROVE  /\ Held(h).spans \in Seq(SpanNode)
         /\ Numbers(Held(h)) \subseteq Stored
BY HolderFacts DEF Stored, PartialTrace

\* What was freed is still counted.
LEMMA FreedFacts ==
  /\ Stored = (UNION {Numbers(Held(h)) : h \in Holders}) \union freed
  /\ freed \subseteq Stored
<1> DEFINE held == UNION {Numbers(Held(h)) : h \in Holders}
<1>1. Stored = held \union freed
  BY DEF Stored
<1> HIDE DEF held
<1>2. freed \subseteq Stored
  BY <1>1
<1> QED
  BY <1>1, <1>2 DEF held

\* A step that leaves the chains and what was handed out leaves every holder.
LEMMA SameHolders ==
  ASSUME buckets' = buckets, closed' = closed, freed' = freed
  PROVE  /\ Places' = Places /\ Holders' = Holders /\ Stored' = Stored
         /\ \A p : At(p)' = At(p)
         /\ \A h : Held(h)' = Held(h)
<1>1. Places' = Places /\ \A p : At(p)' = At(p)
  BY DEF Places, At
<1>2. Holders' = Holders /\ \A h : Held(h)' = Held(h)
  BY <1>1 DEF Holders, Held
<1>3. Stored' = Stored
  BY <1>2 DEF Stored
<1> QED
  BY <1>1, <1>2, <1>3

-----------------------------------------------------------------------------
(* Steps that leave the chains alone. *)

\* The steps that move no span and no trace keep the invariant: the three
\* rejected insertions, the clock readings and the passing of time.
LEMMA StillStep ==
  ASSUME MapInv,
         \/ \E span \in SpanInputs : \/ InsertTraceDropped(span)
                                     \/ InsertSpanDropped(span)
                                     \/ InsertNoMemory(span)
         \/ FlushSample \/ Tick \/ UNCHANGED mapVars
  PROVE  MapInv'
<1>1. /\ buckets' = buckets /\ closed' = closed /\ count' = count
      /\ destroyed' = destroyed /\ freed' = freed
  BY DEF InsertTraceDropped, InsertSpanDropped, InsertNoMemory, CallInsert,
         FlushSample, Tick, mapVars
<1>2. /\ Places' = Places /\ Holders' = Holders /\ Stored' = Stored
      /\ \A p : At(p)' = At(p)
      /\ \A h : Held(h)' = Held(h)
  BY <1>1, SameHolders
<1> DEFINE counted == inserts - tracesDropped - spansDropped - refused
<1>a. MapTypeOK /\ inserts \in Nat /\ clock \in Nat
  BY MapConstants DEF MapInv, MapTypeOK
<1>b. ASSUME NEW span \in SpanInputs,
             \/ InsertTraceDropped(span)
             \/ InsertSpanDropped(span)
             \/ InsertNoMemory(span)
      PROVE  /\ inserts' = inserts + 1 /\ inserts' \in 0..MaxInserts
             /\ clock' = clock /\ flushNow' = flushNow
             /\ tracesDropped' \in Nat /\ spansDropped' \in Nat
             /\ refused' \in Nat /\ counted' = counted
  <2>0. /\ inserts \in 0..MaxInserts /\ tracesDropped \in Nat
        /\ spansDropped \in Nat /\ refused \in Nat
    BY <1>a DEF MapTypeOK
  <2>1. CASE InsertTraceDropped(span)
    BY <2>0, <2>1, MapConstants DEF InsertTraceDropped, CallInsert
  <2>2. CASE InsertSpanDropped(span)
    BY <2>0, <2>2, MapConstants DEF InsertSpanDropped, CallInsert
  <2>3. CASE InsertNoMemory(span)
    BY <2>0, <2>3, MapConstants DEF InsertNoMemory, CallInsert
  <2> QED
    BY <1>b, <2>1, <2>2, <2>3
<1>3. /\ MapTypeOK /\ inserts \in Nat /\ clock \in Nat /\ inserts' \in Nat
      /\ clock' \in Nat /\ clock' >= clock /\ inserts' >= inserts
      /\ MapTypeOK' /\ counted' = counted
  <2>1. CASE FlushSample \/ Tick \/ UNCHANGED mapVars
    <3>1. /\ UNCHANGED <<inserts, tracesDropped, spansDropped, refused>>
          /\ clock' \in 0..MaxTicks /\ clock' >= clock
          /\ flushNow' \in 0..clock' \union {NotSampled}
      <4>1. /\ clock \in 0..MaxTicks /\ flushNow \in 0..clock \union {NotSampled}
            /\ MaxTicks \in Nat
        BY <1>a, MapConstants DEF MapTypeOK
      <4>2. CASE FlushSample
        BY <4>1, <4>2 DEF FlushSample
      <4>3. CASE Tick
        BY <4>1, <4>3 DEF Tick
      <4>4. CASE UNCHANGED mapVars
        BY <4>1, <4>4 DEF mapVars
      <4> QED
        BY <2>1, <4>2, <4>3, <4>4
    <3> QED
      BY <1>1, <1>a, <3>1, MapConstants DEF MapTypeOK
  <2>2. CASE \E span \in SpanInputs : \/ InsertTraceDropped(span)
                                      \/ InsertSpanDropped(span)
                                      \/ InsertNoMemory(span)
    <3>1. /\ inserts' = inserts + 1 /\ inserts' \in 0..MaxInserts
          /\ clock' = clock /\ flushNow' = flushNow
          /\ tracesDropped' \in Nat /\ spansDropped' \in Nat
          /\ refused' \in Nat /\ counted' = counted
      BY <1>b, <2>2
    <3> HIDE DEF counted
    <3> QED
      BY <1>1, <1>a, <3>1, MapConstants DEF MapTypeOK
  <2> QED
    BY <2>1, <2>2
<1>4. MapWellFormed'
  BY <1>1, <1>2 DEF MapInv, MapWellFormed
<1>5. SpansConserved'
  <2>1. inserts' - tracesDropped' - spansDropped' - refused'
           = inserts - tracesDropped - spansDropped - refused
    BY <1>3
  <2> QED
    BY <1>1, <1>2, <2>1 DEF MapInv, SpansConserved
<1>6. StoredEarlier'
  <2>1. Stored \subseteq 1..inserts /\ 1..inserts \subseteq 1..(inserts')
    BY <1>3 DEF MapInv, StoredEarlier
  <2> QED
    BY <1>2, <2>1 DEF StoredEarlier
<1>7. Chronology'
  <2>1. ASSUME NEW h \in Holders PROVE Held(h).last <= clock'
    <3>1. Held(h).last \in Nat /\ Held(h).last <= clock
      BY <1>3, HolderFacts, MapConstants
         DEF MapInv, Chronology, PartialTrace
    <3> QED
      BY <1>3, <3>1
  <2>2. ASSUME NEW i \in DOMAIN closed
        PROVE  clock' - closed[i].pt.last >= closed[i].timeout * TicksPerSec
    <3>2. /\ closed[i].pt.last \in Nat
          /\ closed[i].timeout * TicksPerSec \in Nat
      BY <1>3, ClosedFacts
    <3>3. clock - closed[i].pt.last >= closed[i].timeout * TicksPerSec
      BY DEF MapInv, Chronology
    <3> QED
      BY <1>3, <3>2, <3>3
  <2> QED
    BY <1>1, <1>2, <2>1, <2>2 DEF Chronology
<1>8. SplitOnlyByInactivity'
  BY <1>1, <1>2 DEF MapInv, SplitOnlyByInactivity, First
<1>9. FreedAtEnd'
  BY <1>1 DEF MapInv, FreedAtEnd
<1> QED
  BY <1>3, <1>4, <1>5, <1>6, <1>7, <1>8, <1>9 DEF MapInv

-----------------------------------------------------------------------------
(* A known trace takes the span. *)

\* One place has a longer trace, every other holder has the one it had.
LEMMA KnownSpan ==
  ASSUME MapTypeOK, NEW span \in SpanInputs, InsertKnown(span)
  PROVE  \E k \in Places :
           /\ At(k).id = span.trace /\ ~AtSpanCap(At(k))
           /\ AddSpan(At(k), span) \in PartialTrace
           /\ buckets' \in [1..NumBuckets -> Seq(PartialTrace)]
           /\ Places' = Places /\ Holders' = Holders
           /\ At(k)' = AddSpan(At(k), span)
           /\ \A p \in Places : p # k => At(p)' = At(p)
           /\ Held(k)' = AddSpan(At(k), span)
           /\ \A h \in Holders : h # k => Held(h)' = Held(h)
<1> DEFINE t == span.trace
           b == Hash[t]
           chain == buckets[b]
<1>1. t \in Traces /\ b \in 1..NumBuckets
  BY MapConstants
<1>2. PICK i \in DOMAIN chain :
         /\ chain[i].id = t /\ ~AtSpanCap(chain[i])
         /\ buckets' = [buckets EXCEPT ![b][i] = AddSpan(chain[i], span)]
  BY DEF InsertKnown, FoundAt, Chain
<1>3. /\ buckets \in [1..NumBuckets -> Seq(PartialTrace)]
      /\ chain \in Seq(PartialTrace) /\ CallInsert /\ closed' = closed
  BY <1>1 DEF MapTypeOK, InsertKnown
<1> DEFINE new == AddSpan(chain[i], span)
           k == <<b, i>>
<1>4. chain[i] \in PartialTrace
  BY <1>3
<1>5. new \in PartialTrace
  BY <1>3, <1>4, AddSpanFacts
<1>6. k \in Places /\ At(k) = chain[i]
  BY <1>1, <1>2 DEF Places, At
<1> HIDE DEF t, chain, new
<1>7. buckets' = [buckets EXCEPT ![b] = [chain EXCEPT ![i] = new]]
  BY <1>2 DEF chain, new
<1>8. /\ [chain EXCEPT ![i] = new] \in Seq(PartialTrace)
      /\ DOMAIN [chain EXCEPT ![i] = new] = DOMAIN chain
  BY <1>2, <1>3, <1>5
<1>9. /\ buckets' \in [1..NumBuckets -> Seq(PartialTrace)]
      /\ buckets'[b] = [chain EXCEPT ![i] = new]
      /\ \A c \in 1..NumBuckets : c # b => buckets'[c] = buckets[c]
  BY <1>1, <1>3, <1>7, <1>8
<1>10. \A c \in 1..NumBuckets : DOMAIN buckets'[c] = DOMAIN buckets[c]
  BY <1>8, <1>9 DEF chain
<1>11. Places' = Places
  BY <1>10 DEF Places
<1>12. At(k)' = new
  BY <1>2, <1>9 DEF At
<1>13. ASSUME NEW p \in Places, p # k PROVE At(p)' = At(p)
  <2>1. /\ p = <<p[1], p[2]>> /\ p[1] \in 1..NumBuckets
        /\ p[2] \in DOMAIN buckets[p[1]]
    BY PlaceFacts
  <2>2. CASE p[1] # b
    BY <1>9, <2>1, <2>2 DEF At
  <2>3. CASE p[1] = b
    <3>1. p[2] # i /\ p[2] \in DOMAIN chain
      BY <1>13, <2>1, <2>3 DEF chain
    <3>2. [chain EXCEPT ![i] = new][p[2]] = chain[p[2]]
      BY <1>3, <3>1
    <3> QED
      BY <1>9, <2>3, <3>2 DEF At, chain
  <2> QED
    BY <2>2, <2>3
<1>14. Holders' = Holders
  BY <1>3, <1>11 DEF Holders
<1>15. k[1] # 0 /\ Held(k)' = new
  BY <1>1, <1>12, MapConstants DEF Held
<1>16. ASSUME NEW h \in Holders, h # k PROVE Held(h)' = Held(h)
  <2>1. CASE h[1] = 0
    BY <1>3, <2>1 DEF Held
  <2>2. CASE h[1] # 0
    BY <1>13, <1>16, <2>2, HolderFacts DEF Held
  <2> QED
    BY <2>1, <2>2
<1> QED
  BY <1>2, <1>5, <1>6, <1>9, <1>11, <1>12, <1>13, <1>14, <1>15, <1>16
     DEF new, chain, t

\* An insertion into a known trace keeps the invariant.
LEMMA KnownStep ==
  ASSUME MapInv, NEW span \in SpanInputs, InsertKnown(span)
  PROVE  MapInv'
<1> DEFINE n == inserts + 1
<1>1. /\ MapTypeOK /\ CallInsert /\ inserts \in Nat /\ clock \in Nat
      /\ inserts' = n /\ n \in 0..MaxInserts
      /\ UNCHANGED <<count, tracesDropped, spansDropped, clock, flushNow,
                     closed, refused, destroyed, freed>>
  BY MapConstants DEF MapInv, MapTypeOK, InsertKnown, CallInsert
<1>2. PICK k \in Places :
         /\ At(k).id = span.trace /\ ~AtSpanCap(At(k))
         /\ AddSpan(At(k), span) \in PartialTrace
         /\ buckets' \in [1..NumBuckets -> Seq(PartialTrace)]
         /\ Places' = Places /\ Holders' = Holders
         /\ At(k)' = AddSpan(At(k), span)
         /\ \A p \in Places : p # k => At(p)' = At(p)
         /\ Held(k)' = AddSpan(At(k), span)
         /\ \A h \in Holders : h # k => Held(h)' = Held(h)
  BY <1>1, KnownSpan
<1> DEFINE old == At(k)
           new == AddSpan(old, span)
<1>3. /\ old \in PartialTrace /\ old.spans \in Seq(SpanNode)
      /\ Len(old.spans) \in Nat /\ k \in Holders /\ Held(k) = old
      /\ k[1] # 0
  BY <1>1, HolderFacts, PartialTraceFacts, MapConstants
<1>4. /\ new.id = old.id /\ new.last = clock
      /\ new.spans \in Seq(SpanNode)
      /\ Len(new.spans) = Len(old.spans) + 1
      /\ new.spans[1].n = n
      /\ \A j \in 1..Len(old.spans) : new.spans[j + 1] = old.spans[j]
      /\ First(new) = IF old.spans = <<>> THEN clock ELSE First(old)
      /\ Numbers(new) = Numbers(old) \union {n}
  BY <1>1, <1>2, <1>3, AddSpanFacts, AddSpanNumbers, PartialTraceFacts
<1> HIDE DEF old, new
<1>5. At(k)' = new /\ Held(k)' = new /\ At(k) = old
  BY <1>2 DEF old, new
<1>6. MapTypeOK'
  BY <1>1, <1>2 DEF MapTypeOK
<1>7. MapWellFormed'
  <2>1. \A p \in Places : At(p)'.id = At(p).id
    BY <1>2, <1>4, <1>5
  <2>2. MaxSpansPerTrace > 0 => Len(new.spans) <= MaxSpansPerTrace
    BY <1>2, <1>3, <1>4, MapConstants DEF AtSpanCap, old
  <2>3. MaxSpansPerTrace > 0 =>
           \A p \in Places : Len(At(p)'.spans) <= MaxSpansPerTrace
    BY <1>2, <1>5, <2>2 DEF MapInv, MapWellFormed
  <2> QED
    BY <1>1, <1>2, <2>1, <2>3 DEF MapInv, MapWellFormed
<1>8. Stored \subseteq 1..inserts /\ n \notin Stored
  BY <1>1 DEF MapInv, StoredEarlier
<1>9. \A h \in Holders : Numbers(Held(h)) \subseteq Stored
  BY <1>1, NumbersFacts
<1>10. \A h \in Holders : h # k => Numbers(Held(h))' = Numbers(Held(h))
  BY <1>2 DEF Numbers
<1>11. Numbers(Held(k))' = Numbers(Held(k)) \union {n}
  <2>1. Numbers(Held(k))' = Numbers(new)
    BY <1>5 DEF Numbers
  <2> QED
    BY <1>3, <1>4, <2>1
<1>12. Stored' = Stored \union {n}
  <2> DEFINE held == UNION {Numbers(Held(h)) : h \in Holders}
             heldNow == UNION {Numbers(Held(h))' : h \in Holders}
  <2>1. heldNow = held \union {n}
    BY <1>3, <1>10, <1>11
  <2>2. Stored = held \union freed
    BY FreedFacts
  <2>3. Stored' = (UNION {Numbers(Held(h))' : h \in Holders'}) \union freed'
    BY DEF Stored
  <2>5. Holders' = Holders /\ freed' = freed
    BY <1>1, <1>2
  <2>4. Stored' = heldNow \union freed
    BY <2>3, <2>5
  <2> HIDE DEF held, heldNow
  <2> QED
    BY <2>1, <2>2, <2>4
<1>13. StoredEarlier'
  <2>1. 1..inserts \subseteq 1..n /\ n \in 1..n
    BY <1>1
  <2> QED
    BY <1>1, <1>8, <1>12, <2>1 DEF StoredEarlier
<1>14. SpansConserved'
  <2>1. ASSUME NEW g \in Holders, NEW h \in Holders, g # h
        PROVE  Numbers(Held(g))' \intersect Numbers(Held(h))' = {}
    <3>1. Numbers(Held(g)) \intersect Numbers(Held(h)) = {}
      BY <2>1 DEF MapInv, SpansConserved
    <3>2. n \notin Numbers(Held(g)) /\ n \notin Numbers(Held(h))
      BY <1>8, <1>9
    <3> QED
      BY <1>10, <1>11, <2>1, <3>1, <3>2
  <2>2. ASSUME NEW i \in DOMAIN new.spans, NEW j \in DOMAIN new.spans,
               new.spans[i].n = new.spans[j].n
        PROVE  i = j
    <3>1. /\ i \in 1..(Len(old.spans) + 1) /\ j \in 1..(Len(old.spans) + 1)
          /\ DOMAIN old.spans = 1..Len(old.spans)
      BY <1>3, <1>4
    <3>2. \A m \in 1..Len(old.spans) : old.spans[m].n # n
      BY <1>3, <1>8, <1>9, <3>1 DEF Numbers
    <3>3. ASSUME NEW m \in 1..(Len(old.spans) + 1), m # 1
          PROVE  /\ m - 1 \in 1..Len(old.spans)
                 /\ new.spans[m] = old.spans[m - 1]
                 /\ new.spans[m].n # n
      <4>1. m - 1 \in 1..Len(old.spans) /\ (m - 1) + 1 = m
        BY <1>3, <3>3
      <4> QED
        BY <1>4, <3>2, <4>1
    <3>4. CASE i = 1 \/ j = 1
      BY <1>4, <2>2, <3>1, <3>3, <3>4
    <3>5. CASE i # 1 /\ j # 1
      <4>1. old.spans[i - 1].n = old.spans[j - 1].n
        BY <2>2, <3>1, <3>3, <3>5
      <4>2. i - 1 = j - 1
        BY <1>3, <3>1, <3>3, <3>5, <4>1 DEF MapInv, SpansConserved
      <4> QED
        BY <3>1, <4>2
    <3> QED
      BY <3>4, <3>5
  <2>3. \A h \in Holders : \A i, j \in DOMAIN Held(h)'.spans :
           Held(h)'.spans[i].n = Held(h)'.spans[j].n => i = j
    BY <1>2, <1>5, <2>2 DEF MapInv, SpansConserved
  <2>5. ASSUME NEW h \in Holders
        PROVE  Numbers(Held(h))' \intersect freed' = {}
    <3>1. n \notin freed
      BY <1>8, FreedFacts
    <3>2. Numbers(Held(h)) \intersect freed = {}
      BY DEF MapInv, SpansConserved
    <3> QED
      BY <1>1, <1>10, <1>11, <3>1, <3>2
  <2>4. Cardinality(Stored') = inserts' - tracesDropped' - spansDropped'
                                  - refused'
    <3>1. IsFiniteSet(1..inserts)
      BY <1>1, FS_Interval
    <3>2. IsFiniteSet(Stored) /\ Cardinality(Stored) \in Nat
      BY <1>8, <3>1, FS_Subset, FS_CardinalityType
    <3>3. Cardinality(Stored') = Cardinality(Stored) + 1
      BY <1>8, <1>12, <3>2, FS_AddElement
    <3> QED
      BY <1>1, <3>2, <3>3 DEF MapInv, SpansConserved, MapTypeOK
  <2> QED
    BY <1>2, <2>1, <2>3, <2>4, <2>5 DEF SpansConserved
<1>15. Chronology'
  BY <1>1, <1>2, <1>4, <1>5 DEF MapInv, Chronology
<1>16. SplitOnlyByInactivity'
  <2> SUFFICES ASSUME NEW i \in DOMAIN closed, NEW h \in Holders,
                      Held(h)'.id = closed[i].pt.id, h[1] = 0 => h[2] > i
               PROVE  First(Held(h))' - closed[i].pt.last
                         >= closed[i].timeout * TicksPerSec
    BY <1>1, <1>2 DEF SplitOnlyByInactivity
  <2>1. CASE h # k
    BY <1>2, <2>1 DEF MapInv, SplitOnlyByInactivity, First
  <2>2. CASE h = k
    <3>1. First(Held(h))' = IF old.spans = <<>> THEN clock ELSE First(old)
      BY <1>4, <1>5, <2>2 DEF First
    <3>2. First(old) - closed[i].pt.last >= closed[i].timeout * TicksPerSec
      BY <1>3, <1>4, <1>5, <2>2 DEF MapInv, SplitOnlyByInactivity
    <3>3. clock - closed[i].pt.last >= closed[i].timeout * TicksPerSec
      BY DEF MapInv, Chronology
    <3> QED
      BY <3>1, <3>2, <3>3
  <2> QED
    BY <2>1, <2>2
<1>17. FreedAtEnd'
  BY <1>1 DEF MapInv, FreedAtEnd
<1> QED
  BY <1>6, <1>7, <1>13, <1>14, <1>15, <1>16, <1>17 DEF MapInv

-----------------------------------------------------------------------------
(* A partial trace is put at the head of a chain. *)

\* Where the holder g is once there is a new head in chain b.
Moved(b, g) == IF g[1] = b THEN <<b, g[2] + 1>> ELSE g

\* A trace put at the head of chain b moves the others of that chain.
LEMMA HeadAdded ==
  ASSUME MapTypeOK, closed' = closed,
         NEW b \in 1..NumBuckets, NEW new \in PartialTrace,
         buckets' = [buckets EXCEPT ![b] = <<new>> \o @]
  PROVE  /\ buckets' \in [1..NumBuckets -> Seq(PartialTrace)]
         /\ Places' = {<<b, 1>>} \union {Moved(b, p) : p \in Places}
         /\ Holders' = {<<b, 1>>} \union {Moved(b, g) : g \in Holders}
         /\ At(<<b, 1>>)' = new /\ Held(<<b, 1>>)' = new
         /\ \A p \in Places : /\ At(Moved(b, p))' = At(p)
                              /\ Moved(b, p)[1] = p[1]
         /\ \A g \in Holders : /\ Held(Moved(b, g))' = Held(g)
                               /\ Moved(b, g) # <<b, 1>>
                               /\ g[1] = 0 => Moved(b, g) = g
         /\ \A g, h \in Holders : Moved(b, g) = Moved(b, h) => g = h
<1> DEFINE chain == buckets[b]
           longer == <<new>> \o chain
<1>1. /\ buckets \in [1..NumBuckets -> Seq(PartialTrace)]
      /\ chain \in Seq(PartialTrace) /\ Len(chain) \in Nat
  BY DEF MapTypeOK
<1>2. /\ longer \in Seq(PartialTrace)
      /\ DOMAIN longer = 1..(Len(chain) + 1) /\ DOMAIN chain = 1..Len(chain)
      /\ longer[1] = new
      /\ \A j \in 1..Len(chain) : longer[j + 1] = chain[j]
  BY <1>1
<1> HIDE DEF longer
<1>3. /\ buckets' \in [1..NumBuckets -> Seq(PartialTrace)]
      /\ buckets'[b] = longer
      /\ \A c \in 1..NumBuckets : c # b => buckets'[c] = buckets[c]
  BY <1>1, <1>2 DEF longer
<1>4. ASSUME NEW p \in Places
      PROVE  /\ p = <<p[1], p[2]>> /\ p[1] \in 1..NumBuckets
             /\ p[2] \in DOMAIN buckets[p[1]] /\ p[2] \in Nat \ {0}
             /\ p[1] # 0
  <2>1. /\ p = <<p[1], p[2]>> /\ p[1] \in 1..NumBuckets
        /\ p[2] \in DOMAIN buckets[p[1]]
    BY PlaceFacts
  <2>2. buckets[p[1]] \in Seq(PartialTrace)
    BY <1>1, <2>1
  <2> QED
    BY <2>1, <2>2, MapConstants
<1>5. ASSUME NEW p \in Places
      PROVE  /\ Moved(b, p) \in Places' /\ At(Moved(b, p))' = At(p)
             /\ Moved(b, p)[1] = p[1] /\ Moved(b, p) # <<b, 1>>
             /\ p = <<p[1], p[2]>> /\ p[2] \in Nat \ {0} /\ p[1] # 0
  <2>1. CASE p[1] = b
    <3>1. p[2] \in 1..Len(chain) /\ Moved(b, p) = <<b, p[2] + 1>>
      BY <1>2, <1>4, <2>1 DEF Moved
    <3>2. p[2] + 1 \in DOMAIN longer /\ longer[p[2] + 1] = chain[p[2]]
      BY <1>1, <1>2, <3>1
    <3> QED
      BY <1>3, <1>4, <2>1, <3>1, <3>2 DEF Places, At
  <2>2. CASE p[1] # b
    BY <1>3, <1>4, <2>2 DEF Places, At, Moved
  <2> QED
    BY <1>4, <2>1, <2>2
<1>6. <<b, 1>> \in Places' /\ At(<<b, 1>>)' = new
  <2>1. 1 \in DOMAIN longer
    BY <1>1, <1>2
  <2> QED
    BY <1>2, <1>3, <2>1 DEF Places, At
<1>7. ASSUME NEW q \in Places', q # <<b, 1>>
      PROVE  \E p \in Places : q = Moved(b, p)
  <2>1. /\ q = <<q[1], q[2]>> /\ q[1] \in 1..NumBuckets
        /\ q[2] \in DOMAIN buckets'[q[1]]
    BY DEF Places
  <2>2. CASE q[1] # b
    <3>1. q \in Places /\ Moved(b, q) = q
      BY <1>3, <2>1, <2>2, PlaceFacts DEF Moved
    <3> QED
      BY <3>1
  <2>3. CASE q[1] = b
    <3>1. q[2] \in 1..(Len(chain) + 1) /\ q[2] # 1
      BY <1>2, <1>3, <1>7, <2>1, <2>3
    <3>2. q[2] - 1 \in DOMAIN chain /\ (q[2] - 1) + 1 = q[2]
      BY <1>1, <1>2, <3>1
    <3>3. <<b, q[2] - 1>> \in Places
      BY <3>2 DEF Places
    <3>4. Moved(b, <<b, q[2] - 1>>) = q
      BY <2>1, <2>3, <3>2 DEF Moved
    <3> QED
      BY <3>3, <3>4
  <2> QED
    BY <2>2, <2>3
<1>8. Places' = {<<b, 1>>} \union {Moved(b, p) : p \in Places}
  BY <1>5, <1>6, <1>7
<1>9. ASSUME NEW g \in Holders, g[1] = 0
      PROVE  Moved(b, g) = g /\ Held(g)' = Held(g) /\ g # <<b, 1>>
  BY <1>9, MapConstants DEF Moved, Held
<1>10. /\ Holders = Places \union ({0} \X DOMAIN closed)
       /\ Holders' = Places' \union ({0} \X DOMAIN closed)
  BY DEF Holders
<1>11. Holders' = {<<b, 1>>} \union {Moved(b, g) : g \in Holders}
  <2>1. \A h \in {0} \X DOMAIN closed : Moved(b, h) = h
    BY <1>9, <1>10
  <2> QED
    BY <1>8, <1>10, <2>1
<1>12. ASSUME NEW g \in Holders
       PROVE  Held(Moved(b, g))' = Held(g) /\ Moved(b, g) # <<b, 1>>
  <2>1. CASE g[1] = 0
    BY <1>9, <2>1
  <2>2. CASE g[1] # 0
    <3>1. g \in Places
      BY <2>2, HolderFacts
    <3> QED
      BY <1>5, <3>1 DEF Held
  <2> QED
    BY <2>1, <2>2
<1>13. ASSUME NEW g \in Holders, NEW h \in Holders,
              Moved(b, g) = Moved(b, h)
       PROVE  g = h
  <2>1. ASSUME NEW e \in Holders
        PROVE  \/ e[1] = 0 /\ Moved(b, e) = e
               \/ /\ e[1] # 0 /\ e = <<e[1], e[2]>> /\ e[2] \in Nat
                  /\ Moved(b, e)[1] = e[1]
                  /\ Moved(b, e) = IF e[1] = b THEN <<b, e[2] + 1>> ELSE e
    BY <1>5, <1>9, HolderFacts DEF Moved
  <2>2. CASE g[1] = 0 \/ h[1] = 0
    BY <1>13, <2>1, <2>2
  <2>3. CASE g[1] # 0 /\ h[1] # 0
    <3>1. g[1] = h[1]
      BY <1>13, <2>1, <2>3
    <3>2. CASE g[1] = b
      <4>1. <<b, g[2] + 1>> = <<b, h[2] + 1>>
        BY <1>13, <2>1, <2>3, <3>1, <3>2
      <4>2. g[2] = h[2]
        BY <2>1, <2>3, <4>1
      <4> QED
        BY <2>1, <2>3, <3>1, <4>2
    <3>3. CASE g[1] # b
      BY <1>13, <2>1, <2>3, <3>1, <3>3
    <3> QED
      BY <3>2, <3>3
  <2> QED
    BY <2>2, <2>3
<1>14. Held(<<b, 1>>)' = new
  BY <1>6, MapConstants DEF Held
<1> QED
  BY <1>3, <1>5, <1>6, <1>8, <1>9, <1>11, <1>12, <1>13, <1>14

\* What a new partial trace is, with its span or without.
LEMMA FreshTrace ==
  ASSUME MapTypeOK, CallInsert, NEW span \in SpanInputs
  PROVE  LET empty == NewTrace(span.trace)
             new == AddSpan(empty, span)
         IN  /\ empty \in PartialTrace /\ empty.spans = <<>>
             /\ empty.id = span.trace /\ empty.last = clock
             /\ First(empty) = clock /\ Numbers(empty) = {}
             /\ new \in PartialTrace /\ Len(new.spans) = 1
             /\ new.id = span.trace /\ new.last = clock
             /\ First(new) = clock /\ Numbers(new) = {inserts + 1}
<1> DEFINE empty == NewTrace(span.trace)
           new == AddSpan(empty, span)
<1>1. /\ empty \in PartialTrace /\ empty.spans = <<>>
      /\ empty.id = span.trace /\ empty.last = clock
  BY MapConstants DEF NewTrace, PartialTrace, MapTypeOK
<1> HIDE DEF empty
<1>2. First(empty) = clock /\ Numbers(empty) = {} /\ Len(empty.spans) = 0
  BY <1>1 DEF First, Numbers
<1>3. /\ new \in PartialTrace /\ Len(new.spans) = 1
      /\ new.id = span.trace /\ new.last = clock /\ First(new) = clock
  <2>1. /\ new \in PartialTrace /\ new.id = empty.id /\ new.last = clock
        /\ Len(new.spans) = Len(empty.spans) + 1
        /\ First(new) = IF empty.spans = <<>> THEN clock ELSE First(empty)
    BY <1>1, AddSpanFacts
  <2> HIDE DEF new
  <2> QED
    BY <1>1, <1>2, <2>1
<1>4. Numbers(new) = {inserts + 1}
  BY <1>1, <1>2, AddSpanNumbers
<1> QED
  BY <1>1, <1>2, <1>3, <1>4 DEF empty

\* The new trace keeps the invariant, whether or not it has its span.
LEMMA HeadStep ==
  ASSUME MapInv, CallInsert, NEW span \in SpanInputs, Unknown(span.trace),
         ~AtTraceCap, NEW new \in PartialTrace,
         buckets' = [buckets EXCEPT ![Hash[span.trace]] = <<new>> \o @],
         count' = count + 1,
         UNCHANGED <<tracesDropped, spansDropped, clock, flushNow, closed>>,
         new.id = span.trace, new.last = clock, First(new) = clock,
         \/ /\ new.spans = <<>> /\ Numbers(new) = {}
            /\ refused' = refused + 1
         \/ /\ Len(new.spans) = 1 /\ Numbers(new) = {inserts + 1}
            /\ refused' = refused
  PROVE  MapInv'
<1> DEFINE b == Hash[span.trace]
           top == <<b, 1>>
           n == inserts + 1
<1>1. /\ MapTypeOK /\ inserts \in Nat /\ clock \in Nat /\ b \in 1..NumBuckets
      /\ inserts' = n /\ n \in 0..MaxInserts /\ closed' = closed
      /\ new.spans \in Seq(SpanNode) /\ clock' = clock
      /\ destroyed' = destroyed /\ freed' = freed
  <2>1. destroyed' = destroyed /\ freed' = freed
    BY DEF CallInsert
  <2>2. inserts' = n /\ inserts < MaxInserts
    BY DEF CallInsert
  <2>3. /\ MapTypeOK /\ inserts \in 0..MaxInserts /\ clock \in 0..MaxTicks
        /\ b \in 1..NumBuckets /\ new.spans \in Seq(SpanNode)
    BY MapConstants, PartialTraceFacts DEF MapInv, MapTypeOK
  <2> HIDE DEF b
  <2> QED
    BY <2>1, <2>2, <2>3, MapConstants
<1>2. /\ buckets' \in [1..NumBuckets -> Seq(PartialTrace)]
      /\ Places' = {top} \union {Moved(b, p) : p \in Places}
      /\ Holders' = {top} \union {Moved(b, g) : g \in Holders}
      /\ At(top)' = new /\ Held(top)' = new
      /\ \A p \in Places : /\ At(Moved(b, p))' = At(p)
                           /\ Moved(b, p)[1] = p[1]
      /\ \A g \in Holders : /\ Held(Moved(b, g))' = Held(g)
                            /\ Moved(b, g) # top
                            /\ g[1] = 0 => Moved(b, g) = g
      /\ \A g, h \in Holders : Moved(b, g) = Moved(b, h) => g = h
  BY <1>1, HeadAdded
<1> HIDE DEF b, n
<1>3. \A p \in Places : p \in Holders /\ p[1] # 0
  BY <1>1, HolderFacts, MapConstants
<1>4. MapTypeOK'
  BY <1>1, <1>2 DEF MapInv, MapTypeOK
<1>5. \A p \in Places : At(p).id # span.trace
  <2> SUFFICES ASSUME NEW p \in Places, At(p).id = span.trace
               PROVE  FALSE
    OBVIOUS
  <2>1. p[1] = b /\ p[2] \in DOMAIN buckets[p[1]]
    BY PlaceFacts DEF MapInv, MapWellFormed, b
  <2> QED
    BY <2>1 DEF Unknown, Chain, At, b
<1>6. MapWellFormed'
  <2>1. ASSUME NEW p \in Places', NEW q \in Places', At(p)'.id = At(q)'.id
        PROVE  p = q
    <3>1. CASE p = top /\ q = top
      BY <3>1
    <3>2. CASE p = top /\ q # top
      BY <1>2, <1>5, <2>1, <3>2
    <3>3. CASE p # top /\ q = top
      BY <1>2, <1>5, <2>1, <3>3
    <3>4. CASE p # top /\ q # top
      <4>1. PICK e \in Places, f \in Places : p = Moved(b, e) /\ q = Moved(b, f)
        BY <1>2, <3>4
      <4>2. At(e).id = At(f).id
        BY <1>2, <2>1, <4>1
      <4> QED
        BY <4>1, <4>2 DEF MapInv, MapWellFormed
    <3> QED
      BY <3>1, <3>2, <3>3, <3>4
  <2>2. ASSUME NEW p \in Places' PROVE Hash[At(p)'.id] = p[1]
    <3>1. CASE p = top
      BY <1>2, <3>1 DEF b
    <3>2. CASE p # top
      <4>1. PICK e \in Places : p = Moved(b, e)
        BY <1>2, <3>2
      <4>2. At(p)' = At(e) /\ p[1] = e[1]
        BY <1>2, <4>1
      <4> QED
        BY <4>2 DEF MapInv, MapWellFormed
    <3> QED
      BY <3>1, <3>2
  <2>3. Cardinality(Places') = Cardinality(Places) + 1
    <3> DEFINE rest == {Moved(b, p) : p \in Places}
               move == [p \in Places |-> Moved(b, p)]
    <3>1. move \in Bijection(Places, rest)
      <4>1. move \in [Places -> rest]
        OBVIOUS
      <4>2. \A p, q \in Places : move[p] = move[q] => p = q
        BY <1>2, <1>3
      <4>3. \A q \in rest : \E p \in Places : move[p] = q
        OBVIOUS
      <4> QED
        BY <4>1, <4>2, <4>3, Fun_IsBij
    <3>2. IsFiniteSet(Places) /\ ExistsBijection(Places, rest)
      BY <1>1, <3>1, PlacesFinite, Fun_ExistsBij DEF MapTypeOK
    <3>3. IsFiniteSet(rest) /\ Cardinality(rest) = Cardinality(Places)
      BY <3>2, FS_Bijection
    <3>4. top \notin rest
      BY <1>2, <1>3
    <3>5. Places' = rest \union {top}
      BY <1>2
    <3> HIDE DEF rest
    <3> QED
      BY <3>3, <3>4, <3>5, FS_AddElement
  <2>4. count' = Cardinality(Places') /\ (MaxTraces > 0 => count' <= MaxTraces)
    BY <1>1, <2>3, MapConstants
       DEF MapInv, MapWellFormed, MapTypeOK, AtTraceCap
  <2>5. MaxSpansPerTrace > 0 =>
           \A p \in Places' : Len(At(p)'.spans) <= MaxSpansPerTrace
    <3> SUFFICES ASSUME MaxSpansPerTrace > 0, NEW p \in Places'
                 PROVE  Len(At(p)'.spans) <= MaxSpansPerTrace
      OBVIOUS
    <3>1. CASE p = top
      <4>1. Len(new.spans) \in 0..1
        OBVIOUS
      <4>2. At(p)' = new
        BY <1>2, <3>1
      <4>3. \A k \in 0..1 : k <= MaxSpansPerTrace
        BY MapConstants
      <4>4. Len(At(p)'.spans) \in 0..1
        BY <4>1, <4>2
      <4> QED
        BY <4>3, <4>4
    <3>2. CASE p # top
      <4>1. PICK e \in Places : p = Moved(b, e)
        BY <1>2, <3>2
      <4>2. At(p)' = At(e)
        BY <1>2, <4>1
      <4> QED
        BY <4>2 DEF MapInv, MapWellFormed
    <3> QED
      BY <3>1, <3>2
  <2> QED
    BY <2>1, <2>2, <2>4, <2>5 DEF MapWellFormed
<1>7. Stored \subseteq 1..inserts /\ n \notin Stored
  BY <1>1 DEF MapInv, StoredEarlier, n
<1>8. \A g \in Holders : Numbers(Held(g)) \subseteq Stored
  BY <1>1, NumbersFacts
<1>9. \A g \in Holders : Numbers(Held(Moved(b, g)))' = Numbers(Held(g))
  BY <1>2 DEF Numbers
<1>10. Numbers(Held(top))' = Numbers(new)
  BY <1>2 DEF Numbers
<1>11. Stored' = Stored \union Numbers(new)
  <2>1. Stored' = (UNION {Numbers(Held(h))' : h \in Holders'}) \union freed
    BY <1>1 DEF Stored
  <2>2. Stored' \subseteq Stored \union Numbers(new)
    <3> SUFFICES ASSUME NEW h \in Holders'
                 PROVE  Numbers(Held(h))' \subseteq Stored \union Numbers(new)
      BY <2>1 DEF Stored
    <3>1. CASE h = top
      BY <1>10, <3>1
    <3>2. CASE h # top
      <4>1. PICK g \in Holders : h = Moved(b, g)
        BY <1>2, <3>2
      <4>2. Numbers(Held(h))' = Numbers(Held(g))
        BY <1>9, <4>1
      <4> QED
        BY <1>8, <4>2
    <3> QED
      BY <3>1, <3>2
  <2>3. Stored \union Numbers(new) \subseteq Stored'
    <3>1. Numbers(new) \subseteq Stored'
      BY <1>2, <1>10, <2>1
    <3>2. \A g \in Holders : Numbers(Held(g)) \subseteq Stored'
      BY <1>2, <1>9, <2>1
    <3> QED
      BY <2>1, <3>1, <3>2 DEF Stored
  <2> QED
    BY <2>2, <2>3
<1>12. Numbers(new) \subseteq {n}
  BY DEF n
<1>13. StoredEarlier'
  <2>1. 1..inserts \subseteq 1..n /\ n \in 1..n
    BY <1>1 DEF n
  <2> QED
    BY <1>1, <1>7, <1>11, <1>12, <2>1 DEF StoredEarlier
<1>14. SpansConserved'
  <2>1. ASSUME NEW g \in Holders', NEW h \in Holders', g # h
        PROVE  Numbers(Held(g))' \intersect Numbers(Held(h))' = {}
    <3>1. ASSUME NEW e \in Holders
          PROVE  Numbers(Held(Moved(b, e)))' \intersect Numbers(new) = {}
      BY <1>7, <1>8, <1>9, <1>12
    <3>2. CASE g = top \/ h = top
      <4>1. PICK e \in Holders : g = Moved(b, e) \/ h = Moved(b, e)
        BY <1>2, <2>1, <3>2
      <4> QED
        BY <1>2, <1>10, <2>1, <3>1, <3>2, <4>1
    <3>3. CASE g # top /\ h # top
      <4>1. PICK e \in Holders, f \in Holders :
               g = Moved(b, e) /\ h = Moved(b, f)
        BY <1>2, <3>3
      <4>2. Numbers(Held(e)) \intersect Numbers(Held(f)) = {}
        BY <2>1, <4>1 DEF MapInv, SpansConserved
      <4> QED
        BY <1>9, <4>1, <4>2
    <3> QED
      BY <3>2, <3>3
  <2>2. ASSUME NEW h \in Holders',
               NEW i \in DOMAIN Held(h)'.spans,
               NEW j \in DOMAIN Held(h)'.spans,
               Held(h)'.spans[i].n = Held(h)'.spans[j].n
        PROVE  i = j
    <3>1. CASE h = top
      <4>1. i \in 1..1 /\ j \in 1..1
        BY <1>1, <1>2, <3>1
      <4> QED
        BY <4>1
    <3>2. CASE h # top
      <4>1. PICK e \in Holders : h = Moved(b, e)
        BY <1>2, <3>2
      <4> QED
        BY <1>2, <2>2, <4>1 DEF MapInv, SpansConserved
    <3> QED
      BY <3>1, <3>2
  <2>4. ASSUME NEW h \in Holders'
        PROVE  Numbers(Held(h))' \intersect freed' = {}
    <3>1. CASE h = top
      <4>1. n \notin freed
        BY <1>7, FreedFacts
      <4> QED
        BY <1>1, <1>10, <1>12, <3>1, <4>1
    <3>2. CASE h # top
      <4>1. PICK e \in Holders : h = Moved(b, e)
        BY <1>2, <3>2
      <4>2. Numbers(Held(e)) \intersect freed = {}
        BY DEF MapInv, SpansConserved
      <4> QED
        BY <1>1, <1>9, <4>1, <4>2
    <3> QED
      BY <3>1, <3>2
  <2>3. Cardinality(Stored') = inserts' - tracesDropped' - spansDropped'
                                  - refused'
    <3>1. IsFiniteSet(1..inserts)
      BY <1>1, FS_Interval
    <3>2. IsFiniteSet(Stored) /\ Cardinality(Stored) \in Nat
      BY <1>7, <3>1, FS_Subset, FS_CardinalityType
    <3>3. Cardinality(Stored \union {n}) = Cardinality(Stored) + 1
      BY <1>7, <3>2, FS_AddElement
    <3>4. /\ Cardinality(Stored)
                = inserts - tracesDropped - spansDropped - refused
          /\ tracesDropped \in Nat /\ spansDropped \in Nat /\ refused \in Nat
      BY DEF MapInv, SpansConserved, MapTypeOK
    <3>5. CASE Numbers(new) = {} /\ refused' = refused + 1
      BY <1>1, <1>11, <3>2, <3>4, <3>5 DEF n
    <3>6. CASE Numbers(new) = {n} /\ refused' = refused
      BY <1>1, <1>11, <3>2, <3>3, <3>4, <3>6 DEF n
    <3> QED
      BY <3>5, <3>6 DEF n
  <2> QED
    BY <2>1, <2>2, <2>3, <2>4 DEF SpansConserved
<1>15. Chronology'
  <2>1. ASSUME NEW h \in Holders' PROVE Held(h)'.last <= clock
    <3>1. CASE h = top
      BY <1>1, <1>2, <3>1
    <3>2. CASE h # top
      <4>1. PICK e \in Holders : h = Moved(b, e)
        BY <1>2, <3>2
      <4>2. Held(h)' = Held(e)
        BY <1>2, <4>1
      <4> QED
        BY <4>2 DEF MapInv, Chronology
    <3> QED
      BY <3>1, <3>2
  <2> QED
    BY <1>1, <2>1 DEF MapInv, Chronology
<1>16. SplitOnlyByInactivity'
  <2> SUFFICES ASSUME NEW i \in DOMAIN closed, NEW h \in Holders',
                      Held(h)'.id = closed[i].pt.id, h[1] = 0 => h[2] > i
               PROVE  First(Held(h))' - closed[i].pt.last
                         >= closed[i].timeout * TicksPerSec
    BY <1>1 DEF SplitOnlyByInactivity
  <2>1. CASE h = top
    <3>1. First(Held(h))' = clock
      BY <1>2, <2>1 DEF First
    <3> QED
      BY <3>1 DEF MapInv, Chronology
  <2>2. CASE h # top
    <3>1. PICK e \in Holders : h = Moved(b, e)
      BY <1>2, <2>2
    <3>2. Held(h)' = Held(e) /\ (e[1] = 0 => e[2] > i)
      BY <1>2, <3>1
    <3>3. First(Held(h))' = First(Held(e))
      BY <3>2 DEF First
    <3> QED
      BY <3>2, <3>3 DEF MapInv, SplitOnlyByInactivity
  <2> QED
    BY <2>1, <2>2
<1>17. FreedAtEnd'
  BY <1>1 DEF MapInv, FreedAtEnd
<1> QED
  BY <1>4, <1>6, <1>13, <1>14, <1>15, <1>16, <1>17 DEF MapInv

\* So the two insertions of an unknown trace keep the invariant.
LEMMA NewStep ==
  ASSUME MapInv, NEW span \in SpanInputs,
         InsertNew(span) \/ InsertEmptyTrace(span)
  PROVE  MapInv'
<1> DEFINE empty == NewTrace(span.trace)
           new == AddSpan(empty, span)
<1>1. /\ MapTypeOK /\ CallInsert /\ Unknown(span.trace) /\ ~AtTraceCap
      /\ count' = count + 1
      /\ UNCHANGED <<tracesDropped, spansDropped, clock, flushNow, closed>>
  BY DEF MapInv, InsertNew, InsertEmptyTrace
<1>2. /\ empty \in PartialTrace /\ empty.spans = <<>>
      /\ empty.id = span.trace /\ empty.last = clock
      /\ First(empty) = clock /\ Numbers(empty) = {}
      /\ new \in PartialTrace /\ Len(new.spans) = 1
      /\ new.id = span.trace /\ new.last = clock
      /\ First(new) = clock /\ Numbers(new) = {inserts + 1}
  BY <1>1, FreshTrace
<1>3. \/ /\ buckets' = [buckets EXCEPT ![Hash[span.trace]] = <<new>> \o @]
         /\ refused' = refused
      \/ /\ buckets' = [buckets EXCEPT ![Hash[span.trace]] = <<empty>> \o @]
         /\ refused' = refused + 1
  BY DEF InsertNew, InsertEmptyTrace
<1> HIDE DEF empty, new
<1> QED
  BY <1>1, <1>2, <1>3, HeadStep

-----------------------------------------------------------------------------
(* A scan moves partial traces to other holders and changes none. *)

\* The places of chain b that a scan leaves.
KeptIn(b, out) == {p \in Places \ out : p[1] = b}

\* A sequence put after another.
LEMMA ConcatFacts ==
  ASSUME NEW S, NEW s \in Seq(S), NEW t \in Seq(S)
  PROVE  /\ s \o t \in Seq(S) /\ Len(s) \in Nat /\ Len(t) \in Nat
         /\ Len(s \o t) = Len(s) + Len(t)
         /\ DOMAIN (s \o t) = 1..(Len(s) + Len(t))
         /\ \A i \in DOMAIN s : (s \o t)[i] = s[i]
         /\ \A i \in (Len(s) + 1)..(Len(s) + Len(t)) :
               (s \o t)[i] = t[i - Len(s)]
OBVIOUS

\* Where the partial trace of holder h was before the scan that removed out.
Source(out, h) ==
    IF h[1] = 0
    THEN IF h[2] \in DOMAIN closed THEN h ELSE Nth(out, h[2] - Len(closed))
    ELSE Nth(KeptIn(h[1], out), h[2])

\* The traces at some places, in scan order, are a sequence.
LEMMA InOrderFacts ==
  ASSUME MapTypeOK, NEW P \in SUBSET Places
  PROVE  /\ P \in SUBSET (Nat \X Nat) /\ IsFiniteSet(P)
         /\ Cardinality(P) \in Nat
         /\ InOrder(P) \in Seq(PartialTrace)
         /\ DOMAIN InOrder(P) = 1..Cardinality(P)
         /\ \A k \in 1..Cardinality(P) : /\ Nth(P, k) \in P
                                         /\ InOrder(P)[k] = At(Nth(P, k))
<1>1. /\ IsFiniteSet(Places) /\ Places \subseteq Nat \X Nat
      /\ \A p \in Places : At(p) \in PartialTrace
  BY PlacesFinite DEF MapTypeOK
<1>2. P \in SUBSET (Nat \X Nat) /\ IsFiniteSet(P)
  BY <1>1, FS_Subset
<1>3. /\ Cardinality(P) \in Nat
      /\ \A k \in 1..Cardinality(P) : Nth(P, k) \in P
  BY <1>2, NthFacts
<1>4. InOrder(P) \in [1..Cardinality(P) -> PartialTrace]
  BY <1>1, <1>3 DEF InOrder
<1>5. InOrder(P) \in Seq(PartialTrace)
  BY <1>3, <1>4
<1> QED
  BY <1>2, <1>3, <1>5 DEF InOrder

\* The traces removed had been inactive for the timeout.
LEMMA BatchExpired ==
  ASSUME MapTypeOK, flushNow # NotSampled, NEW timeout \in Timeouts,
         NEW maxOut, NEW p \in Batch(timeout, maxOut)
  PROVE  /\ p \in Places
         /\ clock - At(p).last >= timeout * TicksPerSec
<1>1. p \in Places /\ ElapsedSec(flushNow, At(p).last) >= timeout
  BY DEF Batch, Due, TimedOut
<1>2. /\ At(p).last \in Nat /\ timeout \in Nat
      /\ flushNow \in Nat /\ clock \in Nat /\ flushNow <= clock
  BY <1>1, HolderFacts, PartialTraceFacts, MapConstants DEF MapTypeOK
<1>3. flushNow - At(p).last >= timeout * TicksPerSec
  BY <1>1, <1>2, ElapsedMeans
<1>4. timeout * TicksPerSec \in Nat
  <2>1. TicksPerSec \in Nat
    BY MapConstants
  <2>2. \A m, n \in Nat : m * n \in Nat
    OBVIOUS
  <2> QED
    BY <1>2, <2>1, <2>2
<1> QED
  BY <1>1, <1>2, <1>3, <1>4

\* A scan moves each trace of the map to a place of its chain or to the end
\* of what was handed out, and does so one to one.
LEMMA ScanMoves ==
  ASSUME MapTypeOK, NEW timeout \in Timeouts, NEW maxOut,
         FlushScan(timeout, maxOut), NEW out, out = Batch(timeout, maxOut)
  PROVE  /\ out \subseteq Places /\ IsFiniteSet(out)
         /\ Cardinality(out) \in Nat
         /\ buckets' \in [1..NumBuckets -> Seq(PartialTrace)]
         /\ closed' \in Seq([pt : PartialTrace, timeout : Timeouts])
         /\ Len(closed') = Len(closed) + Cardinality(out)
         /\ \A i \in DOMAIN closed : closed'[i] = closed[i]
         /\ \A i \in DOMAIN closed' :
               i \notin DOMAIN closed => /\ closed'[i].timeout = timeout
                                         /\ Source(out, <<0, i>>) \in out
         /\ \A p \in Places' : /\ Source(out, p) \in Places \ out
                               /\ Source(out, p)[1] = p[1]
                               /\ At(p)' = At(Source(out, p))
         /\ \A q \in Places \ out : \E p \in Places' : Source(out, p) = q
         /\ \A h \in Holders' : /\ Source(out, h) \in Holders
                                /\ Held(h)' = Held(Source(out, h))
         /\ \A g, h \in Holders' : Source(out, g) = Source(out, h) => g = h
         /\ \A g \in Holders : \E h \in Holders' : Source(out, h) = g
<1> DEFINE m == Cardinality(out)
           S == [pt : PartialTrace, timeout : Timeouts]
           L == Len(closed)
           last == [k \in 1..m |-> [pt |-> InOrder(out)[k], timeout |-> timeout]]
           from(h) == Source(out, h)
<1>1. /\ out \in SUBSET Places
      /\ buckets' = [b \in 1..NumBuckets |-> InOrder(KeptIn(b, out))]
      /\ closed' = closed \o last
  BY DEF FlushScan, Batch, Due, KeptIn
<1>2. /\ IsFiniteSet(out) /\ m \in Nat
      /\ out \in SUBSET (Nat \X Nat)
      /\ InOrder(out) \in Seq(PartialTrace) /\ DOMAIN InOrder(out) = 1..m
      /\ \A k \in 1..m : Nth(out, k) \in out /\ InOrder(out)[k] = At(Nth(out, k))
      /\ \A j, k \in 1..m : Nth(out, j) = Nth(out, k) => j = k
      /\ \A p \in out : \E k \in 1..m : Nth(out, k) = p
  BY <1>1, InOrderFacts, NthFacts
<1>3. ASSUME NEW b \in 1..NumBuckets
      PROVE  LET K == KeptIn(b, out)
                 n == Cardinality(K)
             IN  /\ K \subseteq Places \ out /\ n \in Nat
                 /\ \A p \in K : p[1] = b
                 /\ InOrder(K) \in Seq(PartialTrace)
                 /\ DOMAIN InOrder(K) = 1..n
                 /\ \A k \in 1..n : /\ Nth(K, k) \in K
                                    /\ InOrder(K)[k] = At(Nth(K, k))
                 /\ \A j, k \in 1..n : Nth(K, j) = Nth(K, k) => j = k
                 /\ \A p \in K : \E k \in 1..n : Nth(K, k) = p
  <2> DEFINE K == KeptIn(b, out)
  <2>1. K \in SUBSET Places /\ K \subseteq Places \ out /\ \A p \in K : p[1] = b
    BY DEF KeptIn
  <2> HIDE DEF K
  <2>2. /\ K \in SUBSET (Nat \X Nat) /\ IsFiniteSet(K)
        /\ Cardinality(K) \in Nat
        /\ InOrder(K) \in Seq(PartialTrace)
        /\ DOMAIN InOrder(K) = 1..Cardinality(K)
        /\ \A k \in 1..Cardinality(K) : /\ Nth(K, k) \in K
                                        /\ InOrder(K)[k] = At(Nth(K, k))
    BY <2>1, InOrderFacts
  <2>3. /\ \A j, k \in 1..Cardinality(K) : Nth(K, j) = Nth(K, k) => j = k
        /\ \A p \in K : \E k \in 1..Cardinality(K) : Nth(K, k) = p
    BY <2>2, NthFacts
  <2> QED
    BY <2>1, <2>2, <2>3 DEF K
<1>4. buckets' \in [1..NumBuckets -> Seq(PartialTrace)]
  BY <1>1, <1>3
<1>5. ASSUME NEW p \in Places'
      PROVE  /\ p = <<p[1], p[2]>> /\ p[1] \in 1..NumBuckets /\ p[1] # 0
             /\ p[2] \in 1..Cardinality(KeptIn(p[1], out))
             /\ from(p) = Nth(KeptIn(p[1], out), p[2])
             /\ from(p) \in Places \ out /\ from(p)[1] = p[1]
             /\ At(p)' = At(from(p))
  <2>1. /\ p = <<p[1], p[2]>> /\ p[1] \in 1..NumBuckets
        /\ p[2] \in DOMAIN buckets'[p[1]]
    BY DEF Places
  <2>2. buckets'[p[1]] = InOrder(KeptIn(p[1], out)) /\ p[1] # 0
    BY <1>1, <2>1, MapConstants
  <2>3. from(p) = Nth(KeptIn(p[1], out), p[2])
    BY <2>2 DEF Source
  <2> QED
    BY <1>3, <2>1, <2>2, <2>3 DEF At
<1>6. ASSUME NEW q \in Places \ out
      PROVE  \E p \in Places' : from(p) = q
  <2>1. q[1] \in 1..NumBuckets /\ q \in KeptIn(q[1], out)
    BY PlaceFacts DEF KeptIn
  <2>2. PICK k \in 1..Cardinality(KeptIn(q[1], out)) :
           Nth(KeptIn(q[1], out), k) = q
    BY <1>3, <2>1
  <2>3. k \in DOMAIN buckets'[q[1]]
    BY <1>1, <1>3, <2>1, <2>2
  <2>4. <<q[1], k>> \in Places'
    BY <2>1, <2>3 DEF Places
  <2> QED
    BY <1>5, <2>2, <2>4
<1>7. ASSUME NEW p \in Places', NEW q \in Places', from(p) = from(q)
      PROVE  p = q
  <2>1. p[1] = q[1]
    BY <1>5, <1>7
  <2>2. p[2] = q[2]
    BY <1>3, <1>5, <1>7, <2>1
  <2> QED
    BY <1>5, <2>1, <2>2
<1>8. /\ closed \in Seq(S) /\ L \in Nat /\ DOMAIN closed = 1..L
      /\ last \in Seq(S) /\ Len(last) = m
  <2>1. closed \in Seq(S) /\ L \in Nat /\ DOMAIN closed = 1..L
    BY DEF MapTypeOK
  <2>2. last \in [1..m -> S]
    <3>1. \A k \in 1..m : InOrder(out)[k] \in PartialTrace
      BY <1>2
    <3> QED
      BY <3>1
  <2> HIDE DEF last, S
  <2>3. last \in Seq(S) /\ Len(last) = m
    BY <1>2, <2>2
  <2> QED
    BY <2>1, <2>3
<1>9. /\ closed' \in Seq(S) /\ Len(closed') = L + m
      /\ DOMAIN closed' = 1..(L + m)
      /\ \A i \in DOMAIN closed : closed'[i] = closed[i]
      /\ \A i \in (L + 1)..(L + m) : closed'[i] = last[i - L]
  <2> HIDE DEF last, S
  <2>1. /\ closed \o last \in Seq(S)
        /\ Len(closed \o last) = Len(closed) + Len(last)
        /\ DOMAIN (closed \o last) = 1..(Len(closed) + Len(last))
        /\ \A i \in DOMAIN closed : (closed \o last)[i] = closed[i]
        /\ \A i \in (Len(closed) + 1)..(Len(closed) + Len(last)) :
              (closed \o last)[i] = last[i - Len(closed)]
    BY <1>8, ConcatFacts
  <2> QED
    BY <1>1, <1>8, <2>1
<1>10. ASSUME NEW i \in DOMAIN closed', i \notin DOMAIN closed
       PROVE  /\ i - L \in 1..m /\ from(<<0, i>>) = Nth(out, i - L)
              /\ closed'[i].timeout = timeout /\ from(<<0, i>>) \in out
              /\ closed'[i].pt = At(from(<<0, i>>))
  <2>1. i \in (L + 1)..(L + m) /\ i - L \in 1..m
    BY <1>2, <1>8, <1>9, <1>10
  <2>2. from(<<0, i>>) = Nth(out, i - L)
    BY <1>10 DEF Source
  <2>3. closed'[i] = [pt |-> InOrder(out)[i - L], timeout |-> timeout]
    BY <1>9, <2>1
  <2> QED
    BY <1>2, <2>1, <2>2, <2>3
<1>11. ASSUME NEW i \in DOMAIN closed
       PROVE  from(<<0, i>>) = <<0, i>> /\ i \in DOMAIN closed'
  BY <1>2, <1>8, <1>9 DEF Source
<1>12. ASSUME NEW h \in Holders'
       PROVE  \/ h \in Places' /\ h[1] # 0
              \/ h[1] = 0 /\ h = <<0, h[2]>> /\ h[2] \in DOMAIN closed'
  BY <1>5 DEF Holders
<1>13. ASSUME NEW h \in Holders'
       PROVE  from(h) \in Holders /\ Held(h)' = Held(from(h))
  <2>1. CASE h \in Places'
    BY <1>5, <2>1, HolderFacts DEF Held
  <2>2. CASE h[1] = 0 /\ h = <<0, h[2]>> /\ h[2] \in DOMAIN closed
    BY <1>9, <1>11, <2>2, HolderFacts DEF Held
  <2>3. CASE h[1] = 0 /\ h = <<0, h[2]>> /\ h[2] \in DOMAIN closed' \ DOMAIN closed
    <3>1. /\ from(h) \in out /\ closed'[h[2]].pt = At(from(h))
      BY <1>10, <2>3
    <3>2. from(h) \in Holders /\ Held(from(h)) = At(from(h))
      BY <1>1, <3>1, HolderFacts
    <3> QED
      BY <2>3, <3>1, <3>2 DEF Held
  <2> QED
    BY <1>12, <2>1, <2>2, <2>3
<1>14. ASSUME NEW g \in Holders', NEW h \in Holders', from(g) = from(h)
       PROVE  g = h
  <2>1. ASSUME NEW e \in Holders'
        PROVE  \/ e \in Places' /\ from(e) \in Places \ out
               \/ /\ e = <<0, e[2]>> /\ e[2] \in DOMAIN closed
                  /\ from(e) = e /\ e \notin Places
               \/ /\ e = <<0, e[2]>> /\ e[2] \in Nat /\ e[2] - L \in 1..m
                  /\ from(e) = Nth(out, e[2] - L) /\ from(e) \in out
    <3>1. CASE e \in Places'
      BY <1>5, <3>1
    <3>2. CASE e = <<0, e[2]>> /\ e[2] \in DOMAIN closed
      BY <1>11, <3>2, HolderFacts, MapConstants
    <3>3. CASE e = <<0, e[2]>> /\ e[2] \in DOMAIN closed' \ DOMAIN closed
      BY <1>8, <1>9, <1>10, <3>3
    <3> QED
      BY <1>12, <3>1, <3>2, <3>3
  <2>2. CASE g \in Places' /\ from(g) \in Places \ out
    BY <1>7, <1>14, <2>1, <2>2
  <2>3. CASE from(g) = g /\ g \notin Places
    BY <1>1, <1>14, <2>1, <2>3
  <2>4. CASE /\ g = <<0, g[2]>> /\ g[2] \in Nat /\ g[2] - L \in 1..m
             /\ from(g) = Nth(out, g[2] - L) /\ from(g) \in out
    <3>1. /\ h = <<0, h[2]>> /\ h[2] \in Nat /\ h[2] - L \in 1..m
          /\ from(h) = Nth(out, h[2] - L)
      BY <1>1, <1>14, <2>1, <2>4
    <3>2. g[2] - L = h[2] - L
      <4>1. Nth(out, g[2] - L) = Nth(out, h[2] - L)
        BY <1>14, <2>4, <3>1
      <4> HIDE DEF L, m
      <4> QED
        BY <1>2, <2>4, <3>1, <4>1
    <3>3. g[2] = h[2]
      BY <1>8, <2>4, <3>1, <3>2
    <3> QED
      BY <2>4, <3>1, <3>3
  <2> QED
    BY <2>1, <2>2, <2>3, <2>4
<1>15. ASSUME NEW g \in Holders
       PROVE  \E h \in Holders' : from(h) = g
  <2>1. CASE g \in Places \ out
    BY <1>6, <2>1 DEF Holders
  <2>2. CASE g \in out
    <3>1. PICK k \in 1..m : Nth(out, k) = g
      BY <1>2, <2>2
    <3>2. /\ L + k \in DOMAIN closed' /\ L + k \notin DOMAIN closed
          /\ (L + k) - L = k
      BY <1>2, <1>8, <1>9, <3>1
    <3>3. from(<<0, L + k>>) = g /\ <<0, L + k>> \in Holders'
      BY <1>10, <3>1, <3>2 DEF Holders
    <3> QED
      BY <3>3
  <2>3. CASE g[1] = 0
    <3>1. g[2] \in DOMAIN closed /\ g = <<0, g[2]>>
      BY <2>3, HolderFacts
    <3>2. from(g) = g /\ g \in Holders'
      BY <1>11, <3>1 DEF Holders
    <3> QED
      BY <3>2
  <2> QED
    BY <2>1, <2>2, <2>3, HolderFacts
<1> QED
  BY <1>1, <1>2, <1>4, <1>5, <1>6, <1>9, <1>10, <1>13, <1>14, <1>15

\* A scan takes as many places from the map as it counts.
LEMMA ScanCount ==
  ASSUME MapTypeOK, NEW timeout \in Timeouts, NEW maxOut,
         FlushScan(timeout, maxOut)
  PROVE  Cardinality(Places') =
            Cardinality(Places) - Cardinality(Batch(timeout, maxOut))
<1> DEFINE out == Batch(timeout, maxOut)
           kept == Places \ out
           from == [p \in Places' |-> Source(out, p)]
<1>1. /\ out \subseteq Places
      /\ \A p \in Places' : Source(out, p) \in kept /\ p \in Holders'
      /\ \A q \in kept : \E p \in Places' : Source(out, p) = q
      /\ \A g, h \in Holders' : Source(out, g) = Source(out, h) => g = h
  BY ScanMoves DEF Holders
<1>2. IsFiniteSet(Places)
  BY PlacesFinite DEF MapTypeOK
<1> HIDE DEF out
<1>3. from \in Bijection(Places', kept)
  <2>1. from \in [Places' -> kept]
    BY <1>1
  <2>2. \A p, q \in Places' : from[p] = from[q] => p = q
    BY <1>1
  <2>3. \A q \in kept : \E p \in Places' : from[p] = q
    BY <1>1
  <2> QED
    BY <2>1, <2>2, <2>3, Fun_IsBij
<1>4. ExistsBijection(kept, Places')
  BY <1>3, Fun_ExistsBij, Fun_ExistsBijSymmetric
<1>5. /\ IsFiniteSet(kept)
      /\ Cardinality(kept) = Cardinality(Places) - Cardinality(Places \cap out)
  BY <1>2, FS_Difference
<1>6. Cardinality(Places') = Cardinality(kept)
  BY <1>4, <1>5, FS_Bijection
<1>7. Places \cap out = out
  BY <1>1
<1> QED
  BY <1>5, <1>6, <1>7 DEF out

\* A scan keeps the invariant.
LEMMA ScanStep ==
  ASSUME MapInv, NEW timeout \in Timeouts, NEW maxOut,
         FlushScan(timeout, maxOut)
  PROVE  MapInv'
<1> DEFINE out == Batch(timeout, maxOut)
           from(h) == Source(out, h)
<1>1. /\ MapTypeOK /\ flushNow # NotSampled /\ flushNow' = NotSampled
      /\ UNCHANGED <<tracesDropped, spansDropped, clock, inserts, refused,
                     destroyed, freed>>
      /\ count' = count - Cardinality(out)
  BY DEF MapInv, FlushScan
<1>2. /\ out \subseteq Places /\ IsFiniteSet(out) /\ Cardinality(out) \in Nat
      /\ buckets' \in [1..NumBuckets -> Seq(PartialTrace)]
      /\ closed' \in Seq([pt : PartialTrace, timeout : Timeouts])
      /\ \A i \in DOMAIN closed : closed'[i] = closed[i]
      /\ \A i \in DOMAIN closed' :
            i \notin DOMAIN closed => /\ closed'[i].timeout = timeout
                                      /\ from(<<0, i>>) \in out
  BY <1>1, ScanMoves
<1>3. /\ \A p \in Places' : /\ from(p) \in Places \ out
                            /\ from(p)[1] = p[1]
                            /\ At(p)' = At(from(p))
      /\ \A h \in Holders' : from(h) \in Holders /\ Held(h)' = Held(from(h))
      /\ \A g, h \in Holders' : from(g) = from(h) => g = h
      /\ \A g \in Holders : \E h \in Holders' : from(h) = g
  BY <1>1, ScanMoves
<1>4. Cardinality(Places') = Cardinality(Places) - Cardinality(out)
  BY <1>1, ScanCount
<1>5. ASSUME NEW p \in out
      PROVE  p \in Places /\ clock - At(p).last >= timeout * TicksPerSec
  BY <1>1, BatchExpired
<1>6. \A i \in DOMAIN closed : from(<<0, i>>) = <<0, i>>
  BY DEF Source
<1> HIDE DEF out, from
<1>7. /\ Places' \subseteq Holders'
      /\ \A i \in DOMAIN closed' : /\ <<0, i>> \in Holders'
                                   /\ Held(<<0, i>>)' = closed'[i].pt
      /\ \A h \in Holders' :
            \/ h \in Places'
            \/ h[1] = 0 /\ h[2] \in DOMAIN closed' /\ h = <<0, h[2]>>
  BY DEF Holders, Held
<1>8. MapTypeOK'
  <2>1. count' \in Nat
    <3>1. Cardinality(out) <= Cardinality(Places) /\ Cardinality(Places) \in Nat
      <4>1. IsFiniteSet(Places)
        BY <1>1, PlacesFinite DEF MapTypeOK
      <4> QED
        BY <1>2, <4>1, FS_Subset, FS_CardinalityType
    <3> QED
      BY <1>1, <1>2, <3>1 DEF MapInv, MapWellFormed
  <2> QED
    BY <1>1, <1>2, <2>1 DEF MapTypeOK
<1>9. MapWellFormed'
  <2>1. ASSUME NEW p \in Places', NEW q \in Places', At(p)'.id = At(q)'.id
        PROVE  p = q
    <3>1. At(from(p)).id = At(from(q)).id
      BY <1>3, <2>1
    <3>2. from(p) = from(q)
      BY <1>3, <3>1 DEF MapInv, MapWellFormed
    <3> QED
      BY <1>3, <1>7, <3>2
  <2>2. \A p \in Places' : Hash[At(p)'.id] = p[1]
    BY <1>3 DEF MapInv, MapWellFormed
  <2>3. count' = Cardinality(Places')
    BY <1>1, <1>4 DEF MapInv, MapWellFormed
  <2>4. MaxTraces > 0 => count' <= MaxTraces
    <3>1. count \in Nat /\ (MaxTraces > 0 => count <= MaxTraces)
      BY <1>1 DEF MapTypeOK, MapInv, MapWellFormed
    <3> QED
      BY <1>1, <1>2, <3>1, MapConstants
  <2>5. MaxSpansPerTrace > 0 =>
           \A p \in Places' : Len(At(p)'.spans) <= MaxSpansPerTrace
    BY <1>3 DEF MapInv, MapWellFormed
  <2> QED
    BY <2>1, <2>2, <2>3, <2>4, <2>5 DEF MapWellFormed
<1>10. \A h \in Holders' : Numbers(Held(h))' = Numbers(Held(from(h)))
  BY <1>3 DEF Numbers
<1>11. Stored' = Stored
  <2>1. Stored' = (UNION {Numbers(Held(h))' : h \in Holders'}) \union freed
    BY <1>1 DEF Stored
  <2>2. Stored' \subseteq Stored
    <3>1. ASSUME NEW h \in Holders'
          PROVE  Numbers(Held(h))' \subseteq Stored
      BY <1>3, <1>10 DEF Stored
    <3> QED
      BY <2>1, <3>1 DEF Stored
  <2>3. ASSUME NEW g \in Holders PROVE Numbers(Held(g)) \subseteq Stored'
    <3>1. PICK h \in Holders' : from(h) = g
      BY <1>3
    <3> QED
      BY <1>10, <2>1, <3>1
  <2> QED
    BY <2>1, <2>2, <2>3 DEF Stored
<1>12. StoredEarlier'
  BY <1>1, <1>11 DEF MapInv, StoredEarlier
<1>13. SpansConserved'
  <2>1. ASSUME NEW g \in Holders', NEW h \in Holders', g # h
        PROVE  Numbers(Held(g))' \intersect Numbers(Held(h))' = {}
    <3>1. from(g) # from(h) /\ from(g) \in Holders /\ from(h) \in Holders
      BY <1>3, <2>1
    <3> QED
      BY <1>10, <3>1 DEF MapInv, SpansConserved
  <2>2. \A h \in Holders' : \A i, j \in DOMAIN Held(h)'.spans :
           Held(h)'.spans[i].n = Held(h)'.spans[j].n => i = j
    BY <1>3 DEF MapInv, SpansConserved
  <2>3. \A h \in Holders' : Numbers(Held(h))' \intersect freed' = {}
    BY <1>1, <1>3, <1>10 DEF MapInv, SpansConserved
  <2> QED
    BY <1>1, <1>11, <2>1, <2>2, <2>3 DEF MapInv, SpansConserved
<1>14. Chronology'
  <2>1. \A h \in Holders' : Held(h)'.last <= clock
    BY <1>3 DEF MapInv, Chronology
  <2>2. ASSUME NEW i \in DOMAIN closed'
        PROVE  clock - closed'[i].pt.last >= closed'[i].timeout * TicksPerSec
    <3>1. CASE i \in DOMAIN closed
      BY <1>2, <3>1 DEF MapInv, Chronology
    <3>2. CASE i \notin DOMAIN closed
      <4>1. from(<<0, i>>) \in out /\ closed'[i].timeout = timeout
        BY <1>2, <3>2
      <4>2. closed'[i].pt = At(from(<<0, i>>))
        BY <1>1, <1>3, <1>5, <1>7, <4>1, HolderFacts
      <4> QED
        BY <1>5, <4>1, <4>2
    <3> QED
      BY <3>1, <3>2
  <2> QED
    BY <1>1, <2>1, <2>2 DEF Chronology
<1>15. SplitOnlyByInactivity'
  <2> SUFFICES ASSUME NEW i \in DOMAIN closed', NEW h \in Holders',
                      Held(h)'.id = closed'[i].pt.id, h[1] = 0 => h[2] > i
               PROVE  First(Held(h))' - closed'[i].pt.last
                         >= closed'[i].timeout * TicksPerSec
    BY DEF SplitOnlyByInactivity
  <2>1. /\ from(h) \in Holders /\ Held(h)' = Held(from(h))
        /\ First(Held(h))' = First(Held(from(h)))
    BY <1>3 DEF First
  <2>2. /\ h \notin Places' => h[1] = 0 /\ h[2] \in DOMAIN closed'
                               /\ h = <<0, h[2]>>
        /\ h \in Places' => from(h) \in Places
    BY <1>3, <1>7
  <2>3. CASE i \in DOMAIN closed
    <3>1. from(h)[1] = 0 => from(h)[2] > i
      <4>1. CASE h \in Places'
        BY <1>1, <2>2, <4>1, HolderFacts, MapConstants
      <4>2. CASE h \notin Places' /\ h[2] \in DOMAIN closed
        BY <1>6, <2>2, <4>2
      <4>3. CASE h \notin Places' /\ h[2] \notin DOMAIN closed
        BY <1>1, <1>2, <2>2, <4>3, HolderFacts, MapConstants
      <4> QED
        BY <4>1, <4>2, <4>3
    <3>2. closed'[i] = closed[i] /\ Held(from(h)).id = closed[i].pt.id
      BY <1>2, <2>1, <2>3
    <3> QED
      BY <2>1, <2>3, <3>1, <3>2 DEF MapInv, SplitOnlyByInactivity
  <2>4. CASE i \notin DOMAIN closed
    <3> DEFINE p == from(<<0, i>>)
    <3>1. p \in Places /\ closed'[i].pt = At(p)
      BY <1>1, <1>2, <1>3, <1>5, <1>7, <2>4, HolderFacts
    <3>2. from(h) \in Places
      <4>1. CASE h \in Places'
        BY <2>2, <4>1
      <4>2. CASE h \notin Places'
        <5>1. h[2] > i /\ h[2] \notin DOMAIN closed
          BY <1>1, <1>2, <1>8, <2>2, <2>4, <4>2 DEF MapTypeOK
        <5> QED
          BY <1>2, <2>2, <4>2, <5>1
      <4> QED
        BY <4>1, <4>2
    <3>3. At(from(h)).id = At(p).id
      BY <1>1, <2>1, <3>1, <3>2, HolderFacts
    <3>4. from(h) = p
      BY <3>1, <3>2, <3>3 DEF MapInv, MapWellFormed
    <3>5. h = <<0, i>>
      BY <1>3, <1>7, <3>4
    <3>6. i \in Nat
      BY <1>2
    <3> QED
      BY <3>5, <3>6
  <2> QED
    BY <2>3, <2>4
<1>16. FreedAtEnd'
  BY <1>1 DEF MapInv, FreedAtEnd
<1> QED
  BY <1>8, <1>9, <1>12, <1>13, <1>14, <1>15, <1>16 DEF MapInv

-----------------------------------------------------------------------------
(* The map is destroyed. *)

\* No place is left, and what was handed out stays as it was.
LEMMA DestroyMoves ==
  ASSUME MapTypeOK, MapDestroy
  PROVE  /\ Places' = {} /\ Holders' = {0} \X DOMAIN closed
         /\ Holders' \subseteq Holders
         /\ \A h \in Holders' : /\ h \notin Places
                                /\ Held(h)' = Held(h)
                                /\ Numbers(Held(h))' = Numbers(Held(h))
<1>1. closed' = closed /\ buckets' = [b \in 1..NumBuckets |-> <<>>]
  BY DEF MapDestroy
<1>2. Places' = {}
  <2>1. Places' = UNION {{b} \X DOMAIN buckets'[b] : b \in 1..NumBuckets}
    BY DEF Places
  <2>2. \A b \in 1..NumBuckets : {b} \X DOMAIN buckets'[b] = {}
    BY <1>1
  <2> QED
    BY <2>1, <2>2
<1>3. Holders' = {0} \X DOMAIN closed /\ Holders' \subseteq Holders
  BY <1>1, <1>2 DEF Holders
<1>4. ASSUME NEW h \in Holders'
      PROVE  /\ h \notin Places /\ Held(h)' = Held(h)
             /\ Numbers(Held(h))' = Numbers(Held(h))
  <2>1. h[1] = 0
    BY <1>3
  <2>2. Held(h)' = Held(h)
    BY <1>1, <2>1 DEF Held
  <2>3. h \notin Places
    BY <2>1, PlaceFacts, MapConstants
  <2> QED
    BY <2>2, <2>3 DEF Numbers
<1> QED
  BY <1>2, <1>3, <1>4

\* Destroying the map keeps the invariant.
LEMMA DestroyStep ==
  ASSUME MapInv, MapDestroy
  PROVE  MapInv'
<1>1. /\ MapTypeOK /\ freed = {} /\ destroyed' = TRUE /\ count' = 0
      /\ freed' = UNION {Numbers(At(p)) : p \in Places}
      /\ buckets' = [b \in 1..NumBuckets |-> <<>>]
      /\ UNCHANGED <<tracesDropped, spansDropped, clock, flushNow, closed,
                     inserts, refused>>
  BY DEF MapInv, FreedAtEnd, MapDestroy
<1>2. /\ Places' = {} /\ Holders' = {0} \X DOMAIN closed
      /\ Holders' \subseteq Holders
      /\ \A h \in Holders' : /\ h \notin Places
                             /\ Held(h)' = Held(h)
                             /\ Numbers(Held(h))' = Numbers(Held(h))
  BY <1>1, DestroyMoves
<1>3. /\ \A p \in Places : p \in Holders /\ Held(p) = At(p)
      /\ Holders = Places \union Holders'
  BY <1>1, <1>2, HolderFacts DEF Holders
<1>4. Stored' = Stored
  <2> DEFINE inMap == UNION {Numbers(At(p)) : p \in Places}
             out == UNION {Numbers(Held(h)) : h \in Holders'}
  <2>1. Stored = inMap \union out
    <3>1. ASSUME NEW n \in Stored PROVE n \in inMap \union out
      <4>1. PICK h \in Holders : n \in Numbers(Held(h))
        BY <1>1, <3>1 DEF Stored
      <4> QED
        BY <1>3, <4>1
    <3>2. inMap \subseteq Stored
      BY <1>3 DEF Stored
    <3>3. out \subseteq Stored
      BY <1>2 DEF Stored
    <3> QED
      BY <3>1, <3>2, <3>3
  <2>2. Stored' = (UNION {Numbers(Held(h))' : h \in Holders'}) \union inMap
    BY <1>1 DEF Stored
  <2> DEFINE outNow == UNION {Numbers(Held(h))' : h \in Holders'}
  <2>3. outNow = out
    BY <1>2
  <2>4. Stored' = outNow \union inMap
    BY <2>2
  <2> HIDE DEF inMap, out, outNow
  <2> QED
    BY <2>1, <2>3, <2>4
<1>5. MapTypeOK'
  <2>1. Stored \subseteq 1..inserts /\ inserts \in 0..MaxInserts
    BY <1>1 DEF MapInv, StoredEarlier, MapTypeOK
  <2>2. freed' \subseteq Stored
    BY <1>1, <1>3 DEF Stored
  <2>3. freed' \subseteq 1..MaxInserts
    BY <2>1, <2>2, MapConstants
  <2> QED
    BY <1>1, <2>3 DEF MapTypeOK
<1>6. MapWellFormed'
  BY <1>1, <1>2, FS_EmptySet, MapConstants DEF MapWellFormed
<1>7. SpansConserved'
  <2>1. \A g, h \in Holders' : g # h =>
           Numbers(Held(g))' \intersect Numbers(Held(h))' = {}
    BY <1>2 DEF MapInv, SpansConserved
  <2>2. \A h \in Holders' : \A i, j \in DOMAIN Held(h)'.spans :
           Held(h)'.spans[i].n = Held(h)'.spans[j].n => i = j
    BY <1>2 DEF MapInv, SpansConserved
  <2>3. ASSUME NEW h \in Holders'
        PROVE  Numbers(Held(h))' \intersect freed' = {}
    <3>1. \A p \in Places : Numbers(Held(h)) \intersect Numbers(Held(p)) = {}
      BY <1>2, <1>3 DEF MapInv, SpansConserved
    <3>2. \A p \in Places : Numbers(Held(h)) \intersect Numbers(At(p)) = {}
      BY <1>3, <3>1
    <3> QED
      BY <1>1, <1>2, <3>2
  <2>4. Cardinality(Stored') = inserts' - tracesDropped' - spansDropped'
                                  - refused'
    BY <1>1, <1>4 DEF MapInv, SpansConserved
  <2> QED
    BY <2>1, <2>2, <2>3, <2>4 DEF SpansConserved
<1>8. StoredEarlier'
  BY <1>1, <1>4 DEF MapInv, StoredEarlier
<1>9. Chronology'
  BY <1>1, <1>2 DEF MapInv, Chronology
<1>10. SplitOnlyByInactivity'
  <2>1. \A h \in Holders' : First(Held(h))' = First(Held(h))
    BY <1>2 DEF First
  <2> QED
    BY <1>1, <1>2, <2>1 DEF MapInv, SplitOnlyByInactivity
<1>11. FreedAtEnd'
  BY <1>1 DEF FreedAtEnd
<1> QED
  BY <1>5, <1>6, <1>7, <1>8, <1>9, <1>10, <1>11 DEF MapInv

-----------------------------------------------------------------------------
(* The invariant and what it says. *)

\* The map is empty at first.
LEMMA InitInv ==
  ASSUME MapInit
  PROVE  MapInv
<1>1. Places = {} /\ closed = <<>>
  BY DEF MapInit, Places
<1>2. Holders = {}
  BY <1>1 DEF Holders
<1>3. Stored = {} /\ freed = {}
  BY <1>2 DEF Stored, MapInit
<1>4. MapTypeOK
  <2>1. freed \subseteq 1..MaxInserts /\ destroyed \in BOOLEAN
    BY DEF MapInit
  <2> QED
    BY <2>1, MapConstants DEF MapInit, MapTypeOK, NotSampled
<1>5. Cardinality({}) = 0
  BY FS_EmptySet
<1>6. MapWellFormed
  BY <1>1, <1>5, MapConstants DEF MapWellFormed, MapInit
<1>7. SpansConserved
  BY <1>2, <1>3, <1>5 DEF SpansConserved, MapInit
<1>8. StoredEarlier
  BY <1>3 DEF StoredEarlier
<1>9. Chronology
  BY <1>1, <1>2 DEF Chronology
<1>10. SplitOnlyByInactivity
  BY <1>1, <1>2 DEF SplitOnlyByInactivity
<1>11. FreedAtEnd
  BY <1>3 DEF FreedAtEnd
<1> QED
  BY <1>4, <1>6, <1>7, <1>8, <1>9, <1>10, <1>11 DEF MapInv

\* Every step keeps the invariant.
LEMMA NextInv ==
  ASSUME MapInv, [MapNext]_mapVars
  PROVE  MapInv'
<1>1. ASSUME NEW span \in SpanInputs, InsertKnown(span)
      PROVE  MapInv'
  BY <1>1, KnownStep
<1>2. ASSUME NEW span \in SpanInputs,
             InsertNew(span) \/ InsertEmptyTrace(span)
      PROVE  MapInv'
  BY <1>2, NewStep
<1>3. ASSUME NEW span \in SpanInputs,
             \/ InsertTraceDropped(span) \/ InsertSpanDropped(span)
             \/ InsertNoMemory(span)
      PROVE  MapInv'
  BY <1>3, StillStep
<1>4. ASSUME FlushSample \/ Tick \/ UNCHANGED mapVars
      PROVE  MapInv'
  BY <1>4, StillStep
<1>5. ASSUME NEW timeout \in Timeouts, NEW maxOut, FlushScan(timeout, maxOut)
      PROVE  MapInv'
  BY <1>5, ScanStep
<1>6. ASSUME MapDestroy PROVE MapInv'
  BY <1>6, DestroyStep
<1> QED
  BY <1>1, <1>2, <1>3, <1>4, <1>5, <1>6
     DEF MapNext, InsertStored, InsertRejected

\* The inductive invariant of the trace map, whatever the hash function, the
\* caps, the timeouts and the interleaving of insertions, clock readings and
\* scans (assembler.c:188-297).
THEOREM MapInvariant == MapSpec => []MapInv
<1> QED
  BY InitInv, NextInv, PTL DEF MapSpec

\* The variables of the map keep their types.
THEOREM MapTypeCorrect == MapSpec => []MapTypeOK
<1>1. MapInv => MapTypeOK
  BY DEF MapInv
<1> QED
  BY <1>1, MapInvariant, PTL

\* At most one partial trace for an id, in its own chain; a right count; and
\* both caps respected (assembler.c:188-234, 257-297).
THEOREM MapIsWellFormed == MapSpec => []MapWellFormed
<1>1. MapInv => MapWellFormed
  BY DEF MapInv
<1> QED
  BY <1>1, MapInvariant, PTL

\* Every stored span is in exactly one partial trace, once, and every other
\* call is accounted for (assembler.c:188-234, 257-297).
THEOREM MapConservesSpans == MapSpec => []SpansConserved
<1>1. MapInv => SpansConserved
  BY DEF MapInv
<1> QED
  BY <1>1, MapInvariant, PTL

\* Partial traces of one id are at least the timeout apart, although a scan
\* uses a clock reading that insertions may have overtaken
\* (assembler.c:257-297).
THEOREM MapSplitsOnlyByInactivity == MapSpec => []SplitOnlyByInactivity
<1>1. MapInv => SplitOnlyByInactivity
  BY DEF MapInv
<1> QED
  BY <1>1, MapInvariant, PTL

\* A scan that may return more has left nothing behind that had timed out
\* (assembler.c:270-293, main.c:48-58).
LEMMA ScanLeavesNothing ==
  ASSUME MapTypeOK, NEW timeout \in Timeouts, NEW maxOut \in BatchSizes,
         FlushScan(timeout, maxOut), Len(closed') - Len(closed) < maxOut
  PROVE  \A p \in Places' : ~(TimedOut(At(p)', timeout))
<1> DEFINE out == Batch(timeout, maxOut)
           due == Due(timeout)
<1>1. /\ out \subseteq due /\ due \in SUBSET Places
      /\ out = {p \in due : Rank(p, due) < maxOut}
  BY DEF Batch, Due
<1>2. /\ IsFiniteSet(out) /\ Cardinality(out) \in Nat
      /\ Len(closed') = Len(closed) + Cardinality(out)
      /\ \A p \in Places' : /\ Source(out, p) \in Places \ out
                            /\ At(p)' = At(Source(out, p))
  BY ScanMoves
<1>3. /\ Len(closed) \in Nat /\ maxOut \in Nat \ {0}
  BY MapConstants DEF MapTypeOK
<1>4. Cardinality(out) < maxOut
  BY <1>2, <1>3
<1>5. /\ IsFiniteSet(due) /\ due \in SUBSET (Nat \X Nat)
      /\ Cardinality(due) \in Nat
  BY <1>1, InOrderFacts
<1> HIDE DEF out, due
<1>6. out = due
  <2>1. SUFFICES ASSUME NEW p \in due, p \notin out
                 PROVE  FALSE
    BY <1>1
  <2> DEFINE r == Rank(p, due)
             n == Cardinality(due)
  <2>2. r \in 0..(n - 1) /\ r >= maxOut
    BY <1>1, <1>3, <1>5, <2>1, RankFacts
  <2> DEFINE low == {q \in due : Rank(q, due) \in 0..(maxOut - 1)}
  <2>3. low = out
    BY <1>1, <1>3, <1>5, RankFacts
  <2> DEFINE rank == [q \in out |-> Rank(q, due)]
  <2>4. rank \in [out -> 0..(maxOut - 1)]
    BY <2>3
  <2>5. \A i \in 0..(maxOut - 1) : \E q \in out : rank[q] = i
    <3>1. SUFFICES ASSUME NEW i \in 0..(maxOut - 1)
                   PROVE  \E q \in out : Rank(q, due) = i
      OBVIOUS
    <3>2. i \in 0..(n - 1)
      BY <1>3, <1>5, <2>2
    <3>3. PICK q \in due : Rank(q, due) = i
      BY <1>5, <3>2, RankFacts
    <3>4. q \in out
      BY <2>3, <3>3
    <3> QED
      BY <3>3, <3>4
  <2>6. rank \in Surjection(out, 0..(maxOut - 1))
    BY <2>4, <2>5 DEF Surjection
  <2>7. Cardinality(0..(maxOut - 1)) <= Cardinality(out)
    <3> HIDE DEF rank
    <3> QED
      BY <1>2, <2>6, FS_Surjection
  <2>8. Cardinality(0..(maxOut - 1)) = maxOut
    <3>1. 0 \in Int /\ maxOut - 1 \in Int
      BY <1>3
    <3>2. Cardinality(0..(maxOut - 1)) =
             IF 0 > maxOut - 1 THEN 0 ELSE (maxOut - 1) - 0 + 1
      BY <3>1, FS_Interval
    <3> QED
      BY <1>3, <3>2
  <2> QED
    BY <1>2, <1>3, <1>4, <2>7, <2>8
<1>7. SUFFICES ASSUME NEW p \in Places'
               PROVE  ~(TimedOut(At(p)', timeout))
  OBVIOUS
<1>8. Source(out, p) \in Places \ due /\ At(p)' = At(Source(out, p))
  BY <1>2, <1>6
<1>9. ~TimedOut(At(Source(out, p)), timeout)
  BY <1>8 DEF due, Due
<1> QED
  BY <1>8, <1>9

\* The caller's loop may stop at a scan that is not full (assembler.c:270-293,
\* main.c:48-58).
THEOREM MapScanIsExhaustive == MapSpec => ScanExhaustive
<1> DEFINE Exhaustive ==
       \A timeout \in Timeouts : \A maxOut \in BatchSizes :
          (FlushScan(timeout, maxOut) /\ Len(closed') - Len(closed) < maxOut)
             => \A p \in Places' : ~TimedOut(At(p)', timeout)
<1>1. ASSUME MapInv PROVE Exhaustive
  BY <1>1, ScanLeavesNothing DEF MapInv
<1>2. MapInv /\ [MapNext]_mapVars => [Exhaustive]_mapVars
  BY <1>1
<1>3. MapSpec => [][Exhaustive]_mapVars
  <2> HIDE DEF Exhaustive
  <2> QED
    BY <1>2, MapInvariant, PTL DEF MapSpec
<1> QED
  BY <1>3 DEF ScanExhaustive

-----------------------------------------------------------------------------
(* The map implements TraceSessions. *)

\* The open session of each trace is the one its partial trace gathers.
OpenAsHeld ==
    /\ DOMAIN OpenSessions = {At(p).id : p \in Places}
    /\ OpenSessions = [t \in DOMAIN OpenSessions |-> OpenSessions[t]]
    /\ \A p \in Places : OpenSessions[At(p).id] = Session(At(p))

\* Trace ids being unique, choosing a place by its id finds the place.
LEMMA OpenFacts == MapInv => OpenAsHeld
<1> SUFFICES ASSUME MapInv PROVE OpenAsHeld
  OBVIOUS
<1>1. /\ DOMAIN OpenSessions = {At(p).id : p \in Places}
      /\ OpenSessions = [t \in DOMAIN OpenSessions |-> OpenSessions[t]]
  BY DEF OpenSessions
<1>2. ASSUME NEW p \in Places
      PROVE  OpenSessions[At(p).id] = Session(At(p))
  <2> DEFINE c == CHOOSE q \in Places : At(q).id = At(p).id
  <2>1. c \in Places /\ At(c).id = At(p).id
    OBVIOUS
  <2>2. c = p
    BY <2>1 DEF MapInv, MapWellFormed
  <2>3. OpenSessions[At(p).id] = Session(At(c))
    BY DEF OpenSessions
  <2> QED
    BY <2>2, <2>3
<1> QED
  BY <1>1, <1>2 DEF OpenAsHeld

\* Two sets of open sessions are the same when their traces and sessions are.
LEMMA SameFunction ==
  ASSUME NEW f, NEW g, f = [t \in DOMAIN f |-> f[t]],
         g = [t \in DOMAIN g |-> g[t]], DOMAIN f = DOMAIN g,
         \A t \in DOMAIN f : f[t] = g[t]
  PROVE  f = g
OBVIOUS

\* A span added to a partial trace joins its session.
LEMMA SessionFacts ==
  ASSUME MapTypeOK, CallInsert,
         NEW span \in SpanInputs, NEW pt \in PartialTrace
  PROVE  /\ Session(AddSpan(pt, span)) =
               [nodes |-> <<clock>> \o Session(pt).nodes, last |-> clock]
         /\ pt.spans = <<>> => Session(pt).nodes = <<>>
<1> DEFINE new == AddSpan(pt, span)
           L == Len(pt.spans)
           old == [i \in DOMAIN pt.spans |-> pt.spans[i].at]
           nodes == [i \in DOMAIN new.spans |-> new.spans[i].at]
           longer == <<clock>> \o old
<1>1. /\ new \in PartialTrace /\ new.last = clock
      /\ Len(new.spans) = L + 1
      /\ \A j \in 1..L : new.spans[j + 1] = pt.spans[j]
      /\ new.spans \in Seq(SpanNode) /\ pt.spans \in Seq(SpanNode)
  BY AddSpanFacts DEF PartialTrace
<1>2. new.spans[1].at = clock
  BY DEF AddSpan, Node, PartialTrace
<1> HIDE DEF new
<1>3. /\ L \in Nat /\ DOMAIN pt.spans = 1..L
      /\ DOMAIN new.spans = 1..(L + 1)
  BY <1>1
<1>4. \A j \in 1..L : pt.spans[j].at \in Nat
  <2>1. \A node \in SpanNode : node.at \in Nat
    BY MapConstants DEF SpanNode
  <2>2. \A j \in 1..L : pt.spans[j] \in SpanNode
    BY <1>1, <1>3
  <2> QED
    BY <2>1, <2>2
<1>5. old \in Seq(Nat) /\ Len(old) = L /\ \A j \in 1..L : old[j] = pt.spans[j].at
  BY <1>3, <1>4
<1>6. nodes = [i \in 1..(L + 1) |-> nodes[i]] /\ nodes[1] = clock
      /\ \A j \in 1..L : nodes[j + 1] = pt.spans[j].at
  BY <1>1, <1>2, <1>3
<1> HIDE DEF old, nodes
<1>7. /\ clock \in Nat /\ longer \in Seq(Nat) /\ Len(longer) = L + 1
      /\ longer[1] = clock /\ \A j \in 1..L : longer[j + 1] = old[j]
  <2>1. clock \in Nat
    BY MapConstants DEF MapTypeOK
  <2> QED
    BY <1>3, <1>5, <2>1
<1> HIDE DEF longer
<1>8. longer = [i \in 1..(L + 1) |-> longer[i]]
  BY <1>3, <1>7
<1>9. \A i \in 1..(L + 1) : nodes[i] = longer[i]
  <2> SUFFICES ASSUME NEW i \in 1..(L + 1) PROVE nodes[i] = longer[i]
    OBVIOUS
  <2>1. CASE i = 1
    BY <1>6, <1>7, <2>1
  <2>2. CASE i # 1
    <3>1. i - 1 \in 1..L /\ (i - 1) + 1 = i
      BY <1>3, <2>2
    <3> QED
      BY <1>5, <1>6, <1>7, <3>1
  <2> QED
    BY <2>1, <2>2
<1>10. nodes = longer
  BY <1>6, <1>8, <1>9
<1>11. Session(pt).nodes = old /\ Session(new) = [nodes |-> nodes, last |-> clock]
  BY <1>1 DEF Session, old, nodes
<1>12. pt.spans = <<>> => old = <<>>
  BY DEF old
<1> QED
  BY <1>10, <1>11, <1>12 DEF longer, new

\* A known trace's insertion joins its session.
LEMMA KnownImplements ==
  ASSUME MapInv, MapInv', NEW span \in SpanInputs, InsertKnown(span)
  PROVE  Sessions!JoinSession(span.trace)
<1> DEFINE t == span.trace
<1>1. /\ MapTypeOK /\ CallInsert
      /\ UNCHANGED <<clock, closed>>
  BY DEF MapInv, InsertKnown
<1>2. PICK k \in Places :
         /\ At(k).id = span.trace
         /\ Places' = Places
         /\ At(k)' = AddSpan(At(k), span)
         /\ \A p \in Places : p # k => At(p)' = At(p)
  BY <1>1, KnownSpan
<1>3. OpenAsHeld /\ OpenAsHeld'
  BY OpenFacts, PTL
<1>4. At(k) \in PartialTrace
  BY <1>1, PlacesFinite DEF MapTypeOK
<1> DEFINE joined == [nodes |-> <<clock>> \o OpenSessions[t].nodes,
                      last |-> clock]
           new == [OpenSessions EXCEPT ![t] = joined]
<1>5. /\ t \in DOMAIN OpenSessions
      /\ OpenSessions[t] = Session(At(k))
  BY <1>2, <1>3 DEF OpenAsHeld
<1>6. Session(At(k)') = joined
  BY <1>1, <1>2, <1>4, <1>5, SessionFacts
<1> HIDE DEF joined
<1>7. \A p \in Places : At(p)'.id = At(p).id
  BY <1>1, <1>2, <1>4, AddSpanFacts
<1>8. DOMAIN (OpenSessions') = DOMAIN OpenSessions
  BY <1>2, <1>3, <1>7 DEF OpenAsHeld
<1>9. ASSUME NEW u \in DOMAIN OpenSessions
      PROVE  OpenSessions'[u] = new[u]
  <2>1. PICK p \in Places : At(p).id = u
    BY <1>3 DEF OpenAsHeld
  <2>2. OpenSessions'[u] = Session(At(p)') /\ OpenSessions[u] = Session(At(p))
    BY <1>2, <1>3, <1>7, <2>1 DEF OpenAsHeld
  <2>3. CASE p = k
    BY <1>2, <1>5, <1>6, <2>1, <2>2, <2>3
  <2>4. CASE p # k
    <3>1. u # t
      BY <1>2, <2>1, <2>4 DEF MapInv, MapWellFormed
    <3> QED
      BY <1>2, <2>2, <2>4, <3>1
  <2> QED
    BY <2>3, <2>4
<1>10. OpenSessions' = new
  <2>1. /\ DOMAIN new = DOMAIN OpenSessions
        /\ new = [u \in DOMAIN new |-> new[u]]
    OBVIOUS
  <2>2. OpenSessions' = [u \in DOMAIN (OpenSessions') |-> OpenSessions'[u]]
    BY <1>3 DEF OpenAsHeld
  <2> HIDE DEF new
  <2> QED
    BY <1>8, <1>9, <2>1, <2>2, SameFunction
<1>11. ClosedSessions' = ClosedSessions
  BY <1>1 DEF ClosedSessions
<1> QED
  BY <1>1, <1>5, <1>10, <1>11 DEF Sessions!JoinSession, joined

\* An insertion that makes a partial trace opens a session.
LEMMA HeadImplements ==
  ASSUME MapInv, MapInv', CallInsert, NEW span \in SpanInputs,
         Unknown(span.trace), NEW new \in PartialTrace,
         buckets' = [buckets EXCEPT ![Hash[span.trace]] = <<new>> \o @],
         UNCHANGED <<clock, closed>>,
         new.id = span.trace, NEW nodes \in {<<>>, <<clock>>},
         Session(new) = [nodes |-> nodes, last |-> clock]
  PROVE  Sessions!OpenSession(span.trace)
<1> DEFINE b == Hash[span.trace]
           t == span.trace
           top == <<b, 1>>
           opened == [u \in DOMAIN OpenSessions \union {t} |->
                         IF u = t THEN Session(new) ELSE OpenSessions[u]]
<1>1. MapTypeOK /\ t \in Traces /\ b \in 1..NumBuckets /\ closed' = closed
  BY MapConstants DEF MapInv
<1>2. /\ Places' = {top} \union {Moved(b, p) : p \in Places}
      /\ At(top)' = new
      /\ \A p \in Places : At(Moved(b, p))' = At(p)
  BY <1>1, HeadAdded
<1>3. \A p \in Places : At(p).id # t
  <2> SUFFICES ASSUME NEW p \in Places, At(p).id = t
               PROVE  FALSE
    OBVIOUS
  <2>1. p[1] = b /\ p[2] \in DOMAIN buckets[p[1]]
    BY PlaceFacts DEF MapInv, MapWellFormed
  <2> QED
    BY <2>1 DEF Unknown, Chain, At
<1> HIDE DEF b, top
<1>4. OpenAsHeld /\ OpenAsHeld'
  BY OpenFacts, PTL
<1>5. t \notin DOMAIN OpenSessions
  BY <1>3, <1>4 DEF OpenAsHeld
<1>6. DOMAIN (OpenSessions') = {At(p)'.id : p \in Places'}
  BY <1>4 DEF OpenAsHeld
<1>7. DOMAIN (OpenSessions') = DOMAIN OpenSessions \union {t}
  BY <1>2, <1>4, <1>6 DEF OpenAsHeld
<1>8. ASSUME NEW u \in DOMAIN OpenSessions \union {t}
      PROVE  OpenSessions'[u] = opened[u]
  <2>1. \A p \in Places' : OpenSessions'[At(p)'.id] = Session(At(p)')
    BY <1>4 DEF OpenAsHeld
  <2>2. CASE u = t
    BY <1>2, <2>1, <2>2
  <2>3. CASE u # t
    <3>1. PICK p \in Places : At(p).id = u
      BY <1>4, <2>3 DEF OpenAsHeld
    <3>2. OpenSessions[u] = Session(At(p))
      BY <1>4, <3>1 DEF OpenAsHeld
    <3>3. Moved(b, p) \in Places' /\ At(Moved(b, p))' = At(p)
      BY <1>2
    <3> QED
      BY <2>1, <2>3, <3>1, <3>2, <3>3
  <2> QED
    BY <2>2, <2>3
<1>9. OpenSessions' = opened
  <2>1. /\ DOMAIN opened = DOMAIN OpenSessions \union {t}
        /\ opened = [u \in DOMAIN opened |-> opened[u]]
    OBVIOUS
  <2>2. OpenSessions' = [u \in DOMAIN (OpenSessions') |-> OpenSessions'[u]]
    BY <1>4 DEF OpenAsHeld
  <2> HIDE DEF opened
  <2> QED
    BY <1>7, <1>8, <2>1, <2>2, SameFunction
<1>10. ClosedSessions' = ClosedSessions
  BY <1>1 DEF ClosedSessions
<1> QED
  BY <1>5, <1>9, <1>10 DEF Sessions!OpenSession

\* So both insertions of an unknown trace open one, with or without a span.
LEMMA NewImplements ==
  ASSUME MapInv, MapInv', NEW span \in SpanInputs,
         InsertNew(span) \/ InsertEmptyTrace(span)
  PROVE  Sessions!OpenSession(span.trace)
<1> DEFINE empty == NewTrace(span.trace)
           new == AddSpan(empty, span)
<1>1. /\ MapTypeOK /\ CallInsert /\ Unknown(span.trace)
      /\ UNCHANGED <<clock, closed>>
  BY DEF MapInv, InsertNew, InsertEmptyTrace
<1>2. /\ empty \in PartialTrace /\ empty.spans = <<>>
      /\ empty.id = span.trace /\ empty.last = clock
      /\ new \in PartialTrace /\ new.id = span.trace
  BY <1>1, FreshTrace
<1>3. /\ Session(empty) = [nodes |-> <<>>, last |-> clock]
      /\ Session(new) = [nodes |-> <<clock>> \o <<>>, last |-> clock]
  <2>1. Session(empty).nodes = <<>> /\ Session(empty).last = clock
    BY <1>1, <1>2, SessionFacts DEF Session
  <2>2. Session(new) = [nodes |-> <<clock>> \o Session(empty).nodes,
                        last |-> clock]
    BY <1>1, <1>2, SessionFacts
  <2>3. Session(empty) = [nodes |-> Session(empty).nodes,
                          last |-> Session(empty).last]
    BY DEF Session
  <2> QED
    BY <2>1, <2>2, <2>3
<1>4. <<clock>> \o <<>> = <<clock>>
  OBVIOUS
<1> HIDE DEF empty, new
<1>5. CASE InsertNew(span)
  <2>1. buckets' = [buckets EXCEPT ![Hash[span.trace]] = <<new>> \o @]
    BY <1>5 DEF InsertNew, new, empty
  <2> QED
    BY <1>1, <1>2, <1>3, <1>4, <2>1, HeadImplements
<1>6. CASE InsertEmptyTrace(span)
  <2>1. buckets' = [buckets EXCEPT ![Hash[span.trace]] = <<empty>> \o @]
    BY <1>6 DEF InsertEmptyTrace, empty
  <2> QED
    BY <1>1, <1>2, <1>3, <2>1, HeadImplements
<1> QED
  BY <1>5, <1>6

\* What a handed out trace is in the log of sessions.
Entry(pt) == [id |-> pt.id] @@ Session(pt)

\* A scan closes the sessions of the traces it removes; one that removes none
\* changes no session.
LEMMA ScanImplements ==
  ASSUME MapInv, MapInv', NEW timeout \in Timeouts, NEW maxOut,
         FlushScan(timeout, maxOut)
  PROVE  \/ \E ts \in SUBSET DOMAIN OpenSessions :
               Sessions!CloseSessions(ts, timeout)
         \/ UNCHANGED Sessions!sessionVars
<1> DEFINE out == Batch(timeout, maxOut)
           m == Cardinality(out)
           L == Len(closed)
           ts == {At(p).id : p \in out}
           rest == [t \in DOMAIN OpenSessions \ ts |-> OpenSessions[t]]
           order == [k \in 1..m |-> At(Nth(out, k)).id]
           tail == [k \in DOMAIN order |->
                       [id |-> order[k]] @@ OpenSessions[order[k]]]
           from(h) == Source(out, h)
<1>1. /\ MapTypeOK /\ MapTypeOK' /\ clock' = clock
      /\ flushNow # NotSampled
      /\ \A p, q \in Places : At(p).id = At(q).id => p = q
  BY DEF MapInv, MapWellFormed, FlushScan
<1>2. /\ out \subseteq Places /\ IsFiniteSet(out) /\ m \in Nat
      /\ Len(closed') = L + m
      /\ \A i \in DOMAIN closed : closed'[i] = closed[i]
      /\ \A p \in Places' : /\ from(p) \in Places \ out
                            /\ At(p)' = At(from(p))
      /\ \A q \in Places \ out : \E p \in Places' : from(p) = q
      /\ \A h \in Holders' : Held(h)' = Held(from(h))
  BY <1>1, ScanMoves
<1>3. /\ L \in Nat /\ DOMAIN closed = 1..L /\ Len(closed') \in Nat
      /\ DOMAIN (closed') = 1..Len(closed')
  BY <1>1 DEF MapTypeOK
<1>4. /\ \A k \in 1..m : Nth(out, k) \in out
      /\ \A j, k \in 1..m : Nth(out, j) = Nth(out, k) => j = k
      /\ \A p \in out : \E k \in 1..m : Nth(out, k) = p
  BY <1>1, <1>2, InOrderFacts, NthFacts
<1>5. OpenAsHeld /\ OpenAsHeld'
  BY OpenFacts, PTL
<1>6. \A p \in Places' : OpenSessions'[At(p)'.id] = Session(At(p)')
  BY <1>5 DEF OpenAsHeld
<1> HIDE DEF out, from
<1>7. ts \in SUBSET DOMAIN OpenSessions
  BY <1>2, <1>5 DEF OpenAsHeld
<1>8. \A q \in Places : At(q).id \in ts <=> q \in out
  BY <1>1, <1>2
<1>9. DOMAIN (OpenSessions') = DOMAIN OpenSessions \ ts
  <2>1. DOMAIN (OpenSessions') = {At(p)'.id : p \in Places'}
    BY <1>5 DEF OpenAsHeld
  <2>2. \A p \in Places' : At(p)'.id \in DOMAIN OpenSessions \ ts
    BY <1>2, <1>5, <1>8 DEF OpenAsHeld
  <2>3. ASSUME NEW t \in DOMAIN OpenSessions \ ts
        PROVE  \E p \in Places' : At(p)'.id = t
    <3>1. PICK q \in Places : At(q).id = t
      BY <1>5 DEF OpenAsHeld
    <3>2. q \in Places \ out
      BY <1>8, <3>1
    <3> QED
      BY <1>2, <3>1, <3>2
  <2> HIDE DEF ts
  <2> QED
    BY <2>1, <2>2, <2>3
<1>10. ASSUME NEW t \in DOMAIN OpenSessions \ ts
       PROVE  OpenSessions'[t] = OpenSessions[t]
  <2>1. PICK q \in Places : At(q).id = t
    BY <1>5 DEF OpenAsHeld
  <2>2. q \in Places \ out
    BY <1>8, <2>1
  <2>3. PICK p \in Places' : from(p) = q
    BY <1>2, <2>2
  <2>4. At(p)' = At(q)
    BY <1>2, <2>3
  <2> QED
    BY <1>5, <1>6, <2>1, <2>4 DEF OpenAsHeld
<1>11. OpenSessions' = rest
  <2>1. /\ DOMAIN rest = DOMAIN OpenSessions \ ts
        /\ rest = [t \in DOMAIN rest |-> rest[t]]
        /\ \A t \in DOMAIN rest : rest[t] = OpenSessions[t]
    OBVIOUS
  <2>2. OpenSessions' = [t \in DOMAIN (OpenSessions') |-> OpenSessions'[t]]
    BY <1>5 DEF OpenAsHeld
  <2> HIDE DEF rest, ts
  <2> QED
    BY <1>9, <1>10, <2>1, <2>2, SameFunction
<1>12. ASSUME NEW t \in ts
       PROVE  Sessions!Expired(t, timeout)
  <2>1. PICK p \in out : At(p).id = t
    OBVIOUS
  <2>2. clock - At(p).last >= timeout * TicksPerSec /\ p \in Places
    BY <1>1, BatchExpired DEF out
  <2>3. OpenSessions[t] = Session(At(p))
    BY <1>5, <2>1, <2>2 DEF OpenAsHeld
  <2>4. OpenSessions[t].last = At(p).last
    BY <2>3 DEF Session
  <2> QED
    BY <2>2, <2>4 DEF Sessions!Expired
<1>13. Cardinality(ts) = m
  <2> DEFINE id == [p \in out |-> At(p).id]
  <2>1. id \in Bijection(out, ts)
    <3>1. id \in [out -> ts]
      OBVIOUS
    <3>2. \A p, q \in out : id[p] = id[q] => p = q
      BY <1>1, <1>2
    <3>3. \A t \in ts : \E p \in out : id[p] = t
      OBVIOUS
    <3> QED
      BY <3>1, <3>2, <3>3, Fun_IsBij
  <2>2. ExistsBijection(out, ts)
    BY <2>1, Fun_ExistsBij
  <2> HIDE DEF ts
  <2> QED
    BY <1>2, <2>2, FS_Bijection
<1>14. /\ order \in [1..m -> ts] /\ DOMAIN order = 1..m
       /\ \A t \in ts : \E k \in DOMAIN order : order[k] = t
  BY <1>4
<1>15. ClosedSessions' = ClosedSessions \o tail
  <2> DEFINE S == {Entry(pt) : pt \in PartialTrace}
  <2>1. /\ \A i \in 1..L : closed[i].pt \in PartialTrace
        /\ \A i \in 1..(L + m) : closed'[i].pt \in PartialTrace
        /\ \A p \in Places : At(p) \in PartialTrace
    <3>1. /\ closed \in Seq([pt : PartialTrace, timeout : Timeouts])
          /\ closed' \in Seq([pt : PartialTrace, timeout : Timeouts])
      BY <1>1 DEF MapTypeOK
    <3>2. \A r \in [pt : PartialTrace, timeout : Timeouts] : r.pt \in PartialTrace
      OBVIOUS
    <3>3. /\ \A i \in 1..L :
                closed[i] \in [pt : PartialTrace, timeout : Timeouts]
          /\ \A i \in 1..(L + m) :
                closed'[i] \in [pt : PartialTrace, timeout : Timeouts]
      <4> DEFINE R == [pt : PartialTrace, timeout : Timeouts]
      <4>1. closed \in Seq(R) /\ closed' \in Seq(R)
        BY <3>1
      <4> HIDE DEF R
      <4>2. \A i \in 1..L : closed[i] \in R
        BY <1>3, <4>1
      <4>3. \A i \in 1..(L + m) : closed'[i] \in R
        BY <1>2, <1>3, <4>1
      <4> QED
        BY <4>2, <4>3 DEF R
    <3> QED
      BY <1>1, <3>2, <3>3, PlacesFinite DEF MapTypeOK
  <2>2. /\ ClosedSessions = [i \in 1..L |-> Entry(closed[i].pt)]
        /\ ClosedSessions' = [i \in 1..(L + m) |-> Entry(closed'[i].pt)]
    BY <1>2, <1>3 DEF ClosedSessions, Entry
  <2>3. tail = [k \in 1..m |-> Entry(At(Nth(out, k)))]
    <3> SUFFICES ASSUME NEW k \in 1..m
                 PROVE  [id |-> order[k]] @@ OpenSessions[order[k]] =
                          Entry(At(Nth(out, k)))
      BY <1>14
    <3>1. Nth(out, k) \in Places /\ order[k] = At(Nth(out, k)).id
      BY <1>2, <1>4
    <3>2. OpenSessions[order[k]] = Session(At(Nth(out, k)))
      BY <1>5, <3>1 DEF OpenAsHeld
    <3> QED
      BY <3>1, <3>2 DEF Entry
  <2>4. /\ ClosedSessions \in Seq(S) /\ Len(ClosedSessions) = L
        /\ \A i \in 1..L : ClosedSessions[i] = Entry(closed[i].pt)
    BY <1>3, <2>1, <2>2
  <2>5. /\ tail \in Seq(S) /\ Len(tail) = m
        /\ \A k \in 1..m : tail[k] = Entry(At(Nth(out, k)))
    <3>1. \A k \in 1..m : At(Nth(out, k)) \in PartialTrace
      BY <1>2, <1>4, <2>1
    <3> HIDE DEF tail
    <3> QED
      BY <1>2, <2>3, <3>1
  <2>6. ASSUME NEW i \in (L + 1)..(L + m)
        PROVE  closed'[i].pt = At(Nth(out, i - L))
    <3>1. i \in DOMAIN closed' /\ i \notin DOMAIN closed /\ i - L \in 1..m
      BY <1>2, <1>3
    <3>2. from(<<0, i>>) = Nth(out, i - L)
      BY <3>1 DEF from, Source
    <3>3. <<0, i>> \in Holders' /\ Held(<<0, i>>)' = closed'[i].pt
      BY <3>1 DEF Holders, Held
    <3>4. Nth(out, i - L) \in Places
      BY <1>2, <1>4, <3>1
    <3>5. Held(Nth(out, i - L)) = At(Nth(out, i - L))
      BY <1>1, <3>4, HolderFacts
    <3> QED
      BY <1>2, <3>2, <3>3, <3>5
  <2> DEFINE joined == ClosedSessions \o tail
  <2> HIDE DEF tail, S, order
  <2>7. /\ joined \in Seq(S) /\ Len(joined) = L + m
        /\ \A i \in 1..L : joined[i] = ClosedSessions[i]
        /\ \A i \in (L + 1)..(L + m) : joined[i] = tail[i - L]
    <3>1. /\ ClosedSessions \in Seq(S) /\ Len(ClosedSessions) = L
          /\ tail \in Seq(S) /\ Len(tail) = m
      BY <2>4, <2>5
    <3>2. DOMAIN ClosedSessions = 1..L
      BY <3>1
    <3>3. /\ joined \in Seq(S)
          /\ Len(joined) = Len(ClosedSessions) + Len(tail)
          /\ \A i \in DOMAIN ClosedSessions : joined[i] = ClosedSessions[i]
          /\ \A i \in (Len(ClosedSessions) + 1)..
                        (Len(ClosedSessions) + Len(tail)) :
                joined[i] = tail[i - Len(ClosedSessions)]
      BY <3>1, ConcatFacts, Zenon
    <3> HIDE DEF joined
    <3> QED
      BY <3>1, <3>2, <3>3
  <2> HIDE DEF joined
  <2>8. joined = [i \in 1..(L + m) |-> joined[i]]
    BY <1>2, <1>3, <2>7
  <2>9. ASSUME NEW i \in 1..(L + m)
        PROVE  joined[i] = Entry(closed'[i].pt)
    <3>1. CASE i \in 1..L
      BY <1>2, <1>3, <2>4, <2>7, <3>1
    <3>2. CASE i \notin 1..L
      <4>1. i \in (L + 1)..(L + m) /\ i - L \in 1..m
        BY <1>2, <1>3, <3>2
      <4> QED
        BY <2>5, <2>6, <2>7, <4>1
    <3> QED
      BY <3>1, <3>2
  <2>10. joined = ClosedSessions'
    BY <2>2, <2>8, <2>9
  <2> QED
    BY <2>10 DEF joined
<1>16. CASE ts # {}
  <2>1. order \in [1..Cardinality(ts) -> ts]
    BY <1>13, <1>14
  <2> HIDE DEF order, ts
  <2>2. \E by \in [1..Cardinality(ts) -> ts] :
           /\ \A t \in ts : \E k \in DOMAIN by : by[k] = t
           /\ ClosedSessions' = ClosedSessions \o
                 [k \in DOMAIN by |-> [id |-> by[k]] @@ OpenSessions[by[k]]]
    <3> WITNESS order \in [1..Cardinality(ts) -> ts]
    <3> QED
      BY <1>14, <1>15
  <2>3. Sessions!Cardinality(ts) = Cardinality(ts)
    BY DEF Sessions!Cardinality, Cardinality
  <2>4. Sessions!CloseSessions(ts, timeout)
    BY <1>1, <1>11, <1>12, <1>16, <2>2, <2>3, Zenon DEF Sessions!CloseSessions
  <2> QED
    BY <1>7, <2>4
<1>17. CASE ts = {}
  <2>1. m = 0
    BY <1>13, <1>17, FS_EmptySet
  <2>2. closed' = closed
    <3>1. closed = [i \in 1..L |-> closed[i]]
      BY <1>1, <1>3 DEF MapTypeOK
    <3>2. closed' = [i \in 1..L |-> closed'[i]]
      BY <1>1, <1>2, <1>3, <2>1 DEF MapTypeOK
    <3> QED
      BY <1>2, <1>3, <3>1, <3>2
  <2>3. ClosedSessions' = ClosedSessions
    BY <2>2 DEF ClosedSessions
  <2>4. OpenSessions' = OpenSessions
    BY <1>5, <1>11, <1>17 DEF OpenAsHeld
  <2> QED
    BY <1>1, <2>3, <2>4 DEF Sessions!sessionVars
<1> QED
  BY <1>16, <1>17

\* The other steps change no session, or let time pass.
LEMMA StillImplements ==
  ASSUME MapInv, MapInv', buckets' = buckets, closed' = closed,
         freed' = freed, clock' = clock \/ clock' = clock + 1
  PROVE  Sessions!Advance \/ UNCHANGED Sessions!sessionVars
<1>1. /\ Places' = Places /\ \A p : At(p)' = At(p)
  BY SameHolders
<1>2. OpenAsHeld /\ OpenAsHeld'
  BY OpenFacts, PTL
<1>3. DOMAIN (OpenSessions') = DOMAIN OpenSessions
  BY <1>1, <1>2 DEF OpenAsHeld
<1>4. ASSUME NEW t \in DOMAIN OpenSessions
      PROVE  OpenSessions'[t] = OpenSessions[t]
  <2>1. PICK p \in Places : At(p).id = t
    BY <1>2 DEF OpenAsHeld
  <2>2. OpenSessions'[At(p)'.id] = Session(At(p)')
    BY <1>1, <1>2 DEF OpenAsHeld
  <2> QED
    BY <1>1, <1>2, <2>1, <2>2 DEF OpenAsHeld
<1>5. OpenSessions' = OpenSessions
  BY <1>2, <1>3, <1>4, SameFunction DEF OpenAsHeld
<1>6. ClosedSessions' = ClosedSessions
  BY DEF ClosedSessions
<1> QED
  BY <1>5, <1>6 DEF Sessions!Advance, Sessions!sessionVars

\* Destroying the map abandons the open sessions.
LEMMA DestroyImplements ==
  ASSUME MapInv, MapDestroy
  PROVE  Sessions!Abandon
<1>1. closed' = closed /\ clock' = clock
  BY DEF MapDestroy
<1>2. OpenSessions' = [t \in {} |-> <<>>]
  <2>1. Places' = {}
    BY DestroyMoves DEF MapInv
  <2>2. {At(p)' : p \in Places'} = {} /\ {At(p)'.id : p \in Places'} = {}
    BY <2>1
  <2> QED
    BY <2>2 DEF OpenSessions
<1>3. ClosedSessions' = ClosedSessions
  BY <1>1 DEF ClosedSessions
<1> QED
  BY <1>1, <1>2, <1>3 DEF Sessions!Abandon

\* The empty map has no session.
LEMMA InitImplements == MapInit => Sessions!SessionInit
<1> SUFFICES ASSUME MapInit PROVE Sessions!SessionInit
  OBVIOUS
<1>1. Places = {} /\ closed = <<>> /\ clock = 0
  BY DEF MapInit, Places
<1>2. OpenSessions = [t \in {} |-> <<>>]
  <2>1. {At(p).id : p \in Places} = {}
    BY <1>1
  <2> QED
    BY <2>1 DEF OpenSessions
<1>3. ClosedSessions = <<>>
  BY <1>1 DEF ClosedSessions
<1> QED
  BY <1>1, <1>2, <1>3 DEF Sessions!SessionInit

\* For every hash function, cap, timeout and batch size the map gathers
\* sessions, closes them only once they have expired, and never has two of a
\* trace open (assembler.c:188-297).
THEOREM MapImplementsSessions == MapSpec => ImplementsSessions
<1>1. MapInv /\ MapInv' /\ [MapNext]_mapVars
        => [Sessions!SessionNext]_(Sessions!sessionVars)
  <2> SUFFICES ASSUME MapInv, MapInv', [MapNext]_mapVars
               PROVE  Sessions!SessionNext \/ UNCHANGED Sessions!sessionVars
    OBVIOUS
  <2>1. ASSUME NEW span \in SpanInputs, InsertKnown(span)
        PROVE  Sessions!SessionNext
    <3>1. span.trace \in Traces
      BY MapConstants
    <3> QED
      BY <2>1, <3>1, KnownImplements DEF Sessions!SessionNext
  <2>2. ASSUME NEW span \in SpanInputs,
               InsertNew(span) \/ InsertEmptyTrace(span)
        PROVE  Sessions!SessionNext
    <3>1. span.trace \in Traces
      BY MapConstants
    <3> QED
      BY <2>2, <3>1, NewImplements DEF Sessions!SessionNext
  <2>3. ASSUME NEW timeout \in Timeouts, NEW maxOut,
               FlushScan(timeout, maxOut)
        PROVE  Sessions!SessionNext \/ UNCHANGED Sessions!sessionVars
    BY <2>3, ScanImplements DEF Sessions!SessionNext
  <2>4. ASSUME \/ \E span \in SpanInputs : \/ InsertTraceDropped(span)
                                           \/ InsertSpanDropped(span)
                                           \/ InsertNoMemory(span)
               \/ FlushSample \/ Tick \/ UNCHANGED mapVars
        PROVE  Sessions!SessionNext \/ UNCHANGED Sessions!sessionVars
    <3>1. /\ buckets' = buckets /\ closed' = closed /\ freed' = freed
          /\ clock' = clock \/ clock' = clock + 1
      BY <2>4 DEF InsertTraceDropped, InsertSpanDropped, InsertNoMemory,
                  CallInsert, FlushSample, Tick, mapVars
    <3> QED
      BY <3>1, StillImplements DEF Sessions!SessionNext
  <2>5. ASSUME MapDestroy PROVE Sessions!SessionNext
    BY <2>5, DestroyImplements DEF Sessions!SessionNext
  <2> QED
    BY <2>1, <2>2, <2>3, <2>4, <2>5 DEF MapNext, InsertStored, InsertRejected
<1> QED
  BY <1>1, InitImplements, MapInvariant, PTL
     DEF MapSpec, ImplementsSessions, Sessions!SessionSpec
=============================================================================

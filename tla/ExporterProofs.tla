--------------------------- MODULE ExporterProofs ---------------------------
(***************************************************************************)
(* Proofs about Exporter, for every ring, number of spans, restarts and    *)
(* reader of the statistics: the exporter uses the ring within its         *)
(* contract, so what SpanRingProofs proves of the ring holds of it; no     *)
(* span is lost, counted twice or written out of order; stopping drains.   *)
(*                                                                         *)
(* The inductive invariant, ExporterInv, adds to the ring's what holds the *)
(* two threads together: where each may be while the other is somewhere    *)
(* (Control), and which of the accepted spans have gone where (HandedOn).  *)
(***************************************************************************)
EXTENDS Exporter, SpanRingProofs, FiniteSetTheorems

-----------------------------------------------------------------------------
(* The inductive invariant. *)

\* The part of TypeOK that is not about the ring.
ExporterTypeOK ==
    /\ aPc \in {"idle", "push", "drop", "create", "join", "stats", "destroyed"}
    /\ destroying \in BOOLEAN /\ started \in BOOLEAN /\ running \in BOOLEAN
    /\ starts \in 0..MaxStarts
    /\ runView \in 1..Len(writeIndex)
    /\ tPc \in {"none", "loop", "pop", "sleep", "sink", "count", "exited"}
    /\ draining \in BOOLEAN
    /\ submitted \in Nat /\ exported \in Nat /\ dropped \in Nat
    /\ sunk \in Seq(Span) /\ failed \in SUBSET Span
    /\ oPc \in {"idle", "exported", "dropped", "done"}
    /\ snapshot \in [submitted : Nat, exported : Nat, dropped : Nat]

\* A thread is inside the ring's functions only where it calls them; the
\* thread exists and the flag is set exactly when the exporter is started,
\* but for the moments in which it is being started or stopped; a thread
\* that drains has seen all that will ever be pushed before it is joined.
Control ==
    /\ aPc # "push" => pPc = "idle"
    /\ tPc # "pop" => cPc = "idle"
    /\ started <=> tPc # "none"
    /\ aPc = "create" => ~started /\ running
    /\ aPc = "join" => started /\ ~running /\ runView = Len(writeIndex)
    /\ aPc \notin {"create", "join"} => running = started
    /\ aPc = "destroyed" => ~started
    /\ tPc = "exited" => draining /\ Len(delivered) = Len(accepted)
    /\ draining /\ started => aPc = "join" /\ cSeen = Len(writeIndex)

\* Spans are accepted in the order they are submitted.
AcceptedInOrder ==
    /\ \A i, j \in 1..Len(accepted) : i < j => accepted[i] < accepted[j]
    /\ \A i \in 1..Len(accepted) : /\ accepted[i] <= offered
                                   /\ pPc # "idle" => accepted[i] < offered

\* The spans the sink has been offered: those popped, but for the one in the
\* thread's hand.
Offered == Len(delivered) - IF tPc = "sink" THEN 1 ELSE 0

\* What is written or has failed are spans the sink was offered.
HandedOn ==
    /\ tPc = "sink" => /\ Len(delivered) >= 1
                       /\ cOut.body = accepted[Len(delivered)]
    /\ \A i \in 1..Len(sunk) : \E k \in 1..Offered : sunk[i] = accepted[k]
    /\ \A n \in failed : \E k \in 1..Offered : n = accepted[k]

\* The inductive invariant: the ring's, and the parts above.

ExporterInv ==
    /\ RingInv
    /\ ExporterTypeOK
    /\ Control
    /\ AcceptedInOrder
    /\ HandedOn
    /\ SpansAccounted
    /\ SunkInOrder

\* A call of exporter_get_stats keeps the application thread busy if it is
\* that thread's, so that what it has read stays true of a busy exporter.
Reader ==
    /\ aPc = "stats" <=> StatsBy = "app" /\ oPc \in {"exported", "dropped"}
    /\ StatsBy = "nobody" => oPc = "idle"
    /\ aPc = "stats" => snapshot.submitted = submitted
    /\ aPc = "stats" /\ oPc = "dropped" => snapshot.exported <= exported
    /\ StatsBy # "other" => SnapshotConsistent

-----------------------------------------------------------------------------
(* The exporter uses the ring within its contract. *)

\* Every step of the exporter is a step of the ring or leaves it alone.
LEMMA StepsOfTheRing ==
  ASSUME RingTypeOK, ExporterTypeOK, Control, [Next]_vars
  PROVE  [RingNext]_ringVars
<1>0. /\ Len(writeIndex) \in Nat /\ Len(readIndex) \in Nat
      /\ cSeen \in 1..Len(writeIndex) /\ pSeen \in 1..Len(readIndex)
      /\ runView \in 1..Len(writeIndex)
  BY LenProperties DEF RingTypeOK, ExporterTypeOK
<1>1. CASE SubmitPush \/ SubmitAccepted \/ SubmitRefused
  BY <1>1 DEF SubmitPush, SubmitAccepted, SubmitRefused, RingNext, Push
<1>2. CASE ThreadPop \/ ThreadPopped \/ ThreadFoundEmpty
  BY <1>2 DEF ThreadPop, ThreadPopped, ThreadFoundEmpty, RingNext, Pop
<1>3. CASE StartCreated
  <2>1. cPc = "idle" /\ ConsumerSyncTo(Len(writeIndex))
    BY <1>3 DEF StartCreated, Control
  <2>2. ConsumerSync
    BY <1>0, <1>3, <2>1 DEF StartCreated, ConsumerSync, producerVars
  <2> QED
    BY <2>2 DEF RingNext
<1>4. CASE CheckRunning
  <2>1. /\ cPc = "idle"
        /\ \E i \in 1..Len(writeIndex) : ConsumerSyncTo(i)
    BY <1>0, <1>4 DEF CheckRunning, Control
  <2>2. ConsumerSync
    BY <1>4, <2>1 DEF CheckRunning, ConsumerSync, producerVars
  <2> QED
    BY <2>2 DEF RingNext
<1>5. CASE StopJoined
  <2>1. pPc = "idle" /\ ProducerSyncTo(Len(readIndex))
    BY <1>5 DEF StopJoined, Control
  <2>2. ProducerSync
    BY <1>0, <1>5, <2>1 DEF StopJoined, ProducerSync, consumerVars
  <2> QED
    BY <2>2 DEF RingNext
<1>6. CASE \/ SubmitDrop \/ StartFailed \/ SubmitCount \/ StartRunning
           \/ DestroyStopped \/ \E byDestroy \in BOOLEAN : StopRunning(byDestroy)
  BY <1>6 DEF SubmitDrop, StartFailed, SubmitCount, StartRunning,
              DestroyStopped, StopRunning
<1>7. CASE ThreadWake \/ SinkWritten \/ SinkFailed \/ CountExported
  BY <1>7 DEF ThreadWake, SinkWritten, SinkFailed, CountExported
<1>8. CASE Stats \/ UNCHANGED vars
  BY <1>8 DEF Stats, ReadSubmitted, ReadExported, ReadDropped, vars
<1> QED
  BY <1>1, <1>2, <1>3, <1>4, <1>5, <1>6, <1>7, <1>8
     DEF Next, AppContinues, AppCalls, Thread

-----------------------------------------------------------------------------
(* Facts about the sequences of the ring that the steps below need. *)

\* What the invariant of the ring says in terms of what was accepted.
LEMMA RingFacts ==
  ASSUME ExporterInv
  PROVE  /\ accepted \in Seq(Span) /\ Len(accepted) \in Nat
         /\ delivered \in Seq(Frame) /\ Len(delivered) \in Nat
         /\ Len(delivered) <= Len(accepted)
         /\ Len(writeIndex) = Len(accepted) + 1
         /\ Len(readIndex) = Len(delivered) + 1
         /\ sunk \in Seq(Span) /\ Len(sunk) \in Nat
         /\ offered \in Nat
<1>1. RingInv /\ RingTypeOK /\ IndicesCount
  BY DEF ExporterInv, RingInv
<1> QED
  BY <1>1, Counts, LenProperties, CapacityType
     DEF ExporterInv, RingTypeOK, ExporterTypeOK, IndicesCount

\* Only spans fail, so there are finitely many that did.
LEMMA FailedCount ==
  ASSUME ExporterInv
  PROVE  IsFiniteSet(failed) /\ Cardinality(failed) \in Nat
<1>1. IsFiniteSet(Span) /\ failed \in SUBSET Span
  BY FS_Interval, CapacityType DEF Span, ExporterInv, ExporterTypeOK
<1>2. IsFiniteSet(failed)
  BY <1>1, FS_Subset
<1> QED
  BY <1>2, FS_CardinalityType

\* The span in the thread's hand is later than all that were handed on.
LEMMA SpanInHand ==
  ASSUME ExporterInv, tPc = "sink"
  PROVE  /\ cOut.body \in Span /\ cOut.body = accepted[Len(delivered)]
         /\ \A i \in 1..Len(sunk) : sunk[i] < cOut.body
         /\ \A n \in failed : n < cOut.body
<1>1. /\ Len(delivered) \in 1..Len(accepted)
      /\ cOut.body = accepted[Len(delivered)]
      /\ Offered = Len(delivered) - 1
  BY RingFacts DEF ExporterInv, HandedOn, Offered
<1>2. ASSUME NEW k \in 1..Offered
      PROVE  accepted[k] < cOut.body
  BY <1>1, <1>2, RingFacts DEF ExporterInv, AcceptedInOrder
<1>3. cOut.body \in Span
  BY <1>1, RingFacts, ElementOfSeq
<1> QED
  BY <1>1, <1>2, <1>3 DEF ExporterInv, HandedOn

\* A thread that finds the ring empty while it drains has popped everything.
LEMMA EmptyWhenDrained ==
  ASSUME ExporterInv, tPc = "pop", draining, PopEmpty
  PROVE  Len(delivered) = Len(accepted)
<1>1. RingInv /\ started /\ cSeen = Len(writeIndex)
  BY DEF ExporterInv, Control
<1>2. /\ cR = SlotAt(Popped) /\ cW = SlotAt(cSync - 1) /\ cR = cW
  BY <1>1 DEF PopEmpty, RingInv, ConsumerLocals
<1>3. cSync - 1 = Pushed
  BY <1>1 DEF RingInv, Distances, Pushed
<1>4. /\ Popped \in Nat /\ Pushed \in Nat /\ Popped <= Pushed
      /\ Pushed < Popped + Capacity
  BY <1>1, Counts, CapacityType DEF RingInv, Distances
<1>5. Popped = Pushed
  <2>1. SlotAt(Popped) = SlotAt(Pushed)
    BY <1>2, <1>3
  <2> QED
    BY <1>4, <2>1, SlotAtApart
<1> QED
  BY <1>1, <1>5 DEF RingInv, IndicesCount

-----------------------------------------------------------------------------
(* The submitting thread's steps. *)

\* A step inside ring_buffer_push before it publishes or refuses.
LEMMA SubmitPushStep ==
  ASSUME ExporterInv, RingInv', SubmitPush
  PROVE  ExporterInv'
<1>1. /\ aPc = "push" /\ UNCHANGED exporterVars
      /\ UNCHANGED <<writeIndex, readIndex, accepted, delivered, cPc, cOut, cSeen>>
      /\ pPc' # "idle"
      /\ \/ pPc = "idle" /\ offered' = offered + 1
         \/ pPc # "idle" /\ offered' = offered
  BY DEF SubmitPush, PushLoad, PushBody, PushLen, consumerVars
<1> USE <1>1 DEF exporterVars, controlVars, threadVars, statsVars
<1>2. ExporterTypeOK' /\ Control' /\ HandedOn' /\ SunkInOrder'
  BY DEF ExporterInv, ExporterTypeOK, Control, HandedOn, Offered, SunkInOrder
<1>3. AcceptedInOrder'
  <2>1. \A i \in 1..Len(accepted) : accepted[i] \in Nat
    BY RingFacts, ElementOfSeq, CapacityType DEF Span
  <2> QED
    BY <2>1, RingFacts DEF ExporterInv, AcceptedInOrder
<1>4. SpansAccounted'
  BY RingFacts DEF ExporterInv, SpansAccounted, Control, ExporterTypeOK
<1> QED
  BY <1>2, <1>3, <1>4 DEF ExporterInv

\* The push is accepted: its span is the latest.
LEMMA SubmitAcceptedStep ==
  ASSUME ExporterInv, RingInv', SubmitAccepted
  PROVE  ExporterInv'
<1>1. /\ aPc = "push" /\ aPc' = "idle" /\ pPc = "publish" /\ pPc' = "idle"
      /\ UNCHANGED <<controlVars, submitted, dropped, threadVars, statsVars>>
      /\ UNCHANGED <<offered, readIndex, delivered, cPc, cOut, cSeen>>
      /\ accepted' = Append(accepted, offered)
      /\ writeIndex' = Append(writeIndex, Succ(pW))
  BY DEF SubmitAccepted, PushPublish, consumerVars
<1> USE <1>1 DEF controlVars, threadVars, statsVars
<1>2. /\ Len(accepted') = Len(accepted) + 1
      /\ \A i \in 1..Len(accepted) : accepted'[i] = accepted[i]
      /\ accepted'[Len(accepted) + 1] = offered
      /\ Len(writeIndex') = Len(writeIndex) + 1
  BY RingFacts, AppendProperties DEF ExporterInv, RingInv, RingTypeOK
<1>3. ExporterTypeOK' /\ SunkInOrder'
  BY <1>2, RingFacts DEF ExporterInv, ExporterTypeOK, SunkInOrder
<1>4. Control'
  BY DEF ExporterInv, Control
<1>5. AcceptedInOrder'
  BY <1>2, RingFacts DEF ExporterInv, AcceptedInOrder
<1>6. HandedOn'
  BY <1>2, RingFacts DEF ExporterInv, HandedOn, Offered
<1>7. SpansAccounted'
  BY <1>2, RingFacts DEF ExporterInv, SpansAccounted, Control, ExporterTypeOK
<1> QED
  BY <1>3, <1>4, <1>5, <1>6, <1>7 DEF ExporterInv

\* The other steps of exporter_submit.
LEMMA SubmitStep ==
  ASSUME ExporterInv, RingInv', SubmitCount \/ SubmitRefused \/ SubmitDrop
  PROVE  ExporterInv'
<1>1. /\ UNCHANGED <<controlVars, threadVars, statsVars>>
      /\ UNCHANGED <<offered, accepted, delivered, writeIndex, readIndex, cPc,
                     cOut, cSeen>>
      /\ aPc \in {"idle", "push", "drop"} /\ aPc' \in {"idle", "push", "drop"}
      /\ submitted' \in Nat /\ dropped' \in Nat /\ pPc' = "idle"
  BY DEF SubmitCount, SubmitRefused, SubmitDrop, PushRefuse, ringVars,
         producerVars, consumerVars, ExporterInv, ExporterTypeOK, Control
<1> USE <1>1 DEF controlVars, threadVars, statsVars
<1>2. ExporterTypeOK' /\ Control'
  BY DEF ExporterInv, ExporterTypeOK, Control
<1>3. AcceptedInOrder' /\ HandedOn' /\ SunkInOrder'
  BY DEF ExporterInv, AcceptedInOrder, HandedOn, Offered, SunkInOrder
<1>4. SpansAccounted'
  <2>1. CASE SubmitCount
    BY <2>1, RingFacts DEF SubmitCount, ringVars, producerVars, ExporterInv,
                           SpansAccounted, Control, ExporterTypeOK
  <2>2. CASE SubmitRefused
    BY <2>2, RingFacts DEF SubmitRefused, PushRefuse, ExporterInv,
                           SpansAccounted, Control, ExporterTypeOK
  <2>3. CASE SubmitDrop
    BY <2>3, RingFacts DEF SubmitDrop, ringVars, producerVars, ExporterInv,
                           SpansAccounted, Control, ExporterTypeOK
  <2> QED
    BY <2>1, <2>2, <2>3
<1> QED
  BY <1>2, <1>3, <1>4 DEF ExporterInv

\* exporter_start, exporter_stop and exporter_destroy touch no sequence of
\* the ring and no counter.
LEMMA StartStopStep ==
  ASSUME ExporterInv, RingInv',
         \/ StartRunning \/ StartCreated \/ StartFailed
         \/ StopJoined \/ DestroyStopped
         \/ \E byDestroy \in BOOLEAN : StopRunning(byDestroy)
  PROVE  ExporterInv'
<1>1. /\ UNCHANGED <<submitted, dropped, exported, sunk, failed, oPc, snapshot>>
      /\ UNCHANGED <<offered, accepted, delivered, writeIndex, readIndex, cPc,
                     cOut, pPc>>
  BY DEF StartRunning, StartCreated, StartFailed, StopJoined, DestroyStopped,
         StopRunning, ringVars, producerVars, consumerVars, threadVars,
         statsVars
<1>2. /\ aPc \in {"idle", "create", "join"}
      /\ aPc' \in {"idle", "create", "join", "destroyed"}
      /\ tPc' = "sink" <=> tPc = "sink"
      /\ tPc' = "count" <=> tPc = "count"
  BY DEF StartRunning, StartCreated, StartFailed, StopJoined, DestroyStopped,
         StopRunning, threadVars, ExporterInv, Control
<1> USE <1>1
<1>3. ExporterTypeOK' /\ Control'
  <2>0. Len(writeIndex) \in Nat \ {0}
    BY RingFacts
  <2>1. CASE StartRunning
    <3>1. /\ aPc = "idle" /\ aPc' = "create" /\ running' = TRUE
          /\ runView' = Len(writeIndex)
          /\ ~started /\ starts' \in 0..MaxStarts
          /\ UNCHANGED <<destroying, started, tPc, draining, cSeen>>
      BY <2>1, ExporterAssumption
         DEF StartRunning, SetRunning, threadVars, ringVars, consumerVars,
             ExporterInv, ExporterTypeOK
    <3>2. ExporterTypeOK'
      BY <2>0, <3>1 DEF ExporterInv, ExporterTypeOK
    <3>3. Control'
      BY <3>1, Zenon DEF ExporterInv, Control
    <3> QED
      BY <3>2, <3>3
  <2>2. CASE StartCreated
    BY <2>0, <2>2 DEF StartCreated, ExporterInv, ExporterTypeOK, Control
  <2>3. CASE StartFailed
    <3>1. /\ aPc = "create" /\ aPc' = "idle" /\ running' = FALSE
          /\ runView' = Len(writeIndex) /\ running' \in BOOLEAN
          /\ UNCHANGED <<destroying, started, starts, tPc, draining, cSeen>>
      BY <2>3 DEF StartFailed, SetRunning, threadVars, ringVars, consumerVars
    <3>2. started = FALSE
      BY <3>1, Zenon DEF ExporterInv, ExporterTypeOK, Control
    <3>3. ExporterTypeOK'
      BY <2>0, <3>1, <3>2 DEF ExporterInv, ExporterTypeOK
    <3>4. Control'
      BY <3>1, <3>2, Zenon DEF ExporterInv, Control
    <3> QED
      BY <3>3, <3>4
  <2>4. CASE StopJoined
    BY <2>0, <2>4 DEF StopJoined, ExporterInv, ExporterTypeOK, Control
  <2>5. CASE DestroyStopped
    BY <2>0, <2>5 DEF DestroyStopped, controlVars, threadVars, ringVars,
                      consumerVars, ExporterInv, ExporterTypeOK, Control
  <2>6. ASSUME NEW byDestroy \in BOOLEAN, StopRunning(byDestroy)
        PROVE  ExporterTypeOK' /\ Control'
    <3>1. /\ aPc' = "join" /\ ~running' /\ running' \in BOOLEAN /\ runView' = Len(writeIndex)
          /\ aPc = "idle" /\ started /\ destroying' \in BOOLEAN
          /\ UNCHANGED <<started, starts, tPc, draining, cSeen>>
      BY <2>6
         DEF StopRunning, SetRunning, threadVars, ringVars, consumerVars
    <3>2. ExporterTypeOK'
      BY <2>0, <3>1 DEF ExporterInv, ExporterTypeOK
    <3>3. Control'
      BY <3>1, Zenon DEF ExporterInv, Control
    <3> QED
      BY <3>2, <3>3
  <2> QED
    BY <2>1, <2>2, <2>3, <2>4, <2>5, <2>6
<1>4. AcceptedInOrder' /\ HandedOn' /\ SunkInOrder' /\ SpansAccounted'
  BY <1>2 DEF ExporterInv, AcceptedInOrder, HandedOn, Offered, SunkInOrder,
              SpansAccounted
<1> QED
  BY <1>3, <1>4 DEF ExporterInv

-----------------------------------------------------------------------------
(* The background thread's steps. *)

\* The load of `running`.  A thread that finds it cleared is being joined,
\* and what the store released is everything that will ever be pushed.
LEMMA CheckRunningStep ==
  ASSUME ExporterInv, RingInv', CheckRunning
  PROVE  ExporterInv'
<1>1. /\ UNCHANGED <<aPc, controlVars, submitted, dropped, exported, sunk,
                     failed, statsVars>>
      /\ UNCHANGED <<offered, accepted, delivered, writeIndex, readIndex, pPc,
                     cPc, cOut>>
      /\ tPc = "loop" /\ tPc' = "pop" /\ draining' = ~running
  BY DEF CheckRunning, producerVars
<1> USE <1>1 DEF controlVars, statsVars
<1>2. running \in BOOLEAN /\ started
  BY DEF ExporterInv, ExporterTypeOK, Control
<1>3. ExporterTypeOK'
  BY <1>2 DEF ExporterInv, ExporterTypeOK
<1>4. draining' => aPc = "join" /\ cSeen' = Len(writeIndex)
  <2> SUFFICES ASSUME ~running
               PROVE  aPc = "join" /\ cSeen' = Len(writeIndex)
    BY <1>2
  <2>1. aPc = "join" /\ runView = Len(writeIndex)
    BY <1>2 DEF ExporterInv, Control
  <2>2. cSeen \in 1..Len(writeIndex) /\ Len(writeIndex) \in Nat
    BY RingFacts DEF ExporterInv, RingInv, RingTypeOK
  <2> QED
    BY <2>1, <2>2 DEF CheckRunning, ConsumerSyncTo
<1>5. Control'
  BY <1>2, <1>4 DEF ExporterInv, Control
<1>6. AcceptedInOrder' /\ HandedOn' /\ SunkInOrder' /\ SpansAccounted'
  BY DEF ExporterInv, AcceptedInOrder, HandedOn, Offered, SunkInOrder,
         SpansAccounted
<1> QED
  BY <1>3, <1>5, <1>6 DEF ExporterInv

\* A step inside ring_buffer_pop, and the step that finds the ring empty.
LEMMA ThreadPopStep ==
  ASSUME ExporterInv, RingInv', ThreadPop \/ ThreadFoundEmpty
  PROVE  ExporterInv'
<1>1. /\ UNCHANGED <<aPc, controlVars, submitted, dropped, draining, exported,
                     sunk, failed, statsVars>>
      /\ UNCHANGED <<offered, accepted, delivered, writeIndex, readIndex, pPc>>
      /\ tPc = "pop" /\ tPc' \in {"pop", "sleep", "exited"}
      /\ tPc' # "pop" => cPc' = "idle"
      /\ tPc' = "exited" => draining /\ PopEmpty
  BY DEF ThreadPop, ThreadFoundEmpty, PopLoad, PopLen, PopBody, PopEmpty,
         exporterVars, threadVars, producerVars
<1> USE <1>1 DEF controlVars, statsVars
<1>2. draining => cSeen' = Len(writeIndex)
  <2>1. cSeen \in 1..Len(writeIndex) /\ Len(writeIndex) \in Nat
    BY RingFacts DEF ExporterInv, RingInv, RingTypeOK
  <2>2. cSeen' \in cSeen..Len(writeIndex)
    BY <2>1 DEF ThreadPop, ThreadFoundEmpty, PopLoad, PopLen, PopBody, PopEmpty
  <2>3. draining => cSeen = Len(writeIndex)
    BY <1>1, Zenon DEF ExporterInv, Control
  <2> QED
    BY <2>1, <2>2, <2>3
<1>3. ExporterTypeOK'
  BY DEF ExporterInv, ExporterTypeOK
<1>4. Control'
  BY <1>2, EmptyWhenDrained DEF ExporterInv, Control
<1>5. AcceptedInOrder' /\ HandedOn' /\ SunkInOrder' /\ SpansAccounted'
  BY DEF ExporterInv, AcceptedInOrder, HandedOn, Offered, SunkInOrder,
         SpansAccounted
<1> QED
  BY <1>3, <1>4, <1>5 DEF ExporterInv

\* The pop succeeds: the thread holds the span that was delivered last.
LEMMA ThreadPoppedStep ==
  ASSUME ExporterInv, RingInv', ThreadPopped
  PROVE  ExporterInv'
<1>1. /\ UNCHANGED <<aPc, controlVars, submitted, dropped, draining, exported,
                     sunk, failed, statsVars>>
      /\ UNCHANGED <<offered, accepted, writeIndex, pPc, cOut, cSeen>>
      /\ delivered' = Append(delivered, cOut)
      /\ tPc = "pop" /\ tPc' = "sink" /\ cPc = "publish" /\ cPc' = "idle"
  BY DEF ThreadPopped, PopPublish, producerVars
<1> USE <1>1 DEF controlVars, statsVars
<1>2. /\ Len(delivered') = Len(delivered) + 1
      /\ delivered'[Len(delivered) + 1] = cOut
  BY RingFacts, AppendProperties DEF ExporterInv, RingInv, RingTypeOK
<1>3. cOut.body = accepted[Len(delivered) + 1]
  BY DEF ExporterInv, RingInv, ConsumerLocals, IndicesCount, Encoded
<1>4. ExporterTypeOK' /\ Control'
  BY DEF ExporterInv, ExporterTypeOK, Control
<1>5. AcceptedInOrder' /\ SunkInOrder'
  BY DEF ExporterInv, AcceptedInOrder, SunkInOrder
<1>6. HandedOn'
  <2>1. Offered' = Offered
    BY <1>2, RingFacts DEF Offered
  <2> QED
    BY <1>2, <1>3, <2>1, RingFacts DEF ExporterInv, HandedOn
<1>7. SpansAccounted'
  BY <1>2, RingFacts, FailedCount DEF ExporterInv, SpansAccounted
<1> QED
  BY <1>4, <1>5, <1>6, <1>7 DEF ExporterInv

\* The sink takes the span: it is later than all the sink took before.
LEMMA SinkWrittenStep ==
  ASSUME ExporterInv, RingInv', SinkWritten
  PROVE  ExporterInv'
<1>1. /\ UNCHANGED <<aPc, controlVars, submitted, dropped, draining, exported,
                     failed, statsVars>>
      /\ UNCHANGED <<offered, accepted, delivered, writeIndex, readIndex, pPc,
                     cPc, cOut, cSeen>>
      /\ sunk' = Append(sunk, cOut.body)
      /\ tPc = "sink" /\ tPc' = "count"
  BY DEF SinkWritten, ringVars, producerVars, consumerVars
<1> USE <1>1 DEF controlVars, statsVars
<1>2. /\ sunk' \in Seq(Span) /\ Len(sunk') = Len(sunk) + 1
      /\ \A i \in 1..Len(sunk) : sunk'[i] = sunk[i]
      /\ sunk'[Len(sunk) + 1] = cOut.body
  BY SpanInHand, RingFacts, AppendProperties
<1>3. ExporterTypeOK' /\ Control'
  BY <1>2 DEF ExporterInv, ExporterTypeOK, Control
<1>4. AcceptedInOrder'
  BY DEF ExporterInv, AcceptedInOrder
<1>5. SunkInOrder'
  <2>1. \A n \in failed : n < cOut.body
    BY SpanInHand
  <2>2. cOut.body \in Nat
    BY SpanInHand, CapacityType DEF Span
  <2>3. ASSUME NEW i \in 1..Len(sunk'), NEW j \in 1..Len(sunk'), i < j
        PROVE  sunk'[i] < sunk'[j]
    <3>1. CASE j = Len(sunk) + 1
      BY <1>2, <2>3, <3>1, SpanInHand, RingFacts
    <3>2. CASE j # Len(sunk) + 1
      <4>1. /\ i \in 1..Len(sunk) /\ j \in 1..Len(sunk)
            /\ sunk'[i] = sunk[i] /\ sunk'[j] = sunk[j]
        <5>1. Len(sunk) \in Nat /\ Len(sunk') = Len(sunk) + 1
          BY <1>2, RingFacts
        <5>2. i \in 1..Len(sunk) /\ j \in 1..Len(sunk)
          BY <2>3, <3>2, <5>1
        <5> QED
          BY <1>2, <5>2
      <4> QED
        BY <2>3, <4>1 DEF ExporterInv, SunkInOrder
    <3> QED
      BY <3>1, <3>2
  <2>4. ASSUME NEW i \in 1..Len(sunk')
        PROVE  sunk'[i] \notin failed
    BY <1>2, <2>1, <2>2, RingFacts DEF ExporterInv, SunkInOrder
  <2> QED
    BY <2>3, <2>4 DEF SunkInOrder
<1>6. HandedOn'
  <2>1. Len(delivered) \in Nat \ {0} /\ cOut.body = accepted[Len(delivered)]
    BY RingFacts DEF ExporterInv, HandedOn
  <2>2. Offered = Len(delivered) - 1 /\ Offered' = Len(delivered)
    BY DEF Offered
  <2>3. ASSUME NEW i \in 1..Len(sunk')
        PROVE  \E k \in 1..Offered' : sunk'[i] = accepted[k]
    <3>1. CASE i = Len(sunk) + 1
      BY <1>2, <2>1, <2>2, <3>1
    <3>2. CASE i # Len(sunk) + 1
      <4>1. i \in 1..Len(sunk) /\ sunk'[i] = sunk[i]
        BY <1>2, <2>3, <3>2, RingFacts
      <4> QED
        BY <2>1, <2>2, <4>1 DEF ExporterInv, HandedOn
    <3> QED
      BY <3>1, <3>2
  <2>4. \A n \in failed : \E k \in 1..Offered' : n = accepted[k]
    BY <2>1, <2>2 DEF ExporterInv, HandedOn
  <2> QED
    BY <2>3, <2>4 DEF HandedOn
<1>7. SpansAccounted'
  <2>1. /\ Len(delivered) = Len(sunk) + Cardinality(failed) + 1
        /\ exported = Len(sunk)
    BY RingFacts DEF ExporterInv, SpansAccounted
  <2>2. /\ Len(delivered) = Len(sunk') + Cardinality(failed)
        /\ exported = Len(sunk') - 1
    BY <1>2, <2>1, RingFacts, FailedCount
  <2> QED
    BY <2>2, FailedCount DEF ExporterInv, SpansAccounted
<1> QED
  BY <1>3, <1>4, <1>5, <1>6, <1>7 DEF ExporterInv

\* The sink refuses the span: one more span has failed.
LEMMA SinkFailedStep ==
  ASSUME ExporterInv, RingInv', SinkFailed
  PROVE  ExporterInv'
<1>1. /\ UNCHANGED <<aPc, controlVars, submitted, dropped, draining, exported,
                     sunk, statsVars>>
      /\ UNCHANGED <<offered, accepted, delivered, writeIndex, readIndex, pPc,
                     cPc, cOut, cSeen>>
      /\ failed' = failed \union {cOut.body}
      /\ tPc = "sink" /\ tPc' \in {"pop", "loop"}
  BY DEF SinkFailed, NextRound, ringVars, producerVars, consumerVars
<1> USE <1>1 DEF controlVars, statsVars
<1>2. cPc = "idle" /\ cOut.body \in Span /\ cOut.body \notin failed
  <2>1. cOut.body \in Nat /\ \A n \in failed : n < cOut.body
    BY SpanInHand, CapacityType DEF Span
  <2>2. cOut.body \notin failed
    BY <2>1
  <2> QED
    BY <2>2, SpanInHand DEF ExporterInv, Control
<1>3. Cardinality(failed') = Cardinality(failed) + 1
  BY <1>2, FailedCount, FS_AddElement
<1>4. ExporterTypeOK' /\ Control'
  BY <1>2 DEF ExporterInv, ExporterTypeOK, Control
<1>5. AcceptedInOrder'
  BY DEF ExporterInv, AcceptedInOrder
<1>6. SunkInOrder'
  <2>1. \A i \in 1..Len(sunk) : sunk[i] < cOut.body /\ sunk[i] \in Nat
    BY SpanInHand, RingFacts, ElementOfSeq, CapacityType DEF Span
  <2> QED
    BY <2>1 DEF ExporterInv, SunkInOrder
<1>7. HandedOn'
  <2>1. Len(delivered) \in Nat \ {0} /\ cOut.body = accepted[Len(delivered)]
    BY RingFacts DEF ExporterInv, HandedOn
  <2>2. Offered = Len(delivered) - 1 /\ Offered' = Len(delivered)
    BY DEF Offered
  <2> QED
    BY <2>1, <2>2, RingFacts DEF ExporterInv, HandedOn
<1>8. SpansAccounted'
  <2>1. /\ Len(delivered) = Len(sunk) + Cardinality(failed) + 1
        /\ exported = Len(sunk)
    BY RingFacts DEF ExporterInv, SpansAccounted
  <2>2. Len(delivered) = Len(sunk) + Cardinality(failed')
    BY <1>3, <2>1, RingFacts, FailedCount
  <2> QED
    BY <2>1, <2>2, FailedCount, RingFacts DEF ExporterInv, SpansAccounted
<1> QED
  BY <1>4, <1>5, <1>6, <1>7, <1>8 DEF ExporterInv

\* The remaining steps of the thread, and the reader of the statistics, move
\* no span.
LEMMA ThreadIdleStep ==
  ASSUME ExporterInv, RingInv', ThreadWake \/ CountExported
  PROVE  ExporterInv'
<1>1. /\ UNCHANGED <<aPc, controlVars, submitted, dropped, draining, sunk,
                     failed, statsVars>>
      /\ UNCHANGED <<offered, accepted, delivered, writeIndex, readIndex, pPc,
                     cPc, cOut, cSeen>>
      /\ tPc \in {"sleep", "count"} /\ tPc' \in {"pop", "loop"}
      /\ exported' = exported + IF tPc = "count" THEN 1 ELSE 0
  BY DEF ThreadWake, CountExported, NextRound, ringVars, producerVars,
         consumerVars, ExporterInv, ExporterTypeOK
<1> USE <1>1 DEF controlVars, statsVars
<1>2. ExporterTypeOK' /\ Control'
  BY DEF ExporterInv, ExporterTypeOK, Control
<1>3. AcceptedInOrder' /\ HandedOn' /\ SunkInOrder'
  BY DEF ExporterInv, AcceptedInOrder, HandedOn, Offered, SunkInOrder
<1>4. SpansAccounted'
  <2>1. SpansAccounted /\ exported \in Nat /\ Len(sunk) \in Nat
    BY RingFacts DEF ExporterInv, ExporterTypeOK
  <2>2. exported' = Len(sunk) - IF tPc' = "count" THEN 1 ELSE 0
    BY <2>1 DEF SpansAccounted
  <2>3. tPc # "sink" /\ tPc' # "sink"
    BY <1>1
  <2> QED
    BY <2>1, <2>2, <2>3 DEF SpansAccounted
<1> QED
  BY <1>2, <1>3, <1>4 DEF ExporterInv

\* The reader of the statistics finds in order what it has yet to load.
LEMMA StatsStep ==
  ASSUME ExporterInv, Reader, RingInv', Stats
  PROVE  ExporterInv'
<1>1. /\ UNCHANGED <<ringVars, controlVars, submitted, dropped, threadVars>>
      /\ \/ aPc' = aPc
         \/ aPc \in {"idle", "stats"} /\ aPc' \in {"idle", "stats"}
      /\ snapshot' \in [submitted : Nat, exported : Nat, dropped : Nat]
      /\ oPc' \in {"exported", "dropped", "done"}
  <2> USE DEF ExporterInv, ExporterTypeOK, Reader
  <2>1. CASE ReadSubmitted
    BY <2>1 DEF ReadSubmitted
  <2>2. CASE ReadExported
    BY <2>2 DEF ReadExported
  <2>3. CASE ReadDropped
    BY <2>3 DEF ReadDropped
  <2> QED
    BY <2>1, <2>2, <2>3 DEF Stats
<1> USE <1>1 DEF controlVars, threadVars, ringVars, producerVars, consumerVars
<1>2. ExporterTypeOK' /\ Control'
  BY DEF ExporterInv, ExporterTypeOK, Control
<1>3. AcceptedInOrder' /\ HandedOn' /\ SunkInOrder' /\ SpansAccounted'
  BY DEF ExporterInv, AcceptedInOrder, HandedOn, Offered, SunkInOrder,
         SpansAccounted
<1> QED
  BY <1>2, <1>3 DEF ExporterInv

\* At no moment have more spans been exported and dropped than submitted.
LEMMA CountersOrdered ==
  ASSUME ExporterInv
  PROVE  /\ exported \in Nat /\ dropped \in Nat /\ submitted \in Nat
         /\ exported + dropped <= submitted
<1>1. exported \in Nat /\ dropped \in Nat /\ submitted \in Nat
  BY DEF ExporterInv, ExporterTypeOK
<1>2. submitted >= offered /\ offered >= Len(accepted) + dropped
  BY <1>1, RingFacts DEF ExporterInv, SpansAccounted
<1>3. Len(delivered) >= Len(sunk) /\ Len(sunk) >= exported
  BY <1>1, RingFacts, FailedCount DEF ExporterInv, SpansAccounted
<1> QED
  BY <1>1, <1>2, <1>3, RingFacts

\* Every step that is not the reader's leaves the reader alone, and submits
\* nothing while the reader keeps the application thread busy.
LEMMA ReaderUndisturbed ==
  ASSUME ExporterInv, Reader, [Next]_vars, ~Stats
  PROVE  Reader'
<1>1. /\ UNCHANGED <<oPc, snapshot>>
      /\ aPc = "stats" => aPc' = "stats" /\ UNCHANGED submitted
      /\ aPc' = "stats" => aPc = "stats"
      /\ exported' = exported \/ exported' = exported + 1
  <2>1. CASE AppContinues
    BY <2>1 DEF AppContinues, SubmitPush, SubmitAccepted, SubmitRefused,
                SubmitDrop, StartCreated, StartFailed, StopJoined,
                exporterVars, threadVars, statsVars
  <2>2. CASE AppCalls
    BY <2>2 DEF AppCalls, SubmitCount, StartRunning, DestroyStopped,
                StopRunning, threadVars, statsVars
  <2>3. CASE Thread
    BY <2>3 DEF Thread, CheckRunning, ThreadPop, ThreadPopped,
                ThreadFoundEmpty, ThreadWake, SinkWritten, SinkFailed,
                CountExported, exporterVars, threadVars, statsVars
  <2>4. CASE UNCHANGED vars
    BY <2>4 DEF vars, exporterVars, threadVars, statsVars
  <2> QED
    BY <2>1, <2>2, <2>3, <2>4 DEF Next
<1>2. /\ exported \in Nat
      /\ snapshot \in [submitted : Nat, exported : Nat, dropped : Nat]
  BY DEF ExporterInv, ExporterTypeOK
<1> QED
  BY <1>1, <1>2 DEF Reader, SnapshotConsistent

\* The reader's own steps: submitted is read first and the counters that may
\* grow meanwhile later, but never past what was submitted by then.
LEMMA ReaderStep ==
  ASSUME ExporterInv, Reader, Stats
  PROVE  Reader'
<1>1. /\ exported \in Nat /\ dropped \in Nat /\ submitted \in Nat
      /\ exported + dropped <= submitted
      /\ snapshot \in [submitted : Nat, exported : Nat, dropped : Nat]
      /\ StatsBy \in {"app", "other", "nobody"}
  BY CountersOrdered, ExporterAssumption DEF ExporterInv, ExporterTypeOK
<1>2. UNCHANGED <<submitted, exported, dropped>>
  BY DEF Stats, ReadSubmitted, ReadExported, ReadDropped, threadVars
<1>3. CASE ReadSubmitted
  BY <1>1, <1>2, <1>3 DEF ReadSubmitted, Reader, SnapshotConsistent
<1>4. CASE ReadExported
  BY <1>1, <1>2, <1>4 DEF ReadExported, Reader, SnapshotConsistent
<1>5. CASE ReadDropped
  BY <1>1, <1>2, <1>5 DEF ReadDropped, Reader, SnapshotConsistent
<1> QED
  BY <1>3, <1>4, <1>5 DEF Stats

-----------------------------------------------------------------------------
(* The invariant, and what it implies. *)

\* A new exporter satisfies the invariant (exporter_thread.c:60-96).
LEMMA ExporterInvInit == Init => ExporterInv /\ Reader
<1> SUFFICES ASSUME Init PROVE ExporterInv /\ Reader
  OBVIOUS
<1>1. RingInv
  BY RingInvInit DEF Init
<1>2. /\ accepted = <<>> /\ delivered = <<>> /\ writeIndex = <<0>>
      /\ offered = 0 /\ pPc = "idle" /\ cPc = "idle"
  BY DEF Init, RingInit
<1>3. ExporterTypeOK /\ Control
  <2>1. ExporterTypeOK
    <3>1. /\ sunk \in Seq(Span) /\ failed \in SUBSET Span
          /\ Len(writeIndex) = 1 /\ runView \in 1..Len(writeIndex)
      BY <1>2 DEF Init
    <3>2. /\ snapshot \in [submitted : Nat, exported : Nat, dropped : Nat]
          /\ starts \in 0..MaxStarts
      BY ExporterAssumption DEF Init
    <3> QED
      BY <3>1, <3>2 DEF Init, ExporterTypeOK
  <2>2. Control
    BY <1>2, Zenon DEF Init, Control
  <2> QED
    BY <2>1, <2>2
<1>4. AcceptedInOrder /\ HandedOn /\ SunkInOrder
  BY <1>2 DEF Init, AcceptedInOrder, HandedOn, Offered, SunkInOrder
<1>5. SpansAccounted
  BY <1>2, FS_EmptySet DEF Init, SpansAccounted
<1>6. Reader
  BY DEF Init, Reader, SnapshotConsistent
<1> QED
  BY <1>1, <1>3, <1>4, <1>5, <1>6 DEF ExporterInv

\* Every step of either thread keeps the invariant.
LEMMA ExporterInvStep ==
  ExporterInv /\ Reader /\ [Next]_vars => (ExporterInv /\ Reader)'
<1> SUFFICES ASSUME ExporterInv, Reader, [Next]_vars
             PROVE  ExporterInv' /\ Reader'
  OBVIOUS
<1>1. RingInv'
  <2>1. [RingNext]_ringVars
    BY StepsOfTheRing DEF ExporterInv, RingInv
  <2> QED
    BY <2>1, RingInvStep DEF ExporterInv
<1>2. ExporterInv'
  <2>1. CASE AppContinues \/ AppCalls
    BY <1>1, <2>1, SubmitPushStep, SubmitAcceptedStep, SubmitStep,
       StartStopStep DEF AppContinues, AppCalls
  <2>2. CASE Thread
    BY <1>1, <2>2, CheckRunningStep, ThreadPopStep, ThreadPoppedStep,
       SinkWrittenStep, SinkFailedStep, ThreadIdleStep DEF Thread
  <2>3. CASE Stats
    BY <1>1, <2>3, StatsStep
  <2>4. CASE UNCHANGED vars
    <3> USE <2>4 DEF vars, exporterVars, controlVars, threadVars, statsVars,
                     ringVars, producerVars, consumerVars
    <3>1. ExporterTypeOK' /\ Control' /\ AcceptedInOrder'
      BY DEF ExporterInv, ExporterTypeOK, Control, AcceptedInOrder
    <3>2. HandedOn' /\ SunkInOrder' /\ SpansAccounted'
      BY DEF ExporterInv, HandedOn, Offered, SunkInOrder, SpansAccounted
    <3> QED
      BY <1>1, <3>1, <3>2 DEF ExporterInv
  <2> QED
    BY <2>1, <2>2, <2>3, <2>4 DEF Next
<1>3. Reader'
  BY ReaderUndisturbed, ReaderStep
<1> QED
  BY <1>2, <1>3

\* The inductive invariant holds in every reachable state of the exporter,
\* across stops and restarts (exporter_thread.c:30-159).
THEOREM ExporterInvariant == Spec => [](ExporterInv /\ Reader)
<1>1. QED
  BY ExporterInvInit, ExporterInvStep, PTL DEF Spec

\* Every variable keeps its type.
THEOREM ExporterTypeCorrect == Spec => []TypeOK
<1>1. ExporterInv => TypeOK
  BY DEF ExporterInv, ExporterTypeOK, TypeOK, RingInv
<1> QED
  BY <1>1, ExporterInvariant, PTL

\* The exporter uses the ring within its contract, also across restarts:
\* never two producers or two consumers, never half a push or a pop
\* (exporter_thread.c:30-159).
THEOREM ExporterUsesRing == Spec => ImplementsRing
<1>1. Init => RingInit
  BY DEF Init
<1>2. ExporterInv /\ [Next]_vars => [RingNext]_ringVars
  BY StepsOfTheRing DEF ExporterInv, RingInv
<1> QED
  BY <1>1, <1>2, ExporterInvariant, PTL DEF Spec, ImplementsRing, RingSpec

\* Hence the exporter's spans go through the abstract channel.
THEOREM ExporterImplementsChannel == Spec => ImplementsChannel
BY ExporterUsesRing, RingImplementsChannel DEF ImplementsRing

\* Hence no slot is raced for by the two threads, or by two threads one
\* after the other.
THEOREM ExporterHasNoSlotRace == Spec => []NoSlotRace
BY ExporterUsesRing, RingHasNoSlotRace DEF ImplementsRing

\* Hence the background threads get exactly the frames that were pushed.
THEOREM ExporterDeliversIntact == Spec => []DeliveredIntact
BY ExporterUsesRing, RingDeliversIntact DEF ImplementsRing

\* Every span submitted is in exactly one place, and the counters agree.
THEOREM ExporterAccountsForSpans == Spec => []SpansAccounted
<1>1. ExporterInv => SpansAccounted
  BY DEF ExporterInv
<1> QED
  BY <1>1, ExporterInvariant, PTL

\* The sink gets the spans in order and never one of them twice.
THEOREM ExporterSinksInOrder == Spec => []SunkInOrder
<1>1. ExporterInv => SunkInOrder
  BY DEF ExporterInv
<1> QED
  BY <1>1, ExporterInvariant, PTL

\* A background thread that leaves its last loop has handed on everything
\* accepted, and nothing runs once the exporter is destroyed.
THEOREM ExporterDrainsOnExit == Spec => []DrainedOnExit
<1>1. ExporterInv => DrainedOnExit
  <2> SUFFICES ASSUME ExporterInv PROVE DrainedOnExit
    OBVIOUS
  <2>1. ASSUME tPc = "exited"
        PROVE  /\ Len(delivered) = Len(accepted)
               /\ submitted = exported + dropped + Cardinality(failed)
    <3>1. /\ aPc = "join" /\ pPc = "idle"
          /\ Len(delivered) = Len(accepted)
      BY <2>1, Zenon DEF ExporterInv, Control
    <3>2. /\ submitted = Len(accepted) + dropped
          /\ Len(delivered) = exported + Cardinality(failed)
      BY <2>1, <3>1, RingFacts, FailedCount, CountersOrdered
         DEF ExporterInv, SpansAccounted
    <3> QED
      BY <3>1, <3>2, FailedCount, CountersOrdered
  <2>2. ASSUME aPc = "destroyed"
        PROVE  tPc = "none" /\ ~started /\ ~running
    BY <2>2, Zenon DEF ExporterInv, ExporterTypeOK, Control
  <2> QED
    BY <2>1, <2>2 DEF DrainedOnExit
<1> QED
  BY <1>1, ExporterInvariant, PTL

\* What exporter.h:154 promises of a snapshot holds when the thread that
\* submits takes it; the finding of the run exporter_stats needs another one.
THEOREM OwnSnapshotConsistent ==
  ASSUME StatsBy # "other" PROVE Spec => []SnapshotConsistent
<1>1. Reader => SnapshotConsistent
  BY DEF Reader
<1> QED
  BY <1>1, ExporterInvariant, PTL
=============================================================================

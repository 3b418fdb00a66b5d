-------------------------- MODULE CollectorProofs --------------------------
(***************************************************************************)
(* Proofs about Collector, for every map, limit, timeout, batch size and   *)
(* bound: its steps are steps of the map, so what TraceMapProofs proves of *)
(* the map holds in the collector; every packet and every trace is counted *)
(* once; the rate limit is exact; a stop leaves nothing behind; and        *)
(* collector_get_stats is never behind by more than a packet and a trace.  *)
(*                                                                         *)
(* The inductive invariant, CollectorInv, adds to the map's where each     *)
(* thread may be while the others are somewhere (ThreadsExist), what each  *)
(* counter counts (PacketFlow, TraceFlow), what is buffered (SyncDue), why *)
(* the final flush finds everything (FinalReading: no insertion can follow *)
(* its clock reading, the receiver having been joined), and what a reading *)
(* of the statistics has still to load (Balanced).                         *)
(*                                                                         *)
(* A step is understood by its actor: the ...Frame lemmas say what each    *)
(* leaves alone, and each part of the invariant has a lemma of its own.    *)
(***************************************************************************)
EXTENDS Collector, TraceMapProofs

-----------------------------------------------------------------------------
(* The inductive invariant. *)

\* The last collector_stop found the collector running.
Drained == stopped = "drained"

\* The flags are truth values.
FlagsTypeOK ==
    /\ running \in BOOLEAN /\ rRunning \in BOOLEAN
    /\ stopped \in {"no", "idle", "drained"}
    /\ wroteAny \in BOOLEAN /\ syncFailed \in BOOLEAN

\* The threads are in places of theirs.
ThreadsTypeOK ==
    /\ kPc \in {"down", "create receiver", "create flush", "undo", "up",
                "stop receiver", "join receiver", "join flush", "final flush",
                "stats", "destroyed"}
    /\ starts \in 0..MaxStarts
    /\ rPc \in {"none", "loop", "recv", "limit", "decode", "count", "exited"}
    /\ fPc \in {"none", "loop", "sleep", "check", "flush", "exited"}
    /\ flushFor \in {"nobody", "thread", "stop"}
    /\ wPc \in {"out", "sample", "scan", "classify", "store", "sync"}

\* The counters count; only the packets received are bounded here.
CountersTypeOK ==
    /\ packetsReceived \in 0..MaxPackets
    /\ rateLimited \in Nat /\ unauthorized \in Nat /\ invalid \in Nat
    /\ spansProcessed \in Nat
    /\ completed \in Nat /\ timedOut \in Nat /\ writes \in Nat /\ errors \in Nat

\* Where the controlling thread is when the reading of the statistics is
\* left aside.
Place == IF kPc = "stats" THEN (IF running THEN "up" ELSE "down") ELSE kPc

\* The threads exist exactly between their creation and their join, and
\* c->running is set exactly between start and stop.
ThreadsExist ==
    /\ running <=> Place \in {"create receiver", "create flush", "undo", "up"}
    /\ rPc = "none" <=> Place \in {"down", "create receiver", "join flush",
                                   "final flush", "destroyed"}
    /\ fPc = "none" <=> Place \in {"down", "create receiver", "create flush",
                                   "undo", "final flush", "destroyed"}
    /\ Drained => Place \in {"down", "destroyed"}

\* What the receiver holds, and each call of trace_map_insert that it makes
\* counted once.
PacketFlow ==
    /\ \/ packet = NoPacket
       \/ \E span \in SpanInputs : packet = <<"span", span>>
       \/ \E kind \in BadPackets : packet = <<kind>>
    /\ rPc \in {"limit", "decode"} => packet # NoPacket
    /\ packetsReceived = inserts + rateLimited + unauthorized + invalid
                           + IF rPc \in {"limit", "decode"} THEN 1 ELSE 0
    /\ spansProcessed + (IF rPc = "count" THEN 1 ELSE 0)
          = inserts - tracesDropped - spansDropped - refused

\* The traffic of the seconds of the clock: none after the window's, what
\* windowCount says in the window's, and the limit met in all of them.
Window ==
    /\ windowSec \in Seconds /\ windowSec <= clock \div TicksPerSec
    /\ windowCount \in Nat
    /\ perSecond \in [Seconds -> [admitted : Nat, limited : Nat]]
    /\ MaxPacketsPerSec > 0 =>
          /\ perSecond[windowSec].admitted + perSecond[windowSec].limited
                = windowCount
          /\ \A s \in Seconds :
                s > windowSec =>
                   perSecond[s].admitted = 0 /\ perSecond[s].limited = 0
          /\ RateLimitExact

\* The traces taken out of the map, and how far flush_traces is with them.
TraceFlow ==
    /\ count + Len(closed) <= inserts
    /\ handled \in 0..Len(closed)
    /\ wPc \in {"classify", "store"} => handled < Len(closed)
    /\ log \in Seq(1..Len(closed)) /\ lost \subseteq 1..handled
    /\ synced \in 0..Len(log)
    /\ TracesAccounted

\* Records that have not left the stdio buffer are still to be flushed, unless
\* an fflush failed.
SyncDue ==
    ~syncFailed /\ synced # Len(log) =>
        wPc \in {"classify", "store"} \/ (wroteAny /\ wPc # "out")

\* No insertion can follow the clock reading of the final flush, and the flush
\* goes on until a scan has emptied the map.
FinalReading ==
    flushFor = "stop" =>
        /\ wPc = "scan" => \A p \in Places : At(p).last <= flushNow
        /\ wPc = "sync" => Places = {} /\ count = 0

\* The map goes with the collector.
DestroyedLast == destroyed => kPc = "destroyed"

\* What a stop leaves behind.
StoppedClean ==
    Drained => /\ Places = {} /\ count = 0 /\ freed = {}
               /\ handled = Len(closed)
               /\ ~syncFailed => synced = Len(log)

\* What collector_get_stats has loaded is explained by the counters it has
\* still to load, one packet and one trace excepted.
Balanced ==
    LET p == balance.packets
        t == balance.traces
        drops == tracesDropped + spansDropped
    IN  /\ loaded \in 0..AllLoads
        /\ balance \in [packets : Int, traces : Int]
        /\ kPc # "stats" => loaded = 0
        /\ loaded = 0 => balance = NothingLoaded
        /\ loaded = 1 => p <= invalid + unauthorized + rateLimited
                                + spansProcessed + drops + refused + 1
        /\ loaded = 2 => p <= unauthorized + rateLimited + spansProcessed
                                + drops + refused + 1
        /\ loaded = 3 => p <= rateLimited + spansProcessed + drops + refused + 1
        /\ loaded = 4 => p <= spansProcessed + drops + refused + 1
        /\ loaded = 5 => p <= drops + refused + 1
        /\ loaded >= 6 => p <= refused + 1
        /\ loaded <= 6 => t = 0
        /\ loaded = 7 => t <= completed
        /\ loaded = 8 => t <= writes + errors + 1
        /\ loaded = 9 => t <= errors + 1
        /\ loaded = 10 => t <= 1

\* Of a stopped collector it explains them exactly.
BalancedExactly ==
    LET p == balance.packets
        t == balance.traces
        drops == tracesDropped + spansDropped
    IN  Drained =>
        /\ loaded = 1 => p = invalid + unauthorized + rateLimited
                               + spansProcessed + drops + refused
        /\ loaded = 2 => p = unauthorized + rateLimited + spansProcessed
                               + drops + refused
        /\ loaded = 3 => p = rateLimited + spansProcessed + drops + refused
        /\ loaded = 4 => p = spansProcessed + drops + refused
        /\ loaded = 5 => p = drops + refused
        /\ loaded >= 6 => p = refused
        /\ loaded = 7 => t = completed
        /\ loaded = 8 => t = writes + errors
        /\ loaded = 9 => t = errors
        /\ loaded = 10 => t = 0

\* The inductive invariant.
CollectorInv ==
    /\ MapInv
    /\ FlagsTypeOK /\ ThreadsTypeOK /\ CountersTypeOK
    /\ OneFlusher /\ ThreadsExist
    /\ PacketFlow /\ Window
    /\ TraceFlow /\ SyncDue /\ FinalReading /\ StoppedClean
    /\ DestroyedLast
    /\ Balanced /\ BalancedExactly

-----------------------------------------------------------------------------
(* What each actor leaves alone. *)

\* What the constants are.
LEMMA CollectorConstants ==
  /\ 0 \in Timeouts /\ TimeoutSec \in Timeouts /\ FlushCount \in BatchSizes
  /\ MaxPacketsPerSec \in Nat /\ MaxPackets \in Nat /\ MaxStarts \in Nat
  /\ MaxStatsStarts \in Nat
  /\ BadPackets \subseteq {"unauthorized", "invalid"}
BY CollectorAssumption

\* The steps of the controlling thread, one by one.
LEMMA ControlSteps ==
  ASSUME KContinues \/ KCalls
  PROVE  \/ KReceiverCreated \/ KReceiverFailed \/ KFlushCreated
         \/ KFlushFailed \/ KUndone \/ KStopReceiver \/ KReceiverJoined
         \/ KFlushJoined \/ KLoadPackets \/ KLoadTraces \/ KStatsReturned
         \/ KStart \/ KStop \/ KStopIdle \/ KDestroy \/ KStats
BY Zenon DEF KContinues, KCalls

\* The controlling thread never touches the receiver's data or the records
\* flushed, and the map only when it frees it.
LEMMA ControlFrame ==
  ASSUME KContinues \/ KCalls
  PROVE  /\ UNCHANGED <<packet, packetsReceived, rateLimited, unauthorized,
                        invalid, spansProcessed, handled, completed, timedOut,
                        writes, errors, log, lost>>
         /\ UNCHANGED <<tracesDropped, spansDropped, clock, flushNow, closed,
                        inserts, refused>>
         /\ UNCHANGED mapVars \/ KDestroy
<1>1. /\ UNCHANGED <<packet, packetsReceived, rateLimited, unauthorized,
                     invalid, spansProcessed, handled, completed, timedOut,
                     writes, errors, log, lost>>
      /\ UNCHANGED mapVars \/ KDestroy
  BY ControlSteps, Zenon
   DEF KReceiverCreated, KReceiverFailed, KFlushCreated, KFlushFailed,
       KUndone, KStopReceiver, KReceiverJoined, KFlushJoined, KLoadPackets,
       KLoadTraces, KStatsReturned, KStart, KStop, KStopIdle,
       KDestroy, KStats,
       receiverVars, flushVars
<1>2. KDestroy => UNCHANGED <<tracesDropped, spansDropped, clock, flushNow,
                              closed, inserts, refused>>
  BY Zenon DEF KDestroy, MapDestroy
<1>3. UNCHANGED mapVars =>
         UNCHANGED <<tracesDropped, spansDropped, clock, flushNow, closed,
                     inserts, refused>>
  BY Zenon DEF mapVars
<1> QED
  BY <1>1, <1>2, <1>3, Zenon

\* What a step says of `stopped` says this of Drained.
LEMMA DrainedFacts ==
  /\ Drained \in BOOLEAN /\ Drained' \in BOOLEAN
  /\ UNCHANGED stopped => Drained' = Drained
  /\ UNCHANGED controlVars => Drained' = Drained
  /\ ReturnToCaller /\ flushFor = "thread" => Drained' = Drained
  /\ KContinues \/ KCalls => Drained' = Drained \/ Drained' = FALSE
<1>1. /\ Drained \in BOOLEAN /\ Drained' \in BOOLEAN
      /\ UNCHANGED stopped => Drained' = Drained
      /\ UNCHANGED controlVars => Drained' = Drained
  BY DEF Drained, controlVars
<1>2. ReturnToCaller /\ flushFor = "thread" => Drained' = Drained
  BY DEF ReturnToCaller, Drained
<1>3. ASSUME KContinues \/ KCalls
      PROVE  Drained' = Drained \/ Drained' = FALSE
  <2>1. \/ UNCHANGED stopped
        \/ stopped' = "no"
        \/ stopped = "no" /\ stopped' = "idle"
    BY <1>3, ControlSteps, Zenon
       DEF KReceiverCreated, KReceiverFailed, KFlushCreated, KFlushFailed,
         KUndone, KStopReceiver, KReceiverJoined, KFlushJoined, KLoadPackets,
         KLoadTraces, KStatsReturned, KStart, KStop, KStopIdle, KDestroy,
         KStats, controlVars
  <2> QED
    BY <2>1 DEF Drained
<1> QED
  BY <1>1, <1>2, <1>3

\* The flush thread's own steps change nothing but who is in flush_traces.
LEMMA FlushThreadFrame ==
  ASSUME FlushThread
  PROVE  UNCHANGED <<mapVars, controlVars, receiverVars, statsVars, handled,
                     completed, timedOut, writes, errors, log, lost, synced,
                     syncFailed>>
BY DEF FlushThread, FCheck, FWake, FFlush, FStop, flushVars

\* flush_traces takes from the map, and inserts nothing.
LEMMA FlushTracesFrame ==
  ASSUME FlushTraces
  PROVE  /\ UNCHANGED <<receiverVars, running, starts, rRunning, statsVars>>
         /\ UNCHANGED <<tracesDropped, spansDropped, clock, inserts, refused,
                        destroyed>>
<1>1. UNCHANGED <<receiverVars, running, starts, rRunning, statsVars>>
  BY Zenon DEF FlushTraces, WSample, WScanned, WScanEmpty, WClassify, WStored,
         WStoreFailed, WSync, controlVars
<1>2. UNCHANGED <<tracesDropped, spansDropped, clock, inserts, refused,
                  destroyed>>
  BY Zenon DEF FlushTraces, WSample, WScanned, WScanEmpty, WClassify, WStored,
         WStoreFailed, WSync, FlushSample, FlushScan, mapVars
<1> QED
  BY <1>1, <1>2

\* The receiver inserts, and takes nothing out.
LEMMA ReceiverFrame ==
  ASSUME Receiver
  PROVE  /\ UNCHANGED <<controlVars, fPc, flushVars, statsVars>>
         /\ UNCHANGED <<clock, flushNow, closed, destroyed>>
<1>1. UNCHANGED <<controlVars, fPc, flushVars, statsVars>>
  BY Zenon DEF Receiver, RCheck, RNothing, RSocketError, RRateLimit,
     RUnauthorized, RInvalid, RStored, RRejected, RCount, RReceive
<1>2. UNCHANGED <<clock, flushNow, closed, destroyed>>
  BY Zenon DEF Receiver, RCheck, RNothing, RSocketError, RRateLimit,
         RUnauthorized, RInvalid, RStored, RRejected, RCount, RReceive,
         InsertStored, InsertRejected, InsertKnown, InsertNew,
         InsertTraceDropped, InsertSpanDropped, InsertNoMemory,
         InsertEmptyTrace, CallInsert, mapVars
<1> QED
  BY <1>1, <1>2

\* Time passes for the map's clock only.
LEMMA ClockFrame ==
  ASSUME ClockTick
  PROVE  /\ UNCHANGED <<controlVars, receiverVars, fPc, flushVars, statsVars>>
         /\ UNCHANGED <<buckets, count, tracesDropped, spansDropped, flushNow,
                        closed, inserts, refused, destroyed, freed>>
         /\ clock' = clock + 1
BY DEF ClockTick, Tick

\* What an insertion counts.
LEMMA InsertCounts ==
  ASSUME MapTypeOK, NEW span
  PROVE  /\ InsertStored(span) =>
               /\ inserts' = inserts + 1 /\ count' \in {count, count + 1}
               /\ UNCHANGED <<tracesDropped, spansDropped, refused>>
         /\ InsertRejected(span) =>
               /\ inserts' = inserts + 1 /\ count' \in {count, count + 1}
               /\ \/ /\ tracesDropped' = tracesDropped + 1
                     /\ UNCHANGED <<spansDropped, refused>>
                  \/ /\ spansDropped' = spansDropped + 1
                     /\ UNCHANGED <<tracesDropped, refused>>
                  \/ /\ refused' = refused + 1
                     /\ UNCHANGED <<tracesDropped, spansDropped>>
BY DEF InsertStored, InsertRejected, InsertKnown, InsertNew, CallInsert,
       InsertTraceDropped, InsertSpanDropped, InsertNoMemory,
       InsertEmptyTrace

\* What a scan does to what has been taken out.
LEMMA ScanTakesOut ==
  ASSUME MapTypeOK, FlushScan(FlushTimeout, FlushCount)
  PROVE  /\ Len(closed) \in Nat /\ Len(closed') \in Nat
         /\ Len(closed) <= Len(closed')
         /\ count' + Len(closed') = count + Len(closed)
         /\ \A i \in DOMAIN closed : closed'[i] = closed[i]
<1> DEFINE out == Batch(FlushTimeout, FlushCount)
<1>1. FlushTimeout \in Timeouts
  BY CollectorConstants DEF FlushTimeout
<1>2. /\ Cardinality(out) \in Nat
      /\ Len(closed') = Len(closed) + Cardinality(out)
      /\ \A i \in DOMAIN closed : closed'[i] = closed[i]
  BY <1>1, ScanMoves
<1>3. count' = count - Cardinality(out) /\ count \in Nat /\ Len(closed) \in Nat
  BY DEF FlushScan, MapTypeOK
<1> HIDE DEF out
<1> QED
  BY <1>2, <1>3

\* The packet in the receiver's hands is a span only if it is one.
LEMMA SpanInHand ==
  ASSUME PacketFlow, rPc = "decode", packet[1] = "span"
  PROVE  packet[2] \in SpanInputs
BY CollectorConstants DEF PacketFlow

\* Every step of the collector is a step of the map, or leaves it alone.
LEMMA StepOfMap ==
  ASSUME CollectorInv, [Next]_vars
  PROVE  [MapNext]_mapVars
<1>1. CASE Receiver
  <2>1. CASE RStored
    <3>1. packet[2] \in SpanInputs /\ InsertStored(packet[2])
      BY <2>1, SpanInHand DEF RStored, CollectorInv
    <3> QED
      BY <3>1 DEF MapNext
  <2>2. CASE RRejected
    <3>1. packet[2] \in SpanInputs /\ InsertRejected(packet[2])
      BY <2>2, SpanInHand DEF RRejected, CollectorInv
    <3> QED
      BY <3>1 DEF MapNext
  <2>3. CASE ~RStored /\ ~RRejected
    <3>1. UNCHANGED mapVars
      BY <1>1, <2>3, Zenon DEF Receiver, RCheck, RNothing, RSocketError,
         RRateLimit, RUnauthorized, RInvalid, RCount, RReceive
    <3> QED
      BY <3>1
  <2> QED
    BY <2>1, <2>2, <2>3
<1>2. CASE FlushTraces
  <2>1. ASSUME FlushScan(FlushTimeout, FlushCount)
        PROVE  MapNext
    <3>1. FlushTimeout \in Timeouts /\ FlushCount \in BatchSizes
      BY CollectorConstants DEF FlushTimeout
    <3> QED
      BY <2>1, <3>1, Zenon DEF MapNext
  <2>2. \/ FlushSample \/ FlushScan(FlushTimeout, FlushCount)
        \/ UNCHANGED mapVars
    BY <1>2, Zenon DEF FlushTraces, WSample, WScanned, WScanEmpty, WClassify,
       WStored, WStoreFailed, WSync
  <2> QED
    BY <2>1, <2>2 DEF MapNext
<1>3. CASE FlushThread \/ KContinues \/ KCalls
  <2>1. UNCHANGED mapVars \/ MapDestroy
    BY <1>3, FlushThreadFrame, ControlFrame, Zenon DEF KDestroy
  <2> QED
    BY <2>1 DEF MapNext
<1>4. CASE ClockTick
  BY <1>4 DEF ClockTick, MapNext
<1>5. CASE UNCHANGED vars
  BY <1>5 DEF vars
<1> QED
  BY <1>1, <1>2, <1>3, <1>4, <1>5 DEF Next

-----------------------------------------------------------------------------
(* Where the threads are. *)

\* A flag is only ever given a truth value.
LEMMA FlagsStep ==
  ASSUME CollectorInv, [Next]_vars
  PROVE  FlagsTypeOK'
<1>1. FlagsTypeOK
  BY DEF CollectorInv
<1>2. CASE Receiver
  BY <1>1, <1>2, ReceiverFrame, Zenon DEF FlagsTypeOK, controlVars, flushVars
<1>3. CASE FlushThread
  <2>1. UNCHANGED <<running, stopped, rRunning, syncFailed>>
    BY <1>3, FlushThreadFrame, Zenon DEF controlVars
  <2>2. wroteAny' = wroteAny \/ wroteAny' = FALSE
    BY <1>3, Zenon DEF FlushThread, FFlush, EnterFlush, FCheck, FWake, FStop, flushVars
  <2> QED
    BY <1>1, <2>1, <2>2, Zenon DEF FlagsTypeOK
<1>4. CASE FlushTraces
  <2>1. UNCHANGED <<running, rRunning>>
    BY <1>4, FlushTracesFrame, Zenon
  <2>2. /\ wroteAny' = wroteAny \/ wroteAny' = TRUE
        /\ syncFailed' = syncFailed \/ syncFailed' = TRUE
        /\ stopped' = stopped \/ stopped' = "drained"
    BY <1>4, Zenon DEF FlushTraces, WSample, WScanned, WScanEmpty, WClassify,
       WStored, WStoreFailed, WSync, WNext, ReturnToCaller, controlVars
  <2> QED
    BY <1>1, <2>1, <2>2, Zenon DEF FlagsTypeOK
<1>5. CASE KContinues \/ KCalls
  <2>1. /\ running' = running \/ running' = TRUE \/ running' = FALSE
        /\ stopped' = stopped \/ stopped' = "no" \/ stopped' = "idle"
        /\ rRunning' = rRunning \/ rRunning' = TRUE \/ rRunning' = FALSE
        /\ wroteAny' = wroteAny \/ wroteAny' = FALSE
        /\ syncFailed' = syncFailed \/ syncFailed' = TRUE
    BY <1>5, ControlSteps, Zenon
       DEF KReceiverCreated, KReceiverFailed, KFlushCreated, KFlushFailed,
         KUndone, KStopReceiver, KReceiverJoined, KFlushJoined, KLoadPackets,
         KLoadTraces, KStatsReturned, KStart, KStop, KStopIdle,
       KDestroy, KStats,
         flushVars, controlVars, EnterFlush
  <2> QED
    BY <1>1, <2>1, Zenon DEF FlagsTypeOK
<1>6. CASE ClockTick \/ UNCHANGED vars
  BY <1>1, <1>6, ClockFrame, Zenon DEF FlagsTypeOK, vars, controlVars, flushVars
<1> QED
  BY <1>2, <1>3, <1>4, <1>5, <1>6 DEF Next

\* No step brings a thread where another one keeps it from being.
LEMMA ThreadsStep ==
  ASSUME CollectorInv, [Next]_vars
  PROVE  ThreadsTypeOK' /\ OneFlusher' /\ ThreadsExist'
<1>1. ThreadsTypeOK /\ OneFlusher /\ ThreadsExist
  BY DEF CollectorInv
<1>2. CASE Receiver
  <2>1. UNCHANGED <<controlVars, fPc, flushVars>>
    BY <1>2, ReceiverFrame
  <2>2. /\ rPc # "none"
        /\ rPc' \in {"loop", "recv", "limit", "decode", "count", "exited"}
    BY <1>2 DEF Receiver, RCheck, RNothing, RSocketError, RRateLimit,
       RUnauthorized, RInvalid, RStored, RRejected, RCount, RReceive
  <2>3. Place' = Place
    BY <2>1 DEF Place, controlVars
  <2>4. ThreadsTypeOK' /\ OneFlusher'
    BY <1>1, <2>1, <2>2 DEF ThreadsTypeOK, OneFlusher, controlVars, flushVars
  <2>5. rPc' # "none"
    BY <2>2
  <2>6. ThreadsExist'
    BY <1>1, <2>1, <2>2, <2>3, <2>5, DrainedFacts, Zenon DEF ThreadsExist, controlVars
  <2> QED
    BY <2>4, <2>6
<1>3. CASE FlushThread
  <2>1. UNCHANGED <<controlVars, rPc, syncFailed>>
    BY <1>3, FlushThreadFrame DEF receiverVars
  <2>2. Place' = Place
    BY <2>1 DEF Place, controlVars
  <2>3. fPc # "none" /\ fPc' # "none"
    BY <1>3 DEF FlushThread, FFlush, FCheck, FWake, FStop
  <2>4. ThreadsExist'
    BY <1>1, <2>1, <2>2, <2>3, DrainedFacts, Zenon DEF ThreadsExist, controlVars
  <2>5. CASE FFlush
    <3>1. /\ kPc' = kPc /\ fPc = "check" /\ fPc' = "flush" /\ wPc' = "sample"
          /\ flushFor' = "thread" /\ wroteAny' = FALSE
      BY <2>1, <2>5 DEF FFlush, EnterFlush, controlVars
    <3>2. kPc # "final flush"
      BY <1>1, <2>3 DEF ThreadsExist, Place, Drained
    <3>3. OneFlusher'
      BY <3>1, <3>2 DEF OneFlusher
    <3>4. UNCHANGED <<kPc, starts, rPc>>
      BY <2>1 DEF controlVars
    <3> QED
      BY <1>1, <2>4, <3>1, <3>3, <3>4 DEF ThreadsTypeOK
  <2>6. CASE FCheck \/ FWake \/ FStop
    <3>1. /\ fPc # "flush"
          /\ fPc' \in {"loop", "sleep", "check", "exited"}
          /\ UNCHANGED <<flushFor, wPc>>
      BY <2>6 DEF FCheck, FWake, FStop, flushVars
    <3>2. UNCHANGED <<kPc, starts, rPc>>
      BY <2>1 DEF controlVars
    <3> QED
      BY <1>1, <2>4, <3>1, <3>2 DEF ThreadsTypeOK, OneFlusher
  <2> QED
    BY <1>3, <2>4, <2>5, <2>6 DEF FlushThread
<1>4. CASE FlushTraces
  <2>1. UNCHANGED <<running, starts, rRunning, rPc>>
    BY <1>4, FlushTracesFrame DEF receiverVars
  <2>2. /\ wPc # "out"
        /\ \/ ReturnToCaller
           \/ /\ UNCHANGED <<flushFor, fPc, kPc, stopped>>
              /\ wPc' \in {"sample", "scan", "classify", "store", "sync"}
    BY <1>1, <1>4 DEF FlushTraces, WSample, WScanned, WScanEmpty, WClassify,
       WStored, WStoreFailed, WSync, WNext, controlVars, ThreadsTypeOK
  <2>3. CASE ReturnToCaller /\ flushFor = "thread"
    <3>1. /\ kPc' = kPc /\ fPc = "flush" /\ fPc' = "loop" /\ wPc' = "out"
          /\ flushFor' = "nobody" /\ kPc # "final flush"
      BY <1>1, <2>3 DEF ReturnToCaller, OneFlusher
    <3>2. Drained' = Drained
      BY <2>3, DrainedFacts, Zenon
    <3>3. Place' = Place
      BY <2>1, <3>1 DEF Place
    <3>4. ThreadsExist'
      <4>1. fPc # "none" /\ fPc' # "none"
        BY <3>1
      <4> QED
        BY <1>1, <2>1, <3>2, <3>3, <4>1, Zenon DEF ThreadsExist
    <3> QED
      BY <1>1, <2>1, <2>2, <3>1, <3>2, <3>4 DEF ThreadsTypeOK, OneFlusher
  <2>4. CASE ReturnToCaller /\ flushFor # "thread"
    <3>1. /\ kPc = "final flush" /\ kPc' = "down" /\ fPc' = fPc
          /\ wPc' = "out" /\ flushFor' = "nobody"
      BY <1>1, <2>2, <2>4 DEF ReturnToCaller, OneFlusher, ThreadsTypeOK
    <3>3. Place = "final flush" /\ Place' = "down"
      BY <3>1 DEF Place
    <3>4. ~running /\ rPc = "none" /\ fPc = "none"
      BY <1>1, <3>3 DEF ThreadsExist
    <3>5. ThreadsExist'
      BY <2>1, <3>1, <3>3, <3>4 DEF ThreadsExist
    <3> QED
      BY <1>1, <2>1, <3>1, <3>4, <3>5 DEF ThreadsTypeOK, OneFlusher
  <2>5. CASE /\ UNCHANGED <<flushFor, fPc, kPc, stopped>>
             /\ wPc' \in {"sample", "scan", "classify", "store", "sync"}
    <3>1. Place' = Place
      BY <2>1, <2>5 DEF Place
    <3>2. ThreadsExist'
      BY <1>1, <2>1, <2>5, <3>1, DrainedFacts, Zenon DEF ThreadsExist
    <3> QED
      BY <1>1, <2>1, <2>2, <2>5, <3>2 DEF ThreadsTypeOK, OneFlusher
  <2> QED
    BY <2>2, <2>3, <2>4, <2>5
<1>5. CASE KContinues \/ KCalls
  <2>1. CASE KStart
    <3>1. starts' \in 0..MaxStarts
      <4>1. starts \in 0..MaxStarts /\ starts < MaxStarts /\ starts' = starts + 1
        BY <1>1, <2>1 DEF KStart, ThreadsTypeOK
      <4> QED
        BY <4>1, CollectorConstants
    <3> QED
      BY <1>1, <2>1, <3>1
         DEF KStart, receiverVars, flushVars, ThreadsTypeOK, OneFlusher,
             ThreadsExist, Place, Drained
  <2>2. CASE KReceiverCreated
    BY <1>1, <2>2 DEF KReceiverCreated, flushVars, ThreadsTypeOK, OneFlusher,
           ThreadsExist, Place, Drained
  <2>3. CASE KReceiverFailed
    BY <1>1, <2>3 DEF KReceiverFailed, receiverVars, flushVars,
           ThreadsTypeOK, OneFlusher, ThreadsExist, Place, Drained
  <2>4. CASE KFlushCreated
    BY <1>1, <2>4 DEF KFlushCreated, receiverVars, flushVars,
           ThreadsTypeOK, OneFlusher, ThreadsExist, Place, Drained
  <2>5. CASE KFlushFailed
    BY <1>1, <2>5 DEF KFlushFailed, receiverVars, flushVars,
           ThreadsTypeOK, OneFlusher, ThreadsExist, Place, Drained
  <2>6. CASE KUndone
    BY <1>1, <2>6 DEF KUndone, flushVars,
           ThreadsTypeOK, OneFlusher, ThreadsExist, Place, Drained
  <2>7. CASE KStop
    BY <1>1, <2>7 DEF KStop, receiverVars, flushVars,
           ThreadsTypeOK, OneFlusher, ThreadsExist, Place, Drained
  <2>8. CASE KStopReceiver
    BY <1>1, <2>8 DEF KStopReceiver, receiverVars, flushVars,
           ThreadsTypeOK, OneFlusher, ThreadsExist, Place, Drained
  <2>9. CASE KReceiverJoined
    BY <1>1, <2>9 DEF KReceiverJoined, flushVars,
           ThreadsTypeOK, OneFlusher, ThreadsExist, Place, Drained
  <2>10. CASE KFlushJoined
    BY <1>1, <2>10 DEF KFlushJoined, receiverVars, EnterFlush,
           ThreadsTypeOK, OneFlusher, ThreadsExist, Place, Drained
  <2>15. CASE KStopIdle
    BY <1>1, <2>15 DEF KStopIdle, receiverVars, flushVars,
           ThreadsTypeOK, OneFlusher, ThreadsExist, Place, Drained
  <2>11. CASE KDestroy
    BY <1>1, <2>11 DEF KDestroy, receiverVars,
           ThreadsTypeOK, OneFlusher, ThreadsExist, Place, Drained
  <2>12. CASE KStats
    BY <1>1, <2>12 DEF KStats, receiverVars, flushVars,
           ThreadsTypeOK, OneFlusher, ThreadsExist, Place, Drained
  <2>13. CASE KLoadPackets \/ KLoadTraces
    <3>1. UNCHANGED <<controlVars, rPc, fPc, flushFor, wPc>>
      BY <2>13, Zenon DEF KLoadPackets, KLoadTraces, receiverVars, flushVars
    <3>2. Place' = Place
      BY <3>1 DEF Place, controlVars
    <3>3. ThreadsExist'
      BY <1>1, <3>1, <3>2, DrainedFacts, Zenon DEF ThreadsExist, controlVars
    <3> QED
      BY <1>1, <3>1, <3>3 DEF ThreadsTypeOK, OneFlusher, controlVars
  <2>14. CASE KStatsReturned
    BY <1>1, <2>14 DEF KStatsReturned, receiverVars, flushVars,
           ThreadsTypeOK, OneFlusher, ThreadsExist, Place, Drained
  <2> QED
    BY <1>5, <2>1, <2>2, <2>3, <2>4, <2>5, <2>6, <2>7, <2>8, <2>9, <2>10,
       <2>11, <2>12, <2>13, <2>14, <2>15, ControlSteps
<1>6. CASE ClockTick \/ UNCHANGED vars
  <2>1. UNCHANGED <<controlVars, rPc, fPc, flushVars>>
    BY <1>6, ClockFrame DEF vars, receiverVars
  <2>2. Place' = Place
    BY <2>1 DEF Place, controlVars
  <2>3. ThreadsExist'
    BY <1>1, <2>1, <2>2, DrainedFacts, Zenon DEF ThreadsExist, controlVars
  <2> QED
    BY <1>1, <2>1, <2>3 DEF ThreadsTypeOK, OneFlusher, controlVars, flushVars
<1> QED
  BY <1>2, <1>3, <1>4, <1>5, <1>6 DEF Next

-----------------------------------------------------------------------------
(* The receiver: packets and windows. *)

\* Who is where, in the form the steps below use.
LEMMA Whereabouts ==
  ASSUME CollectorInv
  PROVE  /\ kPc = "create receiver" => rPc = "none"
         /\ kPc \in {"undo", "join receiver"} => rPc # "none"
         /\ kPc = "final flush" => rPc = "none" /\ fPc = "none"
         /\ Drained => rPc = "none" /\ fPc = "none" /\ flushFor = "nobody"
         /\ Drained => wPc = "out" /\ kPc \in {"down", "stats", "destroyed"}
<1>1. ThreadsTypeOK /\ OneFlusher /\ ThreadsExist
  BY DEF CollectorInv
<1>2. /\ kPc = "create receiver" => rPc = "none"
      /\ kPc \in {"undo", "join receiver"} => rPc # "none"
      /\ kPc = "final flush" => rPc = "none" /\ fPc = "none"
  BY <1>1 DEF ThreadsExist, Place
<1>3. ASSUME Drained
      PROVE  /\ rPc = "none" /\ fPc = "none" /\ flushFor = "nobody"
             /\ wPc = "out" /\ kPc \in {"down", "stats", "destroyed"}
  <2>1. Place \in {"down", "destroyed"}
    BY <1>1, <1>3, Zenon DEF ThreadsExist
  <2>2. kPc \in {"down", "stats", "destroyed"} /\ rPc = "none" /\ fPc = "none"
    BY <1>1, <2>1 DEF ThreadsExist, Place
  <2> QED
    BY <1>1, <2>2 DEF OneFlusher, ThreadsTypeOK
<1> QED
  BY <1>2, <1>3

\* The types of the map's counters, which the steps below add up.
LEMMA MapCounters ==
  ASSUME MapTypeOK
  PROVE  /\ inserts \in Nat /\ count \in Nat /\ tracesDropped \in Nat
         /\ spansDropped \in Nat /\ refused \in Nat /\ clock \in Nat
         /\ Len(closed) \in Nat
BY MapConstants DEF MapTypeOK

\* Every packet goes one way, and is counted there.
LEMMA PacketStep ==
  ASSUME CollectorInv, [Next]_vars
  PROVE  PacketFlow' /\ CountersTypeOK'
<1>1. PacketFlow /\ CountersTypeOK /\ ThreadsTypeOK /\ MapTypeOK
  BY DEF CollectorInv, MapInv
<1>2. /\ inserts \in Nat /\ tracesDropped \in Nat /\ spansDropped \in Nat
      /\ refused \in Nat
  BY <1>1, MapCounters
<1>3. ASSUME UNCHANGED <<packet, packetsReceived, rateLimited, unauthorized,
                         invalid, spansProcessed, inserts, tracesDropped,
                         spansDropped, refused>>,
             \/ rPc' = rPc
             \/ /\ rPc' \notin {"limit", "decode", "count"}
                /\ rPc \notin {"limit", "decode", "count"}
      PROVE  /\ PacketFlow'
             /\ UNCHANGED <<packetsReceived, rateLimited, unauthorized,
                            invalid, spansProcessed>>
  <2>1. CASE rPc' = rPc
    BY <1>1, <1>3, <2>1 DEF PacketFlow
  <2>2. CASE rPc' # rPc
    BY <1>1, <1>3, <2>2 DEF PacketFlow
  <2> QED
    BY <2>1, <2>2
<1>4. CASE Receiver
  <2>1. UNCHANGED <<completed, timedOut, writes, errors>>
    BY <1>4, ReceiverFrame DEF flushVars
  <2>2. CASE RCheck \/ RNothing \/ RSocketError
    <3>1. /\ UNCHANGED <<packet, packetsReceived, rateLimited, unauthorized,
                         invalid, spansProcessed, inserts, tracesDropped,
                         spansDropped, refused>>
          /\ rPc' \notin {"limit", "decode", "count"}
          /\ rPc \notin {"limit", "decode", "count"}
      BY <2>2 DEF RCheck, RNothing, RSocketError, mapVars
    <3> QED
      BY <1>1, <1>3, <2>1, <3>1 DEF CountersTypeOK
  <2>3. ASSUME NEW datagram, RReceive(datagram),
               \/ \E span \in SpanInputs : datagram = <<"span", span>>
               \/ \E kind \in BadPackets : datagram = <<kind>>
        PROVE  PacketFlow' /\ CountersTypeOK'
    <3>1. /\ UNCHANGED <<rateLimited, unauthorized, invalid, spansProcessed,
                         inserts, tracesDropped, spansDropped, refused>>
          /\ rPc = "recv" /\ rPc' = "limit" /\ packet' = datagram
          /\ packetsReceived < MaxPackets
          /\ packetsReceived' = packetsReceived + 1
      BY <2>3 DEF RReceive, mapVars
    <3>2. datagram # NoPacket
      BY <2>3 DEF NoPacket
    <3>3. packetsReceived' \in 0..MaxPackets
      BY <1>1, <3>1, CollectorConstants DEF CountersTypeOK
    <3>4. CountersTypeOK'
      BY <1>1, <2>1, <3>1, <3>3 DEF CountersTypeOK
    <3>5. \/ packet' = NoPacket
          \/ \E span \in SpanInputs : packet' = <<"span", span>>
          \/ \E kind \in BadPackets : packet' = <<kind>>
      BY <2>3, <3>1
    <3>6. packetsReceived' =
             inserts' + rateLimited' + unauthorized' + invalid' + 1
      BY <1>1, <1>2, <3>1 DEF PacketFlow, CountersTypeOK
    <3> QED
      BY <1>1, <3>1, <3>2, <3>4, <3>5, <3>6 DEF PacketFlow
  <2>4. CASE RRateLimit
    <3>1. /\ UNCHANGED <<packetsReceived, unauthorized, invalid, spansProcessed,
                         inserts, tracesDropped, spansDropped, refused>>
          /\ rPc = "limit"
          /\ \/ /\ rateLimited' = rateLimited + 1 /\ packet' = NoPacket
                /\ rPc' = "loop"
             \/ UNCHANGED <<rateLimited, packet>> /\ rPc' = "decode"
      BY <2>4 DEF RRateLimit, mapVars
    <3>2. CountersTypeOK'
      BY <1>1, <2>1, <3>1 DEF CountersTypeOK
    <3>3. PacketFlow'
      BY <1>1, <1>2, <3>1 DEF PacketFlow, CountersTypeOK
    <3> QED
      BY <3>2, <3>3
  <2>5. CASE RUnauthorized \/ RInvalid
    <3>1. /\ UNCHANGED <<packetsReceived, rateLimited, spansProcessed,
                         inserts, tracesDropped, spansDropped, refused>>
          /\ rPc = "decode" /\ rPc' = "loop" /\ packet' = NoPacket
          /\ \/ unauthorized' = unauthorized + 1 /\ invalid' = invalid
             \/ invalid' = invalid + 1 /\ unauthorized' = unauthorized
      BY <2>5 DEF RUnauthorized, RInvalid, mapVars
    <3>2. CountersTypeOK'
      BY <1>1, <2>1, <3>1 DEF CountersTypeOK
    <3>3. PacketFlow'
      BY <1>1, <1>2, <3>1 DEF PacketFlow, CountersTypeOK
    <3> QED
      BY <3>2, <3>3
  <2>6. CASE RStored
    <3>1. /\ UNCHANGED <<packetsReceived, rateLimited, unauthorized, invalid,
                         spansProcessed>>
          /\ rPc = "decode" /\ rPc' = "count" /\ packet' = NoPacket
      BY <2>6 DEF RStored
    <3>2. /\ inserts' = inserts + 1
          /\ UNCHANGED <<tracesDropped, spansDropped, refused>>
      BY <1>1, <2>6, InsertCounts DEF RStored
    <3>3. CountersTypeOK'
      BY <1>1, <2>1, <3>1 DEF CountersTypeOK
    <3>4. PacketFlow'
      BY <1>1, <1>2, <3>1, <3>2 DEF PacketFlow, CountersTypeOK
    <3> QED
      BY <3>3, <3>4
  <2>7. CASE RRejected
    <3>1. /\ UNCHANGED <<packetsReceived, rateLimited, unauthorized, invalid,
                         spansProcessed>>
          /\ rPc = "decode" /\ rPc' = "loop" /\ packet' = NoPacket
      BY <2>7 DEF RRejected
    <3>2. /\ inserts' = inserts + 1
          /\ tracesDropped' + spansDropped' + refused'
                = tracesDropped + spansDropped + refused + 1
          /\ tracesDropped' \in Nat /\ spansDropped' \in Nat
          /\ refused' \in Nat
      <4>1. InsertRejected(packet[2])
        BY <2>7 DEF RRejected
      <4> QED
        BY <1>1, <1>2, <4>1, InsertCounts
    <3>3. CountersTypeOK'
      BY <1>1, <2>1, <3>1 DEF CountersTypeOK
    <3>4. spansProcessed = inserts - tracesDropped - spansDropped - refused
          /\ packetsReceived = inserts + rateLimited + unauthorized + invalid + 1
      BY <1>1, <1>2, <3>1 DEF PacketFlow, CountersTypeOK
    <3>5. /\ spansProcessed' =
                inserts' - tracesDropped' - spansDropped' - refused'
          /\ packetsReceived' =
                inserts' + rateLimited' + unauthorized' + invalid'
      <4>1. spansProcessed' =
               inserts' - tracesDropped' - spansDropped' - refused'
        <5>1. spansProcessed \in Nat /\ UNCHANGED spansProcessed
          BY <1>1, <3>1 DEF CountersTypeOK
        <5>2. PICK a \in Nat, b \in Nat, c \in Nat :
                 a = tracesDropped' /\ b = spansDropped' /\ c = refused'
          BY <3>2
        <5>3. a + b + c = tracesDropped + spansDropped + refused + 1
          BY <3>2, <5>2
        <5>4. spansProcessed = (inserts + 1) - a - b - c
          BY <1>2, <3>4, <5>1, <5>3
        <5> QED
          BY <3>2, <5>1, <5>2, <5>4
      <4>2. packetsReceived' =
               inserts' + rateLimited' + unauthorized' + invalid'
        BY <1>1, <1>2, <3>1, <3>2, <3>4 DEF CountersTypeOK
      <4> QED
        BY <4>1, <4>2
    <3>6. PacketFlow'
      BY <1>1, <1>2, <3>1, <3>2, <3>3, <3>5 DEF PacketFlow, CountersTypeOK
    <3> QED
      BY <3>3, <3>6
  <2>8. CASE RCount
    <3>1. /\ UNCHANGED <<packet, packetsReceived, rateLimited, unauthorized,
                         invalid, inserts, tracesDropped, spansDropped,
                         refused>>
          /\ rPc = "count" /\ rPc' = "loop"
          /\ spansProcessed' = spansProcessed + 1
      BY <2>8 DEF RCount, mapVars
    <3>2. CountersTypeOK'
      BY <1>1, <2>1, <3>1 DEF CountersTypeOK
    <3>3. PacketFlow'
      BY <1>1, <1>2, <3>1 DEF PacketFlow, CountersTypeOK
    <3> QED
      BY <3>2, <3>3
  <2> QED
    BY <1>4, <2>2, <2>3, <2>4, <2>5, <2>6, <2>7, <2>8 DEF Receiver
<1>5. CASE FlushTraces
  <2>1. UNCHANGED <<packet, packetsReceived, rateLimited, unauthorized,
                    invalid, spansProcessed, inserts, tracesDropped,
                    spansDropped, refused, rPc>>
    BY <1>5, FlushTracesFrame DEF receiverVars
  <2>2. /\ completed' \in {completed, completed + 1}
        /\ timedOut' \in {timedOut, timedOut + 1}
        /\ writes' \in {writes, writes + 1}
        /\ errors' \in {errors, errors + 1}
    BY <1>5 DEF FlushTraces, WSample, WScanned, WScanEmpty, WClassify, WStored,
       WStoreFailed, WSync
  <2> QED
    BY <1>1, <1>3, <2>1, <2>2 DEF CountersTypeOK
<1>6. CASE FlushThread \/ ClockTick \/ UNCHANGED vars
  <2>1. UNCHANGED <<packet, packetsReceived, rateLimited, unauthorized,
                    invalid, spansProcessed, inserts, tracesDropped,
                    spansDropped, refused, rPc>>
    BY <1>6, FlushThreadFrame, ClockFrame DEF receiverVars, vars, mapVars
  <2>2. UNCHANGED <<completed, timedOut, writes, errors>>
    BY <1>6, FlushThreadFrame, ClockFrame DEF flushVars, vars
  <2> QED
    BY <1>1, <1>3, <2>1, <2>2 DEF CountersTypeOK
<1>7. CASE KContinues \/ KCalls
  <2>1. UNCHANGED <<packet, packetsReceived, rateLimited, unauthorized,
                    invalid, spansProcessed, inserts, tracesDropped,
                    spansDropped, refused, completed, timedOut, writes,
                    errors>>
    BY <1>7, ControlFrame
  <2>2. \/ rPc' = rPc
        \/ kPc = "create receiver" /\ rPc' = "loop"
        \/ rPc = "exited" /\ rPc' = "none"
    BY <1>7, ControlSteps, Zenon
       DEF KReceiverCreated, KReceiverFailed, KFlushCreated, KFlushFailed,
           KUndone, KStopReceiver, KReceiverJoined, KFlushJoined, KLoadPackets,
           KLoadTraces, KStatsReturned, KStart, KStop, KStopIdle,
       KDestroy, KStats,
           receiverVars
  <2>3. kPc = "create receiver" => rPc = "none"
    BY Whereabouts
  <2> QED
    BY <1>1, <1>3, <2>1, <2>2, <2>3 DEF CountersTypeOK
<1> QED
  BY <1>4, <1>5, <1>6, <1>7 DEF Next

\* The second of a later moment is not an earlier second.
LEMMA SecondsPass ==
  ASSUME NEW a \in Nat, NEW b \in Nat, a <= b
  PROVE  /\ a \div TicksPerSec \in Nat /\ b \div TicksPerSec \in Nat
         /\ a \div TicksPerSec <= b \div TicksPerSec
<1> DEFINE T == TicksPerSec
           p == a \div T
           q == b \div T
           r == a % T
           s == b % T
<1>1. /\ T \in Nat \ {0}
      /\ p \in Nat /\ r \in 0..(T - 1) /\ a = T * p + r
      /\ q \in Nat /\ s \in 0..(T - 1) /\ b = T * q + s
  BY MapConstants, DivisionWithRemainder
<1> HIDE DEF T, p, q, r, s
<1>2. ASSUME p > q PROVE FALSE
  <2> DEFINE d == p - q
  <2>1. d \in Int /\ d >= 1 /\ p = q + d
    BY <1>1, <1>2
  <2>2. T * d >= T
    BY <1>1, <2>1, MultipleAtLeast
  <2>3. T * p = T * q + T * d
    BY <1>1, <2>1
  <2>4. /\ T * d \in Int /\ T * q \in Int /\ T * p \in Int
    <3>1. \A m, n \in Int : m * n \in Int
      OBVIOUS
    <3>2. T \in Int /\ d \in Int /\ q \in Int /\ p \in Int
      BY <1>1, <2>1
    <3> QED
      BY <3>1, <3>2
  <2> HIDE DEF d
  <2> QED
    BY <1>1, <2>2, <2>3, <2>4
<1>3. p <= q
  BY <1>1, <1>2
<1> QED
  BY <1>1, <1>3 DEF T, p, q

\* The clock is always in one of the seconds counted.
LEMMA ClockSecond ==
  ASSUME MapTypeOK
  PROVE  clock \div TicksPerSec \in Seconds
<1>1. clock \in Nat /\ MaxTicks \in Nat /\ clock <= MaxTicks
  BY MapConstants DEF MapTypeOK
<1> QED
  BY <1>1, SecondsPass DEF Seconds

\* What a packet does to the traffic of its second: with a packets admitted
\* and l turned away of c so far, the limit M is exact after it, too.
LEMMA OneMorePacket ==
  ASSUME NEW M \in Nat, NEW a \in Nat, NEW l \in Nat, a <= M,
         l > 0 => a = M
  PROVE  /\ a + l + 1 > M => a = M
         /\ a + l + 1 <= M => a + 1 <= M /\ l = 0
OBVIOUS

\* A receiver thread admits what the limit allows and no more, in each second.
LEMMA WindowStep ==
  ASSUME CollectorInv, [Next]_vars
  PROVE  Window'
<1> DEFINE now == clock \div TicksPerSec
           M == MaxPacketsPerSec
           Traffic == [admitted : Nat, limited : Nat]
<1>1. Window /\ MapTypeOK
  BY DEF CollectorInv, MapInv
<1>2. /\ now \in Seconds /\ now \in Nat /\ 0 \in Seconds
      /\ Seconds \subseteq Nat /\ M \in Nat
  <2>1. now \in Seconds
    BY <1>1, ClockSecond
  <2>2. MaxTicks \in Nat /\ 0 \in Nat
    BY MapConstants
  <2>3. MaxTicks \div TicksPerSec \in Nat
    BY <2>2, SecondsPass
  <2> QED
    BY <2>1, <2>3, CollectorConstants DEF Seconds
<1>3. ASSUME UNCHANGED <<windowSec, windowCount, perSecond, clock>>
      PROVE  Window'
  BY <1>1, <1>3 DEF Window, RateLimitExact
<1>4. CASE Receiver
  <2>1. CASE RRateLimit
    <3> DEFINE a == perSecond[now].admitted
               l == perSecond[now].limited
               c == InWindow(now)
    <3>1. /\ clock' = clock
          /\ IF M > 0 THEN windowSec' = now /\ windowCount' = c
                      ELSE UNCHANGED <<windowSec, windowCount>>
          /\ \/ /\ M > 0 /\ c > M
                /\ perSecond' = [perSecond EXCEPT ![now].limited = @ + 1]
             \/ /\ ~(M > 0 /\ c > M)
                /\ perSecond' = [perSecond EXCEPT ![now].admitted = @ + 1]
      BY <2>1 DEF RRateLimit, mapVars, OverLimit
    <3>2. perSecond \in [Seconds -> Traffic] /\ windowSec \in Seconds
          /\ windowCount \in Nat /\ windowSec <= now
      BY <1>1 DEF Window
    <3>3. a \in Nat /\ l \in Nat /\ c \in Nat
      BY <1>2, <3>2 DEF InWindow
    <3>4. /\ perSecond' \in [Seconds -> Traffic]
          /\ \A s \in Seconds : s # now => perSecond'[s] = perSecond[s]
          /\ \/ /\ M > 0 /\ c > M
                /\ perSecond'[now].admitted = a /\ perSecond'[now].limited = l + 1
             \/ /\ ~(M > 0 /\ c > M)
                /\ perSecond'[now].admitted = a + 1 /\ perSecond'[now].limited = l
      <4>1. perSecond[now] \in Traffic
        BY <1>2, <3>2
      <4>2. CASE M > 0 /\ c > M
        <5> DEFINE new == [perSecond[now] EXCEPT !.limited = @ + 1]
        <5>1. new \in Traffic /\ new.admitted = a /\ new.limited = l + 1
          BY <4>1
        <5>2. perSecond' = [perSecond EXCEPT ![now] = new]
          BY <3>1, <3>2, <4>2
        <5> HIDE DEF new
        <5> QED
          BY <1>2, <3>2, <4>2, <5>1, <5>2
      <4>3. CASE ~(M > 0 /\ c > M)
        <5> DEFINE new == [perSecond[now] EXCEPT !.admitted = @ + 1]
        <5>1. new \in Traffic /\ new.admitted = a + 1 /\ new.limited = l
          BY <4>1
        <5>2. perSecond' = [perSecond EXCEPT ![now] = new]
          BY <3>1, <3>2, <4>3
        <5> HIDE DEF new
        <5> QED
          BY <1>2, <3>2, <4>3, <5>1, <5>2
      <4> QED
        BY <4>2, <4>3
    <3>5. CASE M = 0
      BY <1>1, <1>2, <3>1, <3>2, <3>4, <3>5 DEF Window
    <3>6. CASE M > 0
      <4>1. /\ windowSec' = now /\ windowCount' = c
        BY <3>1, <3>6
      <4>2. /\ \A s \in Seconds : /\ perSecond[s].admitted <= M
                                  /\ perSecond[s].limited > 0 =>
                                        perSecond[s].admitted = M
            /\ \A s \in Seconds : s > windowSec =>
                  perSecond[s].admitted = 0 /\ perSecond[s].limited = 0
            /\ perSecond[windowSec].admitted + perSecond[windowSec].limited
                  = windowCount
        BY <1>1, <3>6 DEF Window, RateLimitExact
      <4>3. c = a + l + 1
        <5>1. CASE now = windowSec
          BY <3>2, <3>3, <4>2, <5>1 DEF InWindow
        <5>2. CASE now # windowSec
          <6>1. now > windowSec
            BY <1>2, <3>2, <5>2
          <6>2. a = 0 /\ l = 0
            BY <1>2, <4>2, <6>1
          <6> QED
            BY <5>2, <6>2 DEF InWindow
        <5> QED
          BY <5>1, <5>2
      <4>4. a <= M /\ (l > 0 => a = M)
        BY <1>2, <4>2
      <4>5. /\ c > M => a = M
            /\ c <= M => a + 1 <= M /\ l = 0
        BY <1>2, <3>3, <4>3, <4>4, OneMorePacket
      <4> HIDE DEF now, a, l, c
      <4>6. /\ perSecond'[now].admitted + perSecond'[now].limited = c
            /\ perSecond'[now].admitted <= M
            /\ perSecond'[now].limited > 0 => perSecond'[now].admitted = M
        BY <1>2, <3>3, <3>4, <3>6, <4>3, <4>4, <4>5
      <4>7. \A s \in Seconds :
               /\ perSecond'[s].admitted <= M
               /\ perSecond'[s].limited > 0 => perSecond'[s].admitted = M
               /\ s > now => /\ perSecond'[s].admitted = 0
                             /\ perSecond'[s].limited = 0
        <5> SUFFICES ASSUME NEW s \in Seconds
                     PROVE  /\ perSecond'[s].admitted <= M
                            /\ perSecond'[s].limited > 0 =>
                                  perSecond'[s].admitted = M
                            /\ s > now => /\ perSecond'[s].admitted = 0
                                          /\ perSecond'[s].limited = 0
          OBVIOUS
        <5>1. CASE s = now
          BY <1>2, <4>6, <5>1
        <5>2. CASE s # now
          <6>1. perSecond'[s] = perSecond[s]
            BY <3>4, <5>2
          <6>2. s > now => s > windowSec
            BY <1>2, <3>2
          <6> QED
            BY <4>2, <6>1, <6>2
        <5> QED
          BY <5>1, <5>2
      <4>8. windowSec' \in Seconds /\ windowSec' <= (clock \div TicksPerSec)'
        BY <1>2, <3>1, <4>1 DEF now
      <4> QED
        BY <3>3, <3>4, <4>1, <4>6, <4>7, <4>8 DEF Window, RateLimitExact
    <3> QED
      BY <1>2, <3>5, <3>6
  <2>2. CASE ~RRateLimit
    <3>1. UNCHANGED <<windowSec, windowCount, perSecond>>
      BY <1>4, <2>2, Zenon DEF Receiver, RCheck, RNothing, RSocketError,
         RUnauthorized, RInvalid, RStored, RRejected, RCount, RReceive
    <3> QED
      BY <1>3, <1>4, <3>1, ReceiverFrame
  <2> QED
    BY <2>1, <2>2
<1>5. CASE FlushTraces
  BY <1>3, <1>5, FlushTracesFrame DEF receiverVars
<1>6. CASE FlushThread
  BY <1>3, <1>6, FlushThreadFrame DEF receiverVars, mapVars
<1>7. CASE ClockTick
  <2>1. UNCHANGED <<windowSec, windowCount, perSecond>> /\ clock' = clock + 1
    BY <1>7, ClockFrame DEF receiverVars
  <2>2. now <= (clock + 1) \div TicksPerSec /\ (clock + 1) \div TicksPerSec \in Nat
    <3>1. clock \in Nat /\ clock + 1 \in Nat /\ clock <= clock + 1
      BY <1>1, MapConstants DEF MapTypeOK
    <3> QED
      BY <3>1, SecondsPass
  <2>3. windowSec \in Nat /\ windowSec <= now
    BY <1>1, <1>2 DEF Window
  <2>4. windowSec <= (clock + 1) \div TicksPerSec
    BY <1>2, <2>2, <2>3
  <2> QED
    BY <1>1, <2>1, <2>4 DEF Window, RateLimitExact
<1>8. CASE KContinues \/ KCalls
  <2>1. clock' = clock
    BY <1>8, ControlFrame
  <2>2. CASE KReceiverCreated
    <3>1. windowSec' = 0 /\ windowCount' = 0 /\ perSecond' = NoTraffic
      BY <2>2 DEF KReceiverCreated
    <3>2. /\ NoTraffic \in [Seconds -> Traffic]
          /\ \A s \in Seconds : /\ NoTraffic[s].admitted = 0
                                /\ NoTraffic[s].limited = 0
      BY DEF NoTraffic
    <3> QED
      BY <1>2, <2>1, <3>1, <3>2 DEF Window, RateLimitExact
  <2>3. CASE ~KReceiverCreated
    <3>1. UNCHANGED <<windowSec, windowCount, perSecond>>
      BY <1>8, <2>3, ControlSteps, Zenon
       DEF KReceiverFailed, KFlushCreated, KFlushFailed,
           KUndone, KStopReceiver, KReceiverJoined, KFlushJoined, KLoadPackets,
           KLoadTraces, KStatsReturned, KStart, KStop, KStopIdle,
       KDestroy, KStats,
           receiverVars
    <3> QED
      BY <1>3, <2>1, <3>1
  <2> QED
    BY <2>2, <2>3
<1>9. CASE UNCHANGED vars
  BY <1>3, <1>9 DEF vars, receiverVars, mapVars
<1> QED
  BY <1>4, <1>5, <1>6, <1>7, <1>8, <1>9 DEF Next

-----------------------------------------------------------------------------
(* flush_traces: every trace taken out of the map is handled once. *)

\* A record put at the end of the log.
LEMMA LogGrows ==
  ASSUME NEW m \in Nat, NEW h \in Nat, h < m, NEW l \in Seq(1..m),
         \A i, j \in DOMAIN l : i < j => l[i] < l[j],
         \A i \in DOMAIN l : l[i] <= h
  PROVE  LET new == Append(l, h + 1)
         IN  /\ new \in Seq(1..m)
             /\ Len(new) = Len(l) + 1
             /\ \A i \in DOMAIN l : i \in DOMAIN new /\ new[i] = l[i]
             /\ \E i \in DOMAIN new : new[i] = h + 1
             /\ \A i, j \in DOMAIN new : i < j => new[i] < new[j]
             /\ \A i \in DOMAIN new : new[i] = h + 1 \/ \E j \in DOMAIN l : new[i] = l[j]
<1> DEFINE new == Append(l, h + 1)
<1>1. /\ new \in Seq(1..m) /\ Len(l) \in Nat /\ Len(new) = Len(l) + 1
      /\ DOMAIN new = 1..(Len(l) + 1) /\ DOMAIN l = 1..Len(l)
      /\ new[Len(l) + 1] = h + 1
      /\ \A i \in 1..Len(l) : new[i] = l[i]
  OBVIOUS
<1>2. \A i \in 1..Len(l) : l[i] \in Nat /\ l[i] <= h
  <2>1. \A i \in 1..Len(l) : l[i] \in 1..m
    OBVIOUS
  <2>2. \A i \in DOMAIN l : l[i] <= h
    OBVIOUS
  <2>3. \A i \in 1..Len(l) : l[i] <= h
    BY <1>1, <2>2, Zenon
  <2>4. \A k \in 1..m : k \in Nat
    OBVIOUS
  <2> QED
    BY <2>1, <2>3, <2>4, Zenon
<1> HIDE DEF new
<1>3. ASSUME NEW i \in DOMAIN new, NEW j \in DOMAIN new, i < j
      PROVE  new[i] < new[j]
  <2>1. CASE j = Len(l) + 1
    <3>1. i \in 1..Len(l)
      BY <1>1, <1>3, <2>1
    <3> QED
      BY <1>1, <1>2, <2>1, <3>1
  <2>2. CASE j # Len(l) + 1
    <3>1. i \in 1..Len(l) /\ j \in 1..Len(l)
      BY <1>1, <1>3, <2>2
    <3> QED
      BY <1>1, <1>3, <3>1
  <2> QED
    BY <2>1, <2>2
<1>4. ASSUME NEW i \in DOMAIN new
      PROVE  new[i] = h + 1 \/ \E j \in DOMAIN l : new[i] = l[j]
  BY <1>1
<1>5. \A i \in DOMAIN l : i \in DOMAIN new /\ new[i] = l[i]
  BY <1>1
<1>6. \E i \in DOMAIN new : new[i] = h + 1
  <2>1. Len(l) + 1 \in DOMAIN new
    BY <1>1
  <2> QED
    BY <1>1, <2>1
<1> QED
  BY <1>1, <1>3, <1>4, <1>5, <1>6 DEF new

\* The record a store finds at hand is the next one.
LEMMA StoreStep ==
  ASSUME CollectorInv, WStored \/ WStoreFailed
  PROVE  TraceFlow'
<1>1. /\ TraceFlow /\ CountersTypeOK /\ MapTypeOK /\ TracesAccounted
      /\ wPc = "store" /\ handled' = handled + 1
      /\ UNCHANGED <<mapVars, completed, timedOut, synced>>
      /\ IF handled' = Len(closed) THEN wPc' = "sample" ELSE wPc' = "classify"
  BY DEF CollectorInv, MapInv, TraceFlow, WStored, WStoreFailed, WNext
<1> DEFINE L == Len(closed)
<1>2. /\ L \in Nat /\ handled \in Nat /\ handled < L /\ handled' \in 0..L
      /\ count \in Nat /\ inserts \in Nat /\ count + L <= inserts
      /\ lost \subseteq 1..handled /\ log \in Seq(1..L) /\ synced \in 0..Len(log)
      /\ Len(log) \in Nat
  BY <1>1, MapCounters DEF TraceFlow
<1>3. UNCHANGED <<count, closed, inserts>>
  BY <1>1 DEF mapVars
<1>4. /\ completed \in Nat /\ timedOut \in Nat /\ writes \in Nat /\ errors \in Nat
      /\ completed + timedOut = handled + 1
      /\ writes + errors = handled
      /\ \A i, j \in DOMAIN log : i < j => log[i] < log[j]
      /\ \A k \in 1..handled : \/ k \in lost
                               \/ closed[k].pt.spans = <<>>
                               \/ \E i \in DOMAIN log : log[i] = k
      /\ \A i \in DOMAIN log : log[i] <= handled /\ log[i] \notin lost
  BY <1>1 DEF TracesAccounted, CountersTypeOK
<1>5. /\ wPc' \in {"sample", "classify"}
      /\ wPc' = "classify" => handled' < Len(closed')
      /\ wPc' = "sample" => handled' = Len(closed')
  BY <1>1, <1>2, <1>3
<1>6. completed' + timedOut' = handled'
  BY <1>1, <1>4
<1>7. CASE WStored
  <2>1. /\ writes' = writes + 1 /\ UNCHANGED <<errors, lost>>
        /\ log' = IF closed[handled + 1].pt.spans = <<>>
                  THEN log ELSE Append(log, handled + 1)
    BY <1>7 DEF WStored, AtHand
  <2>2. writes' + errors' = handled'
    BY <1>1, <1>4, <2>1
  <2>3. /\ log' \in Seq(1..L) /\ Len(log') \in Nat /\ Len(log) <= Len(log')
        /\ \A i, j \in DOMAIN log' : i < j => log'[i] < log'[j]
        /\ \A i \in DOMAIN log : i \in DOMAIN log' /\ log'[i] = log[i]
        /\ \A i \in DOMAIN log' :
              log'[i] = handled + 1 \/ \E j \in DOMAIN log : log'[i] = log[j]
        /\ \/ closed[handled + 1].pt.spans = <<>>
           \/ \E i \in DOMAIN log' : log'[i] = handled + 1
    <3>1. CASE closed[handled + 1].pt.spans = <<>>
      BY <1>2, <1>4, <2>1, <3>1
    <3>2. CASE closed[handled + 1].pt.spans # <<>>
      <4>1. log' = Append(log, handled + 1)
        BY <2>1, <3>2
      <4>2. /\ \A i, j \in DOMAIN log : i < j => log[i] < log[j]
            /\ \A i \in DOMAIN log : log[i] <= handled
        BY <1>4
      <4>0. L \in Nat /\ handled \in Nat /\ handled < L /\ log \in Seq(1..L)
        BY <1>2
      <4> HIDE DEF L
      <4> DEFINE new == Append(log, handled + 1)
      <4>3. /\ new \in Seq(1..L) /\ Len(new) = Len(log) + 1
            /\ \A i \in DOMAIN log : i \in DOMAIN new /\ new[i] = log[i]
            /\ \E i \in DOMAIN new : new[i] = handled + 1
            /\ \A i, j \in DOMAIN new : i < j => new[i] < new[j]
            /\ \A i \in DOMAIN new :
                  new[i] = handled + 1 \/ \E j \in DOMAIN log : new[i] = log[j]
        BY <4>0, <4>2, LogGrows
      <4> HIDE DEF new
      <4>4. log' = new
        BY <4>1 DEF new
      <4> QED
        BY <1>2, <4>3, <4>4
    <3> QED
      BY <3>1, <3>2
  <2>4. ASSUME NEW k \in 1..handled'
        PROVE  \/ k \in lost'
               \/ closed'[k].pt.spans = <<>>
               \/ \E i \in DOMAIN log' : log'[i] = k
    <3>1. CASE k = handled + 1
      BY <1>3, <2>3, <3>1
    <3>2. CASE k # handled + 1
      <4>1. k \in 1..handled
        BY <1>1, <1>2, <3>2
      <4> QED
        BY <1>3, <1>4, <2>1, <2>3, <4>1
    <3> QED
      BY <3>1, <3>2
  <2>5. ASSUME NEW i \in DOMAIN log'
        PROVE  log'[i] <= handled' /\ log'[i] \notin lost'
    <3>1. CASE log'[i] = handled + 1
      BY <1>1, <1>2, <2>1, <3>1
    <3>2. CASE log'[i] # handled + 1
      <4>1. PICK j \in DOMAIN log : log'[i] = log[j]
        BY <2>3, <3>2
      <4>2. log[j] \in Nat /\ log[j] <= handled /\ log[j] \notin lost
        BY <1>2, <1>4
      <4> QED
        BY <1>1, <1>2, <2>1, <4>1, <4>2
    <3> QED
      BY <3>1, <3>2
  <2>6. TracesAccounted'
    <3>1. /\ wPc' # "store"
          /\ wPc' \in {"out", "sample", "scan", "sync"} => handled' = Len(closed')
      BY <1>5
    <3>2. completed' + timedOut' = handled' + IF wPc' = "store" THEN 1 ELSE 0
      BY <1>2, <1>6, <3>1
    <3> QED
      BY <2>2, <2>3, <2>4, <2>5, <3>1, <3>2, Zenon DEF TracesAccounted
  <2>7. lost' \subseteq 1..handled' /\ synced' \in 0..Len(log')
    BY <1>1, <1>2, <2>1, <2>3
  <2> QED
    BY <1>1, <1>2, <1>3, <1>5, <2>3, <2>6, <2>7 DEF TraceFlow
<1>8. CASE WStoreFailed
  <2>1. /\ errors' = errors + 1 /\ UNCHANGED <<writes, log>>
        /\ lost' = lost \union {handled + 1}
    BY <1>8 DEF WStoreFailed
  <2>2. writes' + errors' = handled'
    BY <1>1, <1>4, <2>1
  <2>3. ASSUME NEW k \in 1..handled'
        PROVE  \/ k \in lost'
               \/ closed'[k].pt.spans = <<>>
               \/ \E i \in DOMAIN log' : log'[i] = k
    <3>1. CASE k = handled + 1
      BY <2>1, <3>1
    <3>2. CASE k # handled + 1
      <4>1. k \in 1..handled
        BY <1>1, <1>2, <3>2
      <4> QED
        BY <1>3, <1>4, <2>1, <4>1
    <3> QED
      BY <3>1, <3>2
  <2>4. ASSUME NEW i \in DOMAIN log'
        PROVE  log'[i] <= handled' /\ log'[i] \notin lost'
    <3>1. log'[i] = log[i] /\ log[i] \in Nat /\ log[i] <= handled
          /\ log[i] \notin lost
      BY <1>2, <1>4, <2>1
    <3> QED
      BY <1>1, <1>2, <2>1, <3>1
  <2>5. TracesAccounted'
    BY <1>4, <1>5, <1>6, <2>1, <2>2, <2>3, <2>4 DEF TracesAccounted
  <2>6. lost' \subseteq 1..handled' /\ synced' \in 0..Len(log')
    BY <1>1, <1>2, <2>1
  <2> QED
    BY <1>1, <1>2, <1>3, <1>5, <2>1, <2>5, <2>6 DEF TraceFlow
<1> QED
  BY <1>7, <1>8

\* The other steps write nothing; a scan only adds to what is to be written.
LEMMA TraceFlowStep ==
  ASSUME CollectorInv, [Next]_vars
  PROVE  TraceFlow'
<1>1. /\ TraceFlow /\ CountersTypeOK /\ MapTypeOK /\ ThreadsTypeOK /\ OneFlusher
      /\ TracesAccounted
  BY DEF CollectorInv, MapInv, TraceFlow
<1>2. /\ Len(closed) \in Nat /\ count \in Nat /\ inserts \in Nat
      /\ handled \in 0..Len(closed) /\ log \in Seq(1..Len(closed))
      /\ Len(log) \in Nat
  BY <1>1, MapCounters DEF TraceFlow
<1>3. ASSUME UNCHANGED <<handled, completed, timedOut, writes, errors, log, lost,
                         closed>>,
             synced' \in 0..Len(log), count' + Len(closed) <= inserts',
             \/ wPc' = wPc
             \/ /\ wPc \in {"out", "sample", "scan", "sync"}
                /\ wPc' \in {"out", "sample", "scan", "sync"}
      PROVE  TraceFlow'
  <2>1. TracesAccounted'
    BY <1>1, <1>3 DEF TracesAccounted
  <2> QED
    BY <1>1, <1>3, <2>1 DEF TraceFlow
<1>4. ASSUME UNCHANGED <<handled, completed, timedOut, writes, errors, log, lost,
                         closed, count, inserts>>,
             synced' \in 0..Len(log),
             \/ wPc' = wPc
             \/ /\ wPc \in {"out", "sample", "scan", "sync"}
                /\ wPc' \in {"out", "sample", "scan", "sync"}
      PROVE  TraceFlow'
  BY <1>1, <1>3, <1>4 DEF TraceFlow
<1>5. synced \in 0..Len(log) /\ count + Len(closed) <= inserts
  BY <1>1 DEF TraceFlow
<1>6. CASE Receiver
  <2>1. UNCHANGED <<flushVars, closed>>
    BY <1>6, ReceiverFrame
  <2>2. count' + Len(closed) <= inserts'
    <3>1. CASE RStored \/ RRejected
      <4>1. inserts' = inserts + 1 /\ count' \in {count, count + 1}
        BY <1>1, <3>1, InsertCounts DEF RStored, RRejected
      <4> QED
        BY <1>2, <1>5, <4>1
    <3>2. CASE ~RStored /\ ~RRejected
      <4>1. UNCHANGED mapVars
        BY <1>6, <3>2, Zenon DEF Receiver, RCheck, RNothing, RSocketError,
           RRateLimit, RUnauthorized, RInvalid, RCount, RReceive
      <4> QED
        BY <1>5, <4>1 DEF mapVars
    <3> QED
      BY <3>1, <3>2
  <2> QED
    BY <1>3, <1>5, <2>1, <2>2 DEF flushVars
<1>7. CASE FlushThread
  <2>1. UNCHANGED <<handled, completed, timedOut, writes, errors, log, lost,
                    closed, count, inserts, synced>>
    BY <1>7, FlushThreadFrame DEF mapVars
  <2>2. wPc' = wPc \/ (wPc = "out" /\ wPc' = "sample")
    <3>1. FFlush => wPc = "out" /\ wPc' = "sample"
      <4> SUFFICES ASSUME FFlush PROVE wPc = "out" /\ wPc' = "sample"
        OBVIOUS
      <4>1. fPc = "check" /\ wPc' = "sample"
        BY DEF FFlush, EnterFlush
      <4>2. kPc # "final flush" /\ fPc # "flush"
        BY <4>1, Whereabouts
      <4> QED
        BY <1>1, <4>1, <4>2 DEF OneFlusher, ThreadsTypeOK
    <3>2. FCheck \/ FWake \/ FStop => wPc' = wPc
      BY DEF FCheck, FWake, FStop, flushVars
    <3> QED
      BY <1>7, <3>1, <3>2, Zenon DEF FlushThread
  <2> QED
    BY <1>4, <1>5, <2>1, <2>2
<1>8. CASE FlushTraces
  <2>1. CASE WSample
    BY <1>4, <1>5, <2>1 DEF WSample, FlushSample
  <2>2. CASE WScanned
    <3> DEFINE L == Len(closed)
               m == Len(closed')
    <3>1. /\ wPc = "scan" /\ wPc' = "classify" /\ L < m
          /\ FlushScan(FlushTimeout, FlushCount)
          /\ UNCHANGED <<handled, completed, timedOut, writes, errors, log,
                         lost, synced, inserts>>
      BY <2>2 DEF WScanned, FlushScan
    <3>2. /\ m \in Nat /\ count' + m = count + L
          /\ \A i \in DOMAIN closed : closed'[i] = closed[i]
      BY <1>1, <3>1, ScanTakesOut
    <3>3. handled = L
      BY <1>1, <3>1 DEF TracesAccounted
    <3>4. DOMAIN closed = 1..L
      BY <1>1 DEF MapTypeOK
    <3>5. log \in Seq(1..m)
      <4>1. 1..L \subseteq 1..m
        BY <1>2, <3>1, <3>2
      <4>2. \A i \in 1..Len(log) : log[i] \in 1..m
        BY <1>2, <4>1
      <4> HIDE DEF L, m
      <4> DEFINE same == [i \in 1..Len(log) |-> log[i]]
      <4>3. same \in Seq(1..m)
        BY <1>2, <4>2
      <4>4. log = same
        BY <1>2
      <4> HIDE DEF same
      <4> QED
        BY <4>3, <4>4
    <3>6. TracesAccounted'
      BY <1>1, <3>1, <3>2, <3>3, <3>4 DEF TracesAccounted
    <3>7. count' + m <= inserts' /\ handled' \in 0..m /\ handled' < m
      BY <1>2, <1>5, <3>1, <3>2, <3>3
    <3> HIDE DEF L
    <3>8. /\ wPc' \in {"classify", "store"} => handled' < m
          /\ log' \in Seq(1..m) /\ lost' \subseteq 1..handled'
          /\ synced' \in 0..Len(log')
      BY <1>1, <1>5, <3>1, <3>5, <3>7 DEF TraceFlow
    <3> QED
      BY <3>6, <3>7, <3>8 DEF TraceFlow
  <2>3. CASE WScanEmpty
    <3>1. /\ wPc = "scan" /\ wPc' \in {"sync", "out"} /\ closed' = closed
          /\ FlushScan(FlushTimeout, FlushCount)
          /\ UNCHANGED <<handled, completed, timedOut, writes, errors, log,
                         lost, synced, inserts>>
      BY <2>3 DEF WScanEmpty, FlushScan, ReturnToCaller
    <3>2. count' + Len(closed') = count + Len(closed)
      BY <1>1, <3>1, ScanTakesOut
    <3>3. count' + Len(closed) <= inserts'
      BY <1>5, <3>1, <3>2
    <3> QED
      BY <1>3, <1>5, <3>1, <3>3
  <2>4. CASE WClassify
    <3>1. /\ wPc = "classify" /\ wPc' = "store"
          /\ UNCHANGED <<mapVars, handled, writes, errors, log, lost, synced>>
          /\ \/ completed' = completed + 1 /\ timedOut' = timedOut
             \/ timedOut' = timedOut + 1 /\ completed' = completed
      BY <2>4 DEF WClassify
    <3>2. completed' + timedOut' = handled' + 1
      BY <1>1, <1>2, <3>1 DEF TracesAccounted, CountersTypeOK
    <3>3. UNCHANGED <<closed, count, inserts>>
      BY <3>1 DEF mapVars
    <3>4. TracesAccounted'
      BY <1>1, <3>1, <3>2, <3>3 DEF TracesAccounted
    <3> QED
      BY <1>1, <3>1, <3>3, <3>4 DEF TraceFlow
  <2>5. CASE WStored \/ WStoreFailed
    BY <2>5, StoreStep
  <2>6. CASE WSync
    <3>1. /\ wPc = "sync" /\ wPc' = "out"
          /\ UNCHANGED <<mapVars, handled, completed, timedOut, writes, errors,
                         log, lost>>
          /\ synced' = synced \/ synced' = Len(log)
      BY <2>6 DEF WSync, ReturnToCaller
    <3> QED
      BY <1>2, <1>4, <1>5, <3>1 DEF mapVars
  <2> QED
    BY <1>8, <2>1, <2>2, <2>3, <2>4, <2>5, <2>6 DEF FlushTraces
<1>9. CASE KContinues \/ KCalls
  <2>1. UNCHANGED <<handled, completed, timedOut, writes, errors, log, lost,
                    closed, inserts>>
    BY <1>9, ControlFrame
  <2>6. count' + Len(closed) <= inserts'
    <3>1. count' = count \/ count' = 0
      BY <1>9, ControlFrame, Zenon DEF mapVars, KDestroy, MapDestroy
    <3> QED
      BY <1>2, <1>5, <2>1, <3>1
  <2>2. /\ synced' = synced \/ synced' = Len(log)
        /\ \/ wPc' = wPc
           \/ kPc = "join flush" /\ fPc = "exited" /\ wPc' = "sample"
    BY <1>9, ControlSteps, Zenon
       DEF KReceiverCreated, KReceiverFailed, KFlushCreated, KFlushFailed,
         KUndone, KStopReceiver, KReceiverJoined, KFlushJoined, KLoadPackets,
         KLoadTraces, KStatsReturned, KStart, KStop, KStopIdle,
       KDestroy, KStats,
         flushVars, EnterFlush
  <2>3. kPc = "join flush" /\ fPc = "exited" => wPc = "out"
    BY <1>1 DEF OneFlusher, ThreadsTypeOK
  <2>4. synced' \in 0..Len(log)
    <3>1. Len(log) \in 0..Len(log)
      BY <1>2
    <3> QED
      BY <1>5, <2>2, <3>1, Zenon
  <2>5. \/ wPc' = wPc
        \/ /\ wPc \in {"out", "sample", "scan", "sync"}
           /\ wPc' \in {"out", "sample", "scan", "sync"}
    BY <2>2, <2>3
  <2> QED
    BY <1>3, <2>1, <2>4, <2>5, <2>6
<1>10. CASE ClockTick \/ UNCHANGED vars
  <2>1. UNCHANGED <<handled, completed, timedOut, writes, errors, log, lost,
                    closed, count, inserts, synced, wPc>>
    BY <1>10, ClockFrame DEF vars, mapVars, flushVars
  <2> QED
    BY <1>4, <1>5, <2>1
<1> QED
  BY <1>6, <1>7, <1>8, <1>9, <1>10 DEF Next

-----------------------------------------------------------------------------
(* collector_stop: what the final flush leaves behind. *)

\* What is buffered is known to be: an fflush follows, or has failed.
LEMMA SyncDueStep ==
  ASSUME CollectorInv, [Next]_vars
  PROVE  SyncDue'
<1>1. /\ SyncDue /\ ThreadsTypeOK /\ OneFlusher /\ ThreadsExist
      /\ wroteAny \in BOOLEAN /\ syncFailed \in BOOLEAN
  BY DEF CollectorInv, FlagsTypeOK
<1>2. ASSUME UNCHANGED <<log, synced, syncFailed>>,
             wPc' \notin {"classify", "store"} =>
                 \/ UNCHANGED <<wPc, wroteAny>>
                 \/ wPc \notin {"classify", "store"} /\ (wPc = "out" \/ ~wroteAny)
                 \/ wroteAny' /\ wPc' # "out"
      PROVE  SyncDue'
  BY <1>1, <1>2, Zenon DEF SyncDue
<1>3. CASE Receiver
  BY <1>2, <1>3, ReceiverFrame DEF flushVars
<1>4. CASE FlushThread
  <2>1. UNCHANGED <<log, synced, syncFailed>>
    BY <1>4, FlushThreadFrame
  <2>2. CASE FFlush
    <3>1. fPc = "check"
      BY <2>2 DEF FFlush
    <3>2. kPc # "final flush" /\ fPc # "flush"
      BY <3>1, Whereabouts
    <3>3. wPc = "out"
      BY <1>1, <3>2 DEF OneFlusher, ThreadsTypeOK
    <3> QED
      BY <1>2, <2>1, <3>3
  <2>3. CASE FCheck \/ FWake \/ FStop
    BY <1>2, <2>1, <2>3 DEF FCheck, FWake, FStop, flushVars
  <2> QED
    BY <1>4, <2>2, <2>3 DEF FlushThread
<1>5. CASE FlushTraces
  <2>1. CASE WSample \/ WScanned \/ WClassify \/ WStored \/ WStoreFailed
    <3>1. syncFailed' = syncFailed /\ synced' = synced
      BY <2>1 DEF WSample, WScanned, WClassify, WStored, WStoreFailed
    <3>2. \/ wPc' \in {"classify", "store"}
          \/ wPc' = "sample" /\ wroteAny' = TRUE
          \/ /\ wPc = "sample" /\ wPc' = "scan"
             /\ UNCHANGED <<wroteAny, log>>
      BY <2>1 DEF WSample, WScanned, WClassify, WStored, WStoreFailed, WNext
    <3> QED
      BY <1>1, <3>1, <3>2 DEF SyncDue
  <2>2. CASE WScanEmpty
    <3>1. /\ wPc = "scan" /\ UNCHANGED <<wroteAny, log, synced, syncFailed>>
          /\ wroteAny => wPc' = "sync"
          /\ wPc' \in {"sync", "out"}
      BY <2>2 DEF WScanEmpty, ReturnToCaller
    <3> QED
      BY <1>1, <3>1 DEF SyncDue
  <2>3. CASE WSync
    <3>1. /\ log' = log
          /\ synced' = Len(log) \/ syncFailed' = TRUE
      BY <2>3 DEF WSync
    <3> QED
      BY <3>1 DEF SyncDue
  <2> QED
    BY <1>5, <2>1, <2>2, <2>3 DEF FlushTraces
<1>6. CASE KContinues \/ KCalls
  <2>1. log' = log
    BY <1>6, ControlFrame
  <2>2. \/ UNCHANGED <<wPc, wroteAny, synced, syncFailed>>
        \/ /\ kPc = "join flush" /\ fPc = "exited"
           /\ UNCHANGED <<synced, syncFailed>>
        \/ synced' = Len(log) \/ syncFailed' = TRUE
    BY <1>6, ControlSteps, Zenon
       DEF KReceiverCreated, KReceiverFailed, KFlushCreated, KFlushFailed,
         KUndone, KStopReceiver, KReceiverJoined, KFlushJoined, KLoadPackets,
         KLoadTraces, KStatsReturned, KStart, KStop, KStopIdle,
       KDestroy, KStats,
         flushVars
  <2>3. kPc = "join flush" /\ fPc = "exited" => wPc = "out"
    BY <1>1 DEF OneFlusher, ThreadsTypeOK
  <2>4. CASE synced' = Len(log) \/ syncFailed' = TRUE
    BY <2>1, <2>4 DEF SyncDue
  <2>5. CASE wPc = "out"
    <3>1. ~syncFailed => synced = Len(log)
      BY <1>1, <2>5 DEF SyncDue
    <3>2. \/ UNCHANGED <<synced, syncFailed>>
          \/ synced' = Len(log) \/ syncFailed' = TRUE
      BY <2>2, Zenon
    <3>3. ~syncFailed' => synced' = Len(log')
      BY <2>1, <3>1, <3>2, Zenon
    <3> QED
      BY <3>3, Zenon DEF SyncDue
  <2>6. CASE UNCHANGED <<wPc, wroteAny, synced, syncFailed>>
    BY <1>2, <2>1, <2>6, Zenon
  <2> QED
    BY <2>2, <2>3, <2>4, <2>5, <2>6, Zenon
<1>7. CASE ClockTick \/ UNCHANGED vars
  BY <1>2, <1>7, ClockFrame DEF vars, flushVars
<1> QED
  BY <1>3, <1>4, <1>5, <1>6, <1>7 DEF Next

\* A scan of the final flush that takes nothing out has found an empty map.
LEMMA FinalScanEmpties ==
  ASSUME CollectorInv, MapInv', WScanEmpty, flushFor = "stop"
  PROVE  Places' = {} /\ count' = 0
<1>1. /\ MapTypeOK /\ wPc = "scan" /\ closed' = closed
      /\ FlushScan(0, FlushCount) /\ 0 \in Timeouts
      /\ \A p \in Places : At(p).last <= flushNow
  BY CollectorConstants
     DEF CollectorInv, MapInv, WScanEmpty, FinalReading, FlushTimeout
<1> DEFINE out == Batch(0, FlushCount)
<1>2. /\ \A p \in Places' : /\ Source(out, p) \in Places
                            /\ At(p)' = At(Source(out, p))
  BY <1>1, ScanMoves
<1>3. \A p \in Places' : ~(TimedOut(At(p)', 0))
  <2>1. Len(closed) \in Nat /\ FlushCount \in BatchSizes /\ FlushCount \in Nat \ {0}
    BY <1>1, CollectorConstants, MapConstants DEF MapTypeOK
  <2>2. Len(closed') - Len(closed) < FlushCount
    BY <1>1, <2>1
  <2> QED
    BY <1>1, <2>1, <2>2, ScanLeavesNothing
<1>4. flushNow \in Nat
  BY <1>1, MapConstants DEF FlushScan, MapTypeOK
<1> HIDE DEF out
<1>5. \A p \in Places : At(p).last \in Nat /\ TimedOut(At(p), 0)
  <2> SUFFICES ASSUME NEW p \in Places
               PROVE  At(p).last \in Nat /\ TimedOut(At(p), 0)
    OBVIOUS
  <2>1. At(p) \in PartialTrace
    BY <1>1, HolderFacts
  <2>2. At(p).last \in Nat
    BY <2>1, MapConstants DEF PartialTrace
  <2>3. At(p).last <= flushNow
    BY <1>1
  <2>4. flushNow - At(p).last >= 0 * TicksPerSec
    BY <1>4, <2>2, <2>3, MapConstants
  <2>5. ElapsedSec(flushNow, At(p).last) >= 0
    BY <1>4, <2>2, <2>4, ElapsedMeans
  <2> QED
    BY <2>2, <2>5 DEF TimedOut
<1>6. Places' = {}
  BY <1>2, <1>3, <1>5, Zenon
<1>7. count' = Cardinality(Places')
  BY DEF MapInv, MapWellFormed
<1> QED
  BY <1>6, <1>7, FS_EmptySet

\* The map is freed by the step that ends the controlling thread.
LEMMA DestroyedStep ==
  ASSUME CollectorInv, [Next]_vars
  PROVE  DestroyedLast'
<1>1. DestroyedLast /\ OneFlusher /\ ThreadsTypeOK
  BY DEF CollectorInv
<1>2. CASE Receiver
  <2>1. UNCHANGED <<destroyed, kPc>>
    BY <1>2, ReceiverFrame, Zenon DEF controlVars
  <2> QED
    BY <1>1, <2>1 DEF DestroyedLast
<1>3. CASE FlushTraces
  <2>1. /\ wPc # "out" /\ destroyed' = destroyed
        /\ kPc' = kPc \/ flushFor # "thread"
    <3>1. wPc # "out" /\ (kPc' = kPc \/ flushFor # "thread")
      BY <1>3 DEF FlushTraces, WSample, WScanned, WScanEmpty, WClassify,
         WStored, WStoreFailed, WSync, ReturnToCaller, controlVars
    <3> QED
      BY <1>3, <3>1, FlushTracesFrame
  <2>2. kPc' = kPc \/ kPc = "final flush"
    BY <1>1, <2>1 DEF OneFlusher, ThreadsTypeOK
  <2> QED
    BY <1>1, <2>1, <2>2 DEF DestroyedLast
<1>4. CASE FlushThread
  <2>1. UNCHANGED <<destroyed, kPc>>
    BY <1>4, FlushThreadFrame, Zenon DEF mapVars, controlVars
  <2> QED
    BY <1>1, <2>1 DEF DestroyedLast
<1>5. CASE KContinues \/ KCalls
  <2>1. kPc # "destroyed"
    BY <1>5, ControlSteps, Zenon
       DEF KReceiverCreated, KReceiverFailed, KFlushCreated, KFlushFailed,
         KUndone, KStopReceiver, KReceiverJoined, KFlushJoined, KLoadPackets,
         KLoadTraces, KStatsReturned, KStart, KStop, KStopIdle, KDestroy, KStats
  <2>2. UNCHANGED mapVars \/ KDestroy
    BY <1>5, ControlFrame
  <2>3. UNCHANGED mapVars => destroyed' = destroyed
    BY Zenon DEF mapVars
  <2>4. KDestroy => kPc' = "destroyed"
    BY DEF KDestroy
  <2> QED
    BY <1>1, <2>1, <2>2, <2>3, <2>4, Zenon DEF DestroyedLast
<1>6. CASE ClockTick \/ UNCHANGED vars
  <2>1. UNCHANGED <<destroyed, kPc>>
    BY <1>6, ClockFrame, Zenon DEF vars, mapVars, controlVars, ClockTick, Tick
  <2> QED
    BY <1>1, <2>1 DEF DestroyedLast
<1> QED
  BY <1>2, <1>3, <1>4, <1>5, <1>6 DEF Next

\* Nothing is inserted once the receiver has been joined, and nothing is left
\* in the map when the final flush returns.
LEMMA FinalFlushStep ==
  ASSUME CollectorInv, MapInv', TraceFlow', SyncDue', DestroyedLast',
         [Next]_vars
  PROVE  FinalReading' /\ StoppedClean'
<1>1. /\ MapTypeOK /\ ThreadsTypeOK /\ OneFlusher /\ FinalReading
      /\ StoppedClean
      /\ Drained \in BOOLEAN /\ TraceFlow /\ SyncDue
  BY DrainedFacts DEF CollectorInv, MapInv
<1>2. ASSUME UNCHANGED <<buckets, closed, count>>
      PROVE  /\ Places' = Places
             /\ \A p : At(p)' = At(p)
  BY <1>2 DEF Places, At
<1>3. ASSUME UNCHANGED <<buckets, closed, count, flushNow>>,
             \/ UNCHANGED <<flushFor, wPc>>
             \/ flushFor' # "stop"
             \/ wPc' \notin {"scan", "sync"}
      PROVE  FinalReading'
  BY <1>1, <1>2, <1>3 DEF FinalReading
<1>4. ASSUME UNCHANGED <<buckets, closed, count, freed, handled, log, synced,
                         syncFailed>>,
             Drained' = Drained \/ Drained' = FALSE
      PROVE  StoppedClean'
  BY <1>1, <1>2, <1>4, Zenon DEF StoppedClean
<1>5. CASE Receiver
  <2>1. rPc # "none"
    BY <1>5 DEF Receiver, RCheck, RNothing, RSocketError, RRateLimit,
       RUnauthorized, RInvalid, RStored, RRejected, RCount, RReceive
  <2>2. ~Drained /\ kPc # "final flush"
    BY <2>1, Whereabouts
  <2>3. flushFor # "stop"
    BY <1>1, <2>2 DEF OneFlusher
  <2>4. Drained' = Drained /\ flushFor' = flushFor
    BY <1>5, ReceiverFrame, DrainedFacts DEF controlVars, flushVars
  <2> QED
    BY <2>2, <2>3, <2>4, Zenon DEF FinalReading, StoppedClean
<1>6. CASE FlushThread
  <2>1. UNCHANGED <<buckets, closed, count, freed, flushNow, handled, log,
                    synced, syncFailed, Drained>>
    BY <1>6, FlushThreadFrame, DrainedFacts DEF mapVars, controlVars
  <2>2. UNCHANGED <<flushFor, wPc>> \/ flushFor' # "stop"
    BY <1>6 DEF FlushThread, FFlush, FCheck, FWake, FStop, EnterFlush, flushVars
  <2> QED
    BY <1>3, <1>4, <2>1, <2>2
<1>7. CASE FlushTraces
  <2>7. ReturnToCaller /\ flushFor = "stop" => freed' = {}
    <3>1. ReturnToCaller /\ flushFor = "stop" => kPc' = "down"
      BY DEF ReturnToCaller
    <3>2. kPc' = "down" => ~destroyed'
      BY DEF DestroyedLast
    <3> QED
      BY <3>1, <3>2 DEF MapInv, FreedAtEnd
  <2>1. ~Drained
    <3>1. wPc # "out"
      BY <1>7 DEF FlushTraces, WSample, WScanned, WScanEmpty, WClassify,
         WStored, WStoreFailed, WSync
    <3> QED
      BY <3>1, Whereabouts
  <2>2. CASE Drained' = Drained /\ flushFor' = flushFor /\ wPc' \notin {"scan", "sync"}
    BY <2>1, <2>2 DEF FinalReading, StoppedClean
  <2>3. CASE WSample
    <3>1. /\ flushNow' = clock /\ UNCHANGED <<buckets, closed, count, Drained>>
          /\ wPc' = "scan"
      BY <2>3, DrainedFacts DEF WSample, FlushSample, controlVars
    <3>2. \A p \in Places : At(p).last <= clock
      BY HolderFacts DEF CollectorInv, MapInv, Chronology
    <3> QED
      BY <1>2, <2>1, <3>1, <3>2 DEF FinalReading, StoppedClean
  <2>4. CASE WScanned \/ WClassify \/ WStored \/ WStoreFailed
    <3>1. Drained' = Drained /\ flushFor' = flushFor /\ wPc' \notin {"scan", "sync"}
      BY <2>4, DrainedFacts DEF WScanned, WClassify, WStored, WStoreFailed, WNext, controlVars
    <3> QED
      BY <2>2, <3>1
  <2>5. CASE WScanEmpty
    <3>1. CASE wroteAny
      <4>1. Drained' = Drained /\ flushFor' = flushFor /\ wPc' = "sync"
        BY <2>5, <3>1, DrainedFacts DEF WScanEmpty
      <4>2. flushFor = "stop" => Places' = {} /\ count' = 0
        BY <2>5, FinalScanEmpties
      <4> QED
        BY <2>1, <4>1, <4>2 DEF FinalReading, StoppedClean
    <3>2. CASE ~wroteAny
      <4>1. ReturnToCaller /\ UNCHANGED <<log, synced, syncFailed>>
        BY <2>5, <3>2 DEF WScanEmpty
      <4>2. wPc' = "out" /\ flushFor' # "stop"
        BY <4>1 DEF ReturnToCaller
      <4>3. CASE flushFor = "thread"
        <5>1. Drained' = Drained
          BY <1>1, <4>1, <4>3, DrainedFacts, Zenon
        <5> QED
          BY <2>1, <4>2, <5>1, Zenon DEF FinalReading, StoppedClean
      <4>4. CASE flushFor # "thread"
        <5>1. flushFor = "stop"
          BY <1>1, <2>5, <4>4 DEF OneFlusher, ThreadsTypeOK, WScanEmpty
        <5>2. Places' = {} /\ count' = 0
          BY <2>5, <5>1, FinalScanEmpties
        <5>3. handled' = Len(closed')
          BY <4>2 DEF TraceFlow, TracesAccounted
        <5>4. ~syncFailed' => synced' = Len(log')
          BY <4>2 DEF SyncDue
        <5>5. freed' = {}
          BY <2>7, <4>1, <5>1 DEF ReturnToCaller
        <5> QED
          BY <4>2, <5>2, <5>3, <5>4, <5>5, Zenon DEF FinalReading, StoppedClean
      <4> QED
        BY <4>3, <4>4
    <3> QED
      BY <3>1, <3>2
  <2>6. CASE WSync
    <3>1. /\ ReturnToCaller /\ wPc = "sync"
          /\ UNCHANGED <<buckets, closed, count>>
      BY <2>6 DEF WSync, mapVars
    <3>2. wPc' = "out" /\ flushFor' # "stop"
      BY <3>1 DEF ReturnToCaller
    <3>3. CASE flushFor = "thread"
      <4>1. Drained' = Drained
        BY <1>1, <3>1, <3>3, DrainedFacts, Zenon
      <4> QED
        BY <2>1, <3>2, <4>1, Zenon DEF FinalReading, StoppedClean
    <3>4. CASE flushFor # "thread"
      <4>1. flushFor = "stop"
        BY <1>1, <3>1, <3>4 DEF OneFlusher, ThreadsTypeOK
      <4>2. Places' = {} /\ count' = 0
        BY <1>1, <1>2, <3>1, <4>1 DEF FinalReading
      <4>3. handled' = Len(closed')
        BY <3>2 DEF TraceFlow, TracesAccounted
      <4>4. ~syncFailed' => synced' = Len(log')
        BY <3>2 DEF SyncDue
      <4>5. freed' = {}
        BY <2>7, <3>1, <4>1 DEF ReturnToCaller
      <4> QED
        BY <3>2, <4>2, <4>3, <4>4, <4>5, Zenon DEF FinalReading, StoppedClean
    <3> QED
      BY <3>3, <3>4
  <2> QED
    BY <1>7, <2>3, <2>4, <2>5, <2>6 DEF FlushTraces
<1>8. CASE KContinues \/ KCalls
  <2>1. /\ UNCHANGED <<closed, flushNow, handled, log>>
        /\ UNCHANGED <<buckets, count, freed>> \/ KDestroy
    BY <1>8, ControlFrame, Zenon DEF mapVars
  <2>2. /\ UNCHANGED <<flushFor, wPc>> \/ wPc' = "sample"
        /\ \/ UNCHANGED <<synced, syncFailed>>
           \/ synced' = Len(log) \/ syncFailed' = TRUE
    BY <1>8, ControlSteps, Zenon
       DEF KReceiverCreated, KReceiverFailed, KFlushCreated, KFlushFailed,
         KUndone, KStopReceiver, KReceiverJoined, KFlushJoined, KLoadPackets,
         KLoadTraces, KStatsReturned, KStart, KStop, KStopIdle,
       KDestroy, KStats,
         flushVars, controlVars, EnterFlush
  <2>3. FinalReading'
    <3>1. UNCHANGED <<flushFor, wPc>> \/ wPc' \notin {"scan", "sync"}
      BY <2>2
    <3>2. CASE UNCHANGED <<buckets, count, freed>>
      BY <1>3, <2>1, <3>1, <3>2
    <3>3. CASE KDestroy
      <4>1. kPc = "down" /\ flushFor' = flushFor
        BY <3>3 DEF KDestroy
      <4> QED
        BY <1>1, <4>1 DEF OneFlusher, FinalReading
    <3> QED
      BY <2>1, <3>2, <3>3
  <2>4. StoppedClean'
    <3> SUFFICES ASSUME Drained'
                 PROVE  /\ Places' = {} /\ count' = 0 /\ freed' = {}
                        /\ handled' = Len(closed')
                        /\ ~syncFailed' => synced' = Len(log')
      BY Zenon DEF StoppedClean
    <3>1. Drained
      BY <1>8, DrainedFacts, Zenon
    <3>2. /\ Places = {} /\ count = 0 /\ freed = {} /\ handled = Len(closed)
          /\ ~syncFailed => synced = Len(log)
      BY <1>1, <3>1, Zenon DEF StoppedClean
    <3>3. Places' = {} /\ count' = 0 /\ freed' = {}
      <4>1. CASE UNCHANGED <<buckets, count, freed>>
        BY <1>2, <2>1, <3>2, <4>1
      <4>2. CASE KDestroy
        <5>1. MapDestroy
          BY <4>2 DEF KDestroy
        <5>2. Places' = {}
          BY <1>1, <5>1, DestroyMoves
        <5>3. count' = 0 /\ freed' = UNION {Numbers(At(p)) : p \in Places}
          BY <5>1 DEF MapDestroy
        <5> QED
          BY <3>2, <5>2, <5>3
      <4> QED
        BY <2>1, <4>1, <4>2
    <3>5. handled' = Len(closed')
      BY <2>1, <3>2
    <3>4. ~syncFailed' => synced' = Len(log')
      <4>1. \/ UNCHANGED <<synced, syncFailed>>
            \/ synced' = Len(log) \/ syncFailed' = TRUE
        BY <2>2, Zenon
      <4> QED
        BY <2>1, <3>2, <4>1, Zenon
    <3> QED
      BY <3>3, <3>4, <3>5
  <2> QED
    BY <2>3, <2>4
<1>9. CASE ClockTick \/ UNCHANGED vars
  <2>1. UNCHANGED <<buckets, closed, count, freed, flushNow, handled, log,
                    synced, syncFailed, Drained, flushFor, wPc>>
    BY <1>9, ClockFrame, DrainedFacts DEF vars, mapVars, controlVars, flushVars
  <2> QED
    BY <1>3, <1>4, <2>1
<1> QED
  BY <1>5, <1>6, <1>7, <1>8, <1>9 DEF Next

-----------------------------------------------------------------------------
(* collector_get_stats: what the counters add up to. *)

\* The counters in the order of their loading.
LEMMA LoadOrder ==
  /\ Len(PacketLoads) = 6 /\ AllLoads = 10
  /\ PacketLoads[1] = packetsReceived /\ PacketLoads[2] = -invalid
  /\ PacketLoads[3] = -unauthorized /\ PacketLoads[4] = -rateLimited
  /\ PacketLoads[5] = -spansProcessed
  /\ PacketLoads[6] = -(tracesDropped + spansDropped)
  /\ TraceLoads[1] = completed /\ TraceLoads[2] = timedOut
  /\ TraceLoads[3] = -writes /\ TraceLoads[4] = -errors
BY DEF PacketLoads, TraceLoads, AllLoads

\* No step takes a count back, and none changes one of a stopped collector.
LEMMA CountersGrow ==
  ASSUME CollectorInv, [Next]_vars
  PROVE  /\ invalid <= invalid' /\ unauthorized <= unauthorized'
         /\ rateLimited <= rateLimited' /\ spansProcessed <= spansProcessed'
         /\ tracesDropped <= tracesDropped' /\ spansDropped <= spansDropped'
         /\ refused <= refused' /\ completed <= completed'
         /\ writes <= writes' /\ errors <= errors'
         /\ Drained => UNCHANGED <<invalid, unauthorized, rateLimited,
                                   spansProcessed, tracesDropped, spansDropped,
                                   refused, completed, writes, errors>>
<1>1. /\ invalid \in Nat /\ unauthorized \in Nat /\ rateLimited \in Nat
      /\ spansProcessed \in Nat /\ tracesDropped \in Nat /\ spansDropped \in Nat
      /\ refused \in Nat /\ completed \in Nat /\ writes \in Nat /\ errors \in Nat
      /\ MapTypeOK
  BY MapCounters DEF CollectorInv, CountersTypeOK, MapInv
<1>2. CASE Receiver
  <2>1. UNCHANGED <<completed, writes, errors>>
    BY <1>2, ReceiverFrame DEF flushVars
  <2>2. rPc # "none"
    BY <1>2 DEF Receiver, RCheck, RNothing, RSocketError, RRateLimit,
       RUnauthorized, RInvalid, RStored, RRejected, RCount, RReceive
  <2>3. ~Drained
    BY <2>2, Whereabouts
  <2>4. CASE RStored \/ RRejected
    <3>1. UNCHANGED <<invalid, unauthorized, rateLimited, spansProcessed>>
      BY <2>4 DEF RStored, RRejected
    <3>2. /\ tracesDropped <= tracesDropped' /\ spansDropped <= spansDropped'
          /\ refused <= refused'
      BY <1>1, <2>4, InsertCounts DEF RStored, RRejected
    <3> QED
      BY <1>1, <2>1, <2>3, <3>1, <3>2
  <2>5. CASE ~RStored /\ ~RRejected
    <3>1. UNCHANGED mapVars
      BY <1>2, <2>5, Zenon DEF Receiver, RCheck, RNothing, RSocketError,
         RRateLimit, RUnauthorized, RInvalid, RCount, RReceive
    <3>2. UNCHANGED <<tracesDropped, spansDropped, refused>>
      BY <3>1 DEF mapVars
    <3>3. /\ invalid' \in {invalid, invalid + 1}
          /\ unauthorized' \in {unauthorized, unauthorized + 1}
          /\ rateLimited' \in {rateLimited, rateLimited + 1}
          /\ spansProcessed' \in {spansProcessed, spansProcessed + 1}
      BY <1>2, <2>5 DEF Receiver, RCheck, RNothing, RSocketError,
         RRateLimit, RUnauthorized, RInvalid, RCount, RReceive
    <3> QED
      BY <1>1, <2>1, <2>3, <3>2, <3>3
  <2> QED
    BY <2>4, <2>5
<1>3. CASE FlushTraces
  <2>1. wPc # "out"
    BY <1>3 DEF FlushTraces, WSample, WScanned, WScanEmpty, WClassify,
       WStored, WStoreFailed, WSync
  <2>2. ~Drained
    BY <2>1, Whereabouts
  <2>3. UNCHANGED <<invalid, unauthorized, rateLimited, spansProcessed,
                    tracesDropped, spansDropped, refused>>
    BY <1>3, FlushTracesFrame DEF receiverVars
  <2>4. /\ completed' \in {completed, completed + 1}
        /\ writes' \in {writes, writes + 1}
        /\ errors' \in {errors, errors + 1}
    BY <1>3 DEF FlushTraces, WSample, WScanned, WScanEmpty, WClassify,
       WStored, WStoreFailed, WSync
  <2> QED
    BY <1>1, <2>2, <2>3, <2>4
<1>4. CASE FlushThread \/ KContinues \/ KCalls \/ ClockTick \/ UNCHANGED vars
  <2>1. UNCHANGED <<invalid, unauthorized, rateLimited, spansProcessed,
                    tracesDropped, spansDropped, refused, completed, writes,
                    errors>>
    BY <1>4, FlushThreadFrame, ControlFrame, ClockFrame
       DEF vars, mapVars, receiverVars, flushVars
  <2> QED
    BY <1>1, <2>1
<1> QED
  BY <1>2, <1>3, <1>4 DEF Next

\* What has been loaded stays explained while the others count on.
LEMMA BalanceKept ==
  ASSUME CollectorInv, [Next]_vars, UNCHANGED statsVars,
         kPc' # "stats" => kPc # "stats",
         ~Drained /\ Drained' => kPc # "stats",
         Drained' \in BOOLEAN
  PROVE  Balanced' /\ BalancedExactly'
<1>1. Balanced /\ BalancedExactly /\ Drained \in BOOLEAN
  BY DrainedFacts DEF CollectorInv, FlagsTypeOK
<1>2. loaded' = loaded /\ balance' = balance
  BY DEF statsVars
<1>3. AllLoads' = AllLoads /\ AllLoads = 10
  BY LoadOrder DEF AllLoads, PacketLoads, TraceLoads
<1>4. /\ loaded \in 0..10 /\ balance.packets \in Int /\ balance.traces \in Int
  BY <1>1, <1>3 DEF Balanced
<1>now. PICK i \in Nat, u \in Nat, r \in Nat, s \in Nat, d \in Nat, e \in Nat,
         f \in Nat, c \in Nat, w \in Nat, x \in Nat :
         /\ i = invalid /\ u = unauthorized /\ r = rateLimited
         /\ s = spansProcessed /\ d = tracesDropped /\ e = spansDropped
         /\ f = refused /\ c = completed /\ w = writes /\ x = errors
  BY MapCounters DEF CollectorInv, CountersTypeOK, MapInv
<1>then. PICK i1 \in Nat, u1 \in Nat, r1 \in Nat, s1 \in Nat, d1 \in Nat, e1 \in Nat,
         f1 \in Nat, c1 \in Nat, w1 \in Nat, x1 \in Nat :
         /\ i1 = invalid' /\ u1 = unauthorized' /\ r1 = rateLimited'
         /\ s1 = spansProcessed' /\ d1 = tracesDropped' /\ e1 = spansDropped'
         /\ f1 = refused' /\ c1 = completed' /\ w1 = writes' /\ x1 = errors'
  <2>1. MapTypeOK' => /\ tracesDropped' \in Nat /\ spansDropped' \in Nat
                      /\ refused' \in Nat
    BY DEF MapTypeOK
  <2>2. MapInv /\ [MapNext]_mapVars => MapInv'
    BY NextInv
  <2>3. MapTypeOK' /\ CountersTypeOK'
    BY <2>2, StepOfMap, PacketStep DEF CollectorInv, MapInv
  <2> QED
    BY <2>1, <2>3 DEF CountersTypeOK
<1>nat. /\ i \in Nat /\ u \in Nat /\ r \in Nat /\ s \in Nat /\ d \in Nat
        /\ e \in Nat /\ f \in Nat /\ c \in Nat /\ w \in Nat /\ x \in Nat
        /\ i1 \in Nat /\ u1 \in Nat /\ r1 \in Nat /\ s1 \in Nat /\ d1 \in Nat
        /\ e1 \in Nat /\ f1 \in Nat /\ c1 \in Nat /\ w1 \in Nat /\ x1 \in Nat
  BY <1>now, <1>then
<1>5. /\ i <= i1 /\ u <= u1 /\ r <= r1 /\ s <= s1 /\ d <= d1 /\ e <= e1
      /\ f <= f1 /\ c <= c1 /\ w <= w1 /\ x <= x1
      /\ Drained => /\ i = i1 /\ u = u1 /\ r = r1 /\ s = s1 /\ d = d1
                    /\ e = e1 /\ f = f1 /\ c = c1 /\ w = w1 /\ x = x1
  BY <1>now, <1>then, CountersGrow
<1> DEFINE p == balance.packets
           t == balance.traces
<1>6. /\ loaded = 0 => balance = NothingLoaded
      /\ loaded = 1 => p <= i + u + r + s + (d + e) + f + 1
      /\ loaded = 2 => p <= u + r + s + (d + e) + f + 1
      /\ loaded = 3 => p <= r + s + (d + e) + f + 1
      /\ loaded = 4 => p <= s + (d + e) + f + 1
      /\ loaded = 5 => p <= (d + e) + f + 1
      /\ loaded >= 6 => p <= f + 1
      /\ loaded <= 6 => t = 0
      /\ loaded = 7 => t <= c
      /\ loaded = 8 => t <= w + x + 1
      /\ loaded = 9 => t <= x + 1
      /\ loaded = 10 => t <= 1
  BY <1>1, <1>now DEF Balanced
<1>7. Drained =>
        /\ loaded = 1 => p = i + u + r + s + (d + e) + f
        /\ loaded = 2 => p = u + r + s + (d + e) + f
        /\ loaded = 3 => p = r + s + (d + e) + f
        /\ loaded = 4 => p = s + (d + e) + f
        /\ loaded = 5 => p = (d + e) + f
        /\ loaded >= 6 => p = f
        /\ loaded = 7 => t = c
        /\ loaded = 8 => t = w + x
        /\ loaded = 9 => t = x
        /\ loaded = 10 => t = 0
  BY <1>1, <1>now DEF BalancedExactly
<1> HIDE DEF p, t
<1>8. /\ loaded = 1 => p <= i1 + u1 + r1 + s1 + (d1 + e1) + f1 + 1
      /\ loaded = 2 => p <= u1 + r1 + s1 + (d1 + e1) + f1 + 1
      /\ loaded = 3 => p <= r1 + s1 + (d1 + e1) + f1 + 1
      /\ loaded = 4 => p <= s1 + (d1 + e1) + f1 + 1
      /\ loaded = 5 => p <= (d1 + e1) + f1 + 1
      /\ loaded >= 6 => p <= f1 + 1
      /\ loaded <= 6 => t = 0
      /\ loaded = 7 => t <= c1
      /\ loaded = 8 => t <= w1 + x1 + 1
      /\ loaded = 9 => t <= x1 + 1
      /\ loaded = 10 => t <= 1
  <2>1. p \in Int /\ t \in Int
    BY <1>4 DEF p, t
  <2>2. /\ loaded = 1 => p <= i1 + u1 + r1 + s1 + (d1 + e1) + f1 + 1
        /\ loaded = 2 => p <= u1 + r1 + s1 + (d1 + e1) + f1 + 1
        /\ loaded = 3 => p <= r1 + s1 + (d1 + e1) + f1 + 1
    BY <1>4, <1>5, <1>6, <1>nat, <2>1
  <2>3. /\ loaded = 4 => p <= s1 + (d1 + e1) + f1 + 1
        /\ loaded = 5 => p <= (d1 + e1) + f1 + 1
        /\ loaded >= 6 => p <= f1 + 1
    BY <1>4, <1>5, <1>6, <1>nat, <2>1
  <2>4. /\ loaded <= 6 => t = 0
        /\ loaded = 7 => t <= c1
        /\ loaded = 8 => t <= w1 + x1 + 1
        /\ loaded = 9 => t <= x1 + 1
        /\ loaded = 10 => t <= 1
    BY <1>4, <1>5, <1>6, <1>nat, <2>1
  <2> QED
    BY <2>2, <2>3, <2>4
<1>9. Drained' =>
        /\ loaded = 1 => p = i1 + u1 + r1 + s1 + (d1 + e1) + f1
        /\ loaded = 2 => p = u1 + r1 + s1 + (d1 + e1) + f1
        /\ loaded = 3 => p = r1 + s1 + (d1 + e1) + f1
        /\ loaded = 4 => p = s1 + (d1 + e1) + f1
        /\ loaded = 5 => p = (d1 + e1) + f1
        /\ loaded >= 6 => p = f1
        /\ loaded = 7 => t = c1
        /\ loaded = 8 => t = w1 + x1
        /\ loaded = 9 => t = x1
        /\ loaded = 10 => t = 0
  <2>1. CASE Drained
    BY <1>5, <1>7, <2>1, Zenon
  <2>2. CASE ~Drained
    <3>1. Drained' => loaded = 0
      BY <1>1, <2>2, Zenon DEF Balanced
    <3> QED
      BY <3>1
  <2> QED
    BY <2>1, <2>2
<1>10. Balanced'
  <2>1. /\ loaded' \in 0..AllLoads' /\ balance' \in [packets : Int, traces : Int]
        /\ kPc' # "stats" => loaded' = 0
        /\ loaded' = 0 => balance' = NothingLoaded
    BY <1>1, <1>2, <1>3 DEF Balanced, NothingLoaded
  <2> QED
    BY <1>2, <1>8, <1>then, <2>1 DEF Balanced, p, t
<1>11. BalancedExactly'
  BY <1>2, <1>9, <1>then DEF BalancedExactly, p, t
<1> QED
  BY <1>10, <1>11

\* A load of the packet counters.
LEMMA PacketsLoaded ==
  ASSUME CollectorInv, KLoadPackets
  PROVE  Balanced' /\ BalancedExactly'
<1>1. /\ Balanced /\ BalancedExactly /\ Drained \in BOOLEAN /\ PacketFlow
  BY DrainedFacts DEF CollectorInv, FlagsTypeOK
<1>2. /\ loaded' = loaded + 1 /\ loaded \in Nat /\ loaded < 6
      /\ balance \in [packets : Int, traces : Int]
      /\ balance' = [balance EXCEPT !.packets = @ + PacketLoads[loaded']]
      /\ kPc = "stats" /\ UNCHANGED <<mapVars, controlVars, receiverVars,
                                      flushVars>>
  BY <1>1, LoadOrder DEF KLoadPackets, Balanced
<1>3. /\ AllLoads' = 10 /\ AllLoads = 10
  BY LoadOrder DEF AllLoads, PacketLoads, TraceLoads
<1>4. /\ UNCHANGED <<invalid, unauthorized, rateLimited, spansProcessed,
                     tracesDropped, spansDropped, refused, kPc, Drained>>
  BY <1>2, DrainedFacts DEF mapVars, controlVars, receiverVars
<1>now. PICK i \in Nat, u \in Nat, r \in Nat, s \in Nat, d \in Nat, e \in Nat,
         f \in Nat, n \in Nat, q \in Nat :
         /\ i = invalid /\ u = unauthorized /\ r = rateLimited
         /\ s = spansProcessed /\ d = tracesDropped /\ e = spansDropped
         /\ f = refused /\ n = inserts /\ q = packetsReceived
  <2>1. packetsReceived \in Nat
    BY CollectorConstants DEF CollectorInv, CountersTypeOK
  <2> QED
    BY <2>1, MapCounters DEF CollectorInv, CountersTypeOK, MapInv
<1>nat. /\ i \in Nat /\ u \in Nat /\ r \in Nat /\ s \in Nat /\ d \in Nat
        /\ e \in Nat /\ f \in Nat /\ n \in Nat /\ q \in Nat
  BY <1>now
<1>in. PICK hand \in 0..1 :
         /\ q = s + f + (d + e) + r + u + i + hand
         /\ Drained => hand = 0
  <2>1. /\ q = n + r + u + i + IF rPc \in {"limit", "decode"} THEN 1 ELSE 0
        /\ s + (IF rPc = "count" THEN 1 ELSE 0) = n - d - e - f
    BY <1>1, <1>now DEF PacketFlow
  <2>2. Drained => rPc = "none"
    BY Whereabouts
  <2>3. CASE rPc \in {"limit", "decode"}
    <3>1. q = n + r + u + i + 1 /\ s = n - d - e - f
      BY <1>nat, <2>1, <2>3
    <3>2. q = s + f + (d + e) + r + u + i + 1
      BY <1>nat, <3>1
    <3> QED
      BY <2>2, <2>3, <3>2
  <2>4. CASE rPc = "count"
    <3>1. q = n + r + u + i /\ s + 1 = n - d - e - f
      BY <1>nat, <2>1, <2>4
    <3>2. q = s + f + (d + e) + r + u + i + 1
      BY <1>nat, <3>1
    <3> QED
      BY <2>2, <2>4, <3>2
  <2>5. CASE rPc \notin {"limit", "decode", "count"}
    <3>1. q = n + r + u + i /\ s = n - d - e - f
      BY <1>nat, <2>1, <2>5
    <3>2. q = s + f + (d + e) + r + u + i + 0
      BY <1>nat, <3>1
    <3> QED
      BY <3>2
  <2> QED
    BY <2>3, <2>4, <2>5
<1>sum. PICK p \in Int, t \in Int : p = balance.packets /\ t = balance.traces
  BY <1>2
<1> DEFINE load == PacketLoads[loaded']
<1>5. /\ loaded' \in 1..6
      /\ loaded' = 1 => load = q
      /\ loaded' = 2 => load = -i
      /\ loaded' = 3 => load = -u
      /\ loaded' = 4 => load = -r
      /\ loaded' = 5 => load = -s
      /\ loaded' = 6 => load = -(d + e)
      /\ load \in Int
  BY <1>2, <1>nat, <1>now, LoadOrder
<1>6. /\ balance' \in [packets : Int, traces : Int]
      /\ balance'.packets = p + load /\ balance'.traces = t
  BY <1>2, <1>5, <1>sum
<1>7. /\ loaded = 0 => p = 0
      /\ loaded = 1 => p <= i + u + r + s + (d + e) + f + 1
      /\ loaded = 2 => p <= u + r + s + (d + e) + f + 1
      /\ loaded = 3 => p <= r + s + (d + e) + f + 1
      /\ loaded = 4 => p <= s + (d + e) + f + 1
      /\ loaded = 5 => p <= (d + e) + f + 1
      /\ t = 0
  BY <1>1, <1>2, <1>now, <1>sum DEF Balanced, NothingLoaded
<1>8. Drained =>
        /\ loaded = 1 => p = i + u + r + s + (d + e) + f
        /\ loaded = 2 => p = u + r + s + (d + e) + f
        /\ loaded = 3 => p = r + s + (d + e) + f
        /\ loaded = 4 => p = s + (d + e) + f
        /\ loaded = 5 => p = (d + e) + f
  BY <1>1, <1>now, <1>sum DEF BalancedExactly
<1> HIDE DEF load
<1>one. PICK j \in 0..5, v \in Int : loaded = j /\ v = load
  BY <1>2, <1>5
<1>9. /\ loaded' = j + 1
      /\ j = 0 => v = q /\ p = 0
      /\ j = 1 => v = -i
      /\ j = 2 => v = -u
      /\ j = 3 => v = -r
      /\ j = 4 => v = -s
      /\ j = 5 => v = -(d + e)
  BY <1>2, <1>5, <1>7, <1>one
<1>int. p \in Int /\ v \in Int /\ j \in 0..5 /\ hand \in 0..1
        /\ q = s + f + (d + e) + r + u + i + hand /\ (Drained => hand = 0)
  BY <1>in, <1>one, <1>sum
<1>left. /\ j = 1 => p <= i + u + r + s + (d + e) + f + 1
         /\ j = 2 => p <= u + r + s + (d + e) + f + 1
         /\ j = 3 => p <= r + s + (d + e) + f + 1
         /\ j = 4 => p <= s + (d + e) + f + 1
         /\ j = 5 => p <= (d + e) + f + 1
         /\ Drained =>
               /\ j = 1 => p = i + u + r + s + (d + e) + f
               /\ j = 2 => p = u + r + s + (d + e) + f
               /\ j = 3 => p = r + s + (d + e) + f
               /\ j = 4 => p = s + (d + e) + f
               /\ j = 5 => p = (d + e) + f
  BY <1>7, <1>8, <1>one
<1>10. /\ j = 0 => p + v <= i + u + r + s + (d + e) + f + 1
       /\ j = 1 => p + v <= u + r + s + (d + e) + f + 1
       /\ j = 2 => p + v <= r + s + (d + e) + f + 1
       /\ j = 3 => p + v <= s + (d + e) + f + 1
       /\ j = 4 => p + v <= (d + e) + f + 1
       /\ j = 5 => p + v <= f + 1
       /\ Drained =>
           /\ j = 0 => p + v = i + u + r + s + (d + e) + f
           /\ j = 1 => p + v = u + r + s + (d + e) + f
           /\ j = 2 => p + v = r + s + (d + e) + f
           /\ j = 3 => p + v = s + (d + e) + f
           /\ j = 4 => p + v = (d + e) + f
           /\ j = 5 => p + v = f
  <2>1. ASSUME j = 0
       PROVE  /\ p + v <= i + u + r + s + (d + e) + f + 1
              /\ Drained => p + v = i + u + r + s + (d + e) + f
    <3>1. v = q /\ p = 0
      BY <1>9, <2>1
    <3> QED
      BY <1>int, <1>nat, <3>1
  <2>2. ASSUME j = 1
       PROVE  /\ p + v <= u + r + s + (d + e) + f + 1
              /\ Drained => p + v = u + r + s + (d + e) + f
    <3>1. /\ v = -i /\ p <= i + u + r + s + (d + e) + f + 1
          /\ Drained => p = i + u + r + s + (d + e) + f
      BY <1>9, <1>left, <2>2
    <3> QED
      BY <1>int, <1>nat, <3>1
  <2>3. ASSUME j = 2
       PROVE  /\ p + v <= r + s + (d + e) + f + 1
              /\ Drained => p + v = r + s + (d + e) + f
    <3>1. /\ v = -u /\ p <= u + r + s + (d + e) + f + 1
          /\ Drained => p = u + r + s + (d + e) + f
      BY <1>9, <1>left, <2>3
    <3> QED
      BY <1>int, <1>nat, <3>1
  <2>4. ASSUME j = 3
       PROVE  /\ p + v <= s + (d + e) + f + 1
              /\ Drained => p + v = s + (d + e) + f
    <3>1. /\ v = -r /\ p <= r + s + (d + e) + f + 1
          /\ Drained => p = r + s + (d + e) + f
      BY <1>9, <1>left, <2>4
    <3> QED
      BY <1>int, <1>nat, <3>1
  <2>5. ASSUME j = 4
       PROVE  /\ p + v <= (d + e) + f + 1
              /\ Drained => p + v = (d + e) + f
    <3>1. /\ v = -s /\ p <= s + (d + e) + f + 1
          /\ Drained => p = s + (d + e) + f
      BY <1>9, <1>left, <2>5
    <3> QED
      BY <1>int, <1>nat, <3>1
  <2>6. ASSUME j = 5
       PROVE  /\ p + v <= f + 1
              /\ Drained => p + v = f
    <3>1. /\ v = -(d + e) /\ p <= (d + e) + f + 1
          /\ Drained => p = (d + e) + f
      BY <1>9, <1>left, <2>6
    <3> QED
      BY <1>int, <1>nat, <3>1
  <2> QED
    BY <2>1, <2>2, <2>3, <2>4, <2>5, <2>6, Zenon
<1>12. balance'.packets = p + v /\ balance'.traces = 0
  BY <1>6, <1>7, <1>one
<1>13. Balanced'
  <2>1. /\ loaded' \in 0..AllLoads' /\ kPc' = "stats" /\ loaded' # 0
        /\ loaded' <= 6
    BY <1>2, <1>3, <1>4, <1>9, <1>int
  <2>2. /\ loaded' = 1 => j = 0
        /\ loaded' = 2 => j = 1
        /\ loaded' = 3 => j = 2
        /\ loaded' = 4 => j = 3
        /\ loaded' = 5 => j = 4
        /\ loaded' >= 6 => j = 5
    BY <1>9, <1>int
  <2> QED
    BY <1>4, <1>6, <1>10, <1>12, <1>now, <2>1, <2>2 DEF Balanced
<1>14. BalancedExactly'
  <2>1. /\ loaded' = 1 => j = 0
        /\ loaded' = 2 => j = 1
        /\ loaded' = 3 => j = 2
        /\ loaded' = 4 => j = 3
        /\ loaded' = 5 => j = 4
        /\ loaded' >= 6 => j = 5
        /\ loaded' \notin {7, 8, 9, 10}
    BY <1>9, <1>int
  <2> QED
    BY <1>4, <1>10, <1>12, <1>now, <2>1 DEF BalancedExactly
<1> QED
  BY <1>13, <1>14

\* A load of the trace counters.
LEMMA TracesLoaded ==
  ASSUME CollectorInv, KLoadTraces
  PROVE  Balanced' /\ BalancedExactly'
<1>1. /\ Balanced /\ BalancedExactly /\ Drained \in BOOLEAN /\ TracesAccounted
  BY DrainedFacts DEF CollectorInv, FlagsTypeOK, TraceFlow
<1>2. /\ loaded' = loaded + 1 /\ loaded \in 6..9
      /\ balance \in [packets : Int, traces : Int]
      /\ balance' = [balance EXCEPT !.traces = @ + TraceLoads[loaded' - 6]]
      /\ kPc = "stats" /\ UNCHANGED <<mapVars, controlVars, receiverVars,
                                      flushVars>>
  BY <1>1, LoadOrder DEF KLoadTraces, Balanced
<1>3. /\ AllLoads' = 10 /\ AllLoads = 10
  BY LoadOrder DEF AllLoads, PacketLoads, TraceLoads
<1>4. /\ UNCHANGED <<refused, completed, writes, errors, kPc, Drained>>
  BY <1>2, DrainedFacts DEF mapVars, controlVars, flushVars
<1> PICK f \in Nat, c \in Nat, o \in Nat, w \in Nat, x \in Nat :
         /\ f = refused /\ c = completed /\ o = timedOut /\ w = writes
         /\ x = errors
  BY MapCounters DEF CollectorInv, CountersTypeOK, MapInv
<1> PICK hand \in 0..1 : c + o = w + x + hand /\ (Drained => hand = 0)
  <2>1. c + o = handled + (IF wPc = "store" THEN 1 ELSE 0) /\ w + x = handled
    BY <1>1 DEF TracesAccounted
  <2>2. Drained => wPc = "out"
    BY Whereabouts
  <2>3. CASE wPc = "store"
    BY <2>1, <2>2, <2>3
  <2>4. CASE wPc # "store"
    BY <2>1, <2>4
  <2> QED
    BY <2>3, <2>4
<1> PICK p \in Int, t \in Int : p = balance.packets /\ t = balance.traces
  BY <1>2
<1> DEFINE load == TraceLoads[loaded' - 6]
<1>5. /\ loaded = 6 => load = c
      /\ loaded = 7 => load = o
      /\ loaded = 8 => load = -w
      /\ loaded = 9 => load = -x
      /\ load \in Int
  BY <1>2, LoadOrder
<1>6. /\ balance' \in [packets : Int, traces : Int]
      /\ balance'.packets = p /\ balance'.traces = t + load
  BY <1>2, <1>5
<1>7. /\ p <= f + 1
      /\ loaded = 6 => t = 0
      /\ loaded = 7 => t <= c
      /\ loaded = 8 => t <= w + x + 1
      /\ loaded = 9 => t <= x + 1
  BY <1>1, <1>2 DEF Balanced
<1>8. Drained => /\ p = f
                 /\ loaded = 7 => t = c
                 /\ loaded = 8 => t = w + x
                 /\ loaded = 9 => t = x
  BY <1>1, <1>2 DEF BalancedExactly
<1> HIDE DEF load
<1> PICK j \in 6..9, v \in Int : loaded = j /\ v = load
  BY <1>2, <1>5
<1>9. /\ loaded' = j + 1
      /\ j = 6 => v = c /\ t = 0
      /\ j = 7 => v = o
      /\ j = 8 => v = -w
      /\ j = 9 => v = -x
  BY <1>2, <1>5, <1>7
<1>10. /\ j = 6 => t + v <= c
       /\ j = 7 => t + v <= w + x + 1
       /\ j = 8 => t + v <= x + 1
       /\ j = 9 => t + v <= 1
  BY <1>7, <1>9
<1>11. Drained => /\ j = 6 => t + v = c
                  /\ j = 7 => t + v = w + x
                  /\ j = 8 => t + v = x
                  /\ j = 9 => t + v = 0
  BY <1>8, <1>9
<1>12. balance'.packets = p /\ balance'.traces = t + v
  BY <1>6
<1>13. /\ loaded' \in 7..10
       /\ loaded' = 7 => j = 6
       /\ loaded' = 8 => j = 7
       /\ loaded' = 9 => j = 8
       /\ loaded' = 10 => j = 9
  BY <1>9
<1>14. Balanced'
  <2>1. /\ loaded' \in 0..AllLoads' /\ kPc' = "stats" /\ loaded' # 0
        /\ ~(loaded' <= 6) /\ loaded' \notin 1..6
    BY <1>2, <1>3, <1>4, <1>13
  <2> QED
    BY <1>4, <1>6, <1>7, <1>10, <1>12, <1>13, <2>1 DEF Balanced
<1>15. BalancedExactly'
  <2>1. loaded' \notin 1..5
    BY <1>13
  <2> QED
    BY <1>4, <1>8, <1>11, <1>12, <1>13, <2>1 DEF BalancedExactly
<1> QED
  BY <1>14, <1>15

\* Only collector_get_stats loads a counter; nobody stops the collector, nor
\* starts it, while it does.
LEMMA StatsStep ==
  ASSUME CollectorInv, [Next]_vars
  PROVE  Balanced' /\ BalancedExactly'
<1>1. /\ ThreadsTypeOK /\ OneFlusher /\ Drained \in BOOLEAN /\ Drained' \in BOOLEAN
  BY DrainedFacts DEF CollectorInv, FlagsTypeOK
<1>2. CASE KLoadPackets
  BY <1>2, PacketsLoaded
<1>3. CASE KLoadTraces
  BY <1>3, TracesLoaded
<1>4. CASE KStatsReturned
  <2>1. /\ loaded' = 0 /\ balance' = NothingLoaded
    BY <1>4 DEF KStatsReturned
  <2>2. 0 \in 0..AllLoads' /\ NothingLoaded \in [packets : Int, traces : Int]
        /\ NothingLoaded.traces = 0
    BY DEF AllLoads, PacketLoads, TraceLoads, NothingLoaded
  <2> QED
    BY <2>1, <2>2 DEF Balanced, BalancedExactly
<1>5. CASE FlushTraces
  <2>1. UNCHANGED statsVars
    BY <1>5 DEF FlushTraces
  <2>2. wPc # "out"
    BY <1>5 DEF FlushTraces, WSample, WScanned, WScanEmpty, WClassify,
       WStored, WStoreFailed, WSync
  <2>3. \/ UNCHANGED <<kPc, stopped>>
        \/ ReturnToCaller
    BY <1>5, Zenon DEF FlushTraces, WSample, WScanned, WScanEmpty, WClassify,
       WStored, WStoreFailed, WSync, controlVars
  <2>4. CASE ReturnToCaller /\ flushFor # "thread"
    <3>1. kPc = "final flush"
      BY <1>1, <2>2, <2>4 DEF OneFlusher, ThreadsTypeOK
    <3> QED
      BY <1>1, <2>1, <3>1, BalanceKept
  <2>5. CASE ReturnToCaller /\ flushFor = "thread"
    <3>1. kPc' = kPc /\ Drained' = Drained
      BY <1>1, <2>5, DrainedFacts, Zenon DEF ReturnToCaller
    <3> QED
      BY <1>1, <2>1, <3>1, BalanceKept, Zenon
  <2>6. CASE UNCHANGED <<kPc, stopped>>
    <3>1. kPc' = kPc /\ Drained' = Drained
      BY <2>6, DrainedFacts, Zenon
    <3> QED
      BY <1>1, <2>1, <3>1, BalanceKept, Zenon
  <2> QED
    BY <2>3, <2>4, <2>5, <2>6
<1>6. CASE Receiver \/ FlushThread \/ ClockTick \/ UNCHANGED vars
  <2>1. UNCHANGED statsVars /\ UNCHANGED <<kPc, Drained>>
    BY <1>6, ReceiverFrame, FlushThreadFrame, ClockFrame, DrainedFacts
       DEF vars, controlVars
  <2> QED
    BY <1>1, <2>1, BalanceKept, Zenon
<1>7. CASE (KContinues \/ KCalls) /\ ~(KLoadPackets \/ KLoadTraces \/ KStatsReturned)
  <2>1. UNCHANGED statsVars
    BY <1>7, Zenon DEF KContinues, KCalls, KStats
  <2>2. kPc # "stats"
    BY <1>7, ControlSteps
       DEF KReceiverCreated, KReceiverFailed, KFlushCreated, KFlushFailed,
         KUndone, KStopReceiver, KReceiverJoined, KFlushJoined, KStart, KStop,
         KStopIdle, KDestroy, KStats
  <2> QED
    BY <1>1, <1>7, <2>1, <2>2, DrainedFacts, BalanceKept, Zenon
<1> QED
  BY <1>2, <1>3, <1>4, <1>5, <1>6, <1>7 DEF Next

-----------------------------------------------------------------------------
(* The invariant holds, and what follows from it. *)

\* Initially nothing has been received, flushed or loaded.
LEMMA CollectorInit ==
  ASSUME Init
  PROVE  CollectorInv
<1>1. MapInv
  BY InitInv DEF Init
<1>2. FlagsTypeOK
  BY DEF Init, FlagsTypeOK
<1>3. ThreadsTypeOK /\ OneFlusher
  BY CollectorConstants DEF Init, ThreadsTypeOK, OneFlusher
<1>4. CountersTypeOK
  BY CollectorConstants DEF Init, CountersTypeOK
<1>5. ThreadsExist
  BY DEF Init, ThreadsExist, Place, Drained
<1>6. PacketFlow
  BY DEF Init, MapInit, PacketFlow
<1>7. Window
  <2>1. 0 \in Seconds /\ 0 <= 0 \div TicksPerSec
    <3>1. /\ 0 \div TicksPerSec = 0 /\ MaxTicks \div TicksPerSec \in Nat
      BY MapConstants, SecondsPass
    <3> QED
      BY <3>1 DEF Seconds
  <2>2. NoTraffic \in [Seconds -> [admitted : Nat, limited : Nat]]
    BY DEF NoTraffic
  <2>3. \A s \in Seconds : NoTraffic[s].admitted = 0 /\ NoTraffic[s].limited = 0
    BY DEF NoTraffic
  <2>4. RateLimitExact
    BY <2>3, CollectorConstants DEF Init, RateLimitExact
  <2> QED
    BY <2>1, <2>2, <2>3, <2>4 DEF Init, MapInit, Window
<1>8. TraceFlow
  <2>1. TracesAccounted
    BY DEF Init, MapInit, TracesAccounted
  <2> QED
    BY <2>1 DEF Init, MapInit, TraceFlow
<1>9. SyncDue /\ FinalReading /\ StoppedClean /\ DestroyedLast
  BY DEF Init, MapInit, SyncDue, FinalReading, StoppedClean, DestroyedLast, Drained
<1>10. Balanced /\ BalancedExactly
  <2>1. 0 \in 0..AllLoads /\ NothingLoaded \in [packets : Int, traces : Int]
        /\ NothingLoaded.traces = 0
    BY LoadOrder DEF NothingLoaded
  <2> QED
    BY <2>1 DEF Init, Balanced, BalancedExactly, Drained
<1> QED
  BY <1>1, <1>2, <1>3, <1>4, <1>5, <1>6, <1>7, <1>8, <1>9, <1>10
     DEF CollectorInv

\* Every step preserves it.
LEMMA CollectorNext ==
  CollectorInv /\ [Next]_vars => CollectorInv'
<1> SUFFICES ASSUME CollectorInv, [Next]_vars PROVE CollectorInv'
  OBVIOUS
<1>1. MapInv'
  BY StepOfMap, NextInv DEF CollectorInv
<1>2. TraceFlow' /\ SyncDue'
  BY TraceFlowStep, SyncDueStep
<1>3. FinalReading' /\ StoppedClean' /\ DestroyedLast'
  BY <1>1, <1>2, DestroyedStep, FinalFlushStep
<1> QED
  BY <1>1, <1>2, <1>3, FlagsStep, ThreadsStep, PacketStep, WindowStep,
     StatsStep DEF CollectorInv

\* The inductive invariant holds in every state of the collector.
THEOREM CollectorInvariant == Spec => []CollectorInv
BY CollectorInit, CollectorNext, PTL DEF Spec

\* The collector uses the map within its contract: a scan follows each clock
\* reading, and nobody else touches the chains (main.c:45-81,
\* receiver.c:109-188).
THEOREM CollectorUsesMap == Spec => ImplementsMap
<1>1. Init => MapInit
  BY DEF Init
<1>2. CollectorInv /\ [Next]_vars => [MapNext]_mapVars
  BY StepOfMap
<1>3. Spec => MapSpec
  BY <1>1, <1>2, CollectorInvariant, PTL DEF Spec, MapSpec
<1> QED
  BY <1>3 DEF ImplementsMap

\* Every packet received is counted once, whichever way it goes
\* (receiver.c:109-188).
THEOREM CollectorAccountsForPackets == Spec => []PacketsAccounted
<1>1. CollectorInv => PacketsAccounted
  <2> SUFFICES ASSUME CollectorInv PROVE PacketsAccounted
    OBVIOUS
  <2>1. PacketFlow /\ SpansConserved /\ CountersTypeOK /\ MapTypeOK
    BY DEF CollectorInv, MapInv
  <2>2. PICK i \in Nat, d \in Nat, e \in Nat, f \in Nat, s \in Nat, l \in Nat,
             u \in Nat, v \in Nat :
             /\ i = inserts /\ d = tracesDropped /\ e = spansDropped
             /\ f = refused /\ s = spansProcessed /\ l = rateLimited
             /\ u = unauthorized /\ v = invalid
    BY <2>1, MapCounters DEF CountersTypeOK
  <2>3. Cardinality(Stored) = i - d - e - f
    BY <2>1, <2>2 DEF SpansConserved
  <2>4. /\ packetsReceived = i + l + u + v
                              + IF rPc \in {"limit", "decode"} THEN 1 ELSE 0
        /\ s + (IF rPc = "count" THEN 1 ELSE 0) = i - d - e - f
    BY <2>1, <2>2 DEF PacketFlow
  <2>5. packetsReceived = l + u + v + s + d + e + f
           + IF rPc \in {"limit", "decode", "count"} THEN 1 ELSE 0
    <3>1. CASE rPc \in {"limit", "decode"}
      BY <2>2, <2>4, <3>1
    <3>2. CASE rPc = "count"
      BY <2>2, <2>4, <3>2
    <3>3. CASE rPc \notin {"limit", "decode", "count"}
      BY <2>2, <2>4, <3>3
    <3> QED
      BY <3>1, <3>2, <3>3
  <2> QED
    BY <2>2, <2>3, <2>4, <2>5 DEF PacketsAccounted
<1> QED
  BY <1>1, CollectorInvariant, PTL

\* In every second the limit is what is admitted at most, and is admitted
\* before a packet is turned away (receiver.c:142-154).
THEOREM CollectorLimitsExactly == Spec => []RateLimitExact
<1>1. CollectorInv => RateLimitExact
  BY DEF CollectorInv, Window, RateLimitExact
<1> QED
  BY <1>1, CollectorInvariant, PTL

\* Every trace taken out of the map is written or counted as lost, once, in
\* order (main.c:45-81).
THEOREM CollectorAccountsForTraces == Spec => []TracesAccounted
<1>1. CollectorInv => TracesAccounted
  BY DEF CollectorInv, TraceFlow
<1> QED
  BY <1>1, CollectorInvariant, PTL

\* flush_traces has one caller at a time (main.c:83-94, 182-197).
THEOREM CollectorHasOneFlusher == Spec => []OneFlusher
<1>1. CollectorInv => OneFlusher
  BY DEF CollectorInv
<1> QED
  BY <1>1, CollectorInvariant, PTL

\* A running collector that has been stopped has no span left in its map and
\* frees none with it when it is destroyed, nothing buffered unless an fflush
\* failed, and no thread (main.c:45-81, 187-211).  Of a collector that
\* collector_stop found not running (main.c:183-185) it says nothing.
THEOREM CollectorStopPersists == Spec => []StopPersistsAll
<1>1. CollectorInv => StopPersistsAll
  <2> SUFFICES ASSUME CollectorInv, Drained
               PROVE  /\ Places = {} /\ count = 0 /\ freed = {}
                      /\ handled = Len(closed)
                      /\ ~syncFailed => synced = Len(log)
                      /\ rPc = "none" /\ fPc = "none"
    BY Zenon DEF StopPersistsAll, Drained
  <2>1. rPc = "none" /\ fPc = "none"
    BY Whereabouts
  <2> QED
    BY <2>1, Zenon DEF CollectorInv, StoppedClean
<1> QED
  BY <1>1, CollectorInvariant, PTL

\* The statistics are behind by one packet and one trace at most, and are
\* exact once the collector has been stopped (main.c:221-240).
THEOREM CollectorStatsBehindByOne == Spec => []StatsBehindByOne
<1>1. CollectorInv => StatsBehindByOne
  <2> SUFFICES ASSUME CollectorInv, kPc = "stats", loaded = AllLoads
               PROVE  /\ balance.packets <= refused + 1
                      /\ balance.traces <= 1
                      /\ Drained => balance = [packets |-> refused, traces |-> 0]
    BY DEF StatsBehindByOne, Drained
  <2>1. loaded = 10 /\ Balanced /\ BalancedExactly
    BY LoadOrder DEF CollectorInv
  <2>2. balance.packets <= refused + 1 /\ balance.traces <= 1
    BY <2>1 DEF Balanced
  <2>3. Drained => balance.packets = refused /\ balance.traces = 0
    BY <2>1 DEF BalancedExactly
  <2>4. balance \in [packets : Int, traces : Int]
    BY <2>1 DEF Balanced
  <2>5. balance.packets = refused /\ balance.traces = 0
          => balance = [packets |-> refused, traces |-> 0]
    BY <2>4
  <2> QED
    BY <2>2, <2>3, <2>5, Zenon
<1> QED
  BY <1>1, CollectorInvariant, PTL

\* Each variable keeps its type, and no counter outgrows the packets received.
THEOREM CollectorTypeCorrect == Spec => []TypeOK
<1>1. CollectorInv => TypeOK
  <2> SUFFICES ASSUME CollectorInv PROVE TypeOK
    OBVIOUS
  <2>1. /\ MapTypeOK /\ FlagsTypeOK /\ ThreadsTypeOK /\ CountersTypeOK
        /\ PacketFlow /\ Window /\ TraceFlow /\ Balanced /\ TracesAccounted
    BY DEF CollectorInv, MapInv, TraceFlow
  <2>2. /\ inserts \in Nat /\ tracesDropped \in Nat /\ spansDropped \in Nat
        /\ refused \in Nat /\ count \in Nat /\ Len(closed) \in Nat
        /\ MaxPackets \in Nat
    BY <2>1, MapCounters, CollectorConstants
  <2>3. /\ packetsReceived \in 0..MaxPackets
        /\ rateLimited \in Nat /\ unauthorized \in Nat /\ invalid \in Nat
        /\ spansProcessed \in Nat /\ completed \in Nat /\ timedOut \in Nat
        /\ writes \in Nat /\ errors \in Nat
    BY <2>1 DEF CountersTypeOK
  <2>4. /\ inserts <= packetsReceived /\ rateLimited <= packetsReceived
        /\ unauthorized <= packetsReceived /\ invalid <= packetsReceived
        /\ spansProcessed <= packetsReceived
    <3>1. PICK hand \in 0..1, kept \in 0..1 :
             /\ packetsReceived = inserts + rateLimited + unauthorized + invalid
                                    + hand
             /\ spansProcessed + kept = inserts - tracesDropped - spansDropped
                                          - refused
      <4>1. /\ (IF rPc \in {"limit", "decode"} THEN 1 ELSE 0) \in 0..1
            /\ (IF rPc = "count" THEN 1 ELSE 0) \in 0..1
        OBVIOUS
      <4> QED
        BY <2>1, <4>1, Zenon DEF PacketFlow
    <3>2. spansProcessed <= inserts
      BY <2>2, <2>3, <3>1
    <3> QED
      BY <2>2, <2>3, <3>1, <3>2
  <2>5. /\ completed <= inserts /\ timedOut <= inserts /\ writes <= inserts
        /\ errors <= inserts
    <3>1. PICK hand \in 0..1 :
             /\ completed + timedOut = handled + hand /\ writes + errors = handled
             /\ handled + hand <= Len(closed)
      <4>1. handled \in Nat /\ handled <= Len(closed)
        BY <2>1, <2>2 DEF TraceFlow
      <4>2. CASE wPc = "store"
        <5>1. /\ completed + timedOut = handled + 1 /\ writes + errors = handled
              /\ handled + 1 <= Len(closed) /\ 1 \in 0..1
          BY <2>1, <2>2, <4>1, <4>2 DEF TracesAccounted, TraceFlow
        <5> QED
          BY <5>1
      <4>3. CASE wPc # "store"
        <5>1. /\ completed + timedOut = handled + 0 /\ writes + errors = handled
              /\ handled + 0 <= Len(closed) /\ 0 \in 0..1
          BY <2>1, <2>2, <4>1, <4>3 DEF TracesAccounted
        <5> QED
          BY <5>1
      <4> QED
        BY <4>2, <4>3
    <3>2. Len(closed) <= inserts /\ handled \in Nat
      BY <2>1, <2>2 DEF TraceFlow
    <3> QED
      BY <2>2, <2>3, <3>1, <3>2
  <2>6. {packetsReceived, rateLimited, unauthorized, invalid, spansProcessed,
         completed, timedOut, writes, errors} \subseteq 0..MaxPackets
    BY <2>2, <2>3, <2>4, <2>5
  <2>7. lost \subseteq 1..Len(closed)
    BY <2>1, <2>2 DEF TraceFlow
  <2>8. /\ handled \in 0..Len(closed) /\ log \in Seq(1..Len(closed))
        /\ synced \in 0..Len(log)
    BY <2>1 DEF TraceFlow
  <2>9. /\ windowSec \in Seconds /\ windowCount \in Nat
        /\ perSecond \in [Seconds -> [admitted : Nat, limited : Nat]]
    BY <2>1 DEF Window
  <2>10. loaded \in 0..AllLoads /\ balance \in [packets : Int, traces : Int]
    BY <2>1 DEF Balanced
  <2>11. /\ running \in BOOLEAN /\ rRunning \in BOOLEAN
         /\ stopped \in {"no", "idle", "drained"}
         /\ wroteAny \in BOOLEAN /\ syncFailed \in BOOLEAN
    BY <2>1, Zenon DEF FlagsTypeOK
  <2>12. \/ packet = NoPacket
         \/ \E span \in SpanInputs : packet = <<"span", span>>
         \/ \E kind \in BadPackets : packet = <<kind>>
    BY <2>1, Zenon DEF PacketFlow
  <2> QED
    BY <2>1, <2>6, <2>7, <2>8, <2>9, <2>10, <2>11, <2>12, Zenon
       DEF TypeOK, ThreadsTypeOK
<1> QED
  BY <1>1, CollectorInvariant, PTL

\* What is true of the map is true of it in the collector: its traces are well
\* formed, no span is lost or duplicated, and a trace is split by inactivity
\* only.
THEOREM CollectorKeepsMap ==
  Spec => [](MapWellFormed /\ SpansConserved /\ SplitOnlyByInactivity)
<1>1. CollectorInv => MapWellFormed /\ SpansConserved /\ SplitOnlyByInactivity
  BY DEF CollectorInv, MapInv
<1> QED
  BY <1>1, CollectorInvariant, PTL

\* And with it the sessions, one per period of activity of a trace id.
THEOREM CollectorImplementsSessions == Spec => ImplementsSessions
BY CollectorUsesMap, MapImplementsSessions, PTL DEF ImplementsMap
=============================================================================

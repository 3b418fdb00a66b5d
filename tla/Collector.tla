----------------------------- MODULE Collector -----------------------------
(***************************************************************************)
(* The collector daemon of src/src/collector: the receiver thread that     *)
(* turns datagrams into insertions in the trace map, the flush thread that *)
(* moves inactive traces from the map to the trace log, and the thread     *)
(* that starts, stops and destroys the collector.                          *)
(*                                                                         *)
(* The map is TraceMap, whose actions are the steps this module takes in   *)
(* it; every other step leaves the map alone (ImplementsMap).  The log is  *)
(* the sequence of flushed traces written to it, and how much of it has    *)
(* left the stdio buffer; its bytes are not modelled.                      *)
(*                                                                         *)
(* flush_traces is called by the flush thread and, once that thread has    *)
(* been joined, by collector_stop: one copy of its locals serves both, and *)
(* flushFor says who is in it.                                             *)
(***************************************************************************)
EXTENDS TraceMap

CONSTANTS
    TimeoutSec,       \* config.timeout_sec
    FlushCount,       \* the batch size flush_traces derives from the config
    MaxPacketsPerSec, \* config.max_packets_per_sec, 0 = unlimited
    BadPackets,       \* other datagrams: a subset of {"unauthorized", "invalid"}
    MaxPackets,       \* bound on the datagrams received
    MaxStarts,        \* bound on the calls of collector_start
    MaxStatsStarts,   \* bound on the start after which statistics are read
    ThingsFail        \* whether threads, sockets and writes may fail

ASSUME CollectorAssumption ==
    /\ {0, TimeoutSec} \subseteq Timeouts
    /\ FlushCount \in BatchSizes
    /\ MaxPacketsPerSec \in Nat
    /\ BadPackets \subseteq {"unauthorized", "invalid"}
    /\ {MaxPackets, MaxStarts, MaxStatsStarts} \subseteq Nat
    /\ ThingsFail \in BOOLEAN

VARIABLES
    kPc,          \* the controlling thread's place
    running,      \* c->running
    starts,       \* calls of collector_start so far
    stopped,      \* what collector_stop did since the last start: "no" (it has
                  \* not returned), "idle" (nothing) or "drained" (all of it)
    rRunning,     \* r->running
    rPc,          \* the receiver thread's place, "none" when there is none
    packet,       \* the datagram in its hands: <<"span", s>>, <<"invalid">>, ...
    windowSec,    \* its local window_sec
    windowCount,  \* its local window_count
    perSecond,    \* packets it admitted and limited, for each second
    packetsReceived, rateLimited, unauthorized, invalid, spansProcessed,
    fPc,          \* the flush thread's place, "none" when there is none
    flushFor,     \* who is in flush_traces
    wPc,          \* and where
    wroteAny,     \* its local wrote_any
    handled,      \* traces of `closed` it is done with
    completed, timedOut, writes, errors,  \* the collector's own counters
    log,          \* indices in `closed` of the records written, in order
    lost,         \* indices of the traces whose write failed
    synced,       \* records known to have left the stdio buffer
    syncFailed,   \* an fflush failed, its result being ignored
    loaded,       \* counters loaded so far by collector_get_stats
    balance       \* what they add up to: see PacketLoads and TraceLoads

controlVars == <<kPc, running, starts, stopped, rRunning>>
receiverVars == <<rPc, packet, windowSec, windowCount, perSecond,
                  packetsReceived, rateLimited, unauthorized, invalid,
                  spansProcessed>>
flushVars == <<flushFor, wPc, wroteAny, handled, completed, timedOut, writes,
               errors, log, lost, synced, syncFailed>>
statsVars == <<loaded, balance>>
vars == <<mapVars, controlVars, receiverVars, fPc, flushVars, statsVars>>

Seconds == 0..(MaxTicks \div TicksPerSec)
NoTraffic == [s \in Seconds |-> [admitted |-> 0, limited |-> 0]]
NoPacket == <<>>
NothingLoaded == [packets |-> 0, traces |-> 0]

Init ==
    /\ MapInit
    /\ kPc = "down" /\ running = FALSE /\ starts = 0 /\ stopped = "no"
    /\ rRunning = FALSE /\ rPc = "none" /\ packet = NoPacket
    /\ windowSec = 0 /\ windowCount = 0 /\ perSecond = NoTraffic
    /\ packetsReceived = 0 /\ rateLimited = 0
    /\ unauthorized = 0 /\ invalid = 0 /\ spansProcessed = 0
    /\ fPc = "none"
    /\ flushFor = "nobody" /\ wPc = "out" /\ wroteAny = FALSE /\ handled = 0
    /\ completed = 0 /\ timedOut = 0 /\ writes = 0 /\ errors = 0
    /\ log = <<>> /\ lost = {} /\ synced = 0 /\ syncFailed = FALSE
    /\ loaded = 0 /\ balance = NothingLoaded

-----------------------------------------------------------------------------
(* receiver_thread_func *)

RCheck ==
    /\ rPc = "loop"
    /\ rPc' = IF rRunning THEN "recv" ELSE "exited"
    /\ UNCHANGED <<mapVars, controlVars, packet, windowSec, windowCount,
                   perSecond, packetsReceived, rateLimited, unauthorized,
                   invalid, spansProcessed, fPc, flushVars>>

\* recvfrom timed out, was interrupted, or returned an empty datagram.
RNothing ==
    /\ rPc = "recv"
    /\ rPc' = "loop"
    /\ UNCHANGED <<mapVars, controlVars, packet, windowSec, windowCount,
                   perSecond, packetsReceived, rateLimited, unauthorized,
                   invalid, spansProcessed, fPc, flushVars>>

\* Any other error of the socket ends the thread; r->running stays set.
RSocketError ==
    /\ rPc = "recv"
    /\ ThingsFail
    /\ rPc' = "exited"
    /\ UNCHANGED <<mapVars, controlVars, packet, windowSec, windowCount,
                   perSecond, packetsReceived, rateLimited, unauthorized,
                   invalid, spansProcessed, fPc, flushVars>>

RReceive(datagram) ==
    /\ rPc = "recv"
    /\ packetsReceived < MaxPackets
    /\ packetsReceived' = packetsReceived + 1
    /\ packet' = datagram
    /\ rPc' = "limit"
    /\ UNCHANGED <<mapVars, controlVars, windowSec, windowCount, perSecond,
                   rateLimited, unauthorized, invalid, spansProcessed, fPc,
                   flushVars>>

\* The packets of this second, the one at hand included.
InWindow(now) == 1 + IF now = windowSec THEN windowCount ELSE 0

\* Mutant of OverLimit: the last packet of the limit is turned away.
AtLimit(now) == MaxPacketsPerSec > 0 /\ InWindow(now) >= MaxPacketsPerSec

OverLimit(now) == MaxPacketsPerSec > 0 /\ InWindow(now) > MaxPacketsPerSec

\* The rate limit: a packet that is one too many is not looked at.
RRateLimit ==
    LET now == clock \div TicksPerSec
    IN  /\ rPc = "limit"
        /\ IF MaxPacketsPerSec > 0
           THEN windowSec' = now /\ windowCount' = InWindow(now)
           ELSE UNCHANGED <<windowSec, windowCount>>
        /\ IF OverLimit(now)
           THEN /\ rateLimited' = rateLimited + 1
                /\ perSecond' = [perSecond EXCEPT ![now].limited = @ + 1]
                /\ packet' = NoPacket
                /\ rPc' = "loop"
           ELSE /\ perSecond' = [perSecond EXCEPT ![now].admitted = @ + 1]
                /\ rPc' = "decode"
                /\ UNCHANGED <<rateLimited, packet>>
        /\ UNCHANGED <<mapVars, controlVars, packetsReceived, unauthorized,
                       invalid, spansProcessed, fPc, flushVars>>

\* The allowlist or the authentication hook turns the packet away.
RUnauthorized ==
    /\ rPc = "decode" /\ packet = <<"unauthorized">>
    /\ unauthorized' = unauthorized + 1
    /\ packet' = NoPacket
    /\ rPc' = "loop"
    /\ UNCHANGED <<mapVars, controlVars, windowSec, windowCount, perSecond,
                   packetsReceived, rateLimited, invalid, spansProcessed, fPc,
                   flushVars>>

\* collector_decode_span fails.
RInvalid ==
    /\ rPc = "decode" /\ packet = <<"invalid">>
    /\ invalid' = invalid + 1
    /\ packet' = NoPacket
    /\ rPc' = "loop"
    /\ UNCHANGED <<mapVars, controlVars, windowSec, windowCount, perSecond,
                   packetsReceived, rateLimited, unauthorized, spansProcessed,
                   fPc, flushVars>>

\* Mutant of RStored: the stored span is not counted.
RStoredUncounted ==
    /\ rPc = "decode" /\ packet[1] = "span"
    /\ InsertStored(packet[2])
    /\ packet' = NoPacket
    /\ rPc' = "loop"
    /\ UNCHANGED <<controlVars, windowSec, windowCount, perSecond,
                   packetsReceived, rateLimited, unauthorized, invalid,
                   spansProcessed, fPc, flushVars>>

RStored ==
    /\ rPc = "decode" /\ packet[1] = "span"
    /\ InsertStored(packet[2])
    /\ packet' = NoPacket
    /\ rPc' = "count"
    /\ UNCHANGED <<controlVars, windowSec, windowCount, perSecond,
                   packetsReceived, rateLimited, unauthorized, invalid,
                   spansProcessed, fPc, flushVars>>

RRejected ==
    /\ rPc = "decode" /\ packet[1] = "span"
    /\ InsertRejected(packet[2])
    /\ packet' = NoPacket
    /\ rPc' = "loop"
    /\ UNCHANGED <<controlVars, windowSec, windowCount, perSecond,
                   packetsReceived, rateLimited, unauthorized, invalid,
                   spansProcessed, fPc, flushVars>>

RCount ==
    /\ rPc = "count"
    /\ spansProcessed' = spansProcessed + 1
    /\ rPc' = "loop"
    /\ UNCHANGED <<mapVars, controlVars, packet, windowSec, windowCount,
                   perSecond, packetsReceived, rateLimited, unauthorized,
                   invalid, fPc, flushVars>>

-----------------------------------------------------------------------------
(* flush_thread_func *)

FCheck ==
    /\ fPc = "loop"
    /\ fPc' = IF running THEN "sleep" ELSE "exited"
    /\ UNCHANGED <<mapVars, controlVars, receiverVars, flushVars>>

FWake ==
    /\ fPc = "sleep"
    /\ fPc' = "check"
    /\ UNCHANGED <<mapVars, controlVars, receiverVars, flushVars>>

EnterFlush(who) == flushFor' = who /\ wPc' = "sample" /\ wroteAny' = FALSE

FFlush ==
    /\ fPc = "check"
    /\ running
    /\ EnterFlush("thread")
    /\ fPc' = "flush"
    /\ UNCHANGED <<mapVars, controlVars, receiverVars, handled, completed,
                   timedOut, writes, errors, log, lost, synced, syncFailed>>

FStop ==
    /\ fPc = "check"
    /\ ~running
    /\ fPc' = "loop"
    /\ UNCHANGED <<mapVars, controlVars, receiverVars, flushVars>>

-----------------------------------------------------------------------------
(* flush_traces *)

\* Mutant of FlushTimeout: the final flush waits for inactivity too.
FlushTimeoutAlways == TimeoutSec

FlushTimeout == IF flushFor = "thread" THEN TimeoutSec ELSE 0

\* Mutant of ReturnToCaller: the flush thread ends after its first flush.
ReturnAndExit ==
    /\ flushFor' = "nobody"
    /\ wPc' = "out"
    /\ fPc' = IF flushFor = "thread" THEN "exited" ELSE fPc
    /\ kPc' = IF flushFor = "thread" THEN kPc ELSE "down"
    /\ stopped' = IF flushFor = "thread" THEN stopped ELSE "drained"

\* The caller goes on where it called flush_traces.
ReturnToCaller ==
    /\ flushFor' = "nobody"
    /\ wPc' = "out"
    /\ fPc' = IF flushFor = "thread" THEN "loop" ELSE fPc
    /\ kPc' = IF flushFor = "thread" THEN kPc ELSE "down"
    /\ stopped' = IF flushFor = "thread" THEN stopped ELSE "drained"

WSample ==
    /\ wPc = "sample"
    /\ FlushSample
    /\ wPc' = "scan"
    /\ UNCHANGED <<controlVars, receiverVars, fPc, flushFor, wroteAny, handled,
                   completed, timedOut, writes, errors, log, lost, synced,
                   syncFailed>>

\* A scan that finds traces is followed by another, after they are written.
WScanned ==
    /\ wPc = "scan"
    /\ FlushScan(FlushTimeout, FlushCount)
    /\ Len(closed') > Len(closed)
    /\ wPc' = "classify"
    /\ UNCHANGED <<controlVars, receiverVars, fPc, flushFor, wroteAny, handled,
                   completed, timedOut, writes, errors, log, lost, synced,
                   syncFailed>>

WScanEmpty ==
    /\ wPc = "scan"
    /\ FlushScan(FlushTimeout, FlushCount)
    /\ closed' = closed
    /\ IF wroteAny
       THEN wPc' = "sync" /\ UNCHANGED <<flushFor, fPc, kPc, stopped>>
       ELSE ReturnToCaller
    /\ UNCHANGED <<running, starts, rRunning, receiverVars, wroteAny, handled,
                   completed, timedOut, writes, errors, log, lost, synced,
                   syncFailed>>

AtHand == closed[handled + 1].pt

WClassify ==
    /\ wPc = "classify"
    /\ IF AtHand.hasRoot
       THEN completed' = completed + 1 /\ UNCHANGED timedOut
       ELSE timedOut' = timedOut + 1 /\ UNCHANGED completed
    /\ wPc' = "store"
    /\ UNCHANGED <<mapVars, controlVars, receiverVars, fPc, flushFor, wroteAny,
                   handled, writes, errors, log, lost, synced, syncFailed>>

\* The batch goes on; when it is done, wrote_any is set and the map scanned.
WNext ==
    /\ handled' = handled + 1
    /\ IF handled' = Len(closed)
       THEN wPc' = "sample" /\ wroteAny' = TRUE
       ELSE wPc' = "classify" /\ UNCHANGED wroteAny

\* A trace without spans counts as written but puts nothing in the log.
WStored ==
    /\ wPc = "store"
    /\ log' = IF AtHand.spans = <<>> THEN log ELSE Append(log, handled + 1)
    /\ writes' = writes + 1
    /\ WNext
    /\ UNCHANGED <<mapVars, controlVars, receiverVars, fPc, flushFor,
                   completed, timedOut, errors, lost, synced, syncFailed>>

\* Mutant of WStoreFailed: the error is not counted.
WStoreFailedSilent ==
    /\ wPc = "store"
    /\ ThingsFail
    /\ lost' = lost \union {handled + 1}
    /\ WNext
    /\ UNCHANGED <<mapVars, controlVars, receiverVars, fPc, flushFor,
                   completed, timedOut, writes, errors, log, synced,
                   syncFailed>>

WStoreFailed ==
    /\ wPc = "store"
    /\ ThingsFail
    /\ lost' = lost \union {handled + 1}
    /\ errors' = errors + 1
    /\ WNext
    /\ UNCHANGED <<mapVars, controlVars, receiverVars, fPc, flushFor,
                   completed, timedOut, writes, log, synced, syncFailed>>

WSync ==
    /\ wPc = "sync"
    /\ \/ synced' = Len(log) /\ UNCHANGED syncFailed
       \/ ThingsFail /\ syncFailed' = TRUE /\ UNCHANGED synced
    /\ ReturnToCaller
    /\ UNCHANGED <<mapVars, running, starts, rRunning, receiverVars, wroteAny,
                   handled, completed, timedOut, writes, errors, log, lost>>

-----------------------------------------------------------------------------
(* collector_start, collector_stop, collector_destroy *)

KStart ==
    /\ kPc = "down"
    /\ starts < MaxStarts
    /\ starts' = starts + 1
    /\ stopped' = "no"
    /\ running' = TRUE
    /\ rRunning' = TRUE
    /\ kPc' = "create receiver"
    /\ UNCHANGED <<mapVars, receiverVars, fPc, flushVars>>

KReceiverCreated ==
    /\ kPc = "create receiver"
    /\ rPc' = "loop"
    /\ windowSec' = 0 /\ windowCount' = 0 /\ perSecond' = NoTraffic
    /\ kPc' = "create flush"
    /\ UNCHANGED <<mapVars, running, starts, stopped, rRunning, packet,
                   packetsReceived, rateLimited, unauthorized, invalid,
                   spansProcessed, fPc, flushVars>>

\* receiver_start resets r->running, collector_start resets c->running.
KReceiverFailed ==
    /\ kPc = "create receiver"
    /\ ThingsFail
    /\ rRunning' = FALSE
    /\ running' = FALSE
    /\ kPc' = "down"
    /\ UNCHANGED <<mapVars, starts, stopped, receiverVars, fPc, flushVars>>

KFlushCreated ==
    /\ kPc = "create flush"
    /\ fPc' = "loop"
    /\ kPc' = "up"
    /\ UNCHANGED <<mapVars, running, starts, stopped, rRunning, receiverVars,
                   flushVars>>

\* receiver_stop is called to undo the start.
KFlushFailed ==
    /\ kPc = "create flush"
    /\ ThingsFail
    /\ rRunning' = FALSE
    /\ kPc' = "undo"
    /\ UNCHANGED <<mapVars, running, starts, stopped, receiverVars, fPc,
                   flushVars>>

\* Mutant of KUndone: the chains are freed, the count is not reset.
KUndoneCleared ==
    /\ kPc = "undo"
    /\ rPc = "exited"
    /\ rPc' = "none"
    /\ running' = FALSE
    /\ buckets' = [b \in 1..NumBuckets |-> <<>>]
    /\ kPc' = "down"
    /\ UNCHANGED <<count, tracesDropped, spansDropped, clock, flushNow, closed,
                   inserts, refused, destroyed, freed, starts, stopped, rRunning,
                   packet, windowSec, windowCount, perSecond, packetsReceived,
                   rateLimited, unauthorized, invalid, spansProcessed, fPc,
                   flushVars>>

KUndone ==
    /\ kPc = "undo"
    /\ rPc = "exited"
    /\ rPc' = "none"
    /\ running' = FALSE
    /\ kPc' = "down"
    /\ UNCHANGED <<mapVars, starts, stopped, rRunning, packet, windowSec,
                   windowCount, perSecond, packetsReceived, rateLimited,
                   unauthorized, invalid, spansProcessed, fPc, flushVars>>

\* A collector that is not running has nothing to stop: what a failed start
\* left in the map stays there.
KStopIdle ==
    /\ kPc = "down"
    /\ ~running
    /\ stopped' = IF stopped = "no" THEN "idle" ELSE stopped
    /\ UNCHANGED <<mapVars, kPc, running, starts, rRunning, receiverVars, fPc,
                   flushVars>>

KStop ==
    /\ kPc = "up"
    /\ running
    /\ running' = FALSE
    /\ kPc' = "stop receiver"
    /\ UNCHANGED <<mapVars, starts, stopped, rRunning, receiverVars, fPc,
                   flushVars>>

\* Mutant of KStopReceiver: r->running is left set.
KStopReceiverUnset ==
    /\ kPc = "stop receiver"
    /\ kPc' = "join receiver"
    /\ UNCHANGED <<mapVars, running, starts, stopped, rRunning, receiverVars,
                   fPc, flushVars>>

KStopReceiver ==
    /\ kPc = "stop receiver"
    /\ rRunning' = FALSE
    /\ kPc' = "join receiver"
    /\ UNCHANGED <<mapVars, running, starts, stopped, receiverVars, fPc,
                   flushVars>>

KReceiverJoined ==
    /\ kPc = "join receiver"
    /\ rPc = "exited"
    /\ rPc' = "none"
    /\ kPc' = "join flush"
    /\ UNCHANGED <<mapVars, running, starts, stopped, rRunning, packet,
                   windowSec, windowCount, perSecond, packetsReceived,
                   rateLimited, unauthorized, invalid, spansProcessed, fPc,
                   flushVars>>

\* Mutant of KFlushJoined: the flush thread is not waited for.
KFlushNotJoined ==
    /\ kPc = "join flush"
    /\ EnterFlush("stop")
    /\ kPc' = "final flush"
    /\ UNCHANGED <<mapVars, running, starts, stopped, rRunning, receiverVars,
                   fPc, handled, completed, timedOut, writes, errors, log, lost,
                   synced, syncFailed>>

KFlushJoined ==
    /\ kPc = "join flush"
    /\ fPc = "exited"
    /\ fPc' = "none"
    /\ EnterFlush("stop")
    /\ kPc' = "final flush"
    /\ UNCHANGED <<mapVars, running, starts, stopped, rRunning, receiverVars,
                   handled, completed, timedOut, writes, errors, log, lost,
                   synced, syncFailed>>

\* collector_destroy of a collector that is up calls collector_stop first,
\* so what is left of it starts when the collector is down; fclose writes out
\* what is buffered, and what is still in the map is freed with it.
KDestroy ==
    /\ kPc = "down"
    /\ ~running
    /\ kPc' = "destroyed"
    /\ \/ synced' = Len(log) /\ UNCHANGED syncFailed
       \/ ThingsFail /\ syncFailed' = TRUE /\ UNCHANGED synced
    /\ MapDestroy
    /\ UNCHANGED <<running, starts, stopped, rRunning, receiverVars, fPc,
                   flushFor, wPc, wroteAny, handled, completed, timedOut,
                   writes, errors, log, lost>>

-----------------------------------------------------------------------------
(* collector_get_stats, called by the controlling thread *)

\* Mutant of PacketLoads: the packets received are loaded last.
PacketLoadsReceivedLast ==
    <<-invalid, -unauthorized, -rateLimited, -spansProcessed,
      -(tracesDropped + spansDropped), packetsReceived>>

\* The counters in the order they are loaded, each with the sign it has in
\* the balance: packets received less those that left the receiver, traces
\* taken out of the map less those written or lost.  The last of PacketLoads
\* is trace_map_get_drop_stats, which holds the lock of the map.
PacketLoads == <<packetsReceived, -invalid, -unauthorized, -rateLimited,
                 -spansProcessed, -(tracesDropped + spansDropped)>>
TraceLoads == <<completed, timedOut, -writes, -errors>>
AllLoads == Len(PacketLoads) + Len(TraceLoads)

KStats ==
    /\ kPc \in {"up", "down"}
    /\ starts <= MaxStatsStarts
    /\ kPc' = "stats"
    /\ UNCHANGED <<mapVars, running, starts, stopped, rRunning, receiverVars,
                   fPc, flushVars, statsVars>>

KLoadPackets ==
    /\ kPc = "stats"
    /\ loaded < Len(PacketLoads)
    /\ loaded' = loaded + 1
    /\ balance' = [balance EXCEPT !.packets = @ + PacketLoads[loaded']]
    /\ UNCHANGED <<mapVars, controlVars, receiverVars, fPc, flushVars>>

KLoadTraces ==
    /\ kPc = "stats"
    /\ loaded \in Len(PacketLoads)..(AllLoads - 1)
    /\ loaded' = loaded + 1
    /\ balance' = [balance EXCEPT !.traces =
                      @ + TraceLoads[loaded' - Len(PacketLoads)]]
    /\ UNCHANGED <<mapVars, controlVars, receiverVars, fPc, flushVars>>

KStatsReturned ==
    /\ kPc = "stats"
    /\ loaded = AllLoads
    /\ loaded' = 0 /\ balance' = NothingLoaded
    /\ kPc' = IF running THEN "up" ELSE "down"
    /\ UNCHANGED <<mapVars, running, starts, stopped, rRunning, receiverVars,
                   fPc, flushVars>>

-----------------------------------------------------------------------------
\* Time passes for everybody.
ClockTick ==
    /\ Tick
    /\ UNCHANGED <<controlVars, receiverVars, fPc, flushVars, statsVars>>

(* Only collector_get_stats changes what it has loaded. *)

Receiver ==
    /\ UNCHANGED statsVars
    /\ \/ RCheck \/ RNothing \/ RSocketError \/ RRateLimit \/ RUnauthorized
       \/ RInvalid \/ RStored \/ RRejected \/ RCount
       \/ \E span \in SpanInputs : RReceive(<<"span", span>>)
       \/ \E kind \in BadPackets : RReceive(<<kind>>)

FlushThread ==
    /\ UNCHANGED statsVars
    /\ FCheck \/ FWake \/ FFlush \/ FStop

FlushTraces ==
    /\ UNCHANGED statsVars
    /\ \/ WSample \/ WScanned \/ WScanEmpty \/ WClassify \/ WStored
       \/ WStoreFailed \/ WSync

\* What the controlling thread does once it has entered a function ...
KContinues ==
    \/ /\ UNCHANGED statsVars
       /\ \/ KReceiverCreated \/ KReceiverFailed \/ KFlushCreated
          \/ KFlushFailed \/ KUndone \/ KStopReceiver \/ KReceiverJoined
          \/ KFlushJoined
    \/ KLoadPackets \/ KLoadTraces \/ KStatsReturned

\* ... and the functions it may call.
KCalls ==
    \/ /\ UNCHANGED statsVars
       /\ KStart \/ KStop \/ KStopIdle \/ KDestroy
    \/ KStats

Next ==
    Receiver \/ FlushThread \/ FlushTraces \/ KContinues \/ KCalls \/ ClockTick

Spec == Init /\ [][Next]_vars

(***************************************************************************)
(* Every thread is scheduled and time passes.  Receiver is weakly fair as  *)
(* a whole: recvfrom returns (SO_RCVTIMEO bounds its wait), but no packet  *)
(* need ever arrive.  The controlling thread is free not to call anything. *)
(***************************************************************************)
FairSpec ==
    /\ Spec
    /\ WF_vars(Receiver) /\ WF_vars(FlushThread) /\ WF_vars(FlushTraces)
    /\ WF_vars(KContinues) /\ WF_vars(ClockTick)

-----------------------------------------------------------------------------
(* Properties *)

\* The types of the collector's own variables, and of the map's.
TypeOK ==
    /\ MapTypeOK
    /\ kPc \in {"down", "create receiver", "create flush", "undo", "up",
                "stop receiver", "join receiver", "join flush", "final flush",
                "stats", "destroyed"}
    /\ loaded \in 0..AllLoads
    /\ balance \in [packets : Int, traces : Int]
    /\ running \in BOOLEAN /\ rRunning \in BOOLEAN
    /\ stopped \in {"no", "idle", "drained"}
    /\ wroteAny \in BOOLEAN /\ syncFailed \in BOOLEAN
    /\ starts \in 0..MaxStarts
    /\ rPc \in {"none", "loop", "recv", "limit", "decode", "count", "exited"}
    /\ \/ packet = NoPacket
       \/ \E span \in SpanInputs : packet = <<"span", span>>
       \/ \E kind \in BadPackets : packet = <<kind>>
    /\ windowSec \in Seconds
    /\ windowCount \in Nat
    /\ perSecond \in [Seconds -> [admitted : Nat, limited : Nat]]
    /\ {packetsReceived, rateLimited, unauthorized, invalid, spansProcessed,
        completed, timedOut, writes, errors} \subseteq 0..MaxPackets
    /\ fPc \in {"none", "loop", "sleep", "check", "flush", "exited"}
    /\ flushFor \in {"nobody", "thread", "stop"}
    /\ wPc \in {"out", "sample", "scan", "classify", "store", "sync"}
    /\ handled \in 0..Len(closed)
    /\ log \in Seq(1..Len(closed)) /\ lost \subseteq 1..Len(closed)
    /\ synced \in 0..Len(log)

\* Every datagram received is accounted for by exactly one counter or is in
\* the receiver's hands; the spans counted as processed are exactly those
\* that are, or were, in the map (receiver.c:109-188).
PacketsAccounted ==
    LET inHand == rPc \in {"limit", "decode", "count"}
    IN  /\ packetsReceived =
              rateLimited + unauthorized + invalid + spansProcessed
                  + tracesDropped + spansDropped + refused
                  + IF inHand THEN 1 ELSE 0
        /\ Cardinality(Stored) =
              spansProcessed + IF rPc = "count" THEN 1 ELSE 0

\* In every second of the clock a receiver thread admits at most the packets
\* the limit allows, and it turns packets away only once it has admitted that
\* many (receiver.c:142-154).
RateLimitExact ==
    MaxPacketsPerSec > 0 =>
        \A s \in Seconds :
            /\ perSecond[s].admitted <= MaxPacketsPerSec
            /\ perSecond[s].limited > 0 =>
                  perSecond[s].admitted = MaxPacketsPerSec

\* Every trace taken out of the map is classified once and then written once,
\* in the order it was taken out, or counted as an error; nothing is written
\* that was not taken out (main.c:45-81).
TracesAccounted ==
    /\ completed + timedOut = handled + IF wPc = "store" THEN 1 ELSE 0
    /\ writes + errors = handled
    /\ \A i, j \in DOMAIN log : i < j => log[i] < log[j]
    /\ \A k \in 1..handled :
          \/ k \in lost
          \/ closed[k].pt.spans = <<>>
          \/ \E i \in DOMAIN log : log[i] = k
    /\ \A i \in DOMAIN log : log[i] <= handled /\ log[i] \notin lost
    /\ wPc \in {"out", "sample", "scan", "sync"} => handled = Len(closed)

\* When collector_stop has stopped a collector that was running, no span is
\* left behind, nor when the collector is then destroyed: the map is empty and
\* nothing was freed in it, every trace taken out of it has been written or
\* counted as an error, what was written has left the stdio buffer unless an
\* fflush failed, and both threads are gone (main.c:45-81, 182-211).  A stop
\* that found the collector not running promises nothing: see StopDrains.
StopPersistsAll ==
    kPc \in {"down", "destroyed"} /\ stopped = "drained" =>
        /\ Places = {} /\ count = 0 /\ freed = {}
        /\ handled = Len(closed)
        /\ ~syncFailed => synced = Len(log)
        /\ rPc = "none" /\ fPc = "none"

\* collector.h:305 says of collector_stop "Flushes remaining traces to
\* storage."  It does not when the last start failed after the receiver had
\* run: it returns at main.c:183-185, the map keeps its traces, and
\* collector_destroy frees them.
StopDrains == kPc = "down" /\ stopped # "no" => Places = {}

\* flush_traces has one caller at a time, and each caller is where it called
\* it: the locals and the storage handle are never shared (main.c:83-94,
\* 182-197).
OneFlusher ==
    /\ fPc = "flush" <=> flushFor = "thread"
    /\ kPc = "final flush" <=> flushFor = "stop"
    /\ wPc = "out" <=> flushFor = "nobody"

\* A call of collector_get_stats, overtaken by every other thread, shows at
\* most one packet and one trace that went nowhere, besides the packets whose
\* allocation failed; after collector_stop the counters that main prints add
\* up (main.c:221-240, 330-352).
StatsBehindByOne ==
    kPc = "stats" /\ loaded = AllLoads =>
        /\ balance.packets <= refused + 1
        /\ balance.traces <= 1
        /\ stopped = "drained" =>
              balance = [packets |-> refused, traces |-> 0]

\* The collector uses the map within its contract: a scan follows each clock
\* reading, and nobody else touches the chains.
ImplementsMap == MapSpec

Stopping == kPc \in {"stop receiver", "join receiver", "join flush",
                     "final flush", "undo"}

\* collector_stop, and the undoing of a failed start, return
\* (main.c:170-177, 182-197).
StopReturns == Stopping ~> kPc = "down"

InMap(n) == \E p \in Places : n \in Numbers(At(p))

\* The trace of span n was renewed so late that the bounded clock ends before
\* it can have timed out.
TooLate(n) ==
    \E p \in Places :
        /\ n \in Numbers(At(p))
        /\ At(p).last + TimeoutSec * TicksPerSec > MaxTicks

\* A span in the map of a collector that is up leaves it, once its trace is
\* inactive or the collector is stopped, and its trace is then written or
\* counted as an error (main.c:45-94, assembler.c:257-297).
InactiveWritten ==
    \A n \in 1..MaxInserts :
        (kPc = "up" /\ InMap(n)) ~>
            \/ TooLate(n)
            \/ \E k \in 1..handled : n \in Numbers(closed[k].pt)
=============================================================================

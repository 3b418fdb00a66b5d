# Verification of dapper-lite

dapper-lite is a distributed-tracing library in C with a collector daemon.  A
program makes spans, a sampler decides which traces are kept, an exporter ships
finished spans to a file or over UDP, a collector gathers the spans of a trace
and appends finished traces to a log, and an analysis library reads the log
back.  This directory holds TLA+ models of the concurrent and stateful parts,
the TLC configurations that check them and the theorems TLAPS proves.

Paths below are relative to the root of the repository.

## 1. Inventory

| Part | Source | State | Operations | What is hard |
|---|---|---|---|---|
| Spans, traces | `src/core/span.c`, `trace.c` | trees of spans, global id counters | create, annotate, finish, destroy | ids of several processes, ownership |
| Context | `src/core/context.c` | none | inject, extract, adopt | two processes share a trace |
| Sampling | `src/sampling/sampler.c` | PRNG state, counters, rate window | decide, statistics | every operation runs in many threads |
| Wire format | `src/wire/serialize.c`, `src/collector/protocol.c` | none | encode, decode | unchecked copies, lengths of other senders, two buffer sizes |
| Export ring | `src/export/ring_buffer.c` | slots, two atomic indices | push, pop | lock-free, C11 acquire/release |
| Exporter | `src/export/exporter_thread.c` | running, started, counters | submit, start, stop, destroy, statistics | drain on stop, restart, snapshots |
| Sinks | `src/export/file_sink.c`, `udp_sink.c` | a file or socket | write | failures |
| Receiver | `src/collector/receiver.c`, `protocol.c` | running, counters, rate window | receive loop, start, stop | dies on a socket error, limits per second |
| Trace map | `src/collector/assembler.c` | hash table of partial traces, drop counters | insert, flush, destroy | clock read outside the lock, caps, failed allocation |
| Flush, lifecycle | `src/collector/main.c` | running, counters | flush_traces, start, stop, destroy, statistics | joins, final flush, failures half-way, counters of three parts |
| Storage | `src/collector/storage.c` | the append-only log | write, flush, close | torn and buffered records |
| Analysis | `src/analysis/*.c` | none (reads the log) | load, query, critical path, statistics, JSON | damaged logs, odd hierarchies |

How they interact.  An application thread calls `exporter_submit`, which pushes
into the ring; the exporter's thread pops and calls the sink.  UDP joins the
sink to the receiver thread, which decodes a datagram and inserts the span into
the trace map under its mutex.  The flush thread wakes every
`flush_interval_sec`, takes timed-out traces out of the map in batches and
writes them to storage; `collector_stop` does the same once more with a timeout
of zero.  The analysis reads the file, possibly while it is
written, and shares nothing else with the collector.

What makes each part correct:

* ring: no data race on a slot, nothing lost, repeated, reordered or torn;
* exporter: `exporter_stop` drains, the counters account for every span, nothing
  is used after destroy, everything accepted reaches the sink;
* trace map: one partial trace per id, every stored span in exactly one trace,
  a trace is split only by inactivity, a scan misses nothing;
* wire format: no copy leaves its buffer whatever the lengths say, what arrives is
  what was sent but for the tail that did not fit;
* collector: every packet and every trace counted once, stopping a collector that
  runs leaves nothing behind, a reader of the statistics is at most one packet and
  one trace behind, one flusher at a time, every inactive trace is written;
* storage and analysis: what was written is read back, a torn tail is noticed;
* sampling: counters agree with decisions, the rate stays within its bounds and
  follows what the window holds, one thread at a time adjusts it;
* analysis: what is walked, sorted and counted is what the links and the log hold.

`PROJECT.json` lists the hazards, each at its line and with the properties that
would catch it.

## 2. Modules

| Module | Models | Notes |
|---|---|---|
| `SpanChannel` | (abstract) a bounded FIFO with credits | what the ring promises |
| `SpanRing` | `ring_buffer.c` | one action per access the other thread sees |
| `Exporter` | `exporter_thread.c` and the result of a sink write | EXTENDS `SpanRing` |
| `SpanWire` | `serialize.c`, `protocol.c`, the annotations and times of `span.c` | one action per iteration of the codec's loops |
| `TraceSessions` | (abstract) sessions closed by inactivity | what the map promises |
| `TraceMap` | `assembler.c` | insert and scan are atomic (mutex) |
| `Collector` | `receiver.c`, `main.c`, results of `storage.c` | EXTENDS `TraceMap` |
| `StorageLog` | `storage.c` and the reader of `query.c` | cells of a log, the stdio buffer, kills, power cuts |
| `Sampler` | `sampler.c` | one action per atomic operation of a thread |
| `Hierarchy` | `query.c` (links), `span_walk.h`, `critical_path.c`, `aggregation.c`, `export_json.c` | operators without state |
| `TraceTree` | `trace.c`, `span.c`, `context.c` and the records read back | EXTENDS `Hierarchy` |
| `SpanRingProofs` | theorems about `SpanRing`, lemmas on `x % C` | proofs |
| `ExporterProofs` | theorems about `Exporter` | EXTENDS `SpanRingProofs` |
| `SpanWireProofs` | theorems about `SpanWire` | proofs |
| `TraceMapProofs` | theorems about `TraceMap` | proofs |
| `CollectorProofs` | theorems about `Collector` | EXTENDS `TraceMapProofs` |
| `SamplerProofs` | theorems about `Sampler` | proofs |
| `StorageLogProofs` | theorems about `StorageLog` | proofs |
| `TraceTreeProofs` | theorems about `TraceTree` and the operators of `Hierarchy` | proofs |
| `MC*` | values for TLC | |

Definitions whose comment begins with "Mutant of" are deliberate mistakes: they
are used by nothing, and replacing the named definition by them makes TLC refute
the property `PROJECT.json` pairs them with.

### SpanRing

`write_index` and `read_index` are C11 atomics.  Each is the sequence of all the
values ever stored in it, its modification order.  A load by its owner returns
the last; a load by the other thread returns any value not older than the one it
saw last.  `pSync` and `cSync` record how much of the other thread's index
*happens before* the next step, which is what an acquire load of a release store
gives; `AcquireRelaxed` shows what a relaxed load would give.  `readAt` and
`wroteAt` remember who touched a slot last, so a data race is a condition on the
state (`NoSlotRace`) rather than something the model assumes away.  A push is
five actions (load, refuse, body, length, publish), and so is a pop.

`ProducerSync` and `ConsumerSync` are synchronisation from outside the ring (a
thread started or joined, an acquire load of another flag); the exporter uses
them, and with them every step of `Exporter` is a step of `SpanRing`
(`ImplementsRing`).

Left out: failing allocation in `ring_buffer_create`; `ring_buffer_is_empty` and
`ring_buffer_is_full`, called by tests only; the branch of a push whose
serialisation fails, which no span can take: `SpanWire` has every span encoded
within the slot; the bytes of a span, which is the number of its push.

### Exporter

The application thread is the ring's only producer and calls the exporter's
functions one after the other, as all callers in the repository do (the tests
also submit before the first start).  The background thread is the consumer; a
restart makes a new one.  `running` needs no history of its own: a load of an
old value is an earlier load, and what its release store publishes is `runView`.
`exporter_get_stats` is three loads, by the application thread or by another.

### SpanWire

A span goes through five hops, and `hop` and `at` say where it is.  `build` is the
application (create, annotate, finish); `export` encodes it into a slot of the
ring; `collect` decodes the datagram; `store` encodes it again, into a record of
the log; `load` decodes the record.  Every loop of `serialize.c` is stepped
through, one action per iteration, because what makes the unchecked `memcpy` of
`serialize_annotations` safe is another loop: `marks` are the positions that loop
(`serialize_annotation_count`) passed, and `off` must follow them.

A string is its length, because every copy in this code takes a prefix: if the
right length arrives, so did the right bytes.  The bytes of another sender's
datagram (`ReceiveForeign`), or of a record that was torn and written over
(`ReadDamaged`), are drawn as they are read: any length in every length field, and
a NUL anywhere in a string (`Strlen`).  `reach` is the end of the furthest access
to the buffer of the hop and `copied` the size of the last copy against that of its
field, so that `WithinBuffers` is a condition on the state.

Left out: byte order; the ids, the start time and the sampling bit, which are
copied as they are (`TraceTree` relies on it); the checks of `write_u16` and
`write_u64`, which can fail only where `WithinBuffers` is violated already; the
growing buffer of `storage_write_trace`.

### TraceMap

Chains are sequences, so that linking, unlinking, scan order and batches are
visible; a place is a bucket and a position in its chain, and a scan takes the
first places in scan order that are due.  A trace keeps, of each span, its number, the clock at insertion, and
the root and sampling bits.  Time is in ticks, `TicksPerSec` of them in a second,
so the seconds/nanoseconds comparison of `trace_map_flush` is a real
computation.  `FlushSample` is the clock reading before the lock, `FlushScan`
the scan under it.  Allocation can fail, leaving the empty trace the code leaves.
`MapDestroy` frees what is still in the map, and `freed` remembers which spans: they
are conserved in no trace and counted by no counter.

### Collector

Three threads: the receiver (one action per counter it updates), the flush
thread, and the controller that starts, stops and destroys.  `flush_traces` has
one set of places, `wPc`, because it never has two callers, which is the
property `OneFlusher` and not an assumption: the mutant that forgets the join
breaks it.  Threads may fail to start (with the code's undo), the socket may end
the receiver, a write or an fflush may fail.  Every step that touches the map is
a `TraceMap` action (`ImplementsMap`).

A start that fails at the flush thread undoes the receiver, but not what the
receiver has put into the map.  `KStopIdle` is `collector_stop` of a collector that
is not running, which returns at once, and `KDestroy` frees the map with whatever is
in it.  `stopped` says which of the two stops the last one was, so that
`StopPersistsAll` promises what the code does (after a stop of a running collector)
and `StopDrains` what its header says (after any stop).

`collector_get_stats` is called by the controller when the collector is up or
down, and loads one counter per action while the other threads go on
(`PacketLoads`, `TraceLoads`; the two drop counters are one action, under the map's
lock).  Nobody looks at a counter but in sums, so only the two balances are kept:
packets received less packets accounted for, and traces classified less traces
stored or lost.

Left out: calling `collector_start` on a running collector, which no caller
does; address parsing; statistics read by yet another thread; the daemon's signal
loop, which calls start, stop, statistics and destroy once.

### StorageLog

A cell is a piece of a record that is written and read together; a field is one
or more cells, so that a log can be cut inside a field as well as between two.
The writer is a stdio stream: `storage_write_trace` puts a whole record into the
buffer, which spills any number of cells that makes the rest fit; a failing
write leaves part of them in the file and drops the rest.  A kill loses the
buffer; a power cut also loses any part of the file that no earlier cut has
shown to be there, since nothing is ever fsynced.  `storage_open` appends to
whatever is there.

The reader takes fields by their size alone and runs beside the writer.  Cells
that are a field of the kind expected have the value written.  Any others are a
value nobody wrote: a number or a length that may be rejected or plausible
(`LuckyNumbers`), a span that decodes or not.  A field is there whole or not at
all, as `fread` returns.  `rBase` remembers what was readable when the reader
opened the file.  `SoundPrefixLoaded` speaks of the first tear: before a reader
returns anything else it returns the intact records in front of it, in order and
whole.  `MaxSpansRead` is the reader's own limit on the spans of a record: a count
above it is refused whoever wrote it (query.c:119), and a collector configured
without a limit can write one.  `NothingSkipped` therefore promises the records up
to the first of that kind (`WithinLimit`).

Left out: a trace without spans and an allocation failure in
`storage_write_trace`, which change nothing; and damage other than a cut.

### Sampler

Every operation of the code on shared data is one atomic operation, and one
action, together with the local computation after it.  An override sampler sits
over a base sampler that is probabilistic or adaptive; `ShouldSample` chooses
the endpoint.  Rates are levels 0..`Full`, a random number is a draw that falls
between two levels, with one more for the numbers that round to 1.0.  What the
slots of the window hold in all is a number of pairs (`Units`), one for each
increment, so that it is a cardinality and not a sum.  The cut of
the rate, a division by the measured rate, may lead to any lower level above 0.
The generator is abstracted to a draw of any value, which covers concurrent
callers that draw the same number.  The clock is CLOCK_REALTIME in seconds and
only goes forward.

`past` is a history of the window: how many decisions were cleared from it, how
often each second was adjusted for, and how often `last_update_sec` was set back.
With `seen`, `gone` and `mine`, what the adjusting thread found when it began and
cleared itself, it bounds what a thread can have summed up while others add and
clear (`AtMost`, `AtLeast`); `RateFollowsWindow` compares these with the target.

### Hierarchy and TraceTree

Each process has its own counters of trace and span ids, both from 1.  A context
copies trace id, span id and decision from a span into another `trace_t`, in the
same process or another.  Between processes and log, datagrams are lost,
repeated and reordered and a trace becomes several records, so a record is any
sequence of spans with one trace id.  Of a span only what the analysis looks at
is kept; encoding and decoding preserve those fields.  `live` holds the pointers
the processes made, `log` the pointers the reader makes of the same spans.
`Hierarchy` has the recursive functions of the code as functions on positions;
the properties state what they should compute in terms of parents and names,
without recursion over the tree.  The walks count the pointers they still follow,
as many as there are spans: the code counts nothing, and stops because no span is
further from the root than that (a part of what is proved); away from the root the
pointers may go round in circles, and a function over them would not be defined.
The two uses of qsort are `Sorted`, which leaves open, as qsort does, where elements
with the same key go.  The 99th percentile is interpolated, so that it is stated
between the two samples its rank falls between.  Statistics and queries are checked
on the log as it is, with several records, of one trace or of several.  What the
comments of the library say and the code does not do is stated apart, at the end of
`TraceTree`.  The exported JSON document is what its
reader can rebuild a tree from: the spans in preorder and the ids of the critical
path.

## 3. Runs

| Run | Bounds | Shows |
|---|---|---|
| `exporter` | 3 slots, 4 spans, 2 starts, fair | races on a slot, torn or lost spans, wrap-around, refusals on a stale index; drain on stop, accounting, order across a restart, nothing running after destroy, stop returns, accepted spans reach the sink; refinement of the ring and of `SpanChannel` |
| `wire` | 2 annotations, strings of 0 to 3 bytes, a slot of 9, a record of 11 and a datagram of 16 bytes | codec within its buffers, for spans of every size and for bytes nobody here encoded; what arrives is what was sent |
| `exporter_stats` | 3 slots, 3 spans | another thread sees an inconsistent snapshot (finding) |
| `trace_map` | 3 traces in 2 chains, caps of 2, 3 insertions, clock of 2 ticks a second | conservation, also when destroyed, splitting, batches, stale clock; refinement of `TraceSessions` |
| `collector` | 2 traces, 2 packets, limit 1 a second, 2 starts, statistics up to the first stop, everything may fail, fair | rate limit, packets, traces, stop and fflush, one flusher, statistics; use of the map; stop returns, inactive traces are written |
| `collector_stop` | the same | a stop after a failed start leaves spans in the map (finding) |
| `storage_log` | 2 records of up to 2 spans, 3 collectors, 2 power cuts, all failures | what is read is a prefix of what was written, nothing readable is skipped, flushed records stay until the power goes |
| `storage_log_torn` | the same, 2 collectors, no failing call | a torn record is completed by the next one (finding) |
| `sampler` | 2 threads of 2 calls, 3 levels, a window of 2 of 4 seconds | counters, statistics, one adjustment a second, the rate follows the window |
| `trace_tree` | 2 processes, 3 spans, 2 records of 3 spans together, 3 names for 2 groups of 2 samples | decisions, hierarchies, walks, critical path, JSON, statistics per name, queries |
| `trace_tree_ids` | one record of up to 4 spans | a span becomes its own parent (finding) |
| `analysis` | 1 process, 4 spans, 2 records of 5 spans together | critical child, rootless traces and spans walked are not as the comments say (finding) |

Why the bounds are enough.  Three slots are the least with two usable: the ring
can be empty, partly full and full, and four spans use every slot and the first
one again, with an index that wraps.  Two starts are one restart, with spans left
over between.  On the wire the proportions are those of the code: two full
annotations do not fit a slot and one may not, a full one that fits the datagram
does not fit the log, every string can be longer than its field, and a duration
times the microsecond wraps.  In the map, two traces collide and one does not, both caps can be hit, and the
clock passes a second boundary in mid-second, so the borrow matters.  In the
collector one restart meets a map that a failed start left non-empty (and must
write it), a stop and a destruction meet one, too, statistics are read before, during
and after the first start, and two packets against a limit of one meet the limit or
the next second.  In the log
the buffer holds one short record but not two, so a record is spilt in part by
the next; the trace id and the payload can be cut inside; two records and three
collectors give a torn record, one after it, and a reader overtaken by both.  In
the sampler two threads overtake each other between any two atomic operations,
and the third second reuses a slot of the window; a second without a call leaves
its slot as it was, and a thread that read the clock early sets `last_update_sec`
back.  In the trace tree three spans make a child of a child or two brothers, three
places let a span be in a record twice, or be in two records; a third name finds the
table of groups full, and a third duration its group.

A bound is a constant marked "(bound)" where it is declared or named `Max...`,
and appears only in guards; `MaxTraces`, `MaxSpansPerTrace`, `MaxGroups` and
`MaxSamples` of the map and the analysis are limits of the code itself.  The bounds
matter to the runs only: what section 5 lists is proved for all of them.

Deadlock is not checked: all these systems may stop, because the application
stops calling them or a bound is reached.

Fairness.  `Exporter!FairSpec` and `Collector!FairSpec` are weakly fair to each
thread, because the operating system schedules it, and not to calls of the
application.  In the exporter a load of `write_index` must not return old values
for ever: C11 7.17.3p16 says a store becomes visible in a finite time, and this
is the strong fairness of `FreshLoad`.  In the collector `recvfrom` returns
within 100 ms (`SO_RCVTIMEO`, receiver.c:233-237), so the receiver as a whole is
weakly fair although no packet need come, and time passes.  The other modules
promise nothing about time and have no fairness.

## 4. Findings

Each has a run whose counterexample shows it.

* `exporter_stats`: `exporter_get_stats` is documented as a "thread-safe
  snapshot" (`include/dapper/exporter.h:154`).  It is three loads; a thread other
  than the one that submits can see more spans exported than submitted.
* `storage_log_torn`: a torn record is said to be detected by the reader's
  validation of lengths and counts (storage.c:57-60).  The next collector appends
  to the torn record, its first bytes complete the field that was cut, and the
  reader returns a trace nobody wrote.
* `collector_stop`: `collector_stop` is documented as "Flushes remaining traces to
  storage" (`include/dapper/collector.h:305`).  When the flush thread cannot be
  created, the receiver has been running (main.c:173-176); its spans stay in the map,
  `collector_stop` returns at once (main.c:183), and `collector_destroy` frees them
  (main.c:210) without counting them.
* `trace_tree_ids`: `generate_span_id` makes "a unique span ID" (span.c:18) that
  is unique in its process only.  A span made from another process's context can
  have the id of its parent and is then read back as its own parent; it leaves the
  tree, and nothing is walked when no other span is a root.
* `analysis` refutes three comments with one log (the property is their disjunction,
  so that a log that refutes it refutes each):
  - the critical child is the one whose own duration is longest
    (critical_path.c:47-68), not "the one with the largest subtree duration"
    (analysis.h:109-110, critical_path.c:8-9), whether that is the longest span of the
    subtree, the sum of its spans or anything between;
  - `query_slowest_traces` sorts traces without a root as if they took no time
    (query.c:293-296) and returns them; analysis.h:86 says they are skipped;
  - `aggregate_by_service` visits what a root leads to (aggregation.c:132);
    analysis.h:150 says it walks all spans.

Read in the code while modelling, without a run of their own:

* `traces_dropped`, "New traces rejected" (collector.h:229), grows with every span
  of a rejected trace (assembler.c:209).
* `storage_flush` is an fflush and no fsync (storage.c:128): `storage_log` promises
  readable records only until a power cut.
* `dropped_count` is the difference of two counters loaded one after the other
  (sampler.c:109-111) and can wrap below zero.
* The statistics of an override sampler are its base's alone (sampler.c:385).
* A rate of 1.0 does not sample the topmost draws (sampler.c:93, sampler.h:35):
  about one decision in 2^54.
* The window of the adaptive sampler is cleared by slot, and only the slot of a second
  with a call is (sampler.c:156-158): decisions from before a pause of any length
  still cut the rate after it.  There is no "exponential moving average"
  (sampler.h:47).  `last_update_sec` is compared for equality only (sampler.c:141), so
  that a thread that read the clock early can set it back, and a second is then
  adjusted for twice.
* `TRACE_READ_EOF`, "clean end of file at a record boundary" (analysis.h:35), is also
  returned when 1 to 7 bytes of a trace id are left (query.c:102-104).
* `query_trace_by_id` forgets an earlier match without freeing it (query.c:281), so of
  a trace in several records only the last is found.
* `collector_decode_span` ignores bytes after the last annotation
  (protocol.c:29-32).  A datagram of up to 512 bytes from another sender can hold
  annotations that the record of 256 has no room for; they are dropped without a
  counter (storage.c:76).
* With the code's sizes a name always fits a slot (48 + 127 < 252), and an
  annotation with the longest key and value never does (4 + 63 + 191 = 258).
* The JSON export subtracts the times of a span without the check the encoder has
  (export_json.c:54): of a span that was not finished the duration wraps.  Spans
  read from the log start at 0.

## 5. Proofs

TLAPS proves every safety property, action property and refinement the passing runs
check; only liveness, named at the end of this section, is left to TLC.
The types of the collector are proved and have no place in its run
(`CollectorTypeCorrect`).
Each theorem holds for every value of the constants that the ASSUME of its module
admits (capacities, numbers of threads, spans, traces and restarts, sizes, limits,
timeouts); nothing else is assumed.  The bounds on histories are
constants, too, so the theorems hold of histories of any length.

Each module of proofs has one inductive invariant, a lemma per action that
preserves it, and theorems that follow from it.  TLC checked every one of these
invariants on the instances of the runs before it was proved.

### The ring (`SpanRingProofs`)

`RingHasNoSlotRace`, `RingDeliversIntact`, `RingKeepsOneSlotFree` and the refinement
`RingImplementsChannel`, from `RingAssumption`.  Neither safety property is
inductive: that the slot being written holds nothing pending depends on the
distance between positions, and the distance on indices that wrap and may be stale.
`RingInv` counts instead of looking at indices: the index stored last is the number
of pushes (pops) modulo the capacity, a thread's view of the other's index is a
number of pops (pushes) between what it knows and what has happened, and the number
pushed but not known to be popped stays below the capacity.  From this, two
positions the threads use at the same time are less than a capacity apart and so
have different slots (`ModApart`), and each pending slot holds the frame of its push.

### The exporter (`ExporterProofs`)

`ExporterUsesRing`: every step of the exporter is a step of the ring, also across
restarts, so the ring's theorems hold of it (`ExporterHasNoSlotRace`,
`ExporterDeliversIntact`, `ExporterImplementsChannel`).  `ExporterAccountsForSpans`,
`ExporterSinksInOrder`, `ExporterDrainsOnExit`; and `OwnSnapshotConsistent`: what
`exporter_stats` refutes for another thread is true for the one that submits.

`ExporterInv` adds to `RingInv` where each thread may be while the other is
somewhere (`Control`) and which spans have gone where (`HandedOn`).  The drain is in
one line of `Control`: a thread that drains has seen the last value of `write_index`,
because it read `running` as false, and that store came after the last push.

### The wire (`SpanWireProofs`)

`WireTypeCorrect`, `WireWithinBuffers`, `WireArrivesAsSent` (`OnlyTailsLost` and
`DurationKept`, also stated alone), from `WireAssumption`: strings fit their length
fields, a slot has room for the header, and each buffer is no larger than the next.
That an encoder stays within its buffer is not inductive: while it copies, only the
first loop has seen the size.  `WireInv` keeps what that loop knew: the marks are
within the capacity and each is the one before plus the size of an annotation
(`MarksOf`), the encoder's offset is the mark of the annotations it has written
(`Written`), the decoder's is the mark of those it has read (`Read`), the fields
found are the lengths of the annotations, which survive the 16-bit length field.
For the second encoding `Again` says that a span that came through a slot has all
its marks within the slot, hence within the record, so that nothing is cut twice.
For the duration `Ordered` (no span ends before it begins) bounds what the division
by the microsecond loses.

### The map (`TraceMapProofs`)

`MapIsWellFormed`, `MapConservesSpans`, `MapSplitsOnlyByInactivity`,
`MapScanIsExhaustive`, and the refinement of sessions by `MapImplementsSessions`.
`SplitOnlyByInactivity` compares
two traces of one id, one of them handed out long before; it survives an insertion
because no trace has a last span in the future and each that was handed out had
expired by now (`Chronology`), although the clock is read before the lock.
A scan moves many partial traces at once, so
the proof follows places: `KnownSpan`, `HeadAdded` and `ScanMoves` say for each
place after a step where its trace was before.  `FreedAtEnd` is that nothing is freed
before the map is destroyed.

### The collector (`CollectorProofs`)

`CollectorUsesMap`: its steps are steps of the map, hence `CollectorKeepsMap` and
`CollectorImplementsSessions`.  `CollectorAccountsForPackets`,
`CollectorLimitsExactly`, `CollectorAccountsForTraces`, `CollectorHasOneFlusher`,
`CollectorStopPersists` (of a collector that was running, also when it is destroyed
afterwards), `CollectorStatsBehindByOne`.  `CollectorInv` says which
threads exist at which place of start and stop (`ThreadsExist`), and with it that
nobody can insert after the final flush has read the clock (`FinalReading`), since
the receiver has been joined; what each counter lacks at each place of its thread
(`PacketFlow`, `TraceFlow`); what is still in the stream (`SyncDue`); and what a
reading of the statistics has still to load (`Balanced`).

### The sampler (`SamplerProofs`)

`SamplerCountersAgree`, `SamplerOneAdjustment` and `SamplerRateFollowsWindow`, for any
number of threads.  The threads share no lock, so at any time the counters lag
behind by what threads are about to add.  `SamplerInv` states the lag as numbers of
threads: those that have decided and not returned, and those that have sampled and
not yet counted it in the window; every other decision is in the window or was
cleared.  Of a thread that adds up the window it states both bounds: what it has
passed is at most what was sampled and is neither cleared nor still before it, and at
least what it saw when it began without what is still before it or others have
cleared.  `Adjustments` bounds how often each second was adjusted for: once more
than `last_update_sec` was set back, and no more often than that while the second
is still ahead of it.

### The storage log (`StorageLogProofs`)

`StorageSoundPrefix`, `StorageNothingSkipped`, `StorageFlushed`.  `LogInv` is the
writer's part of the invariant: file and buffer hold cells of the records in order,
parts of them missing; after the end of a record a record begins; and the last cell
of what was accepted (or made safe) is there as long as nothing failed (or the power
stayed).  `ReaderInv` is the reader's: it is either in step with the file (`InStep`:
its position is that of the field it believes to read, and it has loaded just the
records that end before), or past the first tear with all that precedes it loaded
(`Past`).  What the writer does leaves either alone, because it only adds to the
file.  Where a record is intact up to a position is shown without induction over
the log, by the least counterexample (`LeastElement`).

### The trace tree (`TraceTreeProofs`)

`TreeOneDecision`: for any number of processes and adopted contexts.  `TreeInv` has
single steps of the way back to where a trace began, and that each step goes back in
time; that the way ends, so that `Origin` is defined at all, is `OriginExists`.

`TreeHierarchyFromDistinctIds`: a record of any length, from any part of a trace, is
linked as the spans were made, if their ids are distinct.  `rebuild_hierarchy` is a
recursive function; that it is defined and what it yields after each span is shown
by `OneByOne`, an induction over the members of a set of numbers (`Rebuilt`).
`RecordsLinked` keeps the result, `IdsOfCause` how ids follow causes.

`TreeWalkedAsLinked`, in three parts: `TreeWalkVisitsOnce`, `TreeCriticalPathToLeaf`
and `TreeExportedAsLinked`, of records of any length whatever their ids.
`RecordsListed`, a part of `TreeInv`, says that `first_child` and `next_sibling` list
exactly the spans with the same parent, in the order of the record: it holds after
every span that `AppendChild` appends, although spans may be their own ancestors.
A root has no parent, so every span it leads to is one number of pointers away from
it, less than there are spans (`Distances`); the others may be in circles.  What a
walk returns is then followed by the pointers it has left: it meets every span once,
and the array of the critical path, as long as the deepest path, has room for the
path taken, since each step to a critical child leaves a tree that is less deep.  The
document follows from both, by ids instead of positions.

`TreeAggregatedAsDefined`, in three parts.  `TreeGroupsHoldVisited`: a group holds,
after each span walked, the first `MAX_SAMPLES` durations of its name and no name has
two groups (`GroupsHold`, an induction along the fold over the spans);
a name has none only when `MAX_GROUPS` other names were met before it.  `TreeStatsAsDefined`: the
median, the bounds of the 99th percentile and of the mean are arithmetic on the
ranks, given the samples in order; that an order exists, so that `Sorted` is a
sorting at all, is shown by exchanging each element with the smallest after it
(`OrderExists`).  `TreeSlowestAsDefined`: an order leaves out no record
(`OrderOnto`), so fewer than `v` records are slower than the `v`-th returned, and no
record is returned twice.

### Only model-checked

The liveness properties (`StopReturns`, `AcceptedReachesSink`, `InactiveWritten`):
liveness under fairness and ENABLED are beyond this prover.  The runs that expect a violation
are counterexamples and have nothing to prove.

## 6. Plan

1. `storage_log` with a third record, so that a torn record has two after it
   (`StorageSoundPrefix` covers them for every number of records already).
2. The file sink's torn writes, in the manner of `StorageLog`: nothing in the
   repository reads that file yet.

Not modelled, and not planned: the escaping and layout of the JSON document, the
clock and the thread-local current span (wrappers of the system's, without a state
that anything else reads), socket set-up and address parsing (input/output before
any thread exists), freeing spans and traces (a walk of the list of all spans,
which no other operation takes), and the tests, benchmarks, examples and scripts,
which are clients.

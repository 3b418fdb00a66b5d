------------------------------ MODULE Exporter ------------------------------
(***************************************************************************)
(* The asynchronous exporter of src/src/export/exporter_thread.c around    *)
(* the ring of SpanRing: an application thread that submits spans and      *)
(* starts, stops and destroys the exporter, the background thread that     *)
(* pops the ring and writes to the sink, and a reader of the statistics.   *)
(*                                                                         *)
(* The application thread is the ring's producer and calls the exporter's  *)
(* functions one after the other, as every caller in the repository does.  *)
(* The background thread is its consumer; a restart gives the consumer's   *)
(* role to a new thread.  Every step of this module is a step of SpanRing  *)
(* or leaves the ring alone (ImplementsRing), so what SpanRingProofs       *)
(* proves of the ring holds here.                                          *)
(*                                                                         *)
(* `running` is an atomic flag.  A load that returns an old value is the   *)
(* same as an earlier load, because nothing is acquired with it, so the    *)
(* flag needs no history; what its release store hands over to the acquire *)
(* load, the producer's view of write_index, is runView.                   *)
(***************************************************************************)
EXTENDS SpanRing, FiniteSets

CONSTANTS
    MaxStarts,  \* bound on the calls of exporter_start that reach the thread
    StatsBy     \* who calls exporter_get_stats: "app", "other" or "nobody"

ASSUME ExporterAssumption ==
    /\ MaxStarts \in Nat
    /\ StatsBy \in {"app", "other", "nobody"}

VARIABLES
    aPc,         \* the application thread's place in the exporter's functions
    destroying,  \* exporter_stop was called by exporter_destroy
    started,     \* exporter->started
    starts,      \* calls of exporter_start so far
    running,     \* exporter->running
    runView,     \* the stores of write_index its last store releases
    tPc,         \* the background thread's place; "none" when there is none
    draining,    \* it has left the first loop
    submitted, exported, dropped,  \* exporter->stats
    sunk,        \* spans the sink has written, in order
    failed,      \* spans whose sink write failed
    oPc,         \* place of the reader in exporter_get_stats
    snapshot     \* the statistics it has copied

controlVars == <<destroying, started, starts, running, runView>>
threadVars == <<tPc, draining, exported, sunk, failed>>
statsVars == <<oPc, snapshot>>
exporterVars == <<aPc, controlVars, submitted, dropped, threadVars, statsVars>>
vars == <<ringVars, exporterVars>>

-----------------------------------------------------------------------------
\* exporter_create_with_sink
Init ==
    /\ RingInit
    /\ aPc = "idle" /\ destroying = FALSE
    /\ started = FALSE /\ starts = 0
    /\ running = FALSE /\ runView = 1
    /\ tPc = "none" /\ draining = FALSE
    /\ submitted = 0 /\ exported = 0 /\ dropped = 0
    /\ sunk = <<>> /\ failed = {}
    /\ oPc = "idle"
    /\ snapshot = [submitted |-> 0, exported |-> 0, dropped |-> 0]

-----------------------------------------------------------------------------
(* exporter_submit *)

SubmitCount ==
    /\ aPc = "idle"
    /\ offered < MaxSpans
    /\ submitted' = submitted + 1
    /\ aPc' = "push"
    /\ UNCHANGED <<ringVars, controlVars, dropped, threadVars, statsVars>>

SubmitPush ==
    /\ aPc = "push"
    /\ PushLoad \/ PushBody \/ PushLen
    /\ UNCHANGED exporterVars

SubmitAccepted ==
    /\ aPc = "push"
    /\ PushPublish
    /\ aPc' = "idle"
    /\ UNCHANGED <<controlVars, submitted, dropped, threadVars, statsVars>>

\* Mutant of SubmitRefused: the drop is not counted.
SubmitRefusedSilently ==
    /\ aPc = "push"
    /\ PushRefuse
    /\ aPc' = "idle"
    /\ UNCHANGED <<controlVars, submitted, dropped, threadVars, statsVars>>

SubmitRefused ==
    /\ aPc = "push"
    /\ PushRefuse
    /\ aPc' = "drop"
    /\ UNCHANGED <<controlVars, submitted, dropped, threadVars, statsVars>>

SubmitDrop ==
    /\ aPc = "drop"
    /\ dropped' = dropped + 1
    /\ aPc' = "idle"
    /\ UNCHANGED <<ringVars, controlVars, submitted, threadVars, statsVars>>

-----------------------------------------------------------------------------
(* exporter_start, exporter_stop, exporter_destroy *)

SetRunning(value) == running' = value /\ runView' = Len(writeIndex)

\* Mutant of StartRunning: a started exporter can be started again.
StartTwice ==
    /\ aPc = "idle"
    /\ starts < MaxStarts
    /\ starts' = starts + 1
    /\ SetRunning(TRUE)
    /\ aPc' = "create"
    /\ UNCHANGED <<ringVars, destroying, started, submitted, dropped,
                   threadVars, statsVars>>

StartRunning ==
    /\ aPc = "idle"
    /\ ~started
    /\ starts < MaxStarts
    /\ starts' = starts + 1
    /\ SetRunning(TRUE)
    /\ aPc' = "create"
    /\ UNCHANGED <<ringVars, destroying, started, submitted, dropped,
                   threadVars, statsVars>>

\* A new thread starts with everything its creator did before it.
StartCreated ==
    /\ aPc = "create"
    /\ started' = TRUE
    /\ tPc' = "loop"
    /\ draining' = FALSE
    /\ ConsumerSyncTo(Len(writeIndex))
    /\ aPc' = "idle"
    /\ UNCHANGED <<slots, writeIndex, readIndex, wroteAt, readAt, cPc, cR, cW,
                   cOut, delivered, producerVars, destroying, starts, running,
                   runView, submitted, dropped, exported, sunk, failed,
                   statsVars>>

StartFailed ==
    /\ aPc = "create"
    /\ SetRunning(FALSE)
    /\ aPc' = "idle"
    /\ UNCHANGED <<ringVars, destroying, started, starts, submitted, dropped,
                   threadVars, statsVars>>

\* Mutant of StopRunning: `running` is left set.
StopWithoutFlag(byDestroy) ==
    /\ aPc = "idle"
    /\ started
    /\ destroying' = byDestroy
    /\ aPc' = "join"
    /\ UNCHANGED <<ringVars, started, starts, running, runView, submitted,
                   dropped, threadVars, statsVars>>

StopRunning(byDestroy) ==
    /\ aPc = "idle"
    /\ started
    /\ SetRunning(FALSE)
    /\ destroying' = byDestroy
    /\ aPc' = "join"
    /\ UNCHANGED <<ringVars, started, starts, submitted, dropped, threadVars,
                   statsVars>>

\* pthread_join: everything the thread did happens before its return.
StopJoined ==
    /\ aPc = "join"
    /\ tPc = "exited"
    /\ tPc' = "none"
    /\ started' = FALSE
    /\ ProducerSyncTo(Len(readIndex))
    /\ aPc' = IF destroying THEN "destroyed" ELSE "idle"
    /\ UNCHANGED <<slots, writeIndex, readIndex, wroteAt, readAt, pPc, pW, pR,
                   offered, accepted, consumerVars, destroying, starts,
                   running, runView, submitted, dropped, draining, exported,
                   sunk, failed, statsVars>>

DestroyStopped ==
    /\ aPc = "idle"
    /\ ~started
    /\ aPc' = "destroyed"
    /\ UNCHANGED <<ringVars, controlVars, submitted, dropped, threadVars,
                   statsVars>>

-----------------------------------------------------------------------------
(* exporter_thread_func *)

\* Mutants of CheckRunning: the load is relaxed; the drain loop is missing.
CheckRunningRelaxed ==
    /\ tPc = "loop"
    /\ draining' = ~running
    /\ tPc' = "pop"
    /\ UNCHANGED <<ringVars, aPc, controlVars, submitted, dropped, exported,
                   sunk, failed, statsVars>>

CheckRunningNoDrain ==
    /\ tPc = "loop"
    /\ draining' = ~running
    /\ tPc' = IF running THEN "pop" ELSE "exited"
    /\ UNCHANGED <<ringVars, aPc, controlVars, submitted, dropped, exported,
                   sunk, failed, statsVars>>

\* The acquire load of `running` that decides between the two loops.
CheckRunning ==
    /\ tPc = "loop"
    /\ draining' = ~running
    /\ tPc' = "pop"
    /\ ConsumerSyncTo(IF runView > cSeen THEN runView ELSE cSeen)
    /\ UNCHANGED <<slots, writeIndex, readIndex, wroteAt, readAt, cPc, cR, cW,
                   cOut, delivered, producerVars, aPc, controlVars, submitted,
                   dropped, exported, sunk, failed, statsVars>>

NextRound == IF draining THEN "pop" ELSE "loop"

ThreadPop ==
    /\ tPc = "pop"
    /\ PopLoad \/ PopLen \/ PopBody
    /\ UNCHANGED exporterVars

ThreadPopped ==
    /\ tPc = "pop"
    /\ PopPublish
    /\ tPc' = "sink"
    /\ UNCHANGED <<aPc, controlVars, submitted, dropped, draining, exported,
                   sunk, failed, statsVars>>

\* Mutant of ThreadFoundEmpty: the buffer goes to the sink all the same.
ThreadIgnoresEmpty ==
    /\ tPc = "pop"
    /\ PopEmpty
    /\ tPc' = "sink"
    /\ UNCHANGED <<aPc, controlVars, submitted, dropped, draining, exported,
                   sunk, failed, statsVars>>

ThreadFoundEmpty ==
    /\ tPc = "pop"
    /\ PopEmpty
    /\ tPc' = IF draining THEN "exited" ELSE "sleep"
    /\ UNCHANGED <<aPc, controlVars, submitted, dropped, draining, exported,
                   sunk, failed, statsVars>>

ThreadWake ==
    /\ tPc = "sleep"
    /\ tPc' = "loop"
    /\ UNCHANGED <<ringVars, aPc, controlVars, submitted, dropped, draining,
                   exported, sunk, failed, statsVars>>

SinkWritten ==
    /\ tPc = "sink"
    /\ sunk' = Append(sunk, cOut.body)
    /\ tPc' = "count"
    /\ UNCHANGED <<ringVars, aPc, controlVars, submitted, dropped, draining,
                   exported, failed, statsVars>>

SinkFailed ==
    /\ tPc = "sink"
    /\ failed' = failed \union {cOut.body}
    /\ tPc' = NextRound
    /\ UNCHANGED <<ringVars, aPc, controlVars, submitted, dropped, draining,
                   exported, sunk, statsVars>>

CountExported ==
    /\ tPc = "count"
    /\ exported' = exported + 1
    /\ tPc' = NextRound
    /\ UNCHANGED <<ringVars, aPc, controlVars, submitted, dropped, draining,
                   sunk, failed, statsVars>>

-----------------------------------------------------------------------------
(***************************************************************************)
(* exporter_get_stats: three loads.  Called by the application thread it   *)
(* keeps that thread busy; called by another thread it runs beside it.     *)
(* One call is modelled, at any moment before the exporter is destroyed.   *)
(***************************************************************************)
ReadSubmitted ==
    /\ oPc = "idle"
    /\ IF StatsBy = "app" THEN aPc = "idle" /\ aPc' = "stats"
                          ELSE StatsBy = "other" /\ UNCHANGED aPc
    /\ aPc # "destroyed"
    /\ snapshot' = [snapshot EXCEPT !.submitted = submitted]
    /\ oPc' = "exported"
    /\ UNCHANGED <<ringVars, controlVars, submitted, dropped, threadVars>>

ReadExported ==
    /\ oPc = "exported"
    /\ aPc # "destroyed"
    /\ snapshot' = [snapshot EXCEPT !.exported = exported]
    /\ oPc' = "dropped"
    /\ UNCHANGED <<ringVars, aPc, controlVars, submitted, dropped, threadVars>>

ReadDropped ==
    /\ oPc = "dropped"
    /\ aPc # "destroyed"
    /\ snapshot' = [snapshot EXCEPT !.dropped = dropped]
    /\ oPc' = "done"
    /\ aPc' = IF StatsBy = "app" THEN "idle" ELSE aPc
    /\ UNCHANGED <<ringVars, controlVars, submitted, dropped, threadVars>>

-----------------------------------------------------------------------------
\* What the application thread does once it has entered a function ...
AppContinues ==
    \/ SubmitPush \/ SubmitAccepted \/ SubmitRefused \/ SubmitDrop
    \/ StartCreated \/ StartFailed \/ StopJoined

\* ... and the functions it may call.
AppCalls ==
    \/ SubmitCount \/ StartRunning \/ DestroyStopped
    \/ \E byDestroy \in BOOLEAN : StopRunning(byDestroy)

Thread ==
    \/ CheckRunning \/ ThreadPop \/ ThreadPopped \/ ThreadFoundEmpty
    \/ ThreadWake \/ SinkWritten \/ SinkFailed \/ CountExported

Stats == ReadSubmitted \/ ReadExported \/ ReadDropped

Next == AppContinues \/ AppCalls \/ Thread \/ Stats

Spec == Init /\ [][Next]_vars

\* A pop that sees the newest write_index.
FreshLoad == ThreadPop /\ PopLoad /\ cSeen' = Len(writeIndex)

(***************************************************************************)
(* Both threads are scheduled (weak fairness); the application is free not *)
(* to call anything.  A store to an atomic becomes visible to loads in a   *)
(* finite time (C11 7.17.3p16), so a thread that loads write_index for     *)
(* ever does not miss a value for ever (strong fairness of FreshLoad).     *)
(***************************************************************************)
FairSpec ==
    /\ Spec
    /\ WF_vars(AppContinues) /\ WF_vars(Stats)
    /\ WF_vars(Thread) /\ SF_vars(FreshLoad)

-----------------------------------------------------------------------------
(* Properties *)

\* The types of the exporter's own variables, and of the ring's.
TypeOK ==
    /\ RingTypeOK
    /\ aPc \in {"idle", "push", "drop", "create", "join", "stats", "destroyed"}
    /\ destroying \in BOOLEAN /\ started \in BOOLEAN /\ running \in BOOLEAN
    /\ starts \in 0..MaxStarts
    /\ runView \in 1..Len(writeIndex)
    /\ tPc \in {"none", "loop", "pop", "sleep", "sink", "count", "exited"}
    /\ draining \in BOOLEAN
    /\ submitted \in Nat /\ exported \in Nat /\ dropped \in Nat
    /\ sunk \in Seq(Span) /\ failed \in SUBSET Span
    /\ oPc \in {"idle", "exported", "dropped", "done"}
    /\ snapshot \in [submitted : Nat, exported : Nat, dropped : Nat]

\* exporter_stop drains: when the background thread has left its last loop,
\* every span accepted before the stop has been popped and handed to the
\* sink, and the three counters and the failed writes account for every span
\* submitted.  Once exporter_destroy has returned no thread is left to use
\* what it freed (exporter.h:129, exporter_thread.c:46-52, 119-141).
DrainedOnExit ==
    /\ tPc = "exited" =>
          /\ Len(delivered) = Len(accepted)
          /\ submitted = exported + dropped + Cardinality(failed)
    /\ aPc = "destroyed" => tPc = "none" /\ ~started /\ ~running

\* At every moment each submitted span is in exactly one place: being
\* submitted, dropped, in the ring, in the thread's hand, written, or failed;
\* the counters say how many are where, up to the increments still to come
\* (exporter_thread.c:30-55, 143-159).
SpansAccounted ==
    /\ submitted = offered + IF aPc = "push" /\ pPc = "idle" THEN 1 ELSE 0
    /\ offered = Len(accepted) + dropped
                   + IF pPc # "idle" \/ aPc = "drop" THEN 1 ELSE 0
    /\ Len(delivered) = Len(sunk) + Cardinality(failed)
                          + IF tPc = "sink" THEN 1 ELSE 0
    /\ exported = Len(sunk) - IF tPc = "count" THEN 1 ELSE 0

\* The sink gets spans in the order they were submitted, none of them twice,
\* across stops and restarts (exporter_thread.c:30-55).
SunkInOrder ==
    /\ \A i, j \in 1..Len(sunk) : i < j => sunk[i] < sunk[j]
    /\ \A i \in 1..Len(sunk) : sunk[i] \notin failed

\* A snapshot never shows more spans exported or dropped than submitted
\* (exporter.h:154, exporter_thread.c:161-175).
SnapshotConsistent ==
    oPc = "done" => snapshot.exported + snapshot.dropped <= snapshot.submitted

\* The exporter uses the ring within its contract: one producer, one
\* consumer, whole pushes and pops, also across restarts.
ImplementsRing == RingSpec

\* exporter_stop and exporter_destroy return (exporter_thread.c:119-141).
StopReturns == aPc = "join" ~> aPc # "join"

\* A span accepted by an exporter that is started, or that gets started, is
\* popped and offered to the sink (exporter_thread.c:30-55).
AcceptedReachesSink ==
    \A n \in Span :
        (started /\ \E i \in 1..Len(accepted) : accepted[i] = n)
            ~> (\E i \in 1..Len(sunk) : sunk[i] = n) \/ n \in failed
=============================================================================

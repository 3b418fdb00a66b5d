------------------------------ MODULE Sampler ------------------------------
(***************************************************************************)
(* sampler.c: an override sampler over a base sampler that is either       *)
(* probabilistic or adaptive, called by several threads.  No lock is held; *)
(* a thread takes one step per atomic operation on shared data, with the   *)
(* local computation that follows it.                                      *)
(*                                                                         *)
(* Rates are levels 0..Full, Full standing for 1.0.  A random number, once *)
(* divided by UINT64_MAX, falls between two levels: draw d lies in         *)
(* [d/Full, (d+1)/Full), and draw Full is the number that rounds to 1.0    *)
(* itself, as (double)random does for the topmost 2^10 values or so.  The  *)
(* generator's own state, shared by all samplers through a load and a      *)
(* store that other threads may come between, is abstracted to a draw that *)
(* may be anything.  window_total is written and never read: left out.     *)
(***************************************************************************)
EXTENDS Integers, FiniteSets

CONSTANTS
    Threads,
    BaseTypes,      \* types the base sampler may have
    BaseRate,       \* rate of a probabilistic base
    OverrideRate,   \* rate of the overridden endpoint
    Asked,          \* endpoints asked about, as the samplers that serve them
    Full,           \* the level of rate 1.0
    StartRate,      \* the level an adaptive sampler starts at
    TargetTps,
    WindowSec,      \* WINDOW_SIZE_SEC
    MaxCalls,       \* calls a thread makes (bound)
    MaxSec          \* seconds the clock runs (bound)

ASSUME SamplerAssumption ==
    /\ IsFiniteSet(Threads)
    /\ BaseTypes \subseteq {"probability", "adaptive"}
    /\ {Full, TargetTps, WindowSec} \subseteq Nat \ {0}
    /\ {BaseRate, OverrideRate} \subseteq 0..Full
    /\ StartRate \in 1..Full /\ Asked \subseteq {"base", "override"}
    /\ {MaxCalls, MaxSec} \subseteq Nat

VARIABLES
    baseType,    \* type of the base sampler
    clock,       \* get_current_sec()
    total,       \* total_decisions of each sampler
    sampled,     \* sampled_count of each sampler
    rate,        \* current_rate of the adaptive base
    window,      \* window_sampled
    lastUpdate,  \* last_update_sec
    pc,          \* next atomic step of each thread
    local,       \* its local variables
    calls,       \* calls it has made
    taken,       \* decisions returned, per sampler
    kept,        \* those with decision->sampled
    stats,       \* what its last sampler_get_stats returned
    past         \* history of the window: how many decisions were cleared from
                 \* it, how often last_update_sec was set to each second, and
                 \* how often to one before the last

shared == <<baseType, clock, total, sampled, rate, window, lastUpdate, past>>
history == <<calls, taken, kept, stats>>
vars == <<shared, pc, local, history>>

Samplers == {"base", "override"}

NoneTaken == [s \in Samplers |-> 0]

\* A call's local variables; those of other calls have their initial value.
\* The last three note, for the thread that adjusts the rate, how many decisions
\* were in the window and how many had been cleared from it when it began, and
\* how many it has cleared itself.
NoLocal == [sampler |-> "base", now |-> 0, last |-> 0, slot |-> 0, sum |-> 0,
            read |-> 0, rate |-> 0, yes |-> FALSE, before |-> NoneTaken,
            seen |-> 0, gone |-> 0, mine |-> 0]

\* A sampler_stats_t, with the decisions returned before the call and the
\* base's decisions begun when it ended.
NoStats == [total |-> 0, sampled |-> 0, before |-> NoneTaken, after |-> 0]

Init ==
    /\ baseType \in BaseTypes
    /\ clock = 0 /\ lastUpdate = 0
    /\ total = NoneTaken /\ sampled = NoneTaken
    /\ rate = StartRate /\ window = [i \in 0..WindowSec - 1 |-> 0]
    /\ pc = [t \in Threads |-> "idle"]
    /\ local = [t \in Threads |-> NoLocal]
    /\ calls = [t \in Threads |-> 0]
    /\ taken = NoneTaken /\ kept = NoneTaken
    /\ stats = [t \in Threads |-> NoStats]
    /\ past = [cleared |-> 0, adjusted |-> [sec \in 0..MaxSec |-> 0], setBack |-> 0]

Goto(t, label) == pc' = [pc EXCEPT ![t] = label]

\* The thread's call returns the decision it took.
Return(t) ==
    LET s == local[t].sampler IN
    /\ Goto(t, "idle") /\ local' = [local EXCEPT ![t] = NoLocal]
    /\ taken' = [taken EXCEPT ![s] = @ + 1]
    /\ kept' = [kept EXCEPT ![s] = IF local[t].yes THEN @ + 1 ELSE @]

Begin(t) ==
    /\ pc[t] = "idle" /\ calls[t] < MaxCalls
    /\ calls' = [calls EXCEPT ![t] = @ + 1]

\* sampler_should_sample on the override sampler: the endpoint named in the
\* override goes to its own probabilistic sampler, any other to the base.
ShouldSample(t) ==
    /\ Begin(t)
    /\ \E s \in Asked :
          /\ local' = [local EXCEPT ![t].sampler = s]
          /\ Goto(t, IF s = "base" /\ baseType = "adaptive" THEN "clock" ELSE "prob")
    /\ UNCHANGED <<shared, taken, kept, stats>>

(***************************************************************************)
(* prob_should_sample.                                                     *)
(***************************************************************************)

RateOf(s) == IF s = "override" THEN OverrideRate ELSE BaseRate

\* threshold < rate
Chosen(draw, r) == draw < r

ProbCount(t) ==
    LET s == local[t].sampler IN
    /\ pc[t] = "prob"
    /\ total' = [total EXCEPT ![s] = @ + 1]
    /\ \E draw \in 0..Full :
          local' = [local EXCEPT ![t].yes = Chosen(draw, RateOf(s))]
    /\ Goto(t, IF local'[t].yes THEN "keep" ELSE "return")
    /\ UNCHANGED <<baseType, clock, sampled, rate, window, lastUpdate, past, history>>

\* Mutant of ProbKeep: an override counts in its base.
ProbKeepInBase(t) ==
    /\ pc[t] = "keep"
    /\ sampled' = [sampled EXCEPT !["base"] = @ + 1]
    /\ Goto(t, "return")
    /\ UNCHANGED <<baseType, clock, total, rate, window, lastUpdate, past, local,
                   history>>

ProbKeep(t) ==
    /\ pc[t] = "keep"
    /\ sampled' = [sampled EXCEPT ![local[t].sampler] = @ + 1]
    /\ Goto(t, "return")
    /\ UNCHANGED <<baseType, clock, total, rate, window, lastUpdate, past, local,
                   history>>

ReturnDecision(t) ==
    /\ pc[t] = "return" /\ Return(t)
    /\ UNCHANGED <<shared, calls, stats>>

(***************************************************************************)
(* adaptive_update_rate.  The first caller to see a new second is the one  *)
(* that adjusts the rate; others go on with the rate there is.             *)
(***************************************************************************)

ReadClock(t) ==
    /\ pc[t] = "clock"
    /\ local' = [local EXCEPT ![t].now = clock]
    /\ Goto(t, "last")
    /\ UNCHANGED <<shared, history>>

LoadLast(t) ==
    /\ pc[t] = "last"
    /\ local' = [local EXCEPT ![t].last = lastUpdate]
    /\ Goto(t, IF local[t].now = lastUpdate THEN "rate" ELSE "cas")
    /\ UNCHANGED <<shared, history>>

\* One pair for each unit that the counters f[x] of S have counted.
Units(S, f) == UNION {{x} \X (1..f[x]) : x \in S}

InWindow == Cardinality(Units(0..WindowSec - 1, window))

SetLast(t) ==
    LET now == local[t].now IN
    /\ lastUpdate' = now
    /\ past' = [past EXCEPT !.adjusted[now] = @ + 1,
                            !.setBack = IF now < lastUpdate THEN @ + 1 ELSE @]
    /\ local' = [local EXCEPT ![t].seen = InWindow, ![t].gone = past.cleared]
    /\ Goto(t, "sum")

\* Mutant of CasLast: last_update_sec is stored, not compared and exchanged.
StoreLast(t) ==
    /\ pc[t] = "cas" /\ SetLast(t)
    /\ UNCHANGED <<baseType, clock, total, sampled, rate, window, history>>

CasLast(t) ==
    /\ pc[t] = "cas"
    /\ \/ lastUpdate = local[t].last /\ SetLast(t)
       \/ /\ lastUpdate # local[t].last
          /\ Goto(t, "rate") /\ UNCHANGED <<lastUpdate, past, local>>
    /\ UNCHANGED <<baseType, clock, total, sampled, rate, window, history>>

\* One slot of the window at a time.
SumWindow(t) ==
    LET l == local[t] IN
    /\ pc[t] = "sum"
    /\ local' = [local EXCEPT ![t].sum = @ + window[l.slot], ![t].slot = @ + 1]
    /\ Goto(t, IF l.slot + 1 = WindowSec THEN "clear" ELSE "sum")
    /\ UNCHANGED <<shared, history>>

\* The slot of this second only: those of seconds without a call are left.
ClearSlot(t) ==
    LET slot == local[t].now % WindowSec IN
    /\ pc[t] = "clear"
    /\ window' = [window EXCEPT ![slot] = 0]
    /\ past' = [past EXCEPT !.cleared = @ + window[slot]]
    /\ local' = [local EXCEPT ![t].mine = window[slot]]
    /\ Goto(t, "load")
    /\ UNCHANGED <<baseType, clock, total, sampled, rate, lastUpdate, history>>

LoadRate(t) ==
    /\ pc[t] = "load"
    /\ local' = [local EXCEPT ![t].rate = rate]
    /\ Goto(t, "store")
    /\ UNCHANGED <<shared, history>>

\* current_tps > target_tps * 1.1 and current_tps < target_tps * 0.9
TooMany(sum) == 10 * sum > 11 * TargetTps * WindowSec
TooFew(sum) == 10 * sum < 9 * TargetTps * WindowSec

\* Mutant of NewRates: the window is not divided by its length.
NewRatesOfSum(r, sum) ==
    CASE TooMany(sum * WindowSec) -> IF r = 1 THEN {1} ELSE 1..r - 1
      [] TooFew(sum * WindowSec)  -> IF r = Full THEN {Full} ELSE {r + 1}
      [] OTHER                    -> {r}

\* Mutant of NewRates: a rise goes past 1.0.
NewRatesUncapped(r, sum) ==
    CASE TooMany(sum) -> IF r = 1 THEN {1} ELSE 1..r - 1
      [] TooFew(sum)  -> {r + 1}
      [] OTHER        -> {r}

\* A cut scales with the excess, to some lower level but never to 0; a rise
\* is one level, up to 1.0.
NewRates(r, sum) ==
    CASE TooMany(sum) -> IF r = 1 THEN {1} ELSE 1..r - 1
      [] TooFew(sum)  -> IF r = Full THEN {Full} ELSE {r + 1}
      [] OTHER        -> {r}

StoreRate(t) ==
    /\ pc[t] = "store"
    /\ rate' \in NewRates(local[t].rate, local[t].sum)
    /\ Goto(t, "rate")
    /\ UNCHANGED <<baseType, clock, total, sampled, window, lastUpdate, past, local,
                   history>>

(***************************************************************************)
(* The rest of adaptive_should_sample.                                     *)
(***************************************************************************)

DecideAdaptive(t) ==
    /\ pc[t] = "rate"
    /\ \E draw \in 0..Full :
          local' = [local EXCEPT ![t].yes = Chosen(draw, rate)]
    /\ Goto(t, "count")
    /\ UNCHANGED <<shared, history>>

CountAdaptive(t) ==
    /\ pc[t] = "count"
    /\ total' = [total EXCEPT !["base"] = @ + 1]
    /\ Goto(t, IF local[t].yes THEN "slot" ELSE "return")
    /\ UNCHANGED <<baseType, clock, sampled, rate, window, lastUpdate, past, local,
                   history>>

\* The second is read again, and may be another than the one adjusted for.
KeepAdaptive(t) ==
    /\ pc[t] = "slot"
    /\ local' = [local EXCEPT ![t].slot = clock % WindowSec]
    /\ sampled' = [sampled EXCEPT !["base"] = @ + 1]
    /\ Goto(t, "window")
    /\ UNCHANGED <<baseType, clock, total, rate, window, lastUpdate, past, history>>

CountInWindow(t) ==
    /\ pc[t] = "window"
    /\ window' = [window EXCEPT ![local[t].slot] = @ + 1]
    /\ Goto(t, "return")
    /\ UNCHANGED <<baseType, clock, total, sampled, rate, lastUpdate, past, local,
                   history>>

(***************************************************************************)
(* sampler_get_stats on the override sampler, which asks the base.         *)
(***************************************************************************)

GetStats(t) ==
    /\ Begin(t)
    /\ local' = [local EXCEPT ![t].before = taken]
    /\ Goto(t, "total")
    /\ UNCHANGED <<shared, taken, kept, stats>>

StatsTotal(t) ==
    /\ pc[t] = "total"
    /\ local' = [local EXCEPT ![t].read = total["base"]]
    /\ Goto(t, "sampled")
    /\ UNCHANGED <<shared, history>>

StatsSampled(t) ==
    /\ pc[t] = "sampled"
    /\ stats' = [stats EXCEPT ![t] =
                    [total |-> local[t].read, sampled |-> sampled["base"],
                     before |-> local[t].before, after |-> total["base"]]]
    /\ Goto(t, "idle") /\ local' = [local EXCEPT ![t] = NoLocal]
    /\ UNCHANGED <<shared, calls, taken, kept>>

Tick ==
    /\ clock < MaxSec /\ clock' = clock + 1
    /\ UNCHANGED <<baseType, total, sampled, rate, window, lastUpdate, past, pc,
                   local, history>>

-----------------------------------------------------------------------------

Step(t) ==
    \/ ShouldSample(t) \/ ProbCount(t) \/ ProbKeep(t) \/ ReturnDecision(t)
    \/ ReadClock(t) \/ LoadLast(t) \/ CasLast(t) \/ SumWindow(t) \/ ClearSlot(t)
    \/ LoadRate(t) \/ StoreRate(t)
    \/ DecideAdaptive(t) \/ CountAdaptive(t) \/ KeepAdaptive(t) \/ CountInWindow(t)
    \/ GetStats(t) \/ StatsTotal(t) \/ StatsSampled(t)

Next == Tick \/ \E t \in Threads : Step(t)

Spec == Init /\ [][Next]_vars

(***************************************************************************)
(* Properties.                                                             *)
(***************************************************************************)

\* Type invariant.
TypeOK ==
    LET Calls == 0..MaxCalls * Cardinality(Threads)
        Counts == [Samplers -> Calls]
    IN /\ baseType \in BaseTypes
       /\ clock \in 0..MaxSec /\ lastUpdate \in 0..clock
       /\ {total, sampled, taken, kept} \subseteq Counts
       /\ rate \in 1..Full /\ window \in [0..WindowSec - 1 -> Calls]
       /\ pc \in [Threads -> {"idle", "prob", "keep", "return", "clock", "last",
                              "cas", "sum", "clear", "load", "store", "rate",
                              "count", "slot", "window", "total", "sampled"}]
       /\ \A t \in Threads :
             /\ local[t].sampler \in Samplers
             /\ {local[t].now, local[t].last} \subseteq 0..clock
             /\ local[t].slot \in 0..WindowSec /\ local[t].sum \in Nat
             /\ local[t].read \in Calls /\ local[t].rate \in 0..Full
             /\ local[t].yes \in BOOLEAN /\ local[t].before \in Counts
             /\ {local[t].seen, local[t].gone, local[t].mine} \subseteq Nat
             /\ calls[t] \in 0..MaxCalls
             /\ {stats[t].total, stats[t].sampled, stats[t].after} \subseteq Calls
       /\ past \in [cleared : Nat, adjusted : [0..MaxSec -> Nat], setBack : Nat]

Deciding(t) == pc[t] \notin {"idle", "total", "sampled"}

\* No decision is lost between threads: sampled never runs ahead of total, once
\* no call is under way both are exactly what the callers were told, and each
\* decision the adaptive sampler has counted is in the window, about to be, or
\* was cleared from it.
CountersExact ==
    /\ \A s \in Samplers : sampled[s] <= total[s]
    /\ (\A t \in Threads : ~Deciding(t)) => total = taken /\ sampled = kept
    /\ baseType = "adaptive" =>
          sampled["base"] = InWindow + past.cleared
                            + Cardinality({t \in Threads : pc[t] = "window"})

\* The statistics cover every decision of the base returned before the call
\* and none begun after it.  sampled may still exceed total, by the decisions
\* of other threads in between, and dropped_count then wraps.
StatsBracketed ==
    \A t \in Threads : /\ stats[t].before["base"] <= stats[t].total
                       /\ stats[t].total <= stats[t].after
                       /\ stats[t].sampled <= stats[t].after

\* Counters and statistics agree with the decisions the callers were given,
\* whichever threads count and read at the same time (sampler.c:85-113,
\* 206-241).
CountersAgree == CountersExact /\ StatsBracketed

\* However many callers see a new second, one adjusts the rate for it
\* (sampler.c:139-146).  A second is adjusted for again only if
\* last_update_sec was set back, by a thread that had read the clock before
\* another adjusted for a later second; once more for each time it was.
OneAdjustmentPerSecond ==
    \A sec \in 0..MaxSec : past.adjusted[sec] <= 1 + past.setBack

\* The decisions a thread that adjusts the rate can have summed up, although
\* others add to the window and clear it at the same time: no more than were
\* sampled and had not been cleared when it began, and no fewer than were then
\* in the window, without those that others have cleared.
AtMost(t) == sampled["base"] - local[t].gone
AtLeast(t) == local[t].seen - (past.cleared - local[t].gone - local[t].mine)

\* A thread lowers the rate it has loaded only if the window, at the most, is
\* above the target, and raises it only if, at the least, it is below
\* (sampler.c:148-174).  The window is whatever has not been cleared: as only
\* the slot of a second with a call is (sampler.c:156-157), decisions from
\* before a pause lower the rate after it, however long it was.
RateFollowsWindow ==
    [][\A t \in Threads : pc[t] = "store" /\ pc'[t] # "store" =>
          /\ rate' < local[t].rate => TooMany(AtMost(t))
          /\ rate' > local[t].rate => TooFew(AtLeast(t))]_vars

=============================================================================

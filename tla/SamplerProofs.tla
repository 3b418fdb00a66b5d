--------------------------- MODULE SamplerProofs ---------------------------
(***************************************************************************)
(* Proofs about Sampler, for every number of threads, window, rate and     *)
(* bound: the counters and the statistics agree with what the callers were *)
(* told, a second is adjusted for once, and the rate follows the window.   *)
(*                                                                         *)
(* The threads share no lock, so the inductive invariant, SamplerInv, says *)
(* what the atomic steps still to come will add: the decisions counted and *)
(* not yet returned (DecisionsCounted), the decisions a thread may still   *)
(* make (CallsBounded), the units sampled and not yet in the window, and   *)
(* what a thread that adds up the window has read of it and has not        *)
(* (WindowBehind).  They are numbers of threads, so each action's effect   *)
(* is followed through the sets of those threads (OneMoves), and through   *)
(* the units its counter has counted (Units...).                           *)
(***************************************************************************)
EXTENDS Sampler, FiniteSetTheorems, TLAPS

-----------------------------------------------------------------------------
(* The inductive invariant. *)

Labels == {"idle", "prob", "keep", "return", "clock", "last", "cas", "sum",
           "clear", "load", "store", "rate", "count", "slot", "window",
           "total", "sampled"}

Locals == [sampler : Samplers, now : Nat, last : Nat, slot : 0..WindowSec,
           sum : Nat, read : Nat, rate : 0..Full, yes : BOOLEAN,
           before : [Samplers -> Nat], seen : Nat, gone : Nat, mine : Nat]

StatsRecords == [total : Nat, sampled : Nat, before : [Samplers -> Nat],
                 after : Nat]

\* The types, without TypeOK's bounds on the counters.
Types ==
    /\ baseType \in BaseTypes
    /\ clock \in 0..MaxSec /\ lastUpdate \in 0..clock
    /\ total \in [Samplers -> Nat] /\ sampled \in [Samplers -> Nat]
    /\ taken \in [Samplers -> Nat] /\ kept \in [Samplers -> Nat]
    /\ rate \in 1..Full /\ window \in [0..WindowSec - 1 -> Nat]
    /\ pc \in [Threads -> Labels] /\ local \in [Threads -> Locals]
    /\ calls \in [Threads -> 0..MaxCalls] /\ stats \in [Threads -> StatsRecords]
    /\ past \in [cleared : Nat, adjusted : [0..MaxSec -> Nat], setBack : Nat]

AdaptiveSteps == {"clock", "last", "cas", "sum", "clear", "load", "store",
                  "rate", "count", "slot", "window"}

\* What a thread's local variables hold at each of its steps.
LocalAt(t) ==
    /\ local[t].now <= clock /\ local[t].last <= clock
    /\ pc[t] \in AdaptiveSteps =>
          local[t].sampler = "base" /\ baseType = "adaptive"
    /\ pc[t] \in {"prob", "keep"} =>
          local[t].sampler = "override" \/ baseType = "probability"
    /\ pc[t] = "cas" => local[t].now # local[t].last
    /\ pc[t] \in {"keep", "slot", "window"} => local[t].yes
    /\ pc[t] \in {"idle", "clock", "last", "cas"} =>
          local[t].sum = 0 /\ local[t].slot = 0
    /\ pc[t] \in {"sum", "window"} => local[t].slot < WindowSec
    /\ pc[t] = "store" => local[t].rate >= 1

\* What a reading of the statistics has loaded, and what the last one returned.
Reading(t) ==
    /\ \A s \in Samplers : local[t].before[s] <= taken[s]
    /\ local[t].read <= total["base"]
    /\ pc[t] = "sampled" => local[t].before["base"] <= local[t].read
    /\ stats[t].before["base"] <= stats[t].total
    /\ stats[t].total <= stats[t].after /\ stats[t].sampled <= stats[t].after
    /\ stats[t].after <= total["base"]

\* Threads whose decision for s is in its total, and of these the ones whose
\* decision is in its sampled; threads about to count in the window.
Counted(s) == {t \in Threads : /\ pc[t] \in {"keep", "slot", "window", "return"}
                               /\ local[t].sampler = s}
Chose(s) == {t \in Threads : /\ pc[t] \in {"window", "return"}
                             /\ local[t].sampler = s /\ local[t].yes}
Pending == {t \in Threads : pc[t] = "window"}
Deciders == {t \in Threads : Deciding(t)}

\* A counter is ahead of the decisions returned by those under way.
DecisionsCounted ==
    \A s \in Samplers : /\ total[s] = taken[s] + Cardinality(Counted(s))
                        /\ sampled[s] = kept[s] + Cardinality(Chose(s))
                        /\ kept[s] <= taken[s]

\* Every decision, returned or under way, is a call's.
CallsBounded ==
    taken["base"] + taken["override"] + Cardinality(Deciders)
        <= Cardinality(Units(Threads, calls))

\* What is left of the window for the thread to add to its sum.
Ahead(t) == Units(local[t].slot..WindowSec - 1, window)

\* A thread that adds up the window gets no more than was sampled and had not
\* been cleared when it began, nor less than was in the window then and was not
\* cleared by others.
SumBehind(t) ==
    LET l == local[t] IN
    /\ pc[t] = "sum" =>
          /\ l.sum + Cardinality(Ahead(t)) + l.gone + Cardinality(Pending)
                <= sampled["base"]
          /\ l.seen + l.gone <= l.sum + Cardinality(Ahead(t)) + past.cleared
    /\ pc[t] \in {"clear", "load", "store"} => l.sum + l.gone <= sampled["base"]
    /\ pc[t] = "clear" => l.seen + l.gone <= l.sum + past.cleared
    /\ pc[t] \in {"load", "store"} =>
          l.seen + l.gone + l.mine <= l.sum + past.cleared

\* What was sampled is in the window, about to be, or was cleared from it; but
\* a probabilistic base samples without a window.
WindowBehind ==
    /\ InWindow + Cardinality(Pending) + past.cleared <= sampled["base"]
    /\ baseType = "adaptive" =>
          sampled["base"] = InWindow + Cardinality(Pending) + past.cleared
    /\ \A t \in Threads : SumBehind(t)

\* A second after the last adjusted for was adjusted for only by threads that
\* then set last_update_sec back.
Adjustments ==
    \A sec \in 0..MaxSec :
       past.adjusted[sec] <= past.setBack + IF sec <= lastUpdate THEN 1 ELSE 0

SamplerInv ==
    /\ Types
    /\ \A t \in Threads : LocalAt(t) /\ Reading(t)
    /\ DecisionsCounted /\ CallsBounded /\ WindowBehind /\ Adjustments

-----------------------------------------------------------------------------
(* Sets of threads, and the units of counters. *)

\* The numbers of the model are numbers.
LEMMA SamplerConstants ==
  /\ IsFiniteSet(Threads)
  /\ BaseTypes \subseteq {"probability", "adaptive"}
  /\ Asked \subseteq Samplers
  /\ Full \in Nat /\ Full >= 1 /\ StartRate \in 1..Full
  /\ TargetTps \in Nat /\ WindowSec \in Nat /\ WindowSec >= 1
  /\ BaseRate \in Nat /\ OverrideRate \in Nat /\ MaxCalls \in Nat /\ MaxSec \in Nat
<1>1. Full \in Nat \ {0} /\ TargetTps \in Nat \ {0} /\ WindowSec \in Nat \ {0}
  BY SamplerAssumption
<1>2. MaxCalls \in Nat /\ MaxSec \in Nat
  BY SamplerAssumption
<1>3. BaseRate \in 0..Full /\ OverrideRate \in 0..Full
  BY SamplerAssumption
<1> QED
  BY <1>1, <1>2, <1>3, SamplerAssumption DEF Samplers

\* A set of threads is finite.
LEMMA ThreadSet ==
  ASSUME NEW S \in SUBSET Threads
  PROVE  IsFiniteSet(S) /\ Cardinality(S) \in Nat
BY SamplerConstants, FS_Subset, FS_CardinalityType

\* Thread t is all that distinguishes T from S, which it enters, leaves or
\* neither.
Moves(t, S, T) ==
    /\ Cardinality(S) \in Nat /\ Cardinality(T) \in Nat
    /\ (t \in T <=> t \in S) => T = S
    /\ t \in T /\ t \notin S => Cardinality(T) = Cardinality(S) + 1
    /\ t \notin T /\ t \in S => Cardinality(T) = Cardinality(S) - 1

\* A step of one thread changes a count of threads by at most that thread.
LEMMA OneMoves ==
  ASSUME NEW S \in SUBSET Threads, NEW T \in SUBSET Threads, NEW t \in Threads,
         \A u \in Threads \ {t} : u \in T <=> u \in S
  PROVE  Moves(t, S, T)
<1>1. IsFiniteSet(S) /\ Cardinality(S) \in Nat /\ Cardinality(T) \in Nat
  BY ThreadSet
<1>2. (t \in T <=> t \in S) => T = S
  OBVIOUS
<1>3. ASSUME t \in T, t \notin S PROVE Cardinality(T) = Cardinality(S) + 1
  <2>1. T = S \cup {t}
    BY <1>3
  <2> QED
    BY <1>1, <1>3, <2>1, FS_AddElement
<1>4. ASSUME t \notin T, t \in S PROVE Cardinality(T) = Cardinality(S) - 1
  <2>1. T = S \ {t}
    BY <1>4
  <2> QED
    BY <1>1, <1>4, <2>1, FS_RemoveElement
<1> QED
  BY <1>1, <1>2, <1>3, <1>4 DEF Moves

\* The units are the pairs of a counter and one of the numbers it has passed.
LEMMA UnitsMembers ==
  ASSUME NEW S, NEW f, NEW p
  PROVE  p \in Units(S, f) <=> \E x \in S : \E n \in 1..f[x] : p = <<x, n>>
BY DEF Units

\* Counters at 0 have counted no unit.
LEMMA NoUnits ==
  ASSUME NEW S, NEW f, \A x \in S : f[x] = 0
  PROVE  Units(S, f) = {}
<1>1. \A x \in S : 1..f[x] = {}
  OBVIOUS
<1>2. ASSUME NEW p \in Units(S, f) PROVE FALSE
  BY <1>1, <1>2, UnitsMembers
<1> QED
  BY <1>2

\* Finite counters of a finite set have counted finitely many units.
LEMMA UnitsFinite ==
  ASSUME NEW D, IsFiniteSet(D), NEW f \in [D -> Nat], NEW S \in SUBSET D
  PROVE  IsFiniteSet(Units(S, f)) /\ Cardinality(Units(S, f)) \in Nat
<1> DEFINE Of(x) == {x} \X (1..f[x])
           Parts == {Of(x) : x \in S}
           part == [x \in S |-> Of(x)]
<1>1. IsFiniteSet(S)
  BY FS_Subset
<1>2. IsFiniteSet(Parts)
  <2>1. part \in Surjection(S, Parts)
    BY DEF Surjection
  <2> QED
    BY <1>1, <2>1, FS_Surjection
<1>3. ASSUME NEW x \in S PROVE IsFiniteSet(Of(x))
  <2>1. 1 \in Int /\ f[x] \in Int
    OBVIOUS
  <2>2. IsFiniteSet(1..f[x]) /\ IsFiniteSet({x})
    BY <2>1, FS_Interval, FS_Singleton
  <2> QED
    BY <2>2, FS_Product
<1>4. IsFiniteSet(UNION Parts)
  <2>1. \A P \in Parts : IsFiniteSet(P)
    BY <1>3
  <2> QED
    BY <1>2, <2>1, FS_UNION
<1>5. Units(S, f) = UNION Parts
  BY DEF Units
<1> QED
  BY <1>4, <1>5, FS_CardinalityType

\* A counter that counts one more adds a unit to those of any set it is in.
LEMMA UnitsOneMore ==
  ASSUME NEW D, IsFiniteSet(D), NEW f \in [D -> Nat], NEW x \in D,
         NEW g \in [D -> Nat], g[x] = f[x] + 1,
         \A y \in D \ {x} : g[y] = f[y], NEW S \in SUBSET D
  PROVE  Cardinality(Units(S, g))
            = Cardinality(Units(S, f)) + IF x \in S THEN 1 ELSE 0
<1>1. IsFiniteSet(Units(S, f)) /\ Cardinality(Units(S, f)) \in Nat
  BY UnitsFinite
<1>2. CASE x \in S
  <2> DEFINE unit == <<x, f[x] + 1>>
  <2>1. Units(S, g) = Units(S, f) \cup {unit}
    <3>1. ASSUME NEW y \in S, y # x PROVE g[y] = f[y]
      BY <3>1
    <3>2. 1..g[x] = (1..f[x]) \cup {f[x] + 1}
      OBVIOUS
    <3>3. ASSUME NEW p \in Units(S, g) PROVE p \in Units(S, f) \cup {unit}
      <4>1. PICK y \in S : \E n \in 1..g[y] : p = <<y, n>>
        BY UnitsMembers
      <4>2. PICK n \in 1..g[y] : p = <<y, n>>
        BY <4>1
      <4>3. CASE y = x
        <5>1. n \in 1..f[x] \/ n = f[x] + 1
          BY <3>2, <4>2, <4>3
        <5> QED
          BY <4>2, <4>3, <5>1, UnitsMembers
      <4>4. CASE y # x
        <5>1. n \in 1..f[y]
          BY <3>1, <4>2, <4>4
        <5> QED
          BY <4>2, <5>1, UnitsMembers
      <4> QED
        BY <4>3, <4>4
    <3>4. ASSUME NEW p \in Units(S, f) PROVE p \in Units(S, g)
      <4>1. PICK y \in S : \E n \in 1..f[y] : p = <<y, n>>
        BY UnitsMembers
      <4>2. PICK n \in 1..f[y] : p = <<y, n>>
        BY <4>1
      <4>3. n \in 1..g[y]
        BY <3>1, <3>2, <4>2
      <4> QED
        BY <4>2, <4>3, UnitsMembers
    <3>5. unit \in Units(S, g)
      <4>1. f[x] + 1 \in 1..g[x]
        BY <3>2
      <4> QED
        BY <1>2, <4>1, UnitsMembers
    <3> QED
      BY <3>3, <3>4, <3>5
  <2>2. unit \notin Units(S, f)
    <3>1. f[x] + 1 \notin 1..f[x]
      OBVIOUS
    <3>2. SUFFICES ASSUME unit \in Units(S, f) PROVE FALSE
      OBVIOUS
    <3>3. PICK y \in S : \E n \in 1..f[y] : unit = <<y, n>>
      BY <3>2, UnitsMembers
    <3> QED
      BY <3>1, <3>3
  <2> QED
    BY <1>1, <1>2, <2>1, <2>2, FS_AddElement
<1>3. CASE x \notin S
  <2>1. \A y \in S : g[y] = f[y]
    BY <1>3
  <2>2. Units(S, g) = Units(S, f)
    BY <2>1 DEF Units
  <2> QED
    BY <1>1, <1>3, <2>2
<1> QED
  BY <1>2, <1>3

\* The units of a set without one counter, and that counter's.
LEMMA UnitsSplit ==
  ASSUME NEW D, IsFiniteSet(D), NEW f \in [D -> Nat], NEW S \in SUBSET D,
         NEW x \in S
  PROVE  Cardinality(Units(S, f)) = f[x] + Cardinality(Units(S \ {x}, f))
<1> DEFINE Own == {x} \X (1..f[x])
           Rest == Units(S \ {x}, f)
<1>1. IsFiniteSet(Own) /\ Cardinality(Own) = f[x]
  <2>1. 1 \in Int /\ f[x] \in Int /\ f[x] \in Nat
    OBVIOUS
  <2>2. IsFiniteSet(1..f[x]) /\ Cardinality(1..f[x]) = f[x]
    BY <2>1, FS_Interval
  <2>3. IsFiniteSet({x}) /\ Cardinality({x}) = 1
    BY FS_Singleton
  <2>4. IsFiniteSet(Own) /\ Cardinality(Own) = Cardinality({x}) * Cardinality(1..f[x])
    BY <2>2, <2>3, FS_Product
  <2> QED
    BY <2>1, <2>2, <2>3, <2>4
<1>2. IsFiniteSet(Rest) /\ Cardinality(Rest) \in Nat
  <2>1. S \ {x} \in SUBSET D
    OBVIOUS
  <2> QED
    BY <2>1, UnitsFinite
<1>3. Units(S, f) = Own \cup Rest
  <2>1. S = {x} \cup (S \ {x})
    OBVIOUS
  <2> QED
    BY <2>1 DEF Units
<1>4. Own \cap Rest = {}
  <2>1. \A p \in Rest : \E y \in S \ {x} : \E n \in 1..f[y] : p = <<y, n>>
    BY UnitsMembers
  <2>2. \A p \in Own : \E n \in 1..f[x] : p = <<x, n>>
    OBVIOUS
  <2>3. ASSUME NEW p \in Own, p \in Rest PROVE FALSE
    <3>1. PICK y \in S \ {x} : \E n \in 1..f[y] : p = <<y, n>>
      BY <2>1, <2>3
    <3>2. PICK n : p = <<x, n>>
      BY <2>2
    <3> QED
      BY <3>1, <3>2
  <2> QED
    BY <2>3
<1>5. Cardinality(Own \cap Rest) = 0
  BY <1>4, FS_EmptySet
<1> HIDE DEF Own, Rest
<1>6. f[x] \in Nat
  OBVIOUS
<1>7. Cardinality(Own \cup Rest)
         = Cardinality(Own) + Cardinality(Rest) - Cardinality(Own \cap Rest)
  BY <1>1, <1>2, FS_Union
<1> QED
  BY <1>1, <1>2, <1>3, <1>5, <1>6, <1>7 DEF Rest

\* A counter set to 0 takes its units from those of any set it is in.
LEMMA UnitsCleared ==
  ASSUME NEW D, IsFiniteSet(D), NEW f \in [D -> Nat], NEW x \in D,
         NEW g \in [D -> Nat], g[x] = 0,
         \A y \in D \ {x} : g[y] = f[y], NEW S \in SUBSET D
  PROVE  Cardinality(Units(S, f))
            = Cardinality(Units(S, g)) + IF x \in S THEN f[x] ELSE 0
<1>1. Cardinality(Units(S, f)) \in Nat /\ Cardinality(Units(S, g)) \in Nat
  BY UnitsFinite
<1>2. \A y \in S \ {x} : g[y] = f[y]
  OBVIOUS
<1>3. Units(S \ {x}, g) = Units(S \ {x}, f)
  BY <1>2 DEF Units
<1>4. CASE x \in S
  <2>1. /\ Cardinality(Units(S, f)) = f[x] + Cardinality(Units(S \ {x}, f))
        /\ Cardinality(Units(S, g)) = g[x] + Cardinality(Units(S \ {x}, g))
    BY <1>4, UnitsSplit
  <2>2. S \ {x} \in SUBSET D /\ f[x] \in Nat
    OBVIOUS
  <2>3. Cardinality(Units(S \ {x}, f)) \in Nat
    BY <2>2, UnitsFinite
  <2> QED
    BY <1>3, <1>4, <2>1, <2>2, <2>3
<1>5. CASE x \notin S
  <2>1. S \ {x} = S
    BY <1>5
  <2> QED
    BY <1>1, <1>3, <1>5, <2>1
<1> QED
  BY <1>4, <1>5

-----------------------------------------------------------------------------
(* What the steps of a thread leave alone. *)

\* The initial values are those of the types.
LEMMA NoValues ==
  /\ NoneTaken \in [Samplers -> Nat] /\ \A s \in Samplers : NoneTaken[s] = 0
  /\ NoLocal \in Locals /\ NoStats \in StatsRecords
<1>1. NoneTaken \in [Samplers -> Nat] /\ \A s \in Samplers : NoneTaken[s] = 0
  BY DEF NoneTaken
<1>2. 0 \in 0..WindowSec /\ 0 \in 0..Full
  BY SamplerConstants
<1>3. NoLocal \in Locals
  BY <1>1, <1>2 DEF NoLocal, Locals, Samplers
<1>4. NoStats \in StatsRecords
  BY <1>1 DEF NoStats, StatsRecords
<1> QED
  BY <1>1, <1>3, <1>4

\* A step of a thread moves no other.
LEMMA StepFrame ==
  ASSUME Types, NEW t \in Threads, Step(t), NEW u \in Threads, u # t
  PROVE  pc'[u] = pc[u] /\ local'[u] = local[u] /\ stats'[u] = stats[u]
<1> USE DEF Types, Goto, shared, history
<1>1. CASE ShouldSample(t)
  BY <1>1 DEF ShouldSample, Begin
<1>2. CASE ProbCount(t)
  BY <1>2 DEF ProbCount
<1>3. CASE ProbKeep(t)
  BY <1>3 DEF ProbKeep
<1>4. CASE ReturnDecision(t)
  BY <1>4 DEF ReturnDecision, Return
<1>5. CASE ReadClock(t)
  BY <1>5 DEF ReadClock
<1>6. CASE LoadLast(t)
  BY <1>6 DEF LoadLast
<1>7. CASE CasLast(t)
  BY <1>7 DEF CasLast, SetLast
<1>8. CASE SumWindow(t)
  BY <1>8 DEF SumWindow
<1>9. CASE ClearSlot(t)
  BY <1>9 DEF ClearSlot
<1>10. CASE LoadRate(t)
  BY <1>10 DEF LoadRate
<1>11. CASE StoreRate(t)
  BY <1>11 DEF StoreRate
<1>12. CASE DecideAdaptive(t)
  BY <1>12 DEF DecideAdaptive
<1>13. CASE CountAdaptive(t)
  BY <1>13 DEF CountAdaptive
<1>14. CASE KeepAdaptive(t)
  BY <1>14 DEF KeepAdaptive
<1>15. CASE CountInWindow(t)
  BY <1>15 DEF CountInWindow
<1>16. CASE GetStats(t)
  BY <1>16 DEF GetStats, Begin
<1>17. CASE StatsTotal(t)
  BY <1>17 DEF StatsTotal
<1>18. CASE StatsSampled(t)
  BY <1>18 DEF StatsSampled
<1> QED
  BY <1>1, <1>2, <1>3, <1>4, <1>5, <1>6, <1>7, <1>8, <1>9, <1>10, <1>11,
     <1>12, <1>13, <1>14, <1>15, <1>16, <1>17, <1>18 DEF Step

\* One more counted by a counter of the samplers.
LEMMA OneCounted ==
  ASSUME NEW f \in [Samplers -> Nat], NEW s \in Samplers
  PROVE  /\ [f EXCEPT ![s] = @ + 1] \in [Samplers -> Nat]
         /\ \A r \in Samplers : f[r] <= [f EXCEPT ![s] = @ + 1][r]
OBVIOUS

\* The clock is only ever advanced, and the counters only added to.
LEMMA StepMonotone ==
  ASSUME Types, Next
  PROVE  /\ clock <= clock' /\ baseType' = baseType
         /\ \A s \in Samplers : /\ total[s] <= total'[s] /\ taken[s] <= taken'[s]
                                /\ sampled[s] <= sampled'[s]
<1> USE DEF Types, Samplers, shared, history
<1>1. CASE Tick
  BY <1>1 DEF Tick
<1>2. ASSUME NEW t \in Threads, Step(t)
      PROVE  /\ clock' = clock /\ baseType' = baseType
             /\ \A s \in Samplers : /\ total[s] <= total'[s] /\ taken[s] <= taken'[s]
                                    /\ sampled[s] <= sampled'[s]
  <2>1. local[t].sampler \in Samplers
    BY DEF Locals
  <2>2. CASE ProbCount(t)
    <3>1. /\ total' = [total EXCEPT ![local[t].sampler] = @ + 1]
          /\ UNCHANGED <<clock, baseType, taken, sampled>>
      BY <2>2 DEF ProbCount
    <3> QED
      BY <2>1, <3>1, OneCounted
  <2>3. CASE ProbKeep(t)
    <3>1. /\ sampled' = [sampled EXCEPT ![local[t].sampler] = @ + 1]
          /\ UNCHANGED <<clock, baseType, taken, total>>
      BY <2>3 DEF ProbKeep
    <3> QED
      BY <2>1, <3>1, OneCounted
  <2>4. CASE ReturnDecision(t)
    <3>1. /\ taken' = [taken EXCEPT ![local[t].sampler] = @ + 1]
          /\ UNCHANGED <<clock, baseType, sampled, total>>
      BY <2>4 DEF ReturnDecision, Return
    <3> QED
      BY <2>1, <3>1, OneCounted
  <2>5. CASE CountAdaptive(t)
    <3>1. /\ total' = [total EXCEPT !["base"] = @ + 1]
          /\ UNCHANGED <<clock, baseType, taken, sampled>>
      BY <2>5 DEF CountAdaptive
    <3> QED
      BY <3>1, OneCounted
  <2>6. CASE KeepAdaptive(t)
    <3>1. /\ sampled' = [sampled EXCEPT !["base"] = @ + 1]
          /\ UNCHANGED <<clock, baseType, taken, total>>
      BY <2>6 DEF KeepAdaptive
    <3> QED
      BY <3>1, OneCounted
  <2>7. CASE ShouldSample(t) \/ ReadClock(t) \/ LoadLast(t) \/ CasLast(t)
               \/ SumWindow(t) \/ ClearSlot(t) \/ LoadRate(t)
    BY <2>7 DEF ShouldSample, ReadClock, LoadLast, CasLast, SetLast, SumWindow,
                ClearSlot, LoadRate
  <2>8. CASE StoreRate(t) \/ DecideAdaptive(t) \/ CountInWindow(t) \/ GetStats(t)
               \/ StatsTotal(t) \/ StatsSampled(t)
    BY <2>8 DEF StoreRate, DecideAdaptive, CountInWindow, GetStats, StatsTotal,
                StatsSampled
  <2> QED
    BY <1>2, <2>2, <2>3, <2>4, <2>5, <2>6, <2>7, <2>8 DEF Step
<1> QED
  BY <1>1, <1>2 DEF Next

-----------------------------------------------------------------------------
(* Types and local variables. *)

\* The rates computed from a level above 0 are levels above 0.
LEMMA NewRatesLevels ==
  ASSUME NEW r \in 1..Full, NEW sum \in Nat, NEW x \in NewRates(r, sum)
  PROVE  x \in 1..Full
<1>1. Full \in Nat
  BY SamplerConstants
<1>2. CASE TooMany(sum)
  BY <1>1, <1>2 DEF NewRates
<1>3. CASE ~TooMany(sum) /\ TooFew(sum)
  BY <1>1, <1>3 DEF NewRates
<1>4. CASE ~TooMany(sum) /\ ~TooFew(sum)
  BY <1>1, <1>4 DEF NewRates
<1> QED
  BY <1>2, <1>3, <1>4

\* A thread's local variables, and its statistics, one assigned.
LEMMA LocalsClosed ==
  ASSUME NEW l \in Locals
  PROVE  /\ \A s \in Samplers : [l EXCEPT !.sampler = s] \in Locals
         /\ \A n \in Nat : /\ [l EXCEPT !.now = n] \in Locals
                           /\ [l EXCEPT !.last = n] \in Locals
                           /\ [l EXCEPT !.read = n] \in Locals
         /\ \A i \in 0..WindowSec : [l EXCEPT !.slot = i] \in Locals
         /\ \A n \in Nat, i \in 0..WindowSec :
               [l EXCEPT !.sum = n, !.slot = i] \in Locals
         /\ \A r \in 0..Full : [l EXCEPT !.rate = r] \in Locals
         /\ \A y \in BOOLEAN : [l EXCEPT !.yes = y] \in Locals
         /\ \A b \in [Samplers -> Nat] : [l EXCEPT !.before = b] \in Locals
         /\ \A m \in Nat, n \in Nat : [l EXCEPT !.seen = m, !.gone = n] \in Locals
         /\ \A n \in Nat : [l EXCEPT !.mine = n] \in Locals
BY DEF Locals

\* Fields of a thread's local variables.
LEMMA LocalFields ==
  ASSUME NEW l \in Locals
  PROVE  /\ l.sampler \in Samplers /\ l.now \in Nat /\ l.last \in Nat
         /\ l.slot \in 0..WindowSec /\ l.sum \in Nat /\ l.read \in Nat
         /\ l.rate \in 0..Full /\ l.yes \in BOOLEAN
         /\ l.before \in [Samplers -> Nat]
         /\ l.seen \in Nat /\ l.gone \in Nat /\ l.mine \in Nat
BY DEF Locals

\* The history of the window, one more decision cleared or second adjusted for.
LEMMA PastClosed ==
  ASSUME NEW Pasts, NEW p \in Pasts,
         Pasts = [cleared : Nat, adjusted : [0..MaxSec -> Nat], setBack : Nat]
  PROVE  /\ \A n \in Nat : [p EXCEPT !.cleared = @ + n] \in Pasts
         /\ \A sec \in 0..MaxSec, y \in BOOLEAN :
               [p EXCEPT !.adjusted[sec] = @ + 1,
                         !.setBack = IF y THEN @ + 1 ELSE @] \in Pasts
<1>1. p.cleared \in Nat /\ p.adjusted \in [0..MaxSec -> Nat] /\ p.setBack \in Nat
  OBVIOUS
<1>2. ASSUME NEW n \in Nat PROVE [p EXCEPT !.cleared = @ + n] \in Pasts
  <2>1. p.cleared + n \in Nat
    BY <1>1
  <2> QED
    BY <2>1
<1>3. ASSUME NEW sec \in 0..MaxSec, NEW y \in BOOLEAN
      PROVE  [p EXCEPT !.adjusted[sec] = @ + 1,
                       !.setBack = IF y THEN @ + 1 ELSE @] \in Pasts
  <2> DEFINE f == [p.adjusted EXCEPT ![sec] = @ + 1]
             b == IF y THEN p.setBack + 1 ELSE p.setBack
  <2>1. f \in [0..MaxSec -> Nat]
    <3> DEFINE a == p.adjusted
    <3>1. a \in [0..MaxSec -> Nat]
      BY <1>1
    <3> HIDE DEF a
    <3>2. [a EXCEPT ![sec] = @ + 1] \in [0..MaxSec -> Nat]
      BY <3>1
    <3> QED
      BY <3>2 DEF a
  <2>2. b \in Nat
    BY <1>1
  <2>3. [p EXCEPT !.adjusted[sec] = @ + 1, !.setBack = IF y THEN @ + 1 ELSE @]
           = [p EXCEPT !.adjusted = f, !.setBack = b]
    BY <1>1
  <2> HIDE DEF f, b
  <2>4. [p EXCEPT !.adjusted = f, !.setBack = b] \in Pasts
    BY <2>1, <2>2
  <2> QED
    BY <2>3, <2>4
<1> QED
  BY <1>2, <1>3

\* The units of the window, and those ahead of a thread, can be counted.
LEMMA WindowUnits ==
  ASSUME Types
  PROVE  /\ IsFiniteSet(0..WindowSec - 1)
         /\ InWindow \in Nat
         /\ \A t \in Threads :
               /\ local[t].slot \in 0..WindowSec /\ local[t].sum \in Nat
               /\ local[t].slot..WindowSec - 1 \in SUBSET (0..WindowSec - 1)
               /\ Cardinality(Ahead(t)) \in Nat
<1>1. IsFiniteSet(0..WindowSec - 1)
  <2>1. 0 \in Int /\ WindowSec - 1 \in Int
    BY SamplerConstants
  <2> QED
    BY <2>1, FS_Interval
<1>2. window \in [0..WindowSec - 1 -> Nat]
  BY DEF Types
<1>3. ASSUME NEW t \in Threads
      PROVE  /\ local[t].slot \in 0..WindowSec /\ local[t].sum \in Nat
             /\ local[t].slot..WindowSec - 1 \in SUBSET (0..WindowSec - 1)
             /\ Cardinality(Ahead(t)) \in Nat
  <2>1. local[t].slot \in 0..WindowSec /\ local[t].sum \in Nat
    <3>1. local[t] \in Locals
      BY DEF Types
    <3> QED
      BY <3>1, LocalFields
  <2>2. local[t].slot..WindowSec - 1 \in SUBSET (0..WindowSec - 1)
    BY <2>1, SamplerConstants
  <2>3. Cardinality(Ahead(t)) \in Nat
    BY <1>1, <1>2, <2>2, UnitsFinite DEF Ahead
  <2> QED
    BY <2>1, <2>2, <2>3
<1>4. InWindow \in Nat
  BY <1>1, <1>2, UnitsFinite DEF InWindow
<1> QED
  BY <1>1, <1>3, <1>4

\* A step of a thread keeps the types.
LEMMA StepTypes ==
  ASSUME Types, NEW t \in Threads, LocalAt(t), Step(t)
  PROVE  Types'
<1> USE SamplerConstants DEF Types, Labels, Goto, shared, history
<1>l. local[t] \in Locals /\ pc[t] \in Labels /\ calls[t] \in 0..MaxCalls
  OBVIOUS
<1>f. local[t].sampler \in Samplers
  BY <1>l, LocalFields
<1>1. CASE ShouldSample(t)
  <2>1. PICK s \in Asked :
           /\ local' = [local EXCEPT ![t].sampler = s]
           /\ pc' = [pc EXCEPT ![t] = IF s = "base" /\ baseType = "adaptive"
                                      THEN "clock" ELSE "prob"]
    BY <1>1 DEF ShouldSample
  <2>2. local' \in [Threads -> Locals]
    BY <1>l, <2>1, LocalsClosed
  <2>3. pc' \in [Threads -> Labels]
    BY <2>1
  <2>4. calls' \in [Threads -> 0..MaxCalls]
    <3>1. calls' = [calls EXCEPT ![t] = @ + 1] /\ calls[t] < MaxCalls
      BY <1>1 DEF ShouldSample, Begin
    <3>2. calls[t] + 1 \in 0..MaxCalls
      BY <1>l, <3>1
    <3> QED
      BY <3>1, <3>2
  <2>5. UNCHANGED <<shared, taken, kept, stats>>
    BY <1>1 DEF ShouldSample
  <2> QED
    BY <2>2, <2>3, <2>4, <2>5
<1>2. CASE ProbCount(t)
  <2> DEFINE yes(y) == local' = [local EXCEPT ![t].yes = y]
  <2>y. PICK draw \in 0..Full : yes(Chosen(draw, RateOf(local[t].sampler)))
    BY <1>2 DEF ProbCount
  <2>b. Chosen(draw, RateOf(local[t].sampler)) \in BOOLEAN
    BY DEF Chosen
  <2>1. local' \in [Threads -> Locals]
    BY <1>l, <2>y, <2>b, LocalsClosed
  <2>t. total' = [total EXCEPT ![local[t].sampler] = @ + 1]
    BY <1>2 DEF ProbCount
  <2>2. total' \in [Samplers -> Nat]
    BY <1>f, <2>t
  <2> QED
    BY <1>2, <2>1, <2>2 DEF ProbCount
<1>3. CASE ProbKeep(t)
  <2>1. sampled' \in [Samplers -> Nat]
    BY <1>f, <1>3 DEF ProbKeep
  <2> QED
    BY <1>3, <2>1 DEF ProbKeep
<1>4. CASE ReturnDecision(t)
  <2>1. taken' \in [Samplers -> Nat] /\ kept' \in [Samplers -> Nat]
    <3> DEFINE s == local[t].sampler
    <3>1. /\ taken' = [taken EXCEPT ![s] = @ + 1]
          /\ kept' = [kept EXCEPT ![s] = IF local[t].yes THEN @ + 1 ELSE @]
      BY <1>4 DEF ReturnDecision, Return
    <3>2. s \in Samplers /\ taken[s] \in Nat /\ kept[s] \in Nat
      BY <1>f
    <3> HIDE DEF s
    <3>3. taken' \in [Samplers -> Nat]
      BY <3>1, <3>2
    <3>4. kept' \in [Samplers -> Nat]
      BY <3>1, <3>2
    <3> QED
      BY <3>3, <3>4
  <2>2. local' \in [Threads -> Locals]
    BY <1>4, NoValues DEF ReturnDecision, Return
  <2> QED
    BY <1>4, <2>1, <2>2 DEF ReturnDecision, Return
<1>5. CASE ReadClock(t)
  <2>1. clock \in Nat
    BY DEF Samplers
  <2>2. local' \in [Threads -> Locals]
    BY <1>l, <1>5, <2>1, LocalsClosed DEF ReadClock
  <2> QED
    BY <1>5, <2>2 DEF ReadClock
<1>6. CASE LoadLast(t)
  <2>1. lastUpdate \in Nat
    BY DEF Samplers
  <2>2. local' \in [Threads -> Locals]
    BY <1>l, <1>6, <2>1, LocalsClosed DEF LoadLast
  <2> QED
    BY <1>6, <2>2 DEF LoadLast
<1>7. CASE CasLast(t)
  <2>1. local[t].now \in 0..clock /\ local[t].now \in 0..MaxSec
    <3>1. local[t].now \in Nat /\ local[t].now <= clock /\ clock \in 0..MaxSec
      BY <1>l, LocalFields DEF LocalAt
    <3> HIDE DEF Types
    <3> QED
      BY <3>1
  <2>2. CASE lastUpdate = local[t].last /\ SetLast(t)
    <3>1. InWindow \in Nat /\ past.cleared \in Nat
      BY WindowUnits
    <3>2. local' = [local EXCEPT ![t].seen = InWindow, ![t].gone = past.cleared]
      BY <2>2 DEF SetLast
    <3>3. local'= [local EXCEPT ![t] = [local[t] EXCEPT !.seen = InWindow,
                                                        !.gone = past.cleared]]
      BY <1>l, <3>2 DEF Locals
    <3>4. local' \in [Threads -> Locals]
      BY <1>l, <3>1, <3>3, LocalsClosed
    <3>5. /\ past.adjusted \in [0..MaxSec -> Nat] /\ past.setBack \in Nat
          /\ past.cleared \in Nat
      OBVIOUS
    <3>6. past' = [past EXCEPT !.adjusted[local[t].now] = @ + 1,
                     !.setBack = IF local[t].now < lastUpdate THEN @ + 1 ELSE @]
      BY <2>2 DEF SetLast
    <3>7. past' \in [cleared : Nat, adjusted : [0..MaxSec -> Nat], setBack : Nat]
      BY <2>1, <3>6, PastClosed
    <3>8. pc' = [pc EXCEPT ![t] = "sum"] /\ lastUpdate' = local[t].now
      BY <2>2 DEF SetLast
    <3> QED
      BY <1>7, <2>1, <3>4, <3>7, <3>8 DEF CasLast
  <2>3. CASE /\ pc' = [pc EXCEPT ![t] = "rate"]
             /\ UNCHANGED <<lastUpdate, past, local>>
    BY <1>7, <2>3 DEF CasLast
  <2> QED
    BY <1>7, <2>2, <2>3 DEF CasLast
<1>8. CASE SumWindow(t)
  <2>1. local[t].slot \in 0..WindowSec - 1 /\ local[t].sum \in Nat
    BY <1>l, <1>8, LocalFields DEF SumWindow, LocalAt
  <2>2. /\ local[t].slot + 1 \in 0..WindowSec
        /\ local[t].sum + window[local[t].slot] \in Nat
    <3>1. window[local[t].slot] \in Nat
      BY <2>1
    <3>2. local[t].slot + 1 \in 0..WindowSec
      <4> HIDE DEF Types
      <4> QED
        BY <2>1
    <3>3. local[t].sum \in Nat
      BY <2>1
    <3> HIDE DEF Types
    <3> QED
      BY <3>1, <3>2, <3>3
  <2>3. local' \in [Threads -> Locals]
    BY <1>l, <1>8, <2>2, LocalsClosed DEF SumWindow
  <2> QED
    BY <1>8, <2>3 DEF SumWindow
<1>9. CASE ClearSlot(t)
  <2> DEFINE slot == local[t].now % WindowSec
  <2>1. window' \in [0..WindowSec - 1 -> Nat]
    BY <1>9 DEF ClearSlot
  <2>2. slot \in 0..WindowSec - 1 /\ window[slot] \in Nat
    <3>1. local[t].now \in Nat /\ WindowSec \in Nat /\ WindowSec >= 1
      BY <1>l, LocalFields
    <3>2. slot \in 0..WindowSec - 1
      <4> HIDE DEF Types
      <4> QED
        BY <3>1
    <3> QED
      BY <3>2
  <2>3. /\ local' = [local EXCEPT ![t].mine = window[slot]]
        /\ past' = [past EXCEPT !.cleared = @ + window[slot]]
        /\ pc' = [pc EXCEPT ![t] = "load"]
    BY <1>9 DEF ClearSlot
  <2>6. UNCHANGED <<baseType, clock, total, sampled, rate, lastUpdate, history>>
    BY <1>9 DEF ClearSlot
  <2> HIDE DEF slot
  <2>4. local' \in [Threads -> Locals]
    BY <1>l, <2>2, <2>3, LocalsClosed
  <2>5. past' \in [cleared : Nat, adjusted : [0..MaxSec -> Nat], setBack : Nat]
    BY <2>2, <2>3, PastClosed
  <2> QED
    BY <2>1, <2>3, <2>4, <2>5, <2>6
<1>10. CASE LoadRate(t)
  <2>1. rate \in 0..Full
    BY DEF Samplers
  <2>2. local' \in [Threads -> Locals]
    BY <1>l, <1>10, <2>1, LocalsClosed DEF LoadRate
  <2> QED
    BY <1>10, <2>2 DEF LoadRate
<1>11. CASE StoreRate(t)
  <2>1. local[t].rate \in 1..Full /\ local[t].sum \in Nat
    BY <1>l, <1>11, LocalFields DEF StoreRate, LocalAt
  <2>2. rate' \in 1..Full
    BY <1>11, <2>1, NewRatesLevels DEF StoreRate
  <2> QED
    BY <1>11, <2>2 DEF StoreRate
<1>12. CASE DecideAdaptive(t)
  <2> DEFINE yes(y) == local' = [local EXCEPT ![t].yes = y]
  <2>y. PICK draw \in 0..Full : yes(Chosen(draw, rate))
    BY <1>12 DEF DecideAdaptive
  <2>b. Chosen(draw, rate) \in BOOLEAN
    BY DEF Chosen
  <2>1. local' \in [Threads -> Locals]
    BY <1>l, <2>y, <2>b, LocalsClosed
  <2> QED
    BY <1>12, <2>1 DEF DecideAdaptive
<1>13. CASE CountAdaptive(t)
  <2>1. total' \in [Samplers -> Nat]
    <3>1. total' = [total EXCEPT !["base"] = @ + 1] /\ "base" \in Samplers
      BY <1>13 DEF CountAdaptive, Samplers
    <3> QED
      BY <3>1, OneCounted
  <2> QED
    BY <1>13, <2>1 DEF CountAdaptive
<1>14. CASE KeepAdaptive(t)
  <2>1. clock % WindowSec \in 0..WindowSec
    OBVIOUS
  <2>2. local' \in [Threads -> Locals]
    BY <1>l, <1>14, <2>1, LocalsClosed DEF KeepAdaptive
  <2>s. sampled' = [sampled EXCEPT !["base"] = @ + 1]
    BY <1>14 DEF KeepAdaptive
  <2>3. sampled' \in [Samplers -> Nat]
    <3>1. "base" \in Samplers
      BY DEF Samplers
    <3> QED
      BY <2>s, <3>1, OneCounted
  <2> QED
    BY <1>14, <2>2, <2>3 DEF KeepAdaptive
<1>15. CASE CountInWindow(t)
  <2>1. local[t].slot \in 0..WindowSec - 1
    BY <1>l, <1>15, LocalFields DEF CountInWindow, LocalAt
  <2>2. window' \in [0..WindowSec - 1 -> Nat]
    BY <1>15, <2>1 DEF CountInWindow
  <2> QED
    BY <1>15, <2>2 DEF CountInWindow
<1>16. CASE GetStats(t)
  <2>1. local' \in [Threads -> Locals]
    <3>1. local' = [local EXCEPT ![t].before = taken]
      BY <1>16 DEF GetStats
    <3> QED
      BY <1>l, <3>1, LocalsClosed
  <2>2. calls' \in [Threads -> 0..MaxCalls]
    <3>1. calls' = [calls EXCEPT ![t] = @ + 1] /\ calls[t] < MaxCalls
      BY <1>16 DEF GetStats, Begin
    <3>2. calls[t] + 1 \in 0..MaxCalls
      BY <1>l, <3>1
    <3> QED
      BY <3>1, <3>2
  <2>3. pc' = [pc EXCEPT ![t] = "total"] /\ UNCHANGED <<shared, taken, kept, stats>>
    BY <1>16 DEF GetStats
  <2> QED
    BY <2>1, <2>2, <2>3
<1>17. CASE StatsTotal(t)
  <2>1. total["base"] \in Nat
    BY DEF Samplers
  <2>2. local' \in [Threads -> Locals]
    BY <1>l, <1>17, <2>1, LocalsClosed DEF StatsTotal, Samplers
  <2> QED
    BY <1>17, <2>2 DEF StatsTotal
<1>18. CASE StatsSampled(t)
  <2>1. [total |-> local[t].read, sampled |-> sampled["base"],
         before |-> local[t].before, after |-> total["base"]] \in StatsRecords
    BY <1>l, LocalFields DEF StatsRecords, Samplers
  <2>2. local' \in [Threads -> Locals]
    BY <1>18, NoValues DEF StatsSampled
  <2> QED
    BY <1>18, <2>1, <2>2 DEF StatsSampled
<1> QED
  BY <1>1, <1>2, <1>3, <1>4, <1>5, <1>6, <1>7, <1>8, <1>9, <1>10, <1>11,
     <1>12, <1>13, <1>14, <1>15, <1>16, <1>17, <1>18 DEF Step

\* A step of a thread leaves in its local variables what its next one needs.
LEMMA StepLocal ==
  ASSUME Types, NEW t \in Threads, LocalAt(t), Step(t)
  PROVE  LocalAt(t)'
<1> USE SamplerConstants DEF LocalAt, AdaptiveSteps, Goto, shared, history
<1>l. /\ local \in [Threads -> Locals] /\ local[t] \in Locals
      /\ pc \in [Threads -> Labels] /\ pc[t] \in Labels
  BY DEF Types
<1>t. /\ clock \in Nat /\ lastUpdate \in 0..clock /\ rate \in 1..Full
      /\ baseType \in {"probability", "adaptive"}
  BY DEF Types
<1>f. /\ local[t].now \in Nat /\ local[t].last \in Nat /\ local[t].sum \in Nat
      /\ local[t].slot \in 0..WindowSec /\ local[t].yes \in BOOLEAN
      /\ local[t].sampler \in Samplers
  BY <1>l, LocalFields
<1>1. CASE ShouldSample(t)
  <2>1. PICK s \in Asked :
           /\ local' = [local EXCEPT ![t].sampler = s]
           /\ pc' = [pc EXCEPT ![t] = IF s = "base" /\ baseType = "adaptive"
                                      THEN "clock" ELSE "prob"]
    BY <1>1 DEF ShouldSample
  <2>2. /\ local'[t].sampler = s /\ local'[t].now = local[t].now
        /\ local'[t].last = local[t].last
        /\ local'[t].sum = local[t].sum /\ local'[t].slot = local[t].slot
    BY <1>l, <2>1 DEF Locals
  <2>3. \/ /\ pc'[t] = "prob"
           /\ s = "override" \/ baseType = "probability"
        \/ pc'[t] = "clock" /\ s = "base" /\ baseType = "adaptive"
    BY <1>l, <1>t, <2>1 DEF Samplers
  <2>4. pc[t] = "idle" /\ clock' = clock /\ baseType' = baseType
    BY <1>1 DEF ShouldSample, Begin
  <2> QED
    BY <2>2, <2>3, <2>4
<1>2. CASE ProbCount(t)
  BY <1>l, <1>t, <1>f, <1>2 DEF ProbCount, Locals
<1>3. CASE ProbKeep(t)
  BY <1>l, <1>t, <1>f, <1>3 DEF ProbKeep, Locals
<1>4. CASE ReturnDecision(t)
  BY <1>l, <1>t, <1>f, <1>4 DEF ReturnDecision, Return, NoLocal, Locals
<1>5. CASE ReadClock(t)
  BY <1>l, <1>t, <1>f, <1>5 DEF ReadClock, Locals
<1>6. CASE LoadLast(t)
  BY <1>l, <1>t, <1>f, <1>6 DEF LoadLast, Locals
<1>7. CASE CasLast(t)
  BY <1>l, <1>t, <1>f, <1>7 DEF CasLast, SetLast, Locals
<1>8. CASE SumWindow(t)
  BY <1>l, <1>t, <1>f, <1>8 DEF SumWindow, Locals
<1>9. CASE ClearSlot(t)
  BY <1>l, <1>t, <1>f, <1>9 DEF ClearSlot, Locals
<1>10. CASE LoadRate(t)
  BY <1>l, <1>t, <1>f, <1>10 DEF LoadRate, Locals
<1>11. CASE StoreRate(t)
  BY <1>l, <1>t, <1>f, <1>11 DEF StoreRate, Locals
<1>12. CASE DecideAdaptive(t)
  BY <1>l, <1>t, <1>f, <1>12 DEF DecideAdaptive, Locals
<1>13. CASE CountAdaptive(t)
  BY <1>l, <1>t, <1>f, <1>13 DEF CountAdaptive, Locals
<1>14. CASE KeepAdaptive(t)
  BY <1>l, <1>t, <1>f, <1>14 DEF KeepAdaptive, Locals
<1>15. CASE CountInWindow(t)
  BY <1>l, <1>t, <1>f, <1>15 DEF CountInWindow, Locals
<1>16. CASE GetStats(t)
  BY <1>l, <1>t, <1>f, <1>16 DEF GetStats, Locals
<1>17. CASE StatsTotal(t)
  BY <1>l, <1>t, <1>f, <1>17 DEF StatsTotal, Locals
<1>18. CASE StatsSampled(t)
  BY <1>l, <1>t, <1>f, <1>18 DEF StatsSampled, NoLocal, Locals
<1> QED
  BY <1>1, <1>2, <1>3, <1>4, <1>5, <1>6, <1>7, <1>8, <1>9, <1>10, <1>11,
     <1>12, <1>13, <1>14, <1>15, <1>16, <1>17, <1>18 DEF Step

-----------------------------------------------------------------------------
(* Decisions and calls. *)

\* A step of a thread moves only that thread into and out of the sets of
\* threads that the invariant counts.
LEMMA StepMoves ==
  ASSUME Types, NEW t \in Threads, Step(t)
  PROVE  /\ \A s \in Samplers : /\ Moves(t, Counted(s), Counted(s)')
                                /\ Moves(t, Chose(s), Chose(s)')
         /\ Moves(t, Pending, Pending') /\ Moves(t, Deciders, Deciders')
<1>1. ASSUME NEW u \in Threads \ {t}
      PROVE  pc'[u] = pc[u] /\ local'[u] = local[u]
  BY StepFrame
<1>2. ASSUME NEW s \in Samplers PROVE Moves(t, Counted(s), Counted(s)')
  <2>1. /\ Counted(s) \in SUBSET Threads /\ Counted(s)' \in SUBSET Threads
        /\ \A u \in Threads \ {t} : u \in Counted(s)' <=> u \in Counted(s)
    BY <1>1 DEF Counted
  <2> QED
    BY <2>1, OneMoves
<1>3. ASSUME NEW s \in Samplers PROVE Moves(t, Chose(s), Chose(s)')
  <2>1. /\ Chose(s) \in SUBSET Threads /\ Chose(s)' \in SUBSET Threads
        /\ \A u \in Threads \ {t} : u \in Chose(s)' <=> u \in Chose(s)
    BY <1>1 DEF Chose
  <2> QED
    BY <2>1, OneMoves
<1>4. Moves(t, Pending, Pending')
  <2>1. /\ Pending \in SUBSET Threads /\ Pending' \in SUBSET Threads
        /\ \A u \in Threads \ {t} : u \in Pending' <=> u \in Pending
    BY <1>1 DEF Pending
  <2> QED
    BY <2>1, OneMoves
<1>5. Moves(t, Deciders, Deciders')
  <2>1. /\ Deciders \in SUBSET Threads /\ Deciders' \in SUBSET Threads
        /\ \A u \in Threads \ {t} : u \in Deciders' <=> u \in Deciders
    BY <1>1 DEF Deciders, Deciding
  <2> QED
    BY <2>1, OneMoves
<1> QED
  BY <1>2, <1>3, <1>4, <1>5

\* Steps that count no decision and return none.
Elsewhere(t) ==
    \/ ShouldSample(t) \/ ReadClock(t) \/ LoadLast(t) \/ CasLast(t)
    \/ SumWindow(t) \/ ClearSlot(t) \/ LoadRate(t) \/ StoreRate(t)
    \/ DecideAdaptive(t) \/ GetStats(t) \/ StatsTotal(t) \/ StatsSampled(t)

\* What a decision changes.
Decided == <<total, sampled, taken, kept>>

\* Such a step changes neither the decisions nor who is about to count one.
LEMMA ElsewhereFrame ==
  ASSUME Types, NEW t \in Threads, Elsewhere(t)
  PROVE  /\ UNCHANGED Decided
         /\ pc[t] \notin {"keep", "slot", "window", "return"}
         /\ pc'[t] \notin {"keep", "slot", "window", "return"}
<1> USE DEF Decided, Goto, shared, history
<1>l. pc \in [Threads -> Labels]
  BY DEF Types
<1>1. CASE ShouldSample(t)
  <2>1. pc'[t] \in {"clock", "prob"}
    BY <1>l, <1>1 DEF ShouldSample
  <2> QED
    BY <1>1, <2>1 DEF ShouldSample, Begin
<1>2. CASE ReadClock(t) \/ LoadLast(t) \/ CasLast(t) \/ SumWindow(t)
  BY <1>l, <1>2 DEF ReadClock, LoadLast, CasLast, SetLast, SumWindow
<1>3. CASE ClearSlot(t) \/ LoadRate(t) \/ StoreRate(t) \/ DecideAdaptive(t)
  BY <1>l, <1>3 DEF ClearSlot, LoadRate, StoreRate, DecideAdaptive
<1>4. CASE GetStats(t) \/ StatsTotal(t) \/ StatsSampled(t)
  BY <1>l, <1>4 DEF GetStats, Begin, StatsTotal, StatsSampled
<1> QED
  BY <1>1, <1>2, <1>3, <1>4 DEF Elsewhere

\* A step of a thread keeps the accounts of the decisions.
LEMMA StepDecisions ==
  ASSUME Types, NEW t \in Threads, LocalAt(t), DecisionsCounted, Step(t)
  PROVE  DecisionsCounted'
<1> DEFINE at == local[t].sampler
<1>l. /\ local \in [Threads -> Locals] /\ local[t] \in Locals
      /\ pc \in [Threads -> Labels] /\ pc[t] \in Labels
  BY DEF Types
<1>f. at \in Samplers /\ local[t].yes \in BOOLEAN
  BY <1>l, LocalFields
<1>t. /\ total \in [Samplers -> Nat] /\ sampled \in [Samplers -> Nat]
      /\ taken \in [Samplers -> Nat] /\ kept \in [Samplers -> Nat]
  BY DEF Types
<1> SUFFICES ASSUME NEW s \in Samplers
             PROVE  /\ total'[s] = taken'[s] + Cardinality(Counted(s)')
                    /\ sampled'[s] = kept'[s] + Cardinality(Chose(s)')
                    /\ kept'[s] <= taken'[s]
  BY DEF DecisionsCounted
<1>d. /\ total[s] = taken[s] + Cardinality(Counted(s))
      /\ sampled[s] = kept[s] + Cardinality(Chose(s)) /\ kept[s] <= taken[s]
  BY DEF DecisionsCounted
<1>n. /\ total[s] \in Nat /\ sampled[s] \in Nat
      /\ taken[s] \in Nat /\ kept[s] \in Nat
  BY <1>t
<1>m. Moves(t, Counted(s), Counted(s)') /\ Moves(t, Chose(s), Chose(s)')
  BY StepMoves
<1>1. CASE ProbCount(t)
  <2>1. /\ total' = [total EXCEPT ![at] = @ + 1]
        /\ sampled' = sampled /\ taken' = taken /\ kept' = kept
    BY <1>1 DEF ProbCount, history
  <2>2. /\ pc[t] = "prob" /\ local'[t].sampler = at
        /\ \/ pc'[t] = "keep"
           \/ pc'[t] = "return" /\ ~local'[t].yes
    BY <1>l, <1>1 DEF ProbCount, Goto, Locals
  <2>3. /\ t \notin Counted(s) /\ t \notin Chose(s) /\ t \notin Chose(s)'
        /\ t \in Counted(s)' <=> s = at
    BY <2>2 DEF Counted, Chose
  <2> QED
    BY <1>t, <1>d, <1>n, <1>m, <1>f, <2>1, <2>3 DEF Moves
<1>2. CASE ProbKeep(t)
  <2>1. /\ sampled' = [sampled EXCEPT ![at] = @ + 1]
        /\ total' = total /\ taken' = taken /\ kept' = kept
    BY <1>2 DEF ProbKeep, history
  <2>2. pc[t] = "keep" /\ pc'[t] = "return" /\ local' = local /\ local[t].yes
    BY <1>l, <1>2 DEF ProbKeep, Goto, LocalAt
  <2>3. /\ t \in Counted(s)' <=> t \in Counted(s)
        /\ t \notin Chose(s) /\ (t \in Chose(s)' <=> s = at)
    BY <2>2 DEF Counted, Chose
  <2> QED
    BY <1>t, <1>d, <1>n, <1>m, <1>f, <2>1, <2>3 DEF Moves
<1>3. CASE ReturnDecision(t)
  <2>1. /\ taken' = [taken EXCEPT ![at] = @ + 1]
        /\ kept' = [kept EXCEPT ![at] = IF local[t].yes THEN @ + 1 ELSE @]
        /\ total' = total /\ sampled' = sampled
    BY <1>3 DEF ReturnDecision, Return, shared
  <2>2. pc[t] = "return" /\ pc'[t] = "idle"
    BY <1>l, <1>3 DEF ReturnDecision, Return, Goto
  <2>3. /\ t \notin Counted(s)' /\ (t \in Counted(s) <=> s = at)
        /\ t \notin Chose(s)' /\ (t \in Chose(s) <=> s = at /\ local[t].yes)
    BY <2>2 DEF Counted, Chose
  <2>4. taken'[s] = IF s = at THEN taken[s] + 1 ELSE taken[s]
    BY <1>t, <1>f, <2>1
  <2>5. kept'[s] = IF s = at /\ local[t].yes THEN kept[s] + 1 ELSE kept[s]
    BY <1>t, <1>f, <2>1
  <2>6. (s = at /\ local[t].yes) \/ (s = at /\ ~local[t].yes) \/ s # at
    BY <1>f
  <2>7. total'[s] = taken'[s] + Cardinality(Counted(s)')
    BY <1>d, <1>n, <1>m, <2>1, <2>3, <2>4 DEF Moves
  <2>8. sampled'[s] = kept'[s] + Cardinality(Chose(s)')
    BY <1>d, <1>n, <1>m, <2>1, <2>3, <2>5, <2>6 DEF Moves
  <2>9. kept'[s] <= taken'[s]
    BY <1>d, <1>n, <2>4, <2>5, <2>6
  <2> QED
    BY <2>7, <2>8, <2>9
<1>4. CASE CountAdaptive(t)
  <2>1. /\ total' = [total EXCEPT !["base"] = @ + 1]
        /\ sampled' = sampled /\ taken' = taken /\ kept' = kept
    BY <1>4 DEF CountAdaptive, history
  <2>2. /\ pc[t] = "count" /\ local' = local /\ at = "base"
        /\ \/ pc'[t] = "slot"
           \/ pc'[t] = "return" /\ ~local[t].yes
    BY <1>l, <1>4 DEF CountAdaptive, Goto, LocalAt, AdaptiveSteps
  <2>3. /\ t \notin Counted(s) /\ t \notin Chose(s) /\ t \notin Chose(s)'
        /\ t \in Counted(s)' <=> s = "base"
    BY <2>2 DEF Counted, Chose
  <2> QED
    BY <1>t, <1>d, <1>n, <1>m, <2>1, <2>3 DEF Moves
<1>5. CASE KeepAdaptive(t)
  <2>1. /\ sampled' = [sampled EXCEPT !["base"] = @ + 1]
        /\ total' = total /\ taken' = taken /\ kept' = kept
    BY <1>5 DEF KeepAdaptive, history
  <2>2. /\ pc[t] = "slot" /\ pc'[t] = "window" /\ at = "base" /\ local[t].yes
        /\ local'[t].sampler = at /\ local'[t].yes = local[t].yes
    BY <1>l, <1>5 DEF KeepAdaptive, Goto, LocalAt, AdaptiveSteps, Locals
  <2>3. /\ t \in Counted(s)' <=> t \in Counted(s)
        /\ t \notin Chose(s) /\ (t \in Chose(s)' <=> s = "base")
    BY <2>2 DEF Counted, Chose
  <2> QED
    BY <1>t, <1>d, <1>n, <1>m, <2>1, <2>3 DEF Moves
<1>6. CASE CountInWindow(t)
  <2>1. total' = total /\ sampled' = sampled /\ taken' = taken /\ kept' = kept
    BY <1>6 DEF CountInWindow, history
  <2>2. pc[t] = "window" /\ pc'[t] = "return" /\ local' = local
    BY <1>l, <1>6 DEF CountInWindow, Goto
  <2>3. /\ t \in Counted(s)' <=> t \in Counted(s)
        /\ t \in Chose(s)' <=> t \in Chose(s)
    BY <2>2 DEF Counted, Chose
  <2> QED
    BY <1>d, <1>m, <2>1, <2>3 DEF Moves
<1>7. CASE Elsewhere(t)
  <2>1. /\ total' = total /\ sampled' = sampled /\ taken' = taken /\ kept' = kept
        /\ t \notin Counted(s) /\ t \notin Chose(s)
        /\ t \notin Counted(s)' /\ t \notin Chose(s)'
    BY <1>7, ElsewhereFrame DEF Decided, Counted, Chose
  <2> QED
    BY <1>d, <1>m, <2>1 DEF Moves
<1> QED
  BY <1>1, <1>2, <1>3, <1>4, <1>5, <1>6, <1>7 DEF Step, Elsewhere

\* A step of a thread keeps the accounts of the calls.
LEMMA StepCalls ==
  ASSUME Types, NEW t \in Threads, LocalAt(t), CallsBounded, Step(t)
  PROVE  CallsBounded'
<1>l. /\ local[t].sampler \in Samplers
      /\ pc \in [Threads -> Labels] /\ pc[t] \in Labels
      /\ taken \in [Samplers -> Nat]
      /\ calls \in [Threads -> Nat]
  <2>1. local[t] \in Locals
    BY DEF Types
  <2> QED
    BY <2>1, SamplerConstants, LocalFields DEF Types
<1>n. /\ taken["base"] \in Nat /\ taken["override"] \in Nat
      /\ Cardinality(Units(Threads, calls)) \in Nat
  BY <1>l, SamplerConstants, UnitsFinite DEF Samplers
<1>c. taken["base"] + taken["override"] + Cardinality(Deciders)
        <= Cardinality(Units(Threads, calls))
  BY DEF CallsBounded
<1>m. Moves(t, Deciders, Deciders')
  BY StepMoves
<1>1. ASSUME Begin(t)
      PROVE  Cardinality(Units(Threads, calls'))
                = Cardinality(Units(Threads, calls)) + 1
  <2>1. /\ calls' \in [Threads -> Nat] /\ calls'[t] = calls[t] + 1
        /\ \A u \in Threads \ {t} : calls'[u] = calls[u]
    BY <1>l, <1>1 DEF Begin
  <2>2. Cardinality(Units(Threads, calls'))
           = Cardinality(Units(Threads, calls)) + IF t \in Threads THEN 1 ELSE 0
    BY <1>l, <2>1, SamplerConstants, UnitsOneMore
  <2> QED
    BY <2>2
<1>2. CASE ShouldSample(t)
  <2>1. Begin(t) /\ taken' = taken
    BY <1>2 DEF ShouldSample
  <2>2. t \in Deciders' /\ t \notin Deciders
    <3>1. pc[t] = "idle" /\ pc'[t] \in {"clock", "prob"}
      BY <1>l, <1>2 DEF ShouldSample, Begin, Goto
    <3> QED
      BY <3>1 DEF Deciders, Deciding
  <2> QED
    BY <1>n, <1>c, <1>m, <1>1, <2>1, <2>2 DEF Moves, CallsBounded
<1>3. CASE GetStats(t)
  <2>1. Begin(t) /\ taken' = taken
    BY <1>3 DEF GetStats
  <2>2. t \notin Deciders' /\ t \notin Deciders
    <3>1. pc[t] = "idle" /\ pc'[t] = "total"
      BY <1>l, <1>3 DEF GetStats, Begin, Goto
    <3> QED
      BY <3>1 DEF Deciders, Deciding
  <2> QED
    BY <1>n, <1>c, <1>m, <1>1, <2>1, <2>2 DEF Moves, CallsBounded
<1>4. CASE ReturnDecision(t)
  <2>1. /\ taken' = [taken EXCEPT ![local[t].sampler] = @ + 1]
        /\ calls' = calls
    BY <1>4 DEF ReturnDecision, Return
  <2>2. taken'["base"] + taken'["override"] = taken["base"] + taken["override"] + 1
    BY <1>l, <1>n, <2>1 DEF Samplers
  <2>3. t \notin Deciders' /\ t \in Deciders
    <3>1. pc[t] = "return" /\ pc'[t] = "idle"
      BY <1>l, <1>4 DEF ReturnDecision, Return, Goto
    <3> QED
      BY <3>1 DEF Deciders, Deciding
  <2> QED
    BY <1>n, <1>c, <1>m, <2>1, <2>2, <2>3 DEF Moves, CallsBounded
<1>5. ASSUME ~ShouldSample(t), ~GetStats(t), ~ReturnDecision(t)
      PROVE  /\ taken' = taken /\ calls' = calls
             /\ t \in Deciders' <=> t \in Deciders
  <2> USE <1>l DEF Goto, shared, history, Deciders, Deciding
  <2>1. CASE ProbCount(t) \/ ProbKeep(t) \/ ReadClock(t) \/ LoadLast(t)
               \/ CasLast(t)
    BY <2>1 DEF ProbCount, ProbKeep, ReadClock, LoadLast, CasLast, SetLast
  <2>2. CASE SumWindow(t) \/ ClearSlot(t) \/ LoadRate(t) \/ StoreRate(t)
               \/ DecideAdaptive(t)
    BY <2>2 DEF SumWindow, ClearSlot, LoadRate, StoreRate, DecideAdaptive
  <2>3. CASE CountAdaptive(t) \/ KeepAdaptive(t) \/ CountInWindow(t)
    BY <2>3 DEF CountAdaptive, KeepAdaptive, CountInWindow
  <2>4. CASE StatsTotal(t) \/ StatsSampled(t)
    BY <2>4 DEF StatsTotal, StatsSampled
  <2> QED
    BY <1>5, <2>1, <2>2, <2>3, <2>4 DEF Step
<1>6. ASSUME ~ShouldSample(t), ~GetStats(t), ~ReturnDecision(t)
      PROVE  CallsBounded'
  BY <1>c, <1>m, <1>5, <1>6 DEF Moves, CallsBounded
<1> QED
  BY <1>2, <1>3, <1>4, <1>6

-----------------------------------------------------------------------------
(* The window. *)

\* Steps that touch neither the window, its sum, nor the decisions sampled.
WindowLeft(t) ==
    \/ ShouldSample(t) \/ ProbCount(t) \/ ReturnDecision(t) \/ ReadClock(t)
    \/ LoadLast(t) \/ LoadRate(t) \/ StoreRate(t) \/ DecideAdaptive(t)
    \/ CountAdaptive(t) \/ GetStats(t) \/ StatsTotal(t) \/ StatsSampled(t)

\* Such a step leaves the window alone; a sum that is stored was computed before.
LEMMA WindowLeftFrame ==
  ASSUME Types, NEW t \in Threads, WindowLeft(t)
  PROVE  /\ window' = window /\ sampled' = sampled /\ past' = past
         /\ pc[t] # "window" /\ pc'[t] # "window"
         /\ pc'[t] \notin {"sum", "clear", "load"}
         /\ pc'[t] = "store" =>
               /\ pc[t] = "load" /\ local'[t].sum = local[t].sum
               /\ local'[t].seen = local[t].seen /\ local'[t].gone = local[t].gone
               /\ local'[t].mine = local[t].mine
<1> USE DEF Goto, shared, history
<1>l. /\ local \in [Threads -> Locals] /\ local[t] \in Locals
      /\ pc \in [Threads -> Labels]
  BY DEF Types
<1>1. CASE ShouldSample(t)
  <2>1. pc'[t] \in {"clock", "prob"}
    BY <1>l, <1>1 DEF ShouldSample
  <2> QED
    BY <1>1, <2>1 DEF ShouldSample, Begin
<1>2. CASE ProbCount(t)
  <2>1. pc'[t] \in {"keep", "return"}
    BY <1>l, <1>2 DEF ProbCount
  <2> QED
    BY <1>2, <2>1 DEF ProbCount
<1>3. CASE ReturnDecision(t) \/ ReadClock(t) \/ LoadLast(t)
  BY <1>l, <1>3 DEF ReturnDecision, Return, ReadClock, LoadLast
<1>4. CASE LoadRate(t)
  <2>1. /\ local'[t].sum = local[t].sum /\ local'[t].seen = local[t].seen
        /\ local'[t].gone = local[t].gone /\ local'[t].mine = local[t].mine
    BY <1>l, <1>4 DEF LoadRate, Locals
  <2> QED
    BY <1>l, <1>4, <2>1 DEF LoadRate
<1>5. CASE StoreRate(t) \/ DecideAdaptive(t)
  BY <1>l, <1>5 DEF StoreRate, DecideAdaptive
<1>6. CASE CountAdaptive(t)
  <2>1. pc'[t] \in {"slot", "return"}
    BY <1>l, <1>6 DEF CountAdaptive
  <2> QED
    BY <1>6, <2>1 DEF CountAdaptive
<1>7. CASE GetStats(t) \/ StatsTotal(t) \/ StatsSampled(t)
  BY <1>l, <1>7 DEF GetStats, Begin, StatsTotal, StatsSampled
<1> QED
  BY <1>1, <1>2, <1>3, <1>4, <1>5, <1>6, <1>7 DEF WindowLeft

\* A step of a thread keeps the accounts of the window and of its sums.
LEMMA StepWindow ==
  ASSUME Types, NEW t \in Threads, LocalAt(t), WindowBehind, Step(t)
  PROVE  WindowBehind'
<1> DEFINE W == 0..WindowSec - 1
           late(u) == Cardinality(Ahead(u))
           late1(u) == Cardinality(Ahead(u)')
           P == Cardinality(Pending)
           P1 == Cardinality(Pending')
           Q == sampled["base"]
           Q1 == sampled'["base"]
<1>w. /\ IsFiniteSet(W) /\ InWindow \in Nat
      /\ \A u \in Threads :
            /\ local[u].slot \in 0..WindowSec /\ local[u].sum \in Nat
            /\ local[u].slot..WindowSec - 1 \in SUBSET W
            /\ late(u) \in Nat
  BY WindowUnits
<1>t. /\ window \in [W -> Nat] /\ Q \in Nat
      /\ pc \in [Threads -> Labels] /\ local \in [Threads -> Locals]
      /\ sampled \in [Samplers -> Nat] /\ past.cleared \in Nat
  BY DEF Types, Samplers
<1>p. Types'
  BY StepTypes
<1>v. /\ InWindow' \in Nat /\ Q1 \in Nat /\ past'.cleared \in Nat
      /\ local' \in [Threads -> Locals] /\ window' \in [W -> Nat]
      /\ \A u \in Threads : late1(u) \in Nat
  <2>1. /\ window' \in [W -> Nat] /\ Q1 \in Nat
        /\ local' \in [Threads -> Locals] /\ past'.cleared \in Nat
    BY <1>p DEF Types, Samplers
  <2>2. ASSUME NEW u \in Threads
        PROVE  local'[u].slot..WindowSec - 1 \in SUBSET W
    <3>1. local'[u].slot \in 0..WindowSec
      BY <2>1, LocalFields
    <3> QED
      BY <3>1, SamplerConstants
  <2>3. InWindow' \in Nat /\ \A u \in Threads : late1(u) \in Nat
    <3>1. InWindow' = Cardinality(Units(W, window'))
      BY DEF InWindow
    <3>2. \A u \in Threads :
             Ahead(u)' = Units(local'[u].slot..WindowSec - 1, window')
      BY DEF Ahead
    <3> HIDE DEF W
    <3> QED
      BY <1>w, <2>1, <2>2, <3>1, <3>2, UnitsFinite
  <2> QED
    BY <2>1, <2>3
<1>m. Moves(t, Pending, Pending')
  BY StepMoves
<1>n. P \in Nat /\ P1 \in Nat
  BY <1>m DEF Moves
<1>l. ASSUME NEW u \in Threads
      PROVE  /\ local[u].sum \in Nat /\ local[u].seen \in Nat
             /\ local[u].gone \in Nat /\ local[u].mine \in Nat
  BY <1>t, LocalFields
<1>b. /\ InWindow + P + past.cleared <= Q
      /\ baseType = "adaptive" => Q = InWindow + P + past.cleared
      /\ \A u \in Threads : SumBehind(u)
  BY DEF WindowBehind
<1>a. baseType' = baseType
  BY StepMonotone DEF Next
<1>u. ASSUME NEW u \in Threads, u # t
      PROVE  pc'[u] = pc[u] /\ local'[u] = local[u]
  BY <1>u, StepFrame
<1>s. \A u \in Threads :
         local'[u].slot = local[u].slot /\ window' = window => late1(u) = late(u)
  BY DEF Ahead
<1>0. window' = window => InWindow' = InWindow
  BY DEF InWindow
<1> HIDE DEF late, late1, P, P1, Q, Q1
\* The sums of other threads, if what is ahead of them loses no more than is
\* cleared, and gains no more than was pending or is sampled.
<1>o. ASSUME past.cleared <= past'.cleared, Q <= Q1,
             \A u \in Threads \ {t} : /\ late1(u) + P1 + Q <= late(u) + P + Q1
                                      /\ late(u) + past.cleared
                                            <= late1(u) + past'.cleared,
             NEW u \in Threads, u # t
      PROVE  SumBehind(u)'
  <2> DEFINE s == local[u].sum
             e == local[u].seen
             g == local[u].gone
             m == local[u].mine
             a == late(u)
             a1 == late1(u)
             c == past.cleared
             c1 == past'.cleared
             Held(x, y, z, w) ==
                /\ pc[u] = "sum" => s + x + g + y <= z /\ e + g <= s + x + w
                /\ pc[u] \in {"clear", "load", "store"} => s + g <= z
                /\ pc[u] = "clear" => e + g <= s + w
                /\ pc[u] \in {"load", "store"} => e + g + m <= s + w
  <2>1. Held(a, P, Q, c)
    BY <1>b DEF SumBehind, late, P, Q
  <2>2. a1 + P1 + Q <= a + P + Q1 /\ a + c <= a1 + c1 /\ c <= c1 /\ Q <= Q1
    BY <1>o
  <2>3. /\ s \in Nat /\ e \in Nat /\ g \in Nat /\ m \in Nat
        /\ a \in Nat /\ a1 \in Nat /\ c \in Nat /\ c1 \in Nat
        /\ P \in Nat /\ P1 \in Nat /\ Q \in Nat /\ Q1 \in Nat
    BY <1>l, <1>n, <1>t, <1>v, <1>w
  <2>4. local'[u] = local[u] /\ pc'[u] = pc[u]
    BY <1>o, <1>u
  <2> HIDE DEF s, e, g, m, a, a1, c, c1
  <2>5. Held(a1, P1, Q1, c1)
    BY <2>1, <2>2, <2>3
  <2> QED
    BY <2>4, <2>5 DEF SumBehind, late1, P1, Q1, s, e, g, m, a1, c1
<1>g. SUFFICES /\ InWindow' + P1 + past'.cleared <= Q1
               /\ baseType = "adaptive" => Q1 = InWindow' + P1 + past'.cleared
               /\ \A u \in Threads : SumBehind(u)'
  BY <1>a DEF WindowBehind, P1, Q1
\* The decisions' account is kept by steps that add up to nothing.
<1>e. ASSUME InWindow' + P1 + past'.cleared + Q
                = InWindow + P + past.cleared + Q1
      PROVE  /\ InWindow' + P1 + past'.cleared <= Q1
             /\ baseType = "adaptive" => Q1 = InWindow' + P1 + past'.cleared
  <2> DEFINE i == InWindow
             i1 == InWindow'
             c == past.cleared
             c1 == past'.cleared
  <2>1. /\ i \in Nat /\ i1 \in Nat /\ c \in Nat /\ c1 \in Nat
        /\ P \in Nat /\ P1 \in Nat /\ Q \in Nat /\ Q1 \in Nat
    BY <1>n, <1>t, <1>v, <1>w
  <2>2. i + P + c <= Q /\ (baseType = "adaptive" => Q = i + P + c)
    BY <1>b
  <2>3. i1 + P1 + c1 + Q = i + P + c + Q1
    BY <1>e
  <2> HIDE DEF i, i1, c, c1
  <2>4. i1 + P1 + c1 <= Q1 /\ (baseType = "adaptive" => Q1 = i1 + P1 + c1)
    BY <2>1, <2>2, <2>3
  <2> QED
    BY <2>4 DEF i1, c1
<1>1. CASE WindowLeft(t)
  <2>1. /\ window' = window /\ Q1 = Q /\ past' = past
        /\ pc'[t] \notin {"sum", "clear", "load"}
        /\ pc'[t] = "store" =>
              /\ pc[t] = "load" /\ local'[t].sum = local[t].sum
              /\ local'[t].seen = local[t].seen /\ local'[t].gone = local[t].gone
              /\ local'[t].mine = local[t].mine
    BY <1>1, WindowLeftFrame DEF Q, Q1
  <2>2. P1 = P
    BY <1>1, <1>m, WindowLeftFrame DEF Moves, Pending, P, P1
  <2>3. \A u \in Threads \ {t} : late1(u) = late(u)
    BY <1>s, <1>u, <2>1
  <2>4. SumBehind(t)'
    BY <1>b, <2>1 DEF SumBehind, Q, Q1
  <2>5. \A u \in Threads \ {t} : SumBehind(u)'
    BY <1>n, <1>o, <1>t, <1>w, <2>1, <2>2, <2>3
  <2> QED
    BY <1>e, <1>0, <2>1, <2>2, <2>4, <2>5
<1>2. CASE ProbKeep(t) \/ KeepAdaptive(t)
  <2>1. /\ window' = window /\ past' = past /\ pc'[t] \in {"return", "window"}
        /\ pc[t] \in {"keep", "slot"} /\ Q <= Q1
        /\ \/ pc'[t] = "window" /\ Q1 = Q + 1
           \/ pc'[t] = "return" /\ (baseType = "adaptive" => Q1 = Q)
    <3>1. CASE ProbKeep(t)
      <4>1. local[t].sampler \in Samplers
        BY <1>t, LocalFields
      <4>2. /\ window' = window /\ past' = past
            /\ pc[t] = "keep" /\ pc'[t] = "return"
            /\ sampled' = [sampled EXCEPT ![local[t].sampler] = @ + 1]
        BY <1>t, <3>1 DEF ProbKeep, Goto
      <4>3. local[t].sampler = "override" \/ baseType = "probability"
        BY <4>2 DEF LocalAt
      <4>4. Q1 = IF local[t].sampler = "base" THEN Q + 1 ELSE Q
        BY <1>t, <4>1, <4>2 DEF Samplers, Q, Q1
      <4> QED
        BY <1>t, <4>1, <4>2, <4>3, <4>4 DEF Samplers
    <3>2. CASE KeepAdaptive(t)
      BY <1>t, <3>2 DEF KeepAdaptive, Goto, Samplers, Q, Q1
    <3> QED
      BY <1>2, <3>1, <3>2
  <2>2. \/ P1 = P + 1 /\ Q1 = Q + 1
        \/ P1 = P /\ (baseType = "adaptive" => Q1 = Q)
    BY <1>m, <2>1 DEF Moves, Pending, P, P1
  <2>3. /\ InWindow' + P1 + past'.cleared <= Q1
        /\ baseType = "adaptive" => Q1 = InWindow' + P1 + past'.cleared
    <3> DEFINE i == InWindow
               c == past.cleared
    <3>1. InWindow' = i /\ past'.cleared = c
      BY <1>0, <2>1
    <3>2. i + P + c <= Q /\ (baseType = "adaptive" => Q = i + P + c)
      BY <1>b
    <3>3. /\ i \in Nat /\ c \in Nat /\ P \in Nat /\ P1 \in Nat
          /\ Q \in Nat /\ Q1 \in Nat
      BY <1>n, <1>t, <1>v, <1>w
    <3> HIDE DEF i, c
    <3>4. i + P1 + c <= Q1 /\ (baseType = "adaptive" => Q1 = i + P1 + c)
      BY <2>1, <2>2, <3>2, <3>3
    <3> QED
      BY <3>1, <3>4
  <2>4. \A u \in Threads \ {t} : late1(u) = late(u)
    BY <1>s, <1>u, <2>1
  <2>5. \A u \in Threads \ {t} : SumBehind(u)'
    <3>1. ASSUME NEW u \in Threads \ {t}
          PROVE  /\ late1(u) + P1 + Q <= late(u) + P + Q1
                 /\ late(u) + past.cleared <= late1(u) + past'.cleared
      <4>1. late(u) \in Nat /\ late1(u) = late(u)
        BY <1>w, <2>4
      <4> QED
        BY <1>n, <1>t, <1>v, <2>1, <2>2, <4>1
    <3> QED
      BY <1>o, <1>t, <2>1, <3>1
  <2>6. SumBehind(t)'
    BY <2>1 DEF SumBehind
  <2> QED
    BY <2>3, <2>5, <2>6
<1>3. CASE CountInWindow(t)
  <2>1. /\ local[t].slot \in W
        /\ window' = [window EXCEPT ![local[t].slot] = @ + 1]
        /\ Q1 = Q /\ local' = local /\ past' = past
        /\ pc[t] = "window" /\ pc'[t] = "return"
    <3>1. /\ window' = [window EXCEPT ![local[t].slot] = @ + 1]
          /\ sampled' = sampled /\ local' = local /\ past' = past
          /\ pc[t] = "window" /\ pc'[t] = "return"
      BY <1>t, <1>3 DEF CountInWindow, Goto
    <3>2. local[t].slot < WindowSec /\ local[t].slot \in 0..WindowSec
      BY <1>w, <3>1 DEF LocalAt
    <3>3. local[t].slot \in W
      BY <3>2, SamplerConstants
    <3> QED
      BY <3>1, <3>3 DEF Q, Q1
  <2>2. P1 = P - 1
    BY <1>m, <2>1 DEF Moves, Pending, P, P1
  <2>3. ASSUME NEW S \in SUBSET W
        PROVE  Cardinality(Units(S, window')) = Cardinality(Units(S, window))
                   + IF local[t].slot \in S THEN 1 ELSE 0
    <3>1. /\ window' \in [W -> Nat] /\ window'[local[t].slot] = window[local[t].slot] + 1
          /\ \A i \in W \ {local[t].slot} : window'[i] = window[i]
      BY <1>t, <1>v, <2>1
    <3>2. local[t].slot \in W
      BY <2>1
    <3> HIDE DEF W
    <3> QED
      BY <1>t, <1>w, <3>1, <3>2, UnitsOneMore
  <2>4. InWindow' = InWindow + 1
    BY <2>1, <2>3 DEF InWindow
  <2>5. ASSUME NEW u \in Threads
        PROVE  late1(u) \in late(u)..late(u) + 1
    <3>1. /\ late(u) = Cardinality(Units(local[u].slot..WindowSec - 1, window))
          /\ late1(u) = Cardinality(Units(local[u].slot..WindowSec - 1, window'))
      BY <2>1 DEF late, late1, Ahead
    <3>2. late1(u) = late(u)
             + IF local[t].slot \in local[u].slot..WindowSec - 1 THEN 1 ELSE 0
      <4> HIDE DEF W
      <4> QED
        BY <1>w, <2>3, <3>1
    <3>3. late(u) \in Nat
      BY <1>w
    <3> QED
      BY <3>2, <3>3
  <2>6. /\ InWindow' + P1 + past'.cleared <= Q1
        /\ baseType = "adaptive" => Q1 = InWindow' + P1 + past'.cleared
    BY <1>e, <1>n, <1>t, <1>w, <2>1, <2>2, <2>4
  <2>7. \A u \in Threads \ {t} : SumBehind(u)'
    <3>1. ASSUME NEW u \in Threads \ {t}
          PROVE  /\ late1(u) + P1 + Q <= late(u) + P + Q1
                 /\ late(u) + past.cleared <= late1(u) + past'.cleared
      <4> DEFINE a == late(u)
                 a1 == late1(u)
                 c == past.cleared
      <4>1. a \in Nat /\ a1 \in a..a + 1 /\ c \in Nat /\ P \in Nat /\ Q \in Nat
        BY <1>n, <1>t, <1>w, <2>5
      <4>2. Q1 = Q /\ P1 = P - 1 /\ past'.cleared = c
        BY <2>1, <2>2
      <4> HIDE DEF a, a1, c
      <4>3. a1 + (P - 1) + Q <= a + P + Q /\ a + c <= a1 + c
        BY <4>1
      <4> QED
        BY <4>2, <4>3 DEF a, a1, c
    <3> QED
      BY <1>o, <1>t, <2>1, <3>1
  <2>8. SumBehind(t)'
    BY <2>1 DEF SumBehind
  <2> QED
    BY <2>6, <2>7, <2>8
<1>4. CASE ClearSlot(t)
  <2> DEFINE k == local[t].now % WindowSec
  <2>1. /\ window' = [window EXCEPT ![k] = 0]
        /\ past'.cleared = past.cleared + window[k] /\ Q1 = Q
        /\ local'[t].sum = local[t].sum /\ local'[t].seen = local[t].seen
        /\ local'[t].gone = local[t].gone /\ local'[t].mine = window[k]
        /\ pc[t] = "clear" /\ pc'[t] = "load"
    BY <1>t, <1>4 DEF ClearSlot, Goto, Locals, Types, Q, Q1
  <2>2. k \in W /\ window[k] \in Nat
    <3>1. local[t].now \in Nat
      BY <1>t, LocalFields
    <3>2. k \in W
      BY <3>1, SamplerConstants
    <3> QED
      BY <1>t, <3>2
  <2> HIDE DEF k
  <2>3. P1 = P
    BY <1>m, <2>1 DEF Moves, Pending, P, P1
  <2>4. ASSUME NEW S \in SUBSET W
        PROVE  Cardinality(Units(S, window)) = Cardinality(Units(S, window'))
                   + IF k \in S THEN window[k] ELSE 0
    <3>1. /\ window' \in [W -> Nat] /\ window'[k] = 0
          /\ \A i \in W \ {k} : window'[i] = window[i]
      BY <1>t, <1>v, <2>1, <2>2
    <3> HIDE DEF W
    <3> QED
      BY <1>t, <1>w, <2>2, <3>1, UnitsCleared
  <2>5. InWindow = InWindow' + window[k]
    BY <2>2, <2>4 DEF InWindow
  <2>6. ASSUME NEW u \in Threads, u # t
        PROVE  late1(u) <= late(u) /\ late(u) <= late1(u) + window[k]
    <3>1. /\ late(u) = Cardinality(Units(local[u].slot..WindowSec - 1, window))
          /\ late1(u) = Cardinality(Units(local[u].slot..WindowSec - 1, window'))
      BY <1>u, <2>6 DEF late, late1, Ahead
    <3>2. late(u) = late1(u)
             + IF k \in local[u].slot..WindowSec - 1 THEN window[k] ELSE 0
      <4> HIDE DEF W
      <4> QED
        BY <1>w, <2>4, <3>1
    <3>3. late(u) \in Nat /\ late1(u) \in Nat
      BY <1>w, <1>v
    <3> QED
      BY <2>2, <3>2, <3>3
  <2>7. /\ InWindow' + P1 + past'.cleared <= Q1
        /\ baseType = "adaptive" => Q1 = InWindow' + P1 + past'.cleared
    BY <1>e, <1>n, <1>t, <1>v, <2>1, <2>2, <2>3, <2>5
  <2>8. \A u \in Threads \ {t} : SumBehind(u)'
    <3>1. ASSUME NEW u \in Threads \ {t}
          PROVE  /\ late1(u) + P1 + Q <= late(u) + P + Q1
                 /\ late(u) + past.cleared <= late1(u) + past'.cleared
      <4> DEFINE a == late(u)
                 a1 == late1(u)
                 c == past.cleared
                 x == window[k]
      <4>1. /\ a \in Nat /\ a1 \in Nat /\ a1 <= a /\ a <= a1 + x
            /\ c \in Nat /\ x \in Nat /\ P \in Nat /\ Q \in Nat
        BY <1>n, <1>t, <1>v, <1>w, <2>2, <2>6
      <4>2. Q1 = Q /\ P1 = P /\ past'.cleared = c + x
        BY <2>1, <2>3
      <4> HIDE DEF a, a1, c, x
      <4>3. a1 + P + Q <= a + P + Q /\ a + c <= a1 + (c + x)
        BY <4>1
      <4> QED
        BY <4>2, <4>3 DEF a, a1, c, x
    <3> QED
      BY <1>o, <1>t, <2>1, <2>2, <3>1
  <2>9. SumBehind(t)'
    <3>1. /\ local[t].sum + local[t].gone <= Q
          /\ local[t].seen + local[t].gone <= local[t].sum + past.cleared
      BY <1>b, <2>1 DEF SumBehind, Q
    <3>2. local[t].seen + local[t].gone + window[k]
             <= local[t].sum + (past.cleared + window[k])
      BY <1>l, <1>t, <2>2, <3>1
    <3> QED
      BY <2>1, <3>1, <3>2 DEF SumBehind, Q1
  <2> QED
    BY <2>7, <2>8, <2>9
<1>5. CASE SumWindow(t)
  <2> DEFINE i == local[t].slot
  <2>1. /\ i \in W /\ window' = window /\ Q1 = Q /\ past' = past
        /\ pc[t] = "sum"
        /\ \/ pc'[t] = "sum"
           \/ pc'[t] = "clear" /\ i + 1 = WindowSec
    <3>1. /\ window' = window /\ sampled' = sampled /\ past' = past /\ pc[t] = "sum"
          /\ \/ pc'[t] = "sum"
             \/ pc'[t] = "clear" /\ i + 1 = WindowSec
      BY <1>t, <1>5 DEF SumWindow, Goto, shared
    <3>2. i < WindowSec /\ i \in 0..WindowSec
      BY <1>w, <3>1 DEF LocalAt
    <3>3. i \in W
      BY <3>2, SamplerConstants
    <3> QED
      BY <3>1, <3>3 DEF Q, Q1
  <2>2. /\ local'[t].sum = local[t].sum + window[i] /\ local'[t].slot = i + 1
        /\ local'[t].seen = local[t].seen /\ local'[t].gone = local[t].gone
    BY <1>t, <1>5 DEF SumWindow, Locals
  <2>3. P1 = P
    BY <1>m, <2>1 DEF Moves, Pending, P, P1
  <2>4. late(t) = window[i] + late1(t)
    <3>1. /\ i..WindowSec - 1 \in SUBSET W /\ i \in i..WindowSec - 1
          /\ (i..WindowSec - 1) \ {i} = i + 1..WindowSec - 1
      BY <2>1, SamplerConstants
    <3>2. /\ late(t) = Cardinality(Units(i..WindowSec - 1, window))
          /\ late1(t) = Cardinality(Units(i + 1..WindowSec - 1, window))
      BY <2>1, <2>2 DEF late, late1, Ahead
    <3>3. Cardinality(Units(i..WindowSec - 1, window))
             = window[i] + Cardinality(Units((i..WindowSec - 1) \ {i}, window))
      <4> HIDE DEF i, W
      <4> QED
        BY <1>t, <1>w, <3>1, UnitsSplit
    <3> QED
      BY <3>1, <3>2, <3>3
  <2>5. pc'[t] = "clear" => late1(t) = 0
    <3> SUFFICES ASSUME i + 1 = WindowSec PROVE late1(t) = 0
      BY <2>1
    <3>1. i + 1..WindowSec - 1 = {}
      BY SamplerConstants
    <3>2. Units({}, window) = {}
      BY DEF Units
    <3> QED
      BY <2>1, <2>2, <3>1, <3>2, FS_EmptySet DEF late1, Ahead
  <2>6. SumBehind(t)'
    <3> DEFINE l == local[t]
    <3>1. /\ l.sum + late(t) + l.gone + P <= Q
          /\ l.seen + l.gone <= l.sum + late(t) + past.cleared
      BY <1>b, <2>1 DEF SumBehind, late, P, Q
    <3>2. /\ window[i] \in Nat /\ late(t) \in Nat /\ late1(t) \in Nat
          /\ l.sum \in Nat /\ l.seen \in Nat /\ l.gone \in Nat
      BY <1>l, <1>t, <1>v, <1>w, <2>1
    <3> DEFINE a == late(t)
               a1 == late1(t)
               c == past.cleared
               x == window[i]
               s == l.sum
               e == l.seen
               g == l.gone
    <3>3. /\ s + a + g + P <= Q /\ e + g <= s + a + c /\ a = x + a1
          /\ s \in Nat /\ e \in Nat /\ g \in Nat /\ a1 \in Nat
          /\ c \in Nat /\ x \in Nat /\ P \in Nat /\ Q \in Nat
      BY <1>n, <1>t, <2>4, <3>1, <3>2
    <3>6. Q1 = Q /\ P1 = P /\ past'.cleared = c
      BY <2>1, <2>3
    <3>7. local'[t].sum = s + x /\ local'[t].seen = e /\ local'[t].gone = g
      BY <2>2
    <3> HIDE DEF l, i, a, a1, c, x, s, e, g
    <3>4. /\ (s + x) + a1 + g + P <= Q /\ (s + x) + g <= Q
          /\ e + g <= (s + x) + a1 + c
          /\ a1 = 0 => e + g <= (s + x) + c
      BY <3>3
    <3> QED
      BY <2>1, <2>5, <3>4, <3>6, <3>7 DEF SumBehind, late1, P1, Q1, a1
  <2>7. \A u \in Threads \ {t} : late1(u) = late(u)
    BY <1>s, <1>u, <2>1
  <2>8. \A u \in Threads \ {t} : SumBehind(u)'
    BY <1>n, <1>o, <1>t, <1>w, <2>1, <2>3, <2>7
  <2> QED
    BY <1>e, <1>0, <2>1, <2>3, <2>6, <2>8
<1>6. CASE CasLast(t)
  <2>1. /\ window' = window /\ Q1 = Q /\ past'.cleared = past.cleared
        /\ pc[t] = "cas"
        /\ local'[t].sum = local[t].sum /\ local'[t].slot = local[t].slot
        /\ \/ /\ pc'[t] = "sum" /\ local'[t].seen = InWindow
              /\ local'[t].gone = past.cleared
           \/ pc'[t] = "rate"
    <3>1. window' = window /\ Q1 = Q /\ pc[t] = "cas"
      BY <1>6 DEF CasLast, Q, Q1
    <3>2. CASE SetLast(t)
      <4>1. past'.cleared = past.cleared
        BY <3>2 DEF SetLast, Types
      <4>2. pc'[t] = "sum"
        BY <1>t, <3>2 DEF SetLast, Goto
      <4>3. /\ local'[t].sum = local[t].sum /\ local'[t].slot = local[t].slot
            /\ local'[t].seen = InWindow /\ local'[t].gone = past.cleared
        BY <1>t, <3>2 DEF SetLast, Locals
      <4> QED
        BY <3>1, <4>1, <4>2, <4>3
    <3>3. CASE ~SetLast(t)
      BY <1>t, <1>6, <3>1, <3>3 DEF CasLast, Goto
    <3> QED
      BY <3>2, <3>3
  <2>2. P1 = P
    BY <1>m, <2>1 DEF Moves, Pending, P, P1
  <2>3. SumBehind(t)'
    <3>1. local[t].sum = 0 /\ local[t].slot = 0
      BY <2>1 DEF LocalAt
    <3>2. late1(t) = InWindow
      BY <2>1, <3>1 DEF late1, Ahead, InWindow
    <3>3. 0 + InWindow + past.cleared + P1 <= Q1
      BY <1>b, <1>n, <1>t, <1>w, <2>1, <2>2
    <3>4. InWindow + past.cleared <= 0 + InWindow + past'.cleared
      BY <1>t, <1>w, <2>1
    <3> QED
      BY <2>1, <3>1, <3>2, <3>3, <3>4 DEF SumBehind, late1, P1, Q1
  <2>4. \A u \in Threads \ {t} : late1(u) = late(u)
    BY <1>s, <1>u, <2>1
  <2>5. \A u \in Threads \ {t} : SumBehind(u)'
    BY <1>n, <1>o, <1>t, <1>w, <2>1, <2>2, <2>4
  <2> QED
    BY <1>e, <1>0, <2>1, <2>2, <2>3, <2>5
<1> QED
  BY <1>1, <1>2, <1>3, <1>4, <1>5, <1>6 DEF Step, WindowLeft

\* A step of a thread keeps the accounts of the adjustments.
LEMMA StepAdjustments ==
  ASSUME Types, NEW t \in Threads, LocalAt(t), Adjustments, Step(t)
  PROVE  Adjustments'
<1> DEFINE now == local[t].now
           a == past.adjusted
           b == past.setBack
<1>t. /\ lastUpdate \in Nat /\ now \in Nat /\ now \in 0..MaxSec
      /\ a \in [0..MaxSec -> Nat] /\ b \in Nat /\ pc \in [Threads -> Labels]
      /\ past \in [cleared : Nat, adjusted : [0..MaxSec -> Nat], setBack : Nat]
  <2>1. local[t].now \in Nat /\ clock \in 0..MaxSec /\ clock \in Nat
    BY SamplerConstants, LocalFields DEF Types
  <2> QED
    BY <2>1, SamplerConstants DEF Types, LocalAt
<1>b. \A x \in 0..MaxSec : a[x] <= b + IF x <= lastUpdate THEN 1 ELSE 0
  BY DEF Adjustments
<1>1. ASSUME lastUpdate' = lastUpdate, past'.adjusted = a, past'.setBack = b
      PROVE  Adjustments'
  BY <1>1 DEF Adjustments
<1>2. CASE pc[t] = "cas" /\ lastUpdate = local[t].last /\ SetLast(t)
  <2>1. now # lastUpdate
    BY <1>2 DEF LocalAt
  <2>2. /\ lastUpdate' = now
        /\ past'.adjusted = [a EXCEPT ![now] = @ + 1]
        /\ past'.setBack = IF now < lastUpdate THEN b + 1 ELSE b
    BY <1>2, <1>t DEF SetLast
  <2>3. ASSUME NEW x \in 0..MaxSec
        PROVE  past'.adjusted[x] <= past'.setBack + IF x <= now THEN 1 ELSE 0
    <3>1. /\ a[x] <= b + IF x <= lastUpdate THEN 1 ELSE 0
          /\ x \in Nat /\ a[x] \in Nat
          /\ past'.adjusted[x] = IF x = now THEN a[x] + 1 ELSE a[x]
      BY <1>b, <1>t, <2>2, SamplerConstants
    <3> HIDE DEF a, b, now
    <3>2. CASE now < lastUpdate
      BY <1>t, <2>2, <3>1, <3>2
    <3>3. CASE now > lastUpdate
      BY <1>t, <2>2, <3>1, <3>3
    <3> QED
      BY <1>t, <2>1, <3>2, <3>3
  <2> QED
    BY <2>2, <2>3 DEF Adjustments
<1>3. CASE CasLast(t)
  <2>1. pc[t] = "cas" /\ \/ lastUpdate = local[t].last /\ SetLast(t)
                         \/ UNCHANGED <<lastUpdate, past>>
    BY <1>3 DEF CasLast
  <2>2. CASE UNCHANGED <<lastUpdate, past>>
    BY <1>1, <2>2
  <2> QED
    BY <1>2, <2>1, <2>2
<1>4. CASE ClearSlot(t)
  <2>1. lastUpdate' = lastUpdate /\ past'.adjusted = a /\ past'.setBack = b
    BY <1>4, <1>t DEF ClearSlot
  <2> QED
    BY <1>1, <2>1
<1>5. ASSUME lastUpdate' = lastUpdate, past' = past
      PROVE  Adjustments'
  BY <1>1, <1>5
<1>6. CASE ShouldSample(t) \/ ProbCount(t) \/ ProbKeep(t) \/ ReturnDecision(t)
             \/ ReadClock(t) \/ LoadLast(t) \/ SumWindow(t) \/ LoadRate(t)
  BY <1>5, <1>6 DEF ShouldSample, ProbCount, ProbKeep, ReturnDecision, ReadClock,
                    LoadLast, SumWindow, LoadRate, shared
<1>7. CASE StoreRate(t) \/ DecideAdaptive(t) \/ CountAdaptive(t) \/ KeepAdaptive(t)
             \/ CountInWindow(t) \/ GetStats(t) \/ StatsTotal(t) \/ StatsSampled(t)
  BY <1>5, <1>7 DEF StoreRate, DecideAdaptive, CountAdaptive, KeepAdaptive,
                    CountInWindow, GetStats, StatsTotal, StatsSampled, shared
<1> QED
  BY <1>3, <1>4, <1>6, <1>7 DEF Step

-----------------------------------------------------------------------------
(* Statistics. *)

\* A step that is not of sampler_get_stats loads nothing for it.
LEMMA StepLoads ==
  ASSUME Types, NEW t \in Threads, Step(t), ~GetStats(t), ~StatsTotal(t),
         ~StatsSampled(t)
  PROVE  /\ stats'[t] = stats[t] /\ pc'[t] # "sampled"
         /\ \/ local'[t] = NoLocal
            \/ /\ local'[t].before = local[t].before
               /\ local'[t].read = local[t].read
<1> USE DEF Goto, shared, history
<1>l. /\ local \in [Threads -> Locals] /\ local[t] \in Locals
      /\ pc \in [Threads -> Labels]
  BY DEF Types
<1>1. CASE ShouldSample(t)
  <2>1. PICK s \in Asked : local' = [local EXCEPT ![t].sampler = s]
    BY <1>1 DEF ShouldSample
  <2>2. pc'[t] \in {"clock", "prob"} /\ stats' = stats
    BY <1>l, <1>1 DEF ShouldSample
  <2> QED
    BY <1>l, <2>1, <2>2 DEF Locals
<1>2. CASE ProbCount(t)
  <2>1. PICK draw \in 0..Full :
           local' = [local EXCEPT ![t].yes = Chosen(draw, RateOf(local[t].sampler))]
    BY <1>2 DEF ProbCount
  <2>2. pc'[t] \in {"keep", "return"} /\ stats' = stats
    BY <1>l, <1>2 DEF ProbCount
  <2> QED
    BY <1>l, <2>1, <2>2 DEF Locals
<1>3. CASE ProbKeep(t) \/ StoreRate(t) \/ CountAdaptive(t) \/ CountInWindow(t)
  <2>1. local' = local /\ stats' = stats
    BY <1>3 DEF ProbKeep, StoreRate, CountAdaptive, CountInWindow
  <2>2. pc'[t] \in {"return", "rate", "slot"}
    BY <1>l, <1>3 DEF ProbKeep, StoreRate, CountAdaptive, CountInWindow
  <2> QED
    BY <2>1, <2>2
<1>11. CASE CasLast(t)
  BY <1>l, <1>11 DEF CasLast, SetLast, Locals
<1>12. CASE ClearSlot(t)
  BY <1>l, <1>12 DEF ClearSlot, Locals
<1>4. CASE ReturnDecision(t)
  BY <1>l, <1>4 DEF ReturnDecision, Return
<1>5. CASE ReadClock(t)
  BY <1>l, <1>5 DEF ReadClock, Locals
<1>6. CASE LoadLast(t)
  BY <1>l, <1>6 DEF LoadLast, Locals
<1>7. CASE SumWindow(t)
  BY <1>l, <1>7 DEF SumWindow, Locals
<1>8. CASE LoadRate(t)
  BY <1>l, <1>8 DEF LoadRate, Locals
<1>9. CASE DecideAdaptive(t)
  <2>1. PICK draw \in 0..Full :
           local' = [local EXCEPT ![t].yes = Chosen(draw, rate)]
    BY <1>9 DEF DecideAdaptive
  <2>2. pc'[t] = "count" /\ stats' = stats
    BY <1>l, <1>9 DEF DecideAdaptive
  <2> QED
    BY <1>l, <2>1, <2>2 DEF Locals
<1>10. CASE KeepAdaptive(t)
  <2>1. local' = [local EXCEPT ![t].slot = clock % WindowSec]
    BY <1>10 DEF KeepAdaptive
  <2>2. pc'[t] = "window" /\ stats' = stats
    BY <1>l, <1>10 DEF KeepAdaptive
  <2> QED
    BY <1>l, <2>1, <2>2 DEF Locals
<1> QED
  BY <1>1, <1>2, <1>3, <1>4, <1>5, <1>6, <1>7, <1>8, <1>9, <1>10, <1>11,
     <1>12 DEF Step

\* The totals are not behind the decisions returned, nor behind those sampled.
LEMMA TotalsAhead ==
  ASSUME Types, DecisionsCounted, NEW s \in Samplers
  PROVE  /\ total[s] \in Nat /\ sampled[s] \in Nat /\ taken[s] \in Nat
         /\ kept[s] \in Nat
         /\ taken[s] <= total[s] /\ sampled[s] <= total[s] /\ kept[s] <= sampled[s]
<1>1. /\ total[s] \in Nat /\ sampled[s] \in Nat
      /\ taken[s] \in Nat /\ kept[s] \in Nat
  BY DEF Types
<1>2. /\ Counted(s) \in SUBSET Threads /\ Chose(s) \in SUBSET Counted(s)
  BY DEF Counted, Chose
<1>3. /\ Cardinality(Counted(s)) \in Nat /\ Cardinality(Chose(s)) \in Nat
      /\ Cardinality(Chose(s)) <= Cardinality(Counted(s))
  BY <1>2, ThreadSet, FS_Subset
<1> QED
  BY <1>1, <1>3 DEF DecisionsCounted

\* A step of a thread keeps what is being read, and what was.
LEMMA StepReading ==
  ASSUME Types, DecisionsCounted, NEW t \in Threads, LocalAt(t),
         \A u \in Threads : Reading(u), Step(t), NEW u \in Threads
  PROVE  Reading(u)'
<1>t. /\ local \in [Threads -> Locals] /\ local[u] \in Locals
      /\ pc \in [Threads -> Labels]
      /\ stats \in [Threads -> StatsRecords] /\ stats[u] \in StatsRecords
      /\ "base" \in Samplers
  BY DEF Types, Samplers
<1>f. /\ local[u].read \in Nat /\ local[u].before \in [Samplers -> Nat]
      /\ stats[u].total \in Nat /\ stats[u].after \in Nat
      /\ stats[u].sampled \in Nat /\ stats[u].before \in [Samplers -> Nat]
  BY <1>t, LocalFields DEF StatsRecords
<1>m. Next
  BY DEF Next
<1>n. \A s \in Samplers :
         /\ total[s] \in Nat /\ taken[s] \in Nat /\ sampled[s] \in Nat
         /\ taken[s] <= total[s] /\ sampled[s] <= total[s]
  BY TotalsAhead
<1>p. \A s \in Samplers :
         /\ total'[s] \in Nat /\ taken'[s] \in Nat
         /\ total[s] <= total'[s] /\ taken[s] <= taken'[s]
  <2>1. \A s \in Samplers : total[s] <= total'[s] /\ taken[s] <= taken'[s]
    BY <1>m, StepMonotone
  <2>2. \A s \in Samplers : total'[s] \in Nat /\ taken'[s] \in Nat
    BY StepTypes DEF Types
  <2> QED
    BY <2>1, <2>2
<1>r. Reading(u)
  OBVIOUS
<1>1. ASSUME /\ stats'[u] = stats[u]
             /\ local'[u].before = local[u].before /\ local'[u].read = local[u].read
             /\ pc'[u] = "sampled" => pc[u] = "sampled"
      PROVE  Reading(u)'
  BY <1>t, <1>f, <1>n, <1>p, <1>r, <1>1 DEF Reading
<1>2. CASE u # t
  BY <1>1, <1>2, StepFrame
<1>3. CASE u = t /\ ~GetStats(t) /\ ~StatsTotal(t) /\ ~StatsSampled(t)
  <2>1. /\ stats'[t] = stats[t] /\ pc'[t] # "sampled"
        /\ \/ local'[t] = NoLocal
           \/ /\ local'[t].before = local[t].before
              /\ local'[t].read = local[t].read
    BY <1>3, StepLoads
  <2>2. CASE local'[t] = NoLocal
    <3>1. local'[t].read = 0 /\ \A s \in Samplers : local'[t].before[s] = 0
      BY <2>2, NoValues DEF NoLocal
    <3> QED
      BY <1>t, <1>f, <1>n, <1>p, <1>r, <1>3, <2>1, <3>1 DEF Reading
  <2>3. CASE local'[t].before = local[t].before /\ local'[t].read = local[t].read
    BY <1>1, <1>3, <2>1, <2>3
  <2> QED
    BY <2>1, <2>2, <2>3
<1>4. CASE u = t /\ GetStats(t)
  <2>1. /\ local'[t].before = taken /\ local'[t].read = local[t].read
        /\ stats' = stats /\ taken' = taken /\ total' = total /\ pc'[t] = "total"
    BY <1>t, <1>4 DEF GetStats, Goto, shared, Locals
  <2> QED
    BY <1>t, <1>f, <1>n, <1>r, <1>4, <2>1 DEF Reading
<1>5. CASE u = t /\ StatsTotal(t)
  <2>1. /\ local'[t].before = local[t].before /\ local'[t].read = total["base"]
        /\ stats' = stats /\ taken' = taken /\ total' = total
    BY <1>t, <1>5 DEF StatsTotal, shared, history, Locals
  <2> QED
    BY <1>t, <1>f, <1>n, <1>r, <1>5, <2>1 DEF Reading
<1>6. CASE u = t /\ StatsSampled(t)
  <2>1. /\ stats'[t] = [total |-> local[t].read, sampled |-> sampled["base"],
                        before |-> local[t].before, after |-> total["base"]]
        /\ pc[t] = "sampled" /\ pc'[t] = "idle" /\ local'[t] = NoLocal
        /\ taken' = taken /\ total' = total
    BY <1>t, <1>6 DEF StatsSampled, Goto, shared
  <2>2. local'[t].read = 0 /\ \A s \in Samplers : local'[t].before[s] = 0
    BY <2>1, NoValues DEF NoLocal
  <2>3. /\ stats'[t].total = local[t].read /\ stats'[t].after = total["base"]
        /\ stats'[t].sampled = sampled["base"]
        /\ stats'[t].before["base"] = local[t].before["base"]
    BY <2>1
  <2> QED
    BY <1>t, <1>f, <1>n, <1>r, <1>6, <2>1, <2>2, <2>3 DEF Reading
<1> QED
  BY <1>2, <1>3, <1>4, <1>5, <1>6

-----------------------------------------------------------------------------
(* The invariant. *)

\* It holds when the samplers have been made.
LEMMA SamplerInit ==
  ASSUME Init
  PROVE  SamplerInv
<1> USE DEF Init
<1>c. /\ 0 \in 0..MaxSec /\ 0 \in 0..clock /\ 0 \in 0..MaxCalls
      /\ WindowSec \in Nat
  BY SamplerConstants
<1>1. Types
  BY <1>c, NoValues, SamplerConstants DEF Types, Labels
<1>2. ASSUME NEW t \in Threads PROVE LocalAt(t)
  BY DEF LocalAt, NoLocal, AdaptiveSteps
<1>3. ASSUME NEW t \in Threads PROVE Reading(t)
  <2>1. /\ local[t].read = 0 /\ local[t].before = NoneTaken
        /\ stats[t].total = 0 /\ stats[t].sampled = 0 /\ stats[t].after = 0
        /\ stats[t].before = NoneTaken /\ pc[t] = "idle"
    BY DEF NoLocal, NoStats
  <2> QED
    BY <2>1, NoValues DEF Reading, Samplers
<1>4. /\ \A s \in Samplers : Counted(s) = {} /\ Chose(s) = {}
      /\ Pending = {} /\ Deciders = {}
  BY DEF Counted, Chose, Pending, Deciders, Deciding
<1>5. Cardinality({}) = 0
  BY FS_EmptySet
<1>6. DecisionsCounted
  <2>1. ASSUME NEW s \in Samplers
        PROVE  total[s] = 0 /\ taken[s] = 0 /\ sampled[s] = 0 /\ kept[s] = 0
    BY NoValues
  <2>2. ASSUME NEW s \in Samplers
        PROVE  Cardinality(Counted(s)) = 0 /\ Cardinality(Chose(s)) = 0
    BY <1>4, <1>5
  <2> QED
    BY <2>1, <2>2 DEF DecisionsCounted
<1>7. CallsBounded
  <2>1. Cardinality(Units(Threads, calls)) \in Nat
    <3>1. calls \in [Threads -> Nat]
      OBVIOUS
    <3> QED
      BY <3>1, SamplerConstants, UnitsFinite
  <2>2. taken["base"] = 0 /\ taken["override"] = 0
    BY NoValues DEF Samplers
  <2> QED
    BY <1>4, <1>5, <2>1, <2>2 DEF CallsBounded
<1>8. WindowBehind
  <2>1. Units(0..WindowSec - 1, window) = {}
    <3>1. \A i \in 0..WindowSec - 1 : window[i] = 0
      OBVIOUS
    <3> HIDE DEF Init
    <3> QED
      BY <3>1, NoUnits
  <2>2. sampled["base"] = 0
    BY NoValues DEF Samplers
  <2>3. \A t \in Threads : SumBehind(t)
    BY DEF SumBehind
  <2>4. Cardinality(Pending) = 0 /\ InWindow = 0
    BY <1>4, <1>5, <2>1 DEF InWindow
  <2>5. past.cleared = 0
    OBVIOUS
  <2> HIDE DEF Init
  <2> QED
    BY <2>2, <2>3, <2>4, <2>5 DEF WindowBehind
<1>9. Adjustments
  BY SamplerConstants DEF Adjustments
<1> QED
  BY <1>1, <1>2, <1>3, <1>6, <1>7, <1>8, <1>9 DEF SamplerInv

\* Every step keeps it.
LEMMA SamplerNext ==
  ASSUME SamplerInv, [Next]_vars
  PROVE  SamplerInv'
<1> USE DEF SamplerInv
<1>1. ASSUME NEW t \in Threads, Step(t) PROVE SamplerInv'
  <2>1. Types' /\ LocalAt(t)'
    BY <1>1, StepTypes, StepLocal
  <2>2. ASSUME NEW u \in Threads, u # t PROVE LocalAt(u)'
    <3>1. /\ clock \in Nat /\ clock' \in Nat /\ clock <= clock'
          /\ local[u].now \in Nat /\ local[u].last \in Nat
          /\ baseType' = baseType
      <4>1. local[u] \in Locals /\ clock \in Nat /\ Next
        BY <1>1 DEF Types, Next
      <4>2. clock' \in Nat
        BY <2>1 DEF Types
      <4> QED
        BY <4>1, <4>2, StepMonotone, LocalFields
    <3>2. pc'[u] = pc[u] /\ local'[u] = local[u] /\ LocalAt(u)
      BY <1>1, <2>2, StepFrame
    <3> QED
      BY <3>1, <3>2 DEF LocalAt
  <2>3. \A u \in Threads : Reading(u)'
    BY <1>1, StepReading
  <2>4. DecisionsCounted' /\ CallsBounded' /\ WindowBehind' /\ Adjustments'
    BY <1>1, StepDecisions, StepCalls, StepWindow, StepAdjustments
  <2> QED
    BY <2>1, <2>2, <2>3, <2>4
<1>2. ASSUME Tick PROVE SamplerInv'
  <2>1. /\ clock \in Nat /\ clock < MaxSec /\ clock' = clock + 1
        /\ UNCHANGED <<baseType, total, sampled, rate, window, lastUpdate, past,
                       pc, local, history>>
    BY <1>2 DEF Tick, Types
  <2>2. Types'
    BY <2>1, SamplerConstants DEF Types, history
  <2>3. ASSUME NEW u \in Threads PROVE LocalAt(u)'
    <3>1. local[u].now \in Nat /\ local[u].last \in Nat /\ LocalAt(u)
      BY LocalFields DEF Types
    <3> QED
      BY <2>1, <3>1 DEF LocalAt
  <2>4. \A u \in Threads : Reading(u)'
    BY <2>1 DEF Reading, history
  <2>5. DecisionsCounted'
    BY <2>1 DEF DecisionsCounted, Counted, Chose, history
  <2>6. CallsBounded'
    BY <2>1 DEF CallsBounded, Deciders, Deciding, history
  <2>7. WindowBehind'
    BY <2>1 DEF WindowBehind, InWindow, SumBehind, Ahead, Pending
  <2>8. Adjustments'
    BY <2>1 DEF Adjustments
  <2> QED
    BY <2>2, <2>3, <2>4, <2>5, <2>6, <2>7, <2>8
<1>3. ASSUME UNCHANGED vars PROVE SamplerInv'
  <2> USE <1>3 DEF vars, shared, history
  <2>1. Types'
    BY DEF Types
  <2>2. \A u \in Threads : LocalAt(u)' /\ Reading(u)'
    BY DEF LocalAt, Reading
  <2>3. DecisionsCounted' /\ CallsBounded'
    BY DEF DecisionsCounted, Counted, Chose, CallsBounded, Deciders, Deciding
  <2>4. WindowBehind' /\ Adjustments'
    BY DEF WindowBehind, InWindow, SumBehind, Ahead, Pending, Adjustments
  <2> QED
    BY <2>1, <2>2, <2>3, <2>4
<1> QED
  BY <1>1, <1>2, <1>3 DEF Next

\* The inductive invariant holds in every state of the samplers.
THEOREM SamplerInvariant == Spec => []SamplerInv
BY SamplerInit, SamplerNext, PTL DEF Spec

-----------------------------------------------------------------------------
(* What it says. *)

\* No counter passes the calls that the threads may make.
LEMMA CountsBounded ==
  ASSUME SamplerInv, NEW s \in Samplers
  PROVE  /\ MaxCalls * Cardinality(Threads) \in Nat
         /\ total[s] <= MaxCalls * Cardinality(Threads)
<1>1. /\ Cardinality(Threads) \in Nat
      /\ MaxCalls * Cardinality(Threads) \in Nat
      /\ Cardinality(Units(Threads, calls)) <= MaxCalls * Cardinality(Threads)
  <2>1. IsFiniteSet(Threads) /\ MaxCalls \in Nat /\ calls \in [Threads -> 0..MaxCalls]
    BY SamplerConstants DEF SamplerInv, Types
  <2>2. Cardinality(Threads) \in Nat
    BY <2>1, FS_CardinalityType
  <2>3. IsFiniteSet(1..MaxCalls) /\ Cardinality(1..MaxCalls) = MaxCalls
    <3>1. 1 \in Int /\ MaxCalls \in Int
      BY <2>1
    <3> QED
      BY <2>1, <3>1, FS_Interval
  <2>4. /\ IsFiniteSet(Threads \X (1..MaxCalls))
        /\ Cardinality(Threads \X (1..MaxCalls)) = Cardinality(Threads) * MaxCalls
    BY <2>1, <2>3, FS_Product
  <2>5. Units(Threads, calls) \subseteq Threads \X (1..MaxCalls)
    <3>1. ASSUME NEW t \in Threads, NEW n \in 1..calls[t] PROVE n \in 1..MaxCalls
      BY <2>1
    <3>2. ASSUME NEW p \in Units(Threads, calls) PROVE p \in Threads \X (1..MaxCalls)
      <4>1. PICK t \in Threads : \E n \in 1..calls[t] : p = <<t, n>>
        BY UnitsMembers
      <4> QED
        BY <3>1, <4>1
    <3> QED
      BY <3>2
  <2>6. Cardinality(Units(Threads, calls)) <= Cardinality(Threads) * MaxCalls
    BY <2>4, <2>5, FS_Subset
  <2> QED
    BY <2>1, <2>2, <2>6
<1>2. /\ Cardinality(Counted(s)) \in Nat /\ Cardinality(Deciders) \in Nat
      /\ Cardinality(Counted(s)) <= Cardinality(Deciders)
  <2>1. Counted(s) \in SUBSET Deciders /\ Deciders \in SUBSET Threads
    BY DEF Counted, Deciders, Deciding
  <2> QED
    BY <2>1, ThreadSet, FS_Subset
<1>3. /\ taken["base"] \in Nat /\ taken["override"] \in Nat /\ total[s] \in Nat
      /\ s = "base" \/ s = "override"
  BY DEF SamplerInv, Types, Samplers
<1>4. /\ total[s] = taken[s] + Cardinality(Counted(s))
      /\ taken["base"] + taken["override"] + Cardinality(Deciders)
            <= Cardinality(Units(Threads, calls))
  BY DEF SamplerInv, DecisionsCounted, CallsBounded
<1>5. Cardinality(Units(Threads, calls)) \in Nat
  <2>1. calls \in [Threads -> Nat]
    BY SamplerConstants DEF SamplerInv, Types
  <2> QED
    BY <2>1, SamplerConstants, UnitsFinite
<1>6. total[s] <= Cardinality(Units(Threads, calls))
  BY <1>2, <1>3, <1>4, <1>5
<1> QED
  BY <1>1, <1>3, <1>5, <1>6

\* No slot of the window has counted more than the base has sampled.
LEMMA SlotBounded ==
  ASSUME SamplerInv, NEW i \in 0..WindowSec - 1
  PROVE  window[i] \in Nat /\ window[i] <= sampled["base"]
<1> DEFINE W == 0..WindowSec - 1
<1>1. /\ window \in [W -> Nat] /\ sampled["base"] \in Nat
      /\ past.cleared \in Nat
  BY DEF SamplerInv, Types, Samplers
<1>2. IsFiniteSet(W) /\ Cardinality(Units(W, window)) \in Nat
  BY WindowUnits DEF SamplerInv, InWindow
<1>3. Cardinality(Pending) \in Nat
  <2>1. Pending \in SUBSET Threads
    BY DEF Pending
  <2> QED
    BY <2>1, ThreadSet
<1>4. Cardinality(Units(W, window)) <= sampled["base"]
  BY <1>1, <1>2, <1>3 DEF SamplerInv, WindowBehind, InWindow
<1>5. /\ Cardinality(Units(W, window))
            = window[i] + Cardinality(Units(W \ {i}, window))
      /\ Cardinality(Units(W \ {i}, window)) \in Nat
  <2>1. W \ {i} \in SUBSET W /\ W \in SUBSET W /\ i \in W
    OBVIOUS
  <2> HIDE DEF W
  <2>2. Cardinality(Units(W \ {i}, window)) \in Nat
    BY <1>1, <1>2, <2>1, UnitsFinite
  <2> QED
    BY <1>1, <1>2, <2>1, <2>2, UnitsSplit
<1> QED
  BY <1>1, <1>2, <1>4, <1>5

\* Whatever the threads do, the sampler's variables are of their types and
\* the counters within the calls made (sampler.c, sampler.h).
THEOREM SamplerTypeCorrect == Spec => []TypeOK
<1>1. SamplerInv => TypeOK
  <2> SUFFICES ASSUME SamplerInv PROVE TypeOK
    OBVIOUS
  <2> USE DEF SamplerInv
  <2> DEFINE Calls == 0..MaxCalls * Cardinality(Threads)
             Counts == [Samplers -> Calls]
  <2>b. "base" \in Samplers
    BY DEF Samplers
  <2>1. \A s \in Samplers : total[s] \in Calls
    BY CountsBounded DEF Types
  <2>c. \A m \in Calls, n \in Nat : n <= m => n \in Calls
    BY <2>b, CountsBounded
  <2> HIDE DEF Calls
  <2>2. \A s \in Samplers : sampled[s] \in Calls /\ taken[s] \in Calls
                              /\ kept[s] \in Calls
    <3>1. ASSUME NEW s \in Samplers
          PROVE  /\ sampled[s] \in Nat /\ taken[s] \in Nat /\ kept[s] \in Nat
                 /\ sampled[s] <= total[s] /\ taken[s] <= total[s]
                 /\ kept[s] <= sampled[s]
      BY TotalsAhead
    <3> QED
      BY <2>1, <2>c, <3>1
  <2>3. total \in Counts /\ sampled \in Counts /\ taken \in Counts /\ kept \in Counts
    <3> QED
      BY <2>1, <2>2 DEF Types
  <2>4. window \in [0..WindowSec - 1 -> Calls]
    <3>1. ASSUME NEW i \in 0..WindowSec - 1 PROVE window[i] \in Calls
      BY <2>b, <2>c, <2>2, SlotBounded
    <3> QED
      BY <3>1 DEF Types
  <2>5. ASSUME NEW t \in Threads
        PROVE  /\ local[t].sampler \in Samplers
               /\ {local[t].now, local[t].last} \subseteq 0..clock
               /\ local[t].slot \in 0..WindowSec /\ local[t].sum \in Nat
               /\ local[t].read \in Calls /\ local[t].rate \in 0..Full
               /\ local[t].yes \in BOOLEAN /\ local[t].before \in Counts
               /\ {local[t].seen, local[t].gone, local[t].mine} \subseteq Nat
               /\ calls[t] \in 0..MaxCalls
               /\ {stats[t].total, stats[t].sampled, stats[t].after} \subseteq Calls
    <3>1. /\ local[t] \in Locals /\ stats[t] \in StatsRecords /\ clock \in Nat
          /\ calls[t] \in 0..MaxCalls
      BY DEF Types
    <3>2. /\ local[t].sampler \in Samplers /\ local[t].now \in Nat
          /\ local[t].last \in Nat /\ local[t].slot \in 0..WindowSec
          /\ local[t].sum \in Nat /\ local[t].read \in Nat
          /\ local[t].rate \in 0..Full /\ local[t].yes \in BOOLEAN
          /\ local[t].before \in [Samplers -> Nat]
          /\ local[t].seen \in Nat /\ local[t].gone \in Nat
          /\ local[t].mine \in Nat
      BY <3>1, LocalFields
    <3>3. local[t].now \in 0..clock /\ local[t].last \in 0..clock
      BY <3>1, <3>2 DEF LocalAt
    <3>4. local[t].read \in Calls
      BY <2>b, <2>c, <2>1, <3>2 DEF Reading
    <3>5. \A s \in Samplers : local[t].before[s] \in Calls
      BY <2>c, <2>2, <3>2 DEF Reading
    <3>6. local[t].before \in Counts
      <4> QED
        BY <3>2, <3>5
    <3>7. /\ stats[t].total \in Calls /\ stats[t].sampled \in Calls
          /\ stats[t].after \in Calls
      <4>1. /\ stats[t].total \in Nat /\ stats[t].sampled \in Nat
            /\ stats[t].after \in Nat
        BY <3>1 DEF StatsRecords
      <4> QED
        BY <2>b, <2>c, <2>1, <4>1 DEF Reading
    <3> HIDE DEF Counts
    <3> QED
      BY <3>1, <3>2, <3>3, <3>4, <3>6, <3>7
  <2>6. /\ baseType \in BaseTypes
        /\ clock \in 0..MaxSec /\ lastUpdate \in 0..clock
        /\ rate \in 1..Full
        /\ pc \in [Threads -> Labels]
        /\ past \in [cleared : Nat, adjusted : [0..MaxSec -> Nat], setBack : Nat]
    BY DEF Types
  <2> HIDE DEF Counts
  <2>7. {total, sampled, taken, kept} \subseteq Counts
    BY <2>3
  <2> QED
    BY <2>4, <2>5, <2>6, <2>7 DEF TypeOK, Calls, Counts, Labels
<1> QED
  BY <1>1, SamplerInvariant, PTL

\* Whichever threads count and read at the same time, the counters and the
\* statistics agree with the decisions the callers were given
\* (sampler.c:85-113, 206-241).
THEOREM SamplerCountersAgree == Spec => []CountersAgree
<1>1. SamplerInv => CountersAgree
  <2> SUFFICES ASSUME SamplerInv PROVE CountersAgree
    OBVIOUS
  <2> USE DEF SamplerInv
  <2>1. \A s \in Samplers : sampled[s] <= total[s]
    BY TotalsAhead
  <2>2. baseType = "adaptive" =>
           sampled["base"] = InWindow + past.cleared
                             + Cardinality({t \in Threads : pc[t] = "window"})
    <3>1. InWindow \in Nat /\ past.cleared \in Nat /\ Cardinality(Pending) \in Nat
      <4>1. Pending \in SUBSET Threads
        BY DEF Pending
      <4> QED
        BY <4>1, ThreadSet, WindowUnits DEF Types
    <3>2. Cardinality(Pending) = Cardinality({t \in Threads : pc[t] = "window"})
      BY DEF Pending
    <3>3. baseType = "adaptive" =>
             sampled["base"] = InWindow + Cardinality(Pending) + past.cleared
      BY DEF WindowBehind
    <3> QED
      BY <3>1, <3>2, <3>3
  <2>3. ASSUME \A t \in Threads : ~Deciding(t)
        PROVE  total = taken /\ sampled = kept
    <3>1. ASSUME NEW s \in Samplers PROVE Counted(s) = {} /\ Chose(s) = {}
      BY <2>3 DEF Counted, Chose, Deciding
    <3>2. ASSUME NEW s \in Samplers PROVE total[s] = taken[s] /\ sampled[s] = kept[s]
      <4>1. total[s] = taken[s] + 0 /\ sampled[s] = kept[s] + 0
        BY <3>1, FS_EmptySet DEF DecisionsCounted
      <4>2. taken[s] \in Nat /\ kept[s] \in Nat
        BY DEF Types
      <4> QED
        BY <4>1, <4>2
    <3> QED
      BY <3>2 DEF Types
  <2>4. StatsBracketed
    BY DEF StatsBracketed, Reading
  <2> QED
    BY <2>1, <2>2, <2>3, <2>4 DEF CountersAgree, CountersExact
<1> QED
  BY <1>1, SamplerInvariant, PTL

\* However many callers see a new second, one adjusts the rate for it, and
\* another only once last_update_sec was set back (sampler.c:139-146).
THEOREM SamplerOneAdjustment == Spec => []OneAdjustmentPerSecond
<1>1. SamplerInv => OneAdjustmentPerSecond
  <2> SUFFICES ASSUME SamplerInv, NEW sec \in 0..MaxSec
               PROVE  past.adjusted[sec] <= 1 + past.setBack
    BY DEF OneAdjustmentPerSecond
  <2>1. past.adjusted[sec] \in Nat /\ past.setBack \in Nat
    BY DEF SamplerInv, Types
  <2>2. past.adjusted[sec] <= past.setBack + IF sec <= lastUpdate THEN 1 ELSE 0
    BY DEF SamplerInv, Adjustments
  <2> QED
    BY <2>1, <2>2
<1> QED
  BY <1>1, SamplerInvariant, PTL

\* A thread lowers the rate it has loaded only if the window, with what others
\* added while it was summed, is above the target, and raises it only if the
\* window, without what others cleared meanwhile, is below (sampler.c:148-174).
THEOREM SamplerRateFollowsWindow == Spec => RateFollowsWindow
<1>1. ASSUME SamplerInv, [Next]_vars, NEW t \in Threads, pc[t] = "store",
             pc'[t] # "store"
      PROVE  /\ rate' < local[t].rate => TooMany(AtMost(t))
             /\ rate' > local[t].rate => TooFew(AtLeast(t))
  <2> DEFINE l == local[t]
             sum == l.sum
  <2>t. /\ Full \in Nat /\ pc \in [Threads -> Labels]
        /\ l.sum \in Nat /\ l.seen \in Nat /\ l.gone \in Nat /\ l.mine \in Nat
        /\ l.rate \in 1..Full /\ sampled["base"] \in Nat /\ past.cleared \in Nat
    <3>1. local[t] \in Locals /\ LocalAt(t)
      BY <1>1 DEF SamplerInv, Types
    <3>2. l.rate \in 0..Full /\ l.rate >= 1
      BY <1>1, <3>1, LocalFields DEF LocalAt
    <3> QED
      BY <1>1, <3>1, <3>2, LocalFields, SamplerConstants
      DEF SamplerInv, Types, Samplers
  <2>1. StoreRate(t)
    <3>1. PICK u \in Threads : Step(u)
      BY <1>1 DEF Next, Tick, vars
    <3>2. u = t
      BY <1>1, <3>1, StepFrame DEF SamplerInv
    <3> QED
      BY <1>1, <3>1, <3>2
      DEF Step, ShouldSample, Begin, ProbCount, ProbKeep, ReturnDecision,
          ReadClock, LoadLast, CasLast, SumWindow, ClearSlot, LoadRate,
          DecideAdaptive, CountAdaptive, KeepAdaptive, CountInWindow,
          GetStats, StatsTotal, StatsSampled
  <2>2. rate' \in NewRates(l.rate, sum)
    BY <2>1 DEF StoreRate
  <2>3. /\ sum + l.gone <= sampled["base"]
        /\ l.seen + l.gone + l.mine <= sum + past.cleared
    BY <1>1 DEF SamplerInv, WindowBehind, SumBehind
  <2> HIDE DEF l
  <2>4. sum <= AtMost(t) /\ AtLeast(t) <= sum /\ AtMost(t) \in Int
        /\ AtLeast(t) \in Int
    BY <2>t, <2>3 DEF AtMost, AtLeast, l
  <2> HIDE DEF sum
  <2>6. sum \in Nat
    BY <2>t DEF sum
  <2>7. /\ \A x : TooMany(x) <=> 10 * x > 11 * TargetTps * WindowSec
        /\ \A x : TooFew(x) <=> 10 * x < 9 * TargetTps * WindowSec
    BY DEF TooMany, TooFew
  <2>8. 11 * TargetTps * WindowSec \in Nat /\ 9 * TargetTps * WindowSec \in Nat
    BY SamplerConstants
  <2>9. ASSUME rate' < l.rate PROVE TooMany(AtMost(t))
    <3>1. TooMany(sum)
      <4>1. CASE ~TooMany(sum) /\ TooFew(sum)
        BY <2>t, <2>2, <2>9, <4>1 DEF NewRates
      <4>2. CASE ~TooMany(sum) /\ ~TooFew(sum)
        BY <2>t, <2>2, <2>9, <4>2 DEF NewRates
      <4> QED
        BY <4>1, <4>2
    <3> DEFINE most == 11 * TargetTps * WindowSec
               x == AtMost(t)
    <3>2. 10 * sum > most /\ most \in Nat /\ sum <= x /\ x \in Int
      BY <2>4, <2>7, <2>8, <3>1
    <3> HIDE DEF most, x
    <3>3. 10 * x > most
      BY <2>6, <3>2
    <3> QED
      BY <2>7, <3>3 DEF most, x
  <2>10. ASSUME rate' > l.rate PROVE TooFew(AtLeast(t))
    <3>1. ~TooMany(sum) /\ TooFew(sum)
      <4>1. CASE TooMany(sum)
        <5> DEFINE r == l.rate
        <5>1. rate' \in NewRates(r, sum) /\ rate' > r /\ r \in Nat /\ r >= 1
          BY <2>t, <2>2, <2>10
        <5> HIDE DEF r
        <5>t. ~TooFew(sum)
          <6> DEFINE n == TargetTps * WindowSec
          <6>1. n \in Nat /\ 11 * TargetTps * WindowSec = 11 * n
                /\ 9 * TargetTps * WindowSec = 9 * n
            BY SamplerConstants
          <6>2. 10 * sum > 11 * n
            BY <2>7, <4>1, <6>1
          <6> HIDE DEF n
          <6>3. ~(10 * sum < 9 * n)
            BY <2>6, <6>1, <6>2
          <6> QED
            BY <2>7, <6>1, <6>3
        <5>2. NewRates(r, sum) = IF r = 1 THEN {1} ELSE 1..r - 1
          BY <4>1, <5>t DEF NewRates
        <5> QED
          BY <5>1, <5>2
      <4>2. CASE ~TooMany(sum) /\ ~TooFew(sum)
        BY <2>t, <2>2, <2>10, <4>2 DEF NewRates
      <4> QED
        BY <4>1, <4>2
    <3> DEFINE least == 9 * TargetTps * WindowSec
               x == AtLeast(t)
    <3>2. 10 * sum < least /\ least \in Nat /\ x <= sum /\ x \in Int
      BY <2>4, <2>7, <2>8, <3>1
    <3> HIDE DEF least, x
    <3>3. 10 * x < least
      BY <2>6, <3>2
    <3> QED
      BY <2>7, <3>3 DEF least, x
  <2> QED
    BY <2>9, <2>10 DEF l
<1>2. SamplerInv /\ [Next]_vars =>
         [\A t \in Threads : pc[t] = "store" /\ pc'[t] # "store" =>
             /\ rate' < local[t].rate => TooMany(AtMost(t))
             /\ rate' > local[t].rate => TooFew(AtLeast(t))]_vars
  BY <1>1
<1> QED
  BY <1>2, SamplerInvariant, PTL DEF Spec, RateFollowsWindow
=============================================================================

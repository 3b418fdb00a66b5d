----------------------------- MODULE MCTraceTree -----------------------------
(***************************************************************************)
(* TLC instances of TraceTree: records that hold any of the spans of a     *)
(* trace id in any order, some of them twice.  There is a name more than   *)
(* there are groups, and a span more than a group has room for; the spans  *)
(* of one of the names last differently long.                              *)
(***************************************************************************)
EXTENDS TraceTree

CONSTANTS a, b, c

MCKinds == {[name |-> a, dur |-> 0], [name |-> a, dur |-> 2],
            [name |-> b, dur |-> 1], [name |-> c, dur |-> 1]}

\* For the run that looks at what the comments say: no span without duration,
\* and one that lasts longer than two of the others.
MCAnalysisKinds == {[name |-> a, dur |-> 1], [name |-> b, dur |-> 3]}

Symmetry == Permutations(Procs) \union Permutations({b, c})
=============================================================================

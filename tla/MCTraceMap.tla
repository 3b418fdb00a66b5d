----------------------------- MODULE MCTraceMap -----------------------------
(* TraceMap with three traces, two of which share a chain. *)
EXTENDS TraceMap

CONSTANTS a, b, c

MCSpanInputs ==
    { [trace |-> a, root |-> TRUE,  sampled |-> TRUE],
      [trace |-> b, root |-> FALSE, sampled |-> FALSE],
      [trace |-> c, root |-> TRUE,  sampled |-> TRUE] }

MCHash == [t \in Traces |-> IF t = c THEN 2 ELSE 1]
=============================================================================

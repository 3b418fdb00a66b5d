---------------------------- MODULE MCCollector ----------------------------
(* Collector with two traces in one chain, one of them with a root span. *)
EXTENDS Collector

CONSTANTS a, b

MCSpanInputs ==
    { [trace |-> a, root |-> TRUE,  sampled |-> TRUE],
      [trace |-> b, root |-> FALSE, sampled |-> TRUE] }

MCHash == [t \in Traces |-> 1]
=============================================================================

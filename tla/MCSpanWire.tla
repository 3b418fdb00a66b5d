----------------------------- MODULE MCSpanWire -----------------------------
(* SpanWire with small sizes, in the proportions of the real ones: a span  *)
(* may lose one or both annotations to the slot, a foreign one more to the *)
(* log, and every string can be longer than its field.                     *)
EXTENDS SpanWire

MCClock == {1, 2, 5}
MCDurations == {1, 3, 7}
=============================================================================

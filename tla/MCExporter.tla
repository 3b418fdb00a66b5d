----------------------------- MODULE MCExporter -----------------------------
(* Exporter with a small ring, few spans and few restarts. *)
EXTENDS Exporter

MCWireLen == [n \in 1..MaxSpans |-> IF n % 2 = 0 THEN 48 ELSE MaxPayload]
=============================================================================

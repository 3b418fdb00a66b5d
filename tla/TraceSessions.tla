--------------------------- MODULE TraceSessions ---------------------------
(***************************************************************************)
(* What trace assembly promises, without hashing, chains or batches: spans *)
(* of a trace are gathered in a session; a session is closed, with all it  *)
(* gathered, only after it has been inactive for the timeout the closer    *)
(* asks for; a trace has at most one open session at a time.               *)
(*                                                                         *)
(* TraceMap is shown to implement this module.                             *)
(***************************************************************************)
EXTENDS Integers, Sequences, FiniteSets, TLC

CONSTANTS
    Traces,       \* trace ids
    TicksPerSec,  \* clock ticks in a second
    Timeouts      \* inactivity timeouts a closer may ask for, in seconds

VARIABLES
    clock,     \* the monotonic clock, in ticks
    open,      \* the open session of each trace that has one
    sessions   \* closed sessions, in the order they were closed

sessionVars == <<clock, open, sessions>>

SessionInit ==
    /\ clock = 0
    /\ open = [t \in {} |-> <<>>]
    /\ sessions = <<>>

\* Time passes.
Advance == clock' = clock + 1 /\ UNCHANGED <<open, sessions>>

\* A session is opened; its first span may be missing (no memory for it).
OpenSession(t) ==
    /\ t \notin DOMAIN open
    /\ \E nodes \in {<<>>, <<clock>>} :
          open' = [u \in DOMAIN open \union {t} |->
                      IF u = t THEN [nodes |-> nodes, last |-> clock]
                               ELSE open[u]]
    /\ UNCHANGED <<clock, sessions>>

\* A span joins the open session of its trace and renews it.
JoinSession(t) ==
    /\ t \in DOMAIN open
    /\ open' = [open EXCEPT ![t] = [nodes |-> <<clock>> \o open[t].nodes,
                                    last |-> clock]]
    /\ UNCHANGED <<clock, sessions>>

Expired(t, timeout) == clock - open[t].last >= timeout * TicksPerSec

\* Some expired sessions are closed, in any order.
CloseSessions(ts, timeout) ==
    /\ ts # {}
    /\ \A t \in ts : Expired(t, timeout)
    /\ \E order \in [1..Cardinality(ts) -> ts] :
          /\ \A t \in ts : \E i \in DOMAIN order : order[i] = t
          /\ sessions' = sessions \o
                [i \in DOMAIN order |-> [id |-> order[i]] @@ open[order[i]]]
    /\ open' = [t \in DOMAIN open \ ts |-> open[t]]
    /\ UNCHANGED clock

\* All that is open is given up: nobody assembles any more.
Abandon == open' = [t \in {} |-> <<>>] /\ UNCHANGED <<clock, sessions>>

SessionNext ==
    \/ Advance
    \/ Abandon
    \/ \E t \in Traces : OpenSession(t) \/ JoinSession(t)
    \/ \E ts \in SUBSET DOMAIN open : \E timeout \in Timeouts :
          CloseSessions(ts, timeout)

SessionSpec == SessionInit /\ [][SessionNext]_sessionVars
=============================================================================

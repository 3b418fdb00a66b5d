---------------------------- MODULE SpanChannel ----------------------------
(***************************************************************************)
(* What the export ring promises its two users, without indices or slots:  *)
(* a lossless FIFO channel of spans with credit-based back-pressure.  The  *)
(* producer holds one credit per span it may still put in, spends it on an *)
(* accepted span, and refuses a span exactly when it holds none.  A credit *)
(* comes back some time after the span it paid for has been delivered:     *)
(* until the producer has learned of the delivery, the credit is owed.     *)
(*                                                                         *)
(* SpanRing is shown to implement this module.                             *)
(***************************************************************************)
EXTENDS Integers, Sequences

CONSTANTS
    Credits,   \* how many spans the channel holds
    MaxSpans   \* bound on the spans ever offered

VARIABLES
    offers,    \* spans offered so far; span n is the n-th one offered
    chan,      \* spans accepted and not yet delivered, oldest first
    credits,   \* credits the producer holds
    owed,      \* credits freed by a delivery the producer has not learned of
    received   \* spans delivered, in order of delivery

channelVars == <<offers, chan, credits, owed, received>>

ChannelTypeOK ==
    /\ offers \in 0..MaxSpans
    /\ chan \in Seq(1..MaxSpans)
    /\ credits \in 0..Credits
    /\ owed \in 0..Credits
    /\ received \in Seq(1..MaxSpans)

ChannelInit ==
    /\ offers = 0
    /\ chan = <<>>
    /\ credits = Credits
    /\ owed = 0
    /\ received = <<>>

Accept ==
    /\ offers < MaxSpans
    /\ credits > 0
    /\ offers' = offers + 1
    /\ chan' = Append(chan, offers + 1)
    /\ credits' = credits - 1
    /\ UNCHANGED <<owed, received>>

Refuse ==
    /\ offers < MaxSpans
    /\ credits = 0
    /\ offers' = offers + 1
    /\ UNCHANGED <<chan, credits, owed, received>>

Deliver ==
    /\ chan # <<>>
    /\ received' = Append(received, Head(chan))
    /\ chan' = Tail(chan)
    /\ owed' = owed + 1
    /\ UNCHANGED <<offers, credits>>

Repay ==
    /\ \E k \in 1..owed : credits' = credits + k /\ owed' = owed - k
    /\ UNCHANGED <<offers, chan, received>>

ChannelNext == Accept \/ Refuse \/ Deliver \/ Repay

ChannelSpec == ChannelInit /\ [][ChannelNext]_channelVars
=============================================================================

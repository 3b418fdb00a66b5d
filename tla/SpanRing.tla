------------------------------ MODULE SpanRing ------------------------------
(***************************************************************************)
(* The lock-free single-producer single-consumer ring buffer of            *)
(* src/src/export/ring_buffer.c, one action per memory access that the     *)
(* other thread can observe.                                               *)
(*                                                                         *)
(* write_index and read_index are C11 atomics.  Each is modelled by its    *)
(* modification order: the sequence of all values ever stored in it.  A    *)
(* load by the thread that stores the index returns the last value; a load *)
(* by the other thread may return any value not older than the one it saw  *)
(* last (coherence), so the model has the stale reads the memory model     *)
(* allows.  An acquire load that reads a release store makes everything    *)
(* before that store happen before the reader's next step: pSync and cSync *)
(* hold, per thread, how much of the other thread's index happens before   *)
(* it.  readAt and wroteAt remember, per slot, the last pop that read it   *)
(* and the last push that wrote it, so that a data race (an access not     *)
(* ordered after a conflicting one) is a condition on the state.           *)
(*                                                                         *)
(* A span is the number of its push: spans are told apart, and carry the   *)
(* wire length WireLen gives them; the bytes are not modelled.             *)
(***************************************************************************)
EXTENDS Integers, Sequences

CONSTANTS
    Capacity,   \* slots of the ring (4096 in the exporter)
    MaxSpans,   \* bound on the spans ever pushed
    WireLen     \* wire length of each span, as span_serialize returns it

MaxPayload == 252   \* a 256-byte slot less its 4-byte length prefix

ASSUME RingAssumption ==
    /\ Capacity \in Nat \ {0}
    /\ MaxSpans \in Nat
    /\ WireLen \in [1..MaxSpans -> 1..MaxPayload]

VARIABLES
    slots,       \* the slot array: length prefix and body of each slot
    writeIndex,  \* every value stored in write_index, in order
    readIndex,   \* every value stored in read_index, in order
    pPc,         \* the producer's place in ring_buffer_push
    pW, pR,      \* its locals w and r
    pSeen,       \* the store of read_index it loaded last
    pSync,       \* the stores of read_index that happen before its next step
    cPc,         \* the consumer's place in ring_buffer_pop
    cR, cW,      \* its locals r and w
    cOut,        \* its output buffer and *out_len
    cSeen,       \* the store of write_index it loaded last
    cSync,       \* the stores of write_index that happen before its next step
    offered,     \* pushes begun; the span being pushed
    accepted,    \* spans whose push returned true, in order
    delivered,   \* what each successful pop returned, in order
    wroteAt,     \* last push that wrote each slot, 0 if none
    readAt       \* last pop that read each slot, 0 if none

producerVars == <<pPc, pW, pR, pSeen, pSync, offered, accepted>>
consumerVars == <<cPc, cR, cW, cOut, cSeen, cSync, delivered>>
ringVars == <<slots, writeIndex, readIndex, wroteAt, readAt,
              producerVars, consumerVars>>

Index == 0..(Capacity - 1)
Span == 1..MaxSpans
Frame == [len : 0..MaxPayload, body : 0..MaxSpans]
Zeroed == [len |-> 0, body |-> 0]
Encoded(n) == [len |-> WireLen[n], body |-> n]

\* Mutant of Succ: the index does not wrap.
SuccUnwrapped(i) == i + 1

Latest(order) == order[Len(order)]
Succ(i) == (i + 1) % Capacity
Clamp(len) == IF len > MaxPayload THEN MaxPayload ELSE len

\* Mutant of Acquire: the load is relaxed and orders nothing.
AcquireRelaxed(sync, i) == sync

\* An acquire load of the i-th store, a release store, synchronises with it.
Acquire(sync, i) == i

-----------------------------------------------------------------------------
\* ring_buffer_create: zeroed slots, both indices 0, before any thread runs.
RingInit ==
    /\ slots = [s \in Index |-> Zeroed]
    /\ writeIndex = <<0>>
    /\ readIndex = <<0>>
    /\ pPc = "idle" /\ pW = 0 /\ pR = 0 /\ pSeen = 1 /\ pSync = 1
    /\ cPc = "idle" /\ cR = 0 /\ cW = 0 /\ cSeen = 1 /\ cSync = 1
    /\ cOut = Zeroed
    /\ offered = 0
    /\ accepted = <<>>
    /\ delivered = <<>>
    /\ wroteAt = [s \in Index |-> 0]
    /\ readAt = [s \in Index |-> 0]

-----------------------------------------------------------------------------
(* ring_buffer_push *)

\* Mutant of Full: one slot too many is kept free.
FullEarly(w, r) == (w + 2) % Capacity = r \/ Succ(w) = r

Full(w, r) == Succ(w) = r

\* Relaxed load of the producer's own index, acquire load of the other one.
PushLoad ==
    /\ pPc = "idle"
    /\ offered < MaxSpans
    /\ offered' = offered + 1
    /\ pW' = Latest(writeIndex)
    /\ \E i \in pSeen..Len(readIndex) :
          /\ pR' = readIndex[i]
          /\ pSeen' = i
          /\ pSync' = Acquire(pSync, i)
    /\ pPc' = "check"
    /\ UNCHANGED <<slots, writeIndex, readIndex, wroteAt, readAt, accepted,
                   consumerVars>>

PushRefuse ==
    /\ pPc = "check"
    /\ Full(pW, pR)
    /\ pPc' = "idle"
    /\ UNCHANGED <<slots, writeIndex, readIndex, wroteAt, readAt, pW, pR,
                   pSeen, pSync, offered, accepted, consumerVars>>

\* Mutant of PushBody: the length prefix is not written.
PushBodyOnly ==
    /\ pPc = "check"
    /\ ~Full(pW, pR)
    /\ slots' = [slots EXCEPT ![pW].body = offered]
    /\ wroteAt' = [wroteAt EXCEPT ![pW] = Len(writeIndex)]
    /\ pPc' = "publish"
    /\ UNCHANGED <<writeIndex, readIndex, readAt, pW, pR, pSeen, pSync,
                   offered, accepted, consumerVars>>

PushBody ==
    /\ pPc = "check"
    /\ ~Full(pW, pR)
    /\ slots' = [slots EXCEPT ![pW].body = offered]
    /\ wroteAt' = [wroteAt EXCEPT ![pW] = Len(writeIndex)]
    /\ pPc' = "len"
    /\ UNCHANGED <<writeIndex, readIndex, readAt, pW, pR, pSeen, pSync,
                   offered, accepted, consumerVars>>

PushLen ==
    /\ pPc = "len"
    /\ slots' = [slots EXCEPT ![pW].len = WireLen[offered]]
    /\ pPc' = "publish"
    /\ UNCHANGED <<writeIndex, readIndex, wroteAt, readAt, pW, pR, pSeen,
                   pSync, offered, accepted, consumerVars>>

PushPublish ==
    /\ pPc = "publish"
    /\ writeIndex' = Append(writeIndex, Succ(pW))
    /\ accepted' = Append(accepted, offered)
    /\ pPc' = "idle"
    /\ UNCHANGED <<slots, readIndex, wroteAt, readAt, pW, pR, pSeen, pSync,
                   offered, consumerVars>>

-----------------------------------------------------------------------------
(* ring_buffer_pop *)

PopLoad ==
    /\ cPc = "idle"
    /\ cR' = Latest(readIndex)
    /\ \E i \in cSeen..Len(writeIndex) :
          /\ cW' = writeIndex[i]
          /\ cSeen' = i
          /\ cSync' = Acquire(cSync, i)
    /\ cPc' = "check"
    /\ UNCHANGED <<slots, writeIndex, readIndex, wroteAt, readAt, cOut,
                   delivered, producerVars>>

PopEmpty ==
    /\ cPc = "check"
    /\ cR = cW
    /\ cPc' = "idle"
    /\ UNCHANGED <<slots, writeIndex, readIndex, wroteAt, readAt, cR, cW,
                   cOut, cSeen, cSync, delivered, producerVars>>

PopLen ==
    /\ cPc = "check"
    /\ cR # cW
    /\ cOut' = [len |-> Clamp(slots[cR].len), body |-> 0]
    /\ readAt' = [readAt EXCEPT ![cR] = Len(readIndex)]
    /\ cPc' = "body"
    /\ UNCHANGED <<slots, writeIndex, readIndex, wroteAt, cR, cW, cSeen,
                   cSync, delivered, producerVars>>

PopBody ==
    /\ cPc = "body"
    /\ cOut' = [cOut EXCEPT !.body = slots[cR].body]
    /\ cPc' = "publish"
    /\ UNCHANGED <<slots, writeIndex, readIndex, wroteAt, readAt, cR, cW,
                   cSeen, cSync, delivered, producerVars>>

PopPublish ==
    /\ cPc = "publish"
    /\ readIndex' = Append(readIndex, Succ(cR))
    /\ delivered' = Append(delivered, cOut)
    /\ cPc' = "idle"
    /\ UNCHANGED <<slots, writeIndex, wroteAt, readAt, cR, cW, cOut, cSeen,
                   cSync, producerVars>>

-----------------------------------------------------------------------------
(***************************************************************************)
(* Synchronisation by other means than the two indices: starting a thread, *)
(* joining it, or an acquire load of a flag the other thread released,     *)
(* makes some of the other thread's stores happen before the next step.    *)
(***************************************************************************)

ProducerSyncTo(i) ==
    /\ i \in pSeen..Len(readIndex)
    /\ pSeen' = i
    /\ pSync' = i

ConsumerSyncTo(i) ==
    /\ i \in cSeen..Len(writeIndex)
    /\ cSeen' = i
    /\ cSync' = i

ProducerSync ==
    /\ pPc = "idle"
    /\ \E i \in 1..Len(readIndex) : ProducerSyncTo(i)
    /\ UNCHANGED <<slots, writeIndex, readIndex, wroteAt, readAt, pPc, pW, pR,
                   offered, accepted, consumerVars>>

ConsumerSync ==
    /\ cPc = "idle"
    /\ \E i \in 1..Len(writeIndex) : ConsumerSyncTo(i)
    /\ UNCHANGED <<slots, writeIndex, readIndex, wroteAt, readAt, cPc, cR, cW,
                   cOut, delivered, producerVars>>

-----------------------------------------------------------------------------
Push == PushLoad \/ PushRefuse \/ PushBody \/ PushLen \/ PushPublish
Pop == PopLoad \/ PopEmpty \/ PopLen \/ PopBody \/ PopPublish

RingNext == Push \/ Pop \/ ProducerSync \/ ConsumerSync

RingSpec == RingInit /\ [][RingNext]_ringVars

-----------------------------------------------------------------------------
(* Properties *)

\* The type of every variable, for ring_buffer.c:30-122.
RingTypeOK ==
    /\ slots \in [Index -> Frame]
    /\ writeIndex \in Seq(Index) /\ writeIndex # <<>>
    /\ readIndex \in Seq(Index) /\ readIndex # <<>>
    /\ pPc \in {"idle", "check", "len", "publish"}
    /\ pW \in Index /\ pR \in Index
    /\ pSeen \in 1..Len(readIndex) /\ pSync \in 1..Len(readIndex)
    /\ cPc \in {"idle", "check", "body", "publish"}
    /\ cR \in Index /\ cW \in Index
    /\ cSeen \in 1..Len(writeIndex) /\ cSync \in 1..Len(writeIndex)
    /\ cOut \in Frame
    /\ offered \in 0..MaxSpans
    /\ accepted \in Seq(Span)
    /\ delivered \in Seq(Frame)
    /\ wroteAt \in [Index -> Nat]
    /\ readAt \in [Index -> Nat]

\* A push is about to write its slot, or still writing it.
Writing == (pPc = "check" /\ ~Full(pW, pR)) \/ pPc = "len"

\* A pop is about to read its slot, or still reading it.
Reading == (cPc = "check" /\ cR # cW) \/ cPc = "body"

\* No data race on a slot: the producer writes one only when the last pop
\* that read it happens before the write, the consumer reads one only when
\* the last push that wrote it happens before the read, and they never work
\* on the same slot at once (ring_buffer.c:62-122).
NoSlotRace ==
    /\ Writing => readAt[pW] < pSync
    /\ Reading => wroteAt[cR] < cSync
    /\ ~(Writing /\ Reading /\ pW = cR)

\* Every successful pop returns, in push order, exactly the frame its push
\* encoded: nothing is lost, repeated, reordered or torn, even though the
\* slots are reused and the indices wrap around (ring_buffer.c:62-122).
DeliveredIntact ==
    /\ Len(delivered) <= Len(accepted)
    /\ \A n \in 1..Len(delivered) : delivered[n] = Encoded(accepted[n])

\* One slot is always left free, so equal indices always mean empty and
\* never full (ring_buffer.c:5-7).
OneSlotFree == Len(accepted) - Len(delivered) <= Capacity - 1

-----------------------------------------------------------------------------
(* The abstract channel this ring implements. *)

\* Pushes that have returned, and the pops the producer has learned of.
Offers == IF pPc = "idle" THEN offered ELSE offered - 1
Known == pSync - 1

\* Spans accepted and not yet delivered, and the spans delivered.
Waiting == SubSeq(accepted, Len(delivered) + 1, Len(accepted))
Bodies == [i \in 1..Len(delivered) |-> delivered[i].body]

Channel == INSTANCE SpanChannel WITH
    Credits  <- Capacity - 1,
    offers   <- Offers,
    chan     <- Waiting,
    credits  <- Capacity - 1 - (Len(accepted) - Known),
    owed     <- Len(delivered) - Known,
    received <- Bodies

\* The ring refuses a span only when the producer holds no credit, and every
\* one of its steps is a step of the channel or none (ring_buffer.c:62-122).
ImplementsChannel == Channel!ChannelSpec
=============================================================================

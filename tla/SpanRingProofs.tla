--------------------------- MODULE SpanRingProofs ---------------------------
(***************************************************************************)
(* Proofs about SpanRing, for every capacity, number of spans and wire     *)
(* lengths: its type invariant, the absence of data races on the slots,    *)
(* the integrity of what is delivered, and that it implements SpanChannel. *)
(*                                                                         *)
(* The argument is one inductive invariant, RingInv.  It ties every index  *)
(* ever stored to the number of its store (the k-th position of the ring   *)
(* is slot k % Capacity), bounds the distance between the two positions by *)
(* what the producer knows of the consumer, and says what the slots in     *)
(* between hold.  Distances then decide everything: two positions less     *)
(* than Capacity apart are different slots (ModApart).                     *)
(***************************************************************************)
EXTENDS SpanRing, SequenceTheorems, TLAPS

-----------------------------------------------------------------------------
(* Positions taken modulo the size of a ring: stated for every size C, and *)
(* proved from division with remainder.  Everything else cites these facts *)
(* and never expands %.                                                    *)

\* A remainder is a valid index, and division leaves exactly it.
LEMMA DivisionWithRemainder ==
  ASSUME NEW C \in Nat \ {0}, NEW x \in Nat
  PROVE  /\ x % C \in 0..(C - 1)
         /\ x \div C \in Nat
         /\ x = C * (x \div C) + (x % C)
BY SMT

\* A positive multiple of C is at least C.
LEMMA MultipleAtLeast ==
  ASSUME NEW C \in Nat \ {0}, NEW d \in Int, d >= 1
  PROVE  C * d >= C
BY SMT

\* Two positions less than C apart fall on different indices.
LEMMA ModApart ==
  ASSUME NEW C \in Nat \ {0}, NEW x \in Nat, NEW y \in Nat, x < y, y < x + C
  PROVE  x % C # y % C
<1> SUFFICES ASSUME x % C = y % C PROVE FALSE
  OBVIOUS
<1> DEFINE p == x \div C
           q == y \div C
<1>1. p \in Nat /\ q \in Nat /\ x = C * p + (x % C) /\ y = C * q + (y % C)
  BY DivisionWithRemainder
<1>2. x % C \in 0..(C - 1)
  BY DivisionWithRemainder
<1> HIDE DEF p, q
<1>3. y - x = C * (q - p)
  BY <1>1, <1>2
<1>4. CASE q - p >= 1
  BY <1>1, <1>3, <1>4, MultipleAtLeast
<1>5. CASE q = p
  <2>1. C * (q - p) = 0
    BY <1>1, <1>5
  <2>2. QED
    BY <2>1, <1>3
<1>6. CASE q - p <= -1
  <2>1. C * (p - q) >= C
    BY <1>1, <1>6, MultipleAtLeast
  <2>2. C * (q - p) = -(C * (p - q))
    BY <1>1
  <2>3. QED
    BY <2>1, <2>2, <1>1, <1>3
<1>7. QED
  BY <1>1, <1>4, <1>5, <1>6

\* The index after that of x is the index of x + 1.
LEMMA ModSucc ==
  ASSUME NEW C \in Nat \ {0}, NEW x \in Nat
  PROVE  ((x % C) + 1) % C = (x + 1) % C
<1> DEFINE p == x \div C
           q == (x + 1) \div C
           r == x % C
           s == (x + 1) % C
<1>1. p \in Nat /\ r \in 0..(C - 1) /\ x = C * p + r
  BY DivisionWithRemainder
<1>2. q \in Nat /\ s \in 0..(C - 1) /\ x + 1 = C * q + s
  <2>1. x + 1 \in Nat
    OBVIOUS
  <2>2. QED
    BY <2>1, DivisionWithRemainder
<1>3. SUFFICES (r + 1) % C = s
  OBVIOUS
<1> HIDE DEF p, q, r, s
<1>4. (r + 1) % C = IF r + 1 = C THEN 0 ELSE r + 1
  BY <1>1, SMT
<1>5. C * (q - p) = r + 1 - s
  BY <1>1, <1>2
<1>6. CASE q - p >= 2
  <2>1. C * (q - p - 1) >= C
    BY <1>1, <1>2, <1>6, MultipleAtLeast
  <2>2. C * (q - p) = C * (q - p - 1) + C
    BY <1>1, <1>2
  <2>3. QED
    BY <2>1, <2>2, <1>1, <1>2, <1>5
<1>7. CASE q - p <= -1
  <2>1. C * (p - q) >= C
    BY <1>1, <1>2, <1>7, MultipleAtLeast
  <2>2. C * (q - p) = -(C * (p - q))
    BY <1>1, <1>2
  <2>3. QED
    BY <2>1, <2>2, <1>1, <1>2, <1>5
<1>8. CASE q = p
  <2>1. C * (q - p) = 0
    BY <1>1, <1>2, <1>8
  <2>2. s = r + 1
    BY <2>1, <1>1, <1>2, <1>5
  <2>3. QED
    BY <2>2, <1>1, <1>2, <1>4
<1>9. CASE q - p = 1
  <2>1. C * (q - p) = C
    BY <1>1, <1>2, <1>9
  <2>2. s = 0 /\ r + 1 = C
    BY <2>1, <1>1, <1>2, <1>5
  <2>3. QED
    BY <2>2, <1>1, <1>2, <1>4
<1>10. QED
  BY <1>1, <1>2, <1>6, <1>7, <1>8, <1>9

\* Positions exactly C apart fall on the same index.
LEMMA ModWrap ==
  ASSUME NEW C \in Nat \ {0}, NEW x \in Nat
  PROVE  (x + C) % C = x % C
<1> DEFINE p == x \div C
           q == (x + C) \div C
           r == x % C
           s == (x + C) % C
<1>1. p \in Nat /\ r \in 0..(C - 1) /\ x = C * p + r
  BY DivisionWithRemainder
<1>2. q \in Nat /\ s \in 0..(C - 1) /\ x + C = C * q + s
  <2>1. x + C \in Nat
    OBVIOUS
  <2>2. QED
    BY <2>1, DivisionWithRemainder
<1>3. SUFFICES s = r
  OBVIOUS
<1> HIDE DEF p, q, r, s
<1>4. C * (q - p - 1) = r - s
  BY <1>1, <1>2
<1>5. CASE q - p - 1 >= 1
  BY <1>1, <1>2, <1>4, <1>5, MultipleAtLeast
<1>6. CASE q - p - 1 <= -1
  <2>1. C * (p + 1 - q) >= C
    BY <1>1, <1>2, <1>6, MultipleAtLeast
  <2>2. C * (q - p - 1) = -(C * (p + 1 - q))
    BY <1>1, <1>2
  <2>3. QED
    BY <2>1, <2>2, <1>1, <1>2, <1>4
<1>7. CASE q - p - 1 = 0
  <2>1. C * (q - p - 1) = 0
    BY <1>7
  <2>2. QED
    BY <2>1, <1>1, <1>2, <1>4
<1>8. QED
  BY <1>1, <1>2, <1>5, <1>6, <1>7

-----------------------------------------------------------------------------

\* Pushes and pops published so far; also the position the next one uses.
Pushed == Len(writeIndex) - 1
Popped == Len(readIndex) - 1

SlotAt(k) == k % Capacity

-----------------------------------------------------------------------------
(* The inductive invariant. *)

\* Every value an index ever held is the position of its store.
IndicesCount ==
    /\ \A i \in 1..Len(writeIndex) : writeIndex[i] = SlotAt(i - 1)
    /\ \A i \in 1..Len(readIndex) : readIndex[i] = SlotAt(i - 1)
    /\ Len(accepted) = Pushed
    /\ Len(delivered) = Popped

\* What each side knows of the other, and the room the producer may use.
Distances ==
    /\ pSeen = pSync
    /\ cSeen = cSync
    /\ Popped <= cSync - 1
    /\ Pushed - (pSync - 1) <= Capacity - 1

ProducerLocals ==
    /\ pPc # "idle" => /\ pW = SlotAt(Pushed)
                       /\ pR = SlotAt(pSync - 1)
                       /\ offered \in Span
    /\ pPc \in {"len", "publish"} => ~Full(pW, pR)
    /\ pPc = "len" => slots[pW].body = offered
    /\ pPc = "publish" => slots[pW] = Encoded(offered)

ConsumerLocals ==
    /\ cPc # "idle" => cR = SlotAt(Popped) /\ cW = SlotAt(cSync - 1)
    /\ cPc \in {"body", "publish"} => cR # cW
    /\ cPc = "body" => cOut.len = WireLen[accepted[Popped + 1]]
    /\ cPc = "publish" => cOut = Encoded(accepted[Popped + 1])

\* The slots between the two positions hold the frames still to deliver.
SlotsHoldPending ==
    \A n \in (Popped + 1)..Pushed : slots[SlotAt(n - 1)] = Encoded(accepted[n])

\* The last access to a slot is by a position that falls on that slot.
AccessCounts ==
    \A s \in Index :
        /\ wroteAt[s] # 0 =>
              /\ SlotAt(wroteAt[s] - 1) = s
              /\ wroteAt[s] <= Pushed + IF pPc \in {"len", "publish"} THEN 1
                                        ELSE 0
        /\ readAt[s] # 0 =>
              /\ SlotAt(readAt[s] - 1) = s
              /\ readAt[s] <= Popped + IF cPc \in {"body", "publish"} THEN 1
                                       ELSE 0

RingInv ==
    /\ RingTypeOK
    /\ IndicesCount
    /\ Distances
    /\ ProducerLocals
    /\ ConsumerLocals
    /\ SlotsHoldPending
    /\ AccessCounts
    /\ DeliveredIntact

-----------------------------------------------------------------------------
(* Facts about positions and the slots they fall on. *)

\* The assumption on the constants, in the form the steps below cite.
LEMMA CapacityType == Capacity \in Nat \ {0} /\ MaxSpans \in Nat
BY RingAssumption

\* The slot of every push or pop is a slot of the ring.
LEMMA SlotAtIndex == ASSUME NEW k \in Nat PROVE SlotAt(k) \in Index
BY CapacityType, DivisionWithRemainder DEF SlotAt, Index

\* The index after that of the k-th push is that of the next one.
LEMMA SlotAtSucc == ASSUME NEW k \in Nat PROVE Succ(SlotAt(k)) = SlotAt(k + 1)
BY CapacityType, ModSucc DEF SlotAt, Succ

\* Fewer than Capacity pushes apart, two pushes use different slots.
LEMMA SlotAtApart ==
  ASSUME NEW j \in Nat, NEW k \in Nat, j < k, k < j + Capacity
  PROVE  SlotAt(j) # SlotAt(k)
BY CapacityType, ModApart DEF SlotAt

\* Capacity pushes apart, two pushes use the same slot.
LEMMA SlotAtWrap == ASSUME NEW k \in Nat PROVE SlotAt(k + Capacity) = SlotAt(k)
BY CapacityType, ModWrap DEF SlotAt

\* The counts that the sequences of the ring stand for are natural numbers.
LEMMA Counts ==
  ASSUME RingInv
  PROVE  /\ Pushed \in Nat /\ Len(writeIndex) = Pushed + 1
         /\ Popped \in Nat /\ Len(readIndex) = Popped + 1
         /\ pSync \in 1..(Popped + 1) /\ cSync \in 1..(Pushed + 1)
         /\ Popped <= Pushed
         /\ Latest(writeIndex) = SlotAt(Pushed)
         /\ Latest(readIndex) = SlotAt(Popped)
<1>1. Len(writeIndex) \in Nat \ {0} /\ Len(readIndex) \in Nat \ {0}
  BY EmptySeq, LenProperties DEF RingInv, RingTypeOK
<1>2. /\ Pushed \in Nat /\ Len(writeIndex) = Pushed + 1
      /\ Popped \in Nat /\ Len(readIndex) = Popped + 1
  BY <1>1 DEF Pushed, Popped
<1>3. /\ pSync \in 1..(Popped + 1) /\ cSync \in 1..(Pushed + 1)
      /\ Popped <= Pushed
  BY <1>2 DEF RingInv, RingTypeOK, Distances
<1>4. Latest(writeIndex) = SlotAt(Pushed) /\ Latest(readIndex) = SlotAt(Popped)
  BY <1>2 DEF RingInv, IndicesCount, Latest
<1>5. QED
  BY <1>2, <1>3, <1>4

\* The producer's full check says what it knows of the distance between the
\* two positions: no room means no credit, room leaves one slot to spare.
LEMMA FullMeansNoCredit ==
  ASSUME RingInv, pPc # "idle"
  PROVE  Full(pW, pR) <=> Pushed - (pSync - 1) = Capacity - 1
<1> DEFINE known == pSync - 1
<1>1. /\ Pushed \in Nat /\ known \in Nat /\ known <= Pushed
      /\ Pushed - known <= Capacity - 1
      /\ pW = SlotAt(Pushed) /\ pR = SlotAt(known)
  BY Counts DEF RingInv, Distances, ProducerLocals
<1>2. Full(pW, pR) <=> SlotAt(Pushed + 1) = SlotAt(known)
  BY <1>1, SlotAtSucc DEF Full
<1> HIDE DEF known
<1>3. CASE Pushed - known = Capacity - 1
  <2>1. Pushed + 1 = known + Capacity
    BY <1>1, <1>3, CapacityType
  <2>2. QED
    BY <2>1, <1>1, <1>2, <1>3, SlotAtWrap DEF known
<1>4. CASE Pushed - known < Capacity - 1
  <2>1. SlotAt(known) # SlotAt(Pushed + 1)
    BY <1>1, <1>4, CapacityType, SlotAtApart
  <2>2. QED
    BY <2>1, <1>1, <1>2, <1>4, CapacityType DEF known
<1>5. QED
  BY <1>1, <1>3, <1>4, CapacityType

\* The consumer's empty check says whether it knows of a frame to deliver.
LEMMA NotEmptyMeansPending ==
  ASSUME RingInv, cPc # "idle", cR # cW
  PROVE  Popped + 1 <= cSync - 1
BY Counts DEF RingInv, Distances, ConsumerLocals

-----------------------------------------------------------------------------
(* Each action preserves the invariant: the producer's steps. *)

\* Loading the indices, the other one possibly stale, keeps the invariant (ring_buffer.c:67-68).
LEMMA PushLoadStep == ASSUME RingInv, PushLoad PROVE RingInv'
<1>1. PICK i \in pSeen..Len(readIndex) :
         pR' = readIndex[i] /\ pSeen' = i /\ pSync' = i
  BY DEF PushLoad, Acquire
<1>2. /\ pW' = SlotAt(Pushed) /\ pR' = SlotAt(i - 1)
      /\ i \in pSync..(Popped + 1) /\ i \in 1..(Popped + 1)
      /\ Pushed' = Pushed /\ Popped' = Popped /\ pPc' = "check"
  <2>1. i \in pSync..(Popped + 1) /\ i \in 1..(Popped + 1)
    BY Counts DEF RingInv, Distances
  <2>2. pR' = SlotAt(i - 1)
    BY <1>1, <2>1, Counts DEF RingInv, IndicesCount
  <2>3. QED
    BY <2>1, <2>2, Counts DEF PushLoad, Pushed, Popped
<1>3. RingTypeOK'
  <2>1. pW' \in Index /\ pR' \in Index
    BY <1>2, Counts, SlotAtIndex
  <2>2. offered' \in 0..MaxSpans
    BY CapacityType DEF PushLoad, RingInv, RingTypeOK
  <2>3. pSeen' \in 1..Len(readIndex') /\ pSync' \in 1..Len(readIndex')
    BY <1>1, <1>2, Counts DEF PushLoad
  <2>4. QED
    BY <2>1, <2>2, <2>3 DEF PushLoad, consumerVars, RingInv, RingTypeOK
<1>4. IndicesCount' /\ SlotsHoldPending' /\ DeliveredIntact'
  BY <1>2 DEF PushLoad, consumerVars, RingInv, IndicesCount,
              SlotsHoldPending, DeliveredIntact
<1>5. Distances'
  <2>1. Pushed - (i - 1) <= Capacity - 1
    BY <1>2, Counts, CapacityType DEF RingInv, Distances
  <2>2. cSeen' = cSeen /\ cSync' = cSync
    BY DEF PushLoad, consumerVars
  <2>3. QED
    BY <2>1, <2>2, <1>1, <1>2 DEF RingInv, Distances
<1>6. ProducerLocals'
  BY <1>1, <1>2, CapacityType DEF PushLoad, RingInv, RingTypeOK,
                                  ProducerLocals, Span
<1>7. ConsumerLocals' /\ AccessCounts'
  BY <1>2 DEF PushLoad, consumerVars, RingInv, ConsumerLocals, AccessCounts
<1>8. QED
  BY <1>3, <1>4, <1>5, <1>6, <1>7 DEF RingInv

\* Refusing a span keeps the invariant (ring_buffer.c:71-73).
LEMMA PushRefuseStep == ASSUME RingInv, PushRefuse PROVE RingInv'
<1>1. Pushed' = Pushed /\ Popped' = Popped /\ pPc' = "idle"
  BY DEF PushRefuse, Pushed, Popped
<1>2. RingTypeOK' /\ IndicesCount' /\ Distances'
  BY <1>1 DEF PushRefuse, consumerVars, RingInv, RingTypeOK, IndicesCount,
              Distances
<1>3. ProducerLocals' /\ ConsumerLocals'
  BY <1>1 DEF PushRefuse, consumerVars, RingInv, ProducerLocals,
              ConsumerLocals
<1>4. SlotsHoldPending' /\ AccessCounts' /\ DeliveredIntact'
  BY <1>1 DEF PushRefuse, consumerVars, RingInv, SlotsHoldPending,
              AccessCounts, DeliveredIntact
<1>5. QED
  BY <1>2, <1>3, <1>4 DEF RingInv

\* The slot a push writes holds no frame still to be delivered.
LEMMA WrittenSlotNotPending ==
  ASSUME RingInv, pPc # "idle", NEW n \in (Popped + 1)..Pushed
  PROVE  SlotAt(n - 1) # pW
<1>1. pW = SlotAt(Pushed)
  BY DEF RingInv, ProducerLocals
<1>2. Pushed < (n - 1) + Capacity
  BY Counts, CapacityType DEF RingInv, Distances
<1>3. QED
  BY <1>1, <1>2, Counts, CapacityType, SlotAtApart

\* Writing the body of a free slot keeps the invariant (ring_buffer.c:75-81).
LEMMA PushBodyStep == ASSUME RingInv, PushBody PROVE RingInv'
<1>1. /\ Pushed' = Pushed /\ Popped' = Popped
      /\ pPc = "check" /\ pPc' = "len" /\ ~Full(pW, pR)
      /\ pW \in Index /\ pW = SlotAt(Pushed) /\ offered \in Span
  BY DEF PushBody, Pushed, Popped, RingInv, RingTypeOK, ProducerLocals
<1>2. /\ slots' = [slots EXCEPT ![pW] = [slots[pW] EXCEPT !.body = offered]]
      /\ slots \in [Index -> Frame]
  BY DEF PushBody, RingInv, RingTypeOK
<1>3. wroteAt' = [wroteAt EXCEPT ![pW] = Pushed + 1] /\ wroteAt \in [Index -> Nat]
  BY Counts DEF PushBody, RingInv, RingTypeOK
<1>4. RingTypeOK'
  <2>1. slots' \in [Index -> Frame]
    BY <1>1, <1>2 DEF Frame, Span
  <2>2. wroteAt' \in [Index -> Nat]
    <3>1. Pushed + 1 \in Nat
      BY Counts
    <3>2. QED
      BY <1>3, <3>1
  <2>3. QED
    BY <2>1, <2>2, <1>1 DEF PushBody, consumerVars, RingInv, RingTypeOK
<1>5. IndicesCount' /\ Distances' /\ DeliveredIntact' /\ ConsumerLocals'
  BY <1>1 DEF PushBody, consumerVars, RingInv, IndicesCount, Distances,
              DeliveredIntact, ConsumerLocals
<1>6. ProducerLocals'
  BY <1>1, <1>2 DEF PushBody, RingInv, ProducerLocals, Frame, Full
<1>7. SlotsHoldPending'
  <2>1. ASSUME NEW n \in (Popped + 1)..Pushed
        PROVE  slots'[SlotAt(n - 1)] = slots[SlotAt(n - 1)]
    <3>1. SlotAt(n - 1) # pW
      BY <1>1, WrittenSlotNotPending
    <3>2. SlotAt(n - 1) \in Index
      BY Counts, SlotAtIndex
    <3>3. QED
      BY <3>1, <3>2, <1>2
  <2>2. accepted' = accepted
    BY DEF PushBody
  <2>3. QED
    BY <2>1, <2>2, <1>1 DEF RingInv, SlotsHoldPending
<1>8. AccessCounts'
  <2> SUFFICES ASSUME NEW s \in Index
               PROVE  /\ wroteAt'[s] # 0 => /\ SlotAt(wroteAt'[s] - 1) = s
                                            /\ wroteAt'[s] <= Pushed + 1
                      /\ readAt' = readAt /\ cPc' = cPc
    BY <1>1 DEF RingInv, AccessCounts
  <2>1. CASE s = pW
    BY <2>1, <1>1, <1>3, Counts DEF PushBody, consumerVars
  <2>2. CASE s # pW
    BY <2>2, <1>1, <1>3, Counts DEF PushBody, consumerVars, RingInv,
                                    AccessCounts
  <2>3. QED
    BY <2>1, <2>2
<1>9. QED
  BY <1>4, <1>5, <1>6, <1>7, <1>8 DEF RingInv

\* Writing its length prefix keeps the invariant (ring_buffer.c:83-85).
LEMMA PushLenStep == ASSUME RingInv, PushLen PROVE RingInv'
<1>1. /\ Pushed' = Pushed /\ Popped' = Popped
      /\ pPc = "len" /\ pPc' = "publish" /\ ~Full(pW, pR)
      /\ pW \in Index /\ offered \in Span
  BY DEF PushLen, Pushed, Popped, RingInv, RingTypeOK, ProducerLocals
<1>2. /\ slots' = [slots EXCEPT
                      ![pW] = [slots[pW] EXCEPT !.len = WireLen[offered]]]
      /\ slots \in [Index -> Frame]
  BY DEF PushLen, RingInv, RingTypeOK
<1>3. RingTypeOK'
  <2>1. WireLen[offered] \in 0..MaxPayload
    BY <1>1, RingAssumption DEF Span, MaxPayload
  <2>2. slots' \in [Index -> Frame]
    BY <2>1, <1>1, <1>2 DEF Frame
  <2>3. QED
    BY <2>2, <1>1 DEF PushLen, consumerVars, RingInv, RingTypeOK
<1>4. IndicesCount' /\ Distances' /\ DeliveredIntact' /\ ConsumerLocals'
  BY <1>1 DEF PushLen, consumerVars, RingInv, IndicesCount, Distances,
              DeliveredIntact, ConsumerLocals
<1>5. ProducerLocals'
  BY <1>1, <1>2 DEF PushLen, RingInv, ProducerLocals, Frame, Full, Encoded
<1>6. SlotsHoldPending'
  <2>1. ASSUME NEW n \in (Popped + 1)..Pushed
        PROVE  slots'[SlotAt(n - 1)] = slots[SlotAt(n - 1)]
    <3>1. SlotAt(n - 1) # pW
      BY <1>1, WrittenSlotNotPending
    <3>2. SlotAt(n - 1) \in Index
      BY Counts, SlotAtIndex
    <3>3. QED
      BY <3>1, <3>2, <1>2
  <2>2. accepted' = accepted
    BY DEF PushLen
  <2>3. QED
    BY <2>1, <2>2, <1>1 DEF RingInv, SlotsHoldPending
<1>7. AccessCounts'
  BY <1>1 DEF PushLen, consumerVars, RingInv, AccessCounts
<1>8. QED
  BY <1>3, <1>4, <1>5, <1>6, <1>7 DEF RingInv


\* Publishing the slot keeps the invariant (ring_buffer.c:87-90).
LEMMA PushPublishStep == ASSUME RingInv, PushPublish PROVE RingInv'
<1>1. /\ pPc = "publish" /\ pPc' = "idle" /\ ~Full(pW, pR)
      /\ pW \in Index /\ pW = SlotAt(Pushed) /\ offered \in Span
      /\ slots[pW] = Encoded(offered) /\ slots' = slots
  BY DEF PushPublish, RingInv, RingTypeOK, ProducerLocals
<1>2. /\ writeIndex' = Append(writeIndex, SlotAt(Pushed + 1))
      /\ SlotAt(Pushed + 1) \in Index
  <2>1. Succ(pW) = SlotAt(Pushed + 1)
    BY <1>1, Counts, SlotAtSucc
  <2>2. SlotAt(Pushed + 1) \in Index
    BY Counts, SlotAtIndex
  <2>3. QED
    BY <2>1, <2>2 DEF PushPublish
<1>3. /\ writeIndex' \in Seq(Index) /\ Len(writeIndex') = Pushed + 2
      /\ \A i \in 1..(Pushed + 1) : writeIndex'[i] = writeIndex[i]
      /\ writeIndex'[Pushed + 2] = SlotAt(Pushed + 1)
  <2>1. writeIndex \in Seq(Index) /\ Len(writeIndex) = Pushed + 1
    BY Counts DEF RingInv, RingTypeOK
  <2>2. QED
    BY <1>2, <2>1, Counts, AppendProperties
<1>4. /\ accepted' \in Seq(Span) /\ Len(accepted') = Pushed + 1
      /\ \A n \in 1..Pushed : accepted'[n] = accepted[n]
      /\ accepted'[Pushed + 1] = offered
  <2>1. accepted \in Seq(Span) /\ Len(accepted) = Pushed
    BY DEF RingInv, RingTypeOK, IndicesCount
  <2>2. accepted' = Append(accepted, offered)
    BY DEF PushPublish
  <2>3. QED
    BY <2>1, <2>2, <1>1, Counts, AppendProperties
<1>5. /\ Pushed' = Pushed + 1 /\ Popped' = Popped
      /\ pSync' = pSync /\ pSeen' = pSeen
  BY <1>3, Counts DEF PushPublish, Pushed, Popped
<1>6. RingTypeOK'
  <2>1. cSeen \in 1..Len(writeIndex') /\ cSync \in 1..Len(writeIndex')
    BY <1>3, Counts DEF RingInv, Distances
  <2>2. writeIndex' # <<>>
    BY <1>3, Counts
  <2>3. QED
    BY <2>1, <2>2, <1>3, <1>4 DEF PushPublish, consumerVars, RingInv,
                                  RingTypeOK
<1>7. IndicesCount'
  <2>1. \A i \in 1..Len(writeIndex') : writeIndex'[i] = SlotAt(i - 1)
    <3> SUFFICES ASSUME NEW i \in 1..(Pushed + 2)
                 PROVE  writeIndex'[i] = SlotAt(i - 1)
      BY <1>3
    <3>1. CASE i = Pushed + 2
      BY <3>1, <1>3, Counts
    <3>2. CASE i \in 1..(Pushed + 1)
      BY <3>2, <1>3, Counts DEF RingInv, IndicesCount
    <3>3. QED
      BY <3>1, <3>2, Counts
  <2>2. readIndex' = readIndex /\ delivered' = delivered
    BY DEF PushPublish, consumerVars
  <2>3. QED
    BY <2>1, <2>2, <1>4, <1>5 DEF RingInv, IndicesCount
<1>8. Distances'
  <2>1. Pushed - (pSync - 1) # Capacity - 1
    BY <1>1, FullMeansNoCredit
  <2>2. Pushed + 1 - (pSync - 1) <= Capacity - 1
    BY <2>1, Counts, CapacityType DEF RingInv, Distances
  <2>3. /\ cSeen' = cSeen /\ cSync' = cSync
        /\ pSeen = pSync /\ cSeen = cSync /\ Popped <= cSync - 1
    BY DEF PushPublish, consumerVars, RingInv, Distances
  <2>4. QED
    BY <2>2, <2>3, <1>5, Counts, CapacityType DEF Distances
<1>9. ProducerLocals'
  BY <1>1 DEF ProducerLocals
<1>10. ConsumerLocals'
  <2>1. cPc \in {"body", "publish"} => accepted'[Popped + 1] = accepted[Popped + 1]
    <3> SUFFICES ASSUME cPc \in {"body", "publish"}
                 PROVE  Popped + 1 \in 1..Pushed
      BY <1>4
    <3>1. Popped + 1 <= cSync - 1
      BY NotEmptyMeansPending DEF RingInv, ConsumerLocals
    <3>2. QED
      BY <3>1, Counts
  <2>2. UNCHANGED <<cPc, cR, cW, cOut, cSync>>
    BY DEF PushPublish, consumerVars
  <2>3. QED
    BY <2>1, <2>2, <1>5 DEF RingInv, ConsumerLocals
<1>11. SlotsHoldPending'
  <2> SUFFICES ASSUME NEW n \in (Popped + 1)..(Pushed + 1)
               PROVE  slots[SlotAt(n - 1)] = Encoded(accepted'[n])
    BY <1>1, <1>5 DEF SlotsHoldPending
  <2>1. CASE n = Pushed + 1
    BY <2>1, <1>1, <1>4, Counts
  <2>2. CASE n \in (Popped + 1)..Pushed
    <3>1. accepted'[n] = accepted[n]
      BY <2>2, <1>4, Counts
    <3>2. QED
      BY <3>1, <2>2 DEF RingInv, SlotsHoldPending
  <2>3. QED
    BY <2>1, <2>2, Counts
<1>12. AccessCounts'
  BY <1>1, <1>5, Counts DEF PushPublish, consumerVars, RingInv, AccessCounts
<1>13. DeliveredIntact'
  <2>1. delivered' = delivered /\ Len(delivered) = Popped /\ Len(accepted) = Pushed
    BY DEF PushPublish, consumerVars, RingInv, IndicesCount
  <2>2. QED
    BY <2>1, <1>4, Counts DEF RingInv, DeliveredIntact
<1>14. QED
  BY <1>6, <1>7, <1>8, <1>9, <1>10, <1>11, <1>12, <1>13 DEF RingInv

-----------------------------------------------------------------------------
(* The consumer's steps. *)

\* Loading the indices to pop keeps the invariant (ring_buffer.c:98-99).
LEMMA PopLoadStep == ASSUME RingInv, PopLoad PROVE RingInv'
<1>1. PICK i \in cSeen..Len(writeIndex) :
         cW' = writeIndex[i] /\ cSeen' = i /\ cSync' = i
  BY DEF PopLoad, Acquire
<1>2. /\ cR' = SlotAt(Popped) /\ cW' = SlotAt(i - 1)
      /\ i \in cSync..(Pushed + 1) /\ i \in 1..(Pushed + 1)
      /\ Pushed' = Pushed /\ Popped' = Popped
      /\ cPc = "idle" /\ cPc' = "check"
  <2>1. i \in cSync..(Pushed + 1) /\ i \in 1..(Pushed + 1)
    BY Counts DEF RingInv, Distances
  <2>2. cW' = SlotAt(i - 1)
    BY <1>1, <2>1, Counts DEF RingInv, IndicesCount
  <2>3. QED
    BY <2>1, <2>2, Counts DEF PopLoad, Pushed, Popped
<1>3. RingTypeOK'
  <2>1. cR' \in Index /\ cW' \in Index
    BY <1>2, Counts, SlotAtIndex
  <2>2. cSeen' \in 1..Len(writeIndex') /\ cSync' \in 1..Len(writeIndex')
    BY <1>1, <1>2, Counts DEF PopLoad
  <2>3. QED
    BY <2>1, <2>2 DEF PopLoad, producerVars, RingInv, RingTypeOK
<1>4. IndicesCount' /\ SlotsHoldPending' /\ DeliveredIntact'
  BY <1>2 DEF PopLoad, producerVars, RingInv, IndicesCount,
              SlotsHoldPending, DeliveredIntact
<1>5. Distances'
  <2>1. Popped <= i - 1
    BY <1>2, Counts DEF RingInv, Distances
  <2>2. pSeen' = pSeen /\ pSync' = pSync
    BY DEF PopLoad, producerVars
  <2>3. QED
    BY <2>1, <2>2, <1>1, <1>2 DEF RingInv, Distances
<1>6. ConsumerLocals'
  BY <1>1, <1>2 DEF ConsumerLocals
<1>7. ProducerLocals' /\ AccessCounts'
  BY <1>2 DEF PopLoad, producerVars, RingInv, ProducerLocals, AccessCounts
<1>8. QED
  BY <1>3, <1>4, <1>5, <1>6, <1>7 DEF RingInv

\* Finding the ring empty keeps the invariant (ring_buffer.c:101-104).
LEMMA PopEmptyStep == ASSUME RingInv, PopEmpty PROVE RingInv'
<1>1. Pushed' = Pushed /\ Popped' = Popped /\ cPc = "check" /\ cPc' = "idle"
  BY DEF PopEmpty, Pushed, Popped
<1>2. RingTypeOK' /\ IndicesCount' /\ Distances'
  BY <1>1 DEF PopEmpty, producerVars, RingInv, RingTypeOK, IndicesCount,
              Distances
<1>3. ProducerLocals' /\ ConsumerLocals'
  BY <1>1 DEF PopEmpty, producerVars, RingInv, ProducerLocals,
              ConsumerLocals
<1>4. SlotsHoldPending' /\ AccessCounts' /\ DeliveredIntact'
  BY <1>1 DEF PopEmpty, producerVars, RingInv, SlotsHoldPending,
              AccessCounts, DeliveredIntact
<1>5. QED
  BY <1>2, <1>3, <1>4 DEF RingInv

\* The slot a pop reads holds the oldest frame still to be delivered.
LEMMA ReadSlotPending ==
  ASSUME RingInv, cPc # "idle", cR # cW
  PROVE  /\ Popped + 1 \in 1..Pushed
         /\ accepted[Popped + 1] \in Span
         /\ slots[cR] = Encoded(accepted[Popped + 1])
<1>1. Popped + 1 \in 1..Pushed
  BY NotEmptyMeansPending, Counts
<1>2. accepted[Popped + 1] \in Span
  BY <1>1, Counts DEF RingInv, RingTypeOK, IndicesCount
<1>3. cR = SlotAt(Popped)
  BY DEF RingInv, ConsumerLocals
<1>4. Popped + 1 \in (Popped + 1)..Pushed /\ (Popped + 1) - 1 = Popped
  BY <1>1, Counts
<1>5. QED
  BY <1>1, <1>2, <1>3, <1>4 DEF RingInv, SlotsHoldPending

\* Reading the length prefix keeps the invariant (ring_buffer.c:106-113).
LEMMA PopLenStep == ASSUME RingInv, PopLen PROVE RingInv'
<1>1. /\ Pushed' = Pushed /\ Popped' = Popped
      /\ cPc = "check" /\ cPc' = "body" /\ cR # cW
      /\ cR \in Index /\ cR = SlotAt(Popped)
  BY DEF PopLen, Pushed, Popped, RingInv, RingTypeOK, ConsumerLocals
<1>2. readAt' = [readAt EXCEPT ![cR] = Popped + 1] /\ readAt \in [Index -> Nat]
  BY Counts DEF PopLen, RingInv, RingTypeOK
<1>3. /\ cOut' = [len |-> WireLen[accepted[Popped + 1]], body |-> 0]
      /\ WireLen[accepted[Popped + 1]] \in 0..MaxPayload
  <2>1. WireLen[accepted[Popped + 1]] \in 1..MaxPayload
    BY <1>1, ReadSlotPending, RingAssumption DEF Span
  <2>2. slots[cR].len = WireLen[accepted[Popped + 1]]
    BY <1>1, ReadSlotPending DEF Encoded
  <2>3. Clamp(slots[cR].len) = WireLen[accepted[Popped + 1]]
    BY <2>1, <2>2 DEF Clamp, MaxPayload
  <2>4. QED
    BY <2>1, <2>3 DEF PopLen, MaxPayload
<1>4. RingTypeOK'
  <2>1. cOut' \in Frame
    BY <1>3, CapacityType DEF Frame
  <2>2. readAt' \in [Index -> Nat]
    <3>1. Popped + 1 \in Nat
      BY Counts
    <3>2. QED
      BY <1>2, <3>1
  <2>3. QED
    BY <2>1, <2>2, <1>1 DEF PopLen, producerVars, RingInv, RingTypeOK
<1>5. IndicesCount' /\ Distances' /\ DeliveredIntact' /\ ProducerLocals'
  BY <1>1 DEF PopLen, producerVars, RingInv, IndicesCount, Distances,
              DeliveredIntact, ProducerLocals
<1>6. ConsumerLocals'
  BY <1>1, <1>3 DEF PopLen, producerVars, RingInv, ConsumerLocals
<1>7. SlotsHoldPending'
  BY <1>1 DEF PopLen, producerVars, RingInv, SlotsHoldPending
<1>8. AccessCounts'
  <2> SUFFICES ASSUME NEW s \in Index
               PROVE  /\ readAt'[s] # 0 => /\ SlotAt(readAt'[s] - 1) = s
                                           /\ readAt'[s] <= Popped + 1
                      /\ wroteAt' = wroteAt /\ pPc' = pPc
    BY <1>1 DEF RingInv, AccessCounts
  <2>1. CASE s = cR
    BY <2>1, <1>1, <1>2, Counts DEF PopLen, producerVars
  <2>2. CASE s # cR
    BY <2>2, <1>1, <1>2, Counts DEF PopLen, producerVars, RingInv,
                                    AccessCounts
  <2>3. QED
    BY <2>1, <2>2
<1>9. QED
  BY <1>4, <1>5, <1>6, <1>7, <1>8 DEF RingInv

\* Copying the body out keeps the invariant (ring_buffer.c:115-116).
LEMMA PopBodyStep == ASSUME RingInv, PopBody PROVE RingInv'
<1>1. /\ Pushed' = Pushed /\ Popped' = Popped
      /\ cPc = "body" /\ cPc' = "publish" /\ cR # cW
  BY DEF PopBody, Pushed, Popped, RingInv, ConsumerLocals
<1>2. cOut' = Encoded(accepted[Popped + 1]) /\ cOut' \in Frame
  <2>1. slots[cR] = Encoded(accepted[Popped + 1]) /\ accepted[Popped + 1] \in Span
    BY <1>1, ReadSlotPending
  <2>2. cOut.len = WireLen[accepted[Popped + 1]] /\ cOut \in Frame
    BY <1>1 DEF RingInv, RingTypeOK, ConsumerLocals
  <2>3. cOut' = [cOut EXCEPT !.body = accepted[Popped + 1]]
    BY <2>1 DEF PopBody, Encoded
  <2>4. QED
    BY <2>1, <2>2, <2>3 DEF Frame, Encoded, Span
<1>3. RingTypeOK'
  BY <1>1, <1>2 DEF PopBody, producerVars, RingInv, RingTypeOK
<1>4. IndicesCount' /\ Distances' /\ DeliveredIntact' /\ ProducerLocals'
  BY <1>1 DEF PopBody, producerVars, RingInv, IndicesCount, Distances,
              DeliveredIntact, ProducerLocals
<1>5. ConsumerLocals'
  BY <1>1, <1>2 DEF PopBody, producerVars, RingInv, ConsumerLocals
<1>6. SlotsHoldPending' /\ AccessCounts'
  BY <1>1 DEF PopBody, producerVars, RingInv, SlotsHoldPending, AccessCounts
<1>7. QED
  BY <1>3, <1>4, <1>5, <1>6 DEF RingInv

\* Giving the slot back keeps the invariant (ring_buffer.c:118-121).
LEMMA PopPublishStep == ASSUME RingInv, PopPublish PROVE RingInv'
<1>1. /\ cPc = "publish" /\ cPc' = "idle" /\ cR # cW
      /\ cR = SlotAt(Popped) /\ cOut = Encoded(accepted[Popped + 1])
      /\ cOut \in Frame
  BY DEF PopPublish, RingInv, RingTypeOK, ConsumerLocals
<1>2. Popped + 1 <= cSync - 1 /\ Popped + 1 <= Pushed
  BY <1>1, NotEmptyMeansPending, Counts
<1>3. /\ readIndex' = Append(readIndex, SlotAt(Popped + 1))
      /\ SlotAt(Popped + 1) \in Index
  <2>1. Succ(cR) = SlotAt(Popped + 1)
    BY <1>1, Counts, SlotAtSucc
  <2>2. SlotAt(Popped + 1) \in Index
    BY Counts, SlotAtIndex
  <2>3. QED
    BY <2>1, <2>2 DEF PopPublish
<1>4. /\ readIndex' \in Seq(Index) /\ Len(readIndex') = Popped + 2
      /\ \A i \in 1..(Popped + 1) : readIndex'[i] = readIndex[i]
      /\ readIndex'[Popped + 2] = SlotAt(Popped + 1)
  <2>1. readIndex \in Seq(Index) /\ Len(readIndex) = Popped + 1
    BY Counts DEF RingInv, RingTypeOK
  <2>2. QED
    BY <1>3, <2>1, Counts, AppendProperties
<1>5. /\ delivered' \in Seq(Frame) /\ Len(delivered') = Popped + 1
      /\ \A n \in 1..Popped : delivered'[n] = delivered[n]
      /\ delivered'[Popped + 1] = cOut
  <2>1. delivered \in Seq(Frame) /\ Len(delivered) = Popped
    BY DEF RingInv, RingTypeOK, IndicesCount
  <2>2. delivered' = Append(delivered, cOut)
    BY DEF PopPublish
  <2>3. QED
    BY <2>1, <2>2, <1>1, Counts, AppendProperties
<1>6. /\ Popped' = Popped + 1 /\ Pushed' = Pushed
      /\ cSync' = cSync /\ cSeen' = cSeen
  BY <1>4, Counts DEF PopPublish, Pushed, Popped
<1>7. RingTypeOK'
  <2>1. pSeen \in 1..Len(readIndex') /\ pSync \in 1..Len(readIndex')
    BY <1>4, Counts DEF RingInv, Distances
  <2>2. readIndex' # <<>>
    BY <1>4, Counts
  <2>3. QED
    BY <2>1, <2>2, <1>4, <1>5 DEF PopPublish, producerVars, RingInv,
                                  RingTypeOK
<1>8. IndicesCount'
  <2>1. \A i \in 1..Len(readIndex') : readIndex'[i] = SlotAt(i - 1)
    <3> SUFFICES ASSUME NEW i \in 1..(Popped + 2)
                 PROVE  readIndex'[i] = SlotAt(i - 1)
      BY <1>4
    <3>1. CASE i = Popped + 2
      BY <3>1, <1>4, Counts
    <3>2. CASE i \in 1..(Popped + 1)
      BY <3>2, <1>4, Counts DEF RingInv, IndicesCount
    <3>3. QED
      BY <3>1, <3>2, Counts
  <2>2. writeIndex' = writeIndex /\ accepted' = accepted
    BY DEF PopPublish, producerVars
  <2>3. QED
    BY <2>1, <2>2, <1>5, <1>6 DEF RingInv, IndicesCount
<1>9. Distances'
  <2>1. /\ pSeen' = pSeen /\ pSync' = pSync /\ pSeen = pSync /\ cSeen = cSync
        /\ Pushed - (pSync - 1) <= Capacity - 1
    BY DEF PopPublish, producerVars, RingInv, Distances
  <2>2. QED
    BY <2>1, <1>2, <1>6 DEF Distances
<1>10. ConsumerLocals'
  BY <1>1 DEF ConsumerLocals
<1>11. ProducerLocals'
  BY <1>6 DEF PopPublish, producerVars, RingInv, ProducerLocals
<1>12. SlotsHoldPending'
  <2>1. \A n \in (Popped + 2)..Pushed : n \in (Popped + 1)..Pushed
    BY Counts
  <2>2. slots' = slots /\ accepted' = accepted
    BY DEF PopPublish, producerVars
  <2>3. Popped' + 1 = Popped + 2
    BY <1>6, Counts
  <2>4. QED
    BY <2>1, <2>2, <2>3, <1>6 DEF RingInv, SlotsHoldPending
<1>13. AccessCounts'
  BY <1>1, <1>6, Counts DEF PopPublish, producerVars, RingInv, AccessCounts
<1>14. DeliveredIntact'
  <2>1. /\ accepted' = accepted /\ Len(accepted) = Pushed /\ Len(delivered) = Popped
        /\ \A n \in 1..Popped : delivered[n] = Encoded(accepted[n])
    BY DEF PopPublish, producerVars, RingInv, IndicesCount, DeliveredIntact
  <2>2. \A n \in 1..(Popped + 1) : delivered'[n] = Encoded(accepted[n])
    <3> SUFFICES ASSUME NEW n \in 1..(Popped + 1)
                 PROVE  delivered'[n] = Encoded(accepted[n])
      OBVIOUS
    <3>1. CASE n = Popped + 1
      BY <3>1, <1>1, <1>5
    <3>2. CASE n \in 1..Popped
      BY <3>2, <2>1, <1>5
    <3>3. QED
      BY <3>1, <3>2, Counts
  <2>3. QED
    BY <2>1, <2>2, <1>2, <1>5 DEF DeliveredIntact, Encoded
<1>15. QED
  BY <1>7, <1>8, <1>9, <1>10, <1>11, <1>12, <1>13, <1>14 DEF RingInv

-----------------------------------------------------------------------------
(* Synchronisation by other means. *)

\* Learning of pops by a join keeps the invariant (exporter_thread.c:125).
LEMMA ProducerSyncStep == ASSUME RingInv, ProducerSync PROVE RingInv'
<1>1. PICK i \in pSeen..Len(readIndex) : pSeen' = i /\ pSync' = i
  BY DEF ProducerSync, ProducerSyncTo
<1>2. /\ Pushed' = Pushed /\ Popped' = Popped
      /\ pPc = "idle" /\ pPc' = "idle"
      /\ i \in pSync..(Popped + 1) /\ i \in 1..(Popped + 1)
  BY Counts DEF ProducerSync, Pushed, Popped, RingInv, Distances
<1>3. RingTypeOK'
  <2>1. pSeen' \in 1..Len(readIndex') /\ pSync' \in 1..Len(readIndex')
    BY <1>1, <1>2, Counts DEF ProducerSync
  <2>2. QED
    BY <2>1 DEF ProducerSync, consumerVars, RingInv, RingTypeOK
<1>4. Distances'
  <2>1. Pushed - (i - 1) <= Capacity - 1
    BY <1>2, Counts, CapacityType DEF RingInv, Distances
  <2>2. cSeen' = cSeen /\ cSync' = cSync
    BY DEF ProducerSync, consumerVars
  <2>3. QED
    BY <2>1, <2>2, <1>1, <1>2 DEF RingInv, Distances
<1>5. ProducerLocals' /\ ConsumerLocals'
  BY <1>2 DEF ProducerSync, consumerVars, RingInv, ProducerLocals,
              ConsumerLocals
<1>6. IndicesCount' /\ SlotsHoldPending' /\ AccessCounts' /\ DeliveredIntact'
  BY <1>2 DEF ProducerSync, consumerVars, RingInv, IndicesCount,
              SlotsHoldPending, AccessCounts, DeliveredIntact
<1>7. QED
  BY <1>3, <1>4, <1>5, <1>6 DEF RingInv

\* Learning of pushes by another flag keeps the invariant (exporter_thread.c:35).
LEMMA ConsumerSyncStep == ASSUME RingInv, ConsumerSync PROVE RingInv'
<1>1. PICK i \in cSeen..Len(writeIndex) : cSeen' = i /\ cSync' = i
  BY DEF ConsumerSync, ConsumerSyncTo
<1>2. /\ Pushed' = Pushed /\ Popped' = Popped
      /\ cPc = "idle" /\ cPc' = "idle"
      /\ i \in cSync..(Pushed + 1) /\ i \in 1..(Pushed + 1)
  BY Counts DEF ConsumerSync, Pushed, Popped, RingInv, Distances
<1>3. RingTypeOK'
  <2>1. cSeen' \in 1..Len(writeIndex') /\ cSync' \in 1..Len(writeIndex')
    BY <1>1, <1>2, Counts DEF ConsumerSync
  <2>2. QED
    BY <2>1 DEF ConsumerSync, producerVars, RingInv, RingTypeOK
<1>4. Distances'
  <2>1. Popped <= i - 1
    BY <1>2, Counts DEF RingInv, Distances
  <2>2. pSeen' = pSeen /\ pSync' = pSync
    BY DEF ConsumerSync, producerVars
  <2>3. QED
    BY <2>1, <2>2, <1>1, <1>2 DEF RingInv, Distances
<1>5. ProducerLocals' /\ ConsumerLocals'
  BY <1>2 DEF ConsumerSync, producerVars, RingInv, ProducerLocals,
              ConsumerLocals
<1>6. IndicesCount' /\ SlotsHoldPending' /\ AccessCounts' /\ DeliveredIntact'
  BY <1>2 DEF ConsumerSync, producerVars, RingInv, IndicesCount,
              SlotsHoldPending, AccessCounts, DeliveredIntact
<1>7. QED
  BY <1>3, <1>4, <1>5, <1>6 DEF RingInv

-----------------------------------------------------------------------------
(* The invariant, and what it implies. *)

\* A new ring satisfies the invariant (ring_buffer.c:30-52).
LEMMA RingInvInit == RingInit => RingInv
<1> SUFFICES ASSUME RingInit PROVE RingInv
  OBVIOUS
<1>1. /\ Pushed = 0 /\ Popped = 0 /\ SlotAt(0) = 0 /\ 0 \in Index
      /\ writeIndex = <<0>> /\ readIndex = <<0>>
      /\ accepted = <<>> /\ delivered = <<>>
  BY CapacityType DEF RingInit, Pushed, Popped, SlotAt, Index
<1>2. RingTypeOK
  <2>1. slots \in [Index -> Frame] /\ cOut \in Frame
    BY CapacityType DEF RingInit, Frame, Zeroed, MaxPayload
  <2>2. wroteAt \in [Index -> Nat] /\ readAt \in [Index -> Nat]
    BY DEF RingInit
  <2>3. QED
    BY <2>1, <2>2, <1>1, CapacityType DEF RingInit, RingTypeOK
<1>3. IndicesCount /\ Distances /\ DeliveredIntact
  BY <1>1, CapacityType DEF RingInit, IndicesCount, Distances,
                            DeliveredIntact
<1>4. ProducerLocals /\ ConsumerLocals /\ AccessCounts
  BY DEF RingInit, ProducerLocals, ConsumerLocals, AccessCounts
<1>5. SlotsHoldPending
  BY <1>1 DEF SlotsHoldPending
<1>6. QED
  BY <1>2, <1>3, <1>4, <1>5 DEF RingInv

\* Every step of either thread keeps the invariant.
LEMMA RingInvStep == RingInv /\ [RingNext]_ringVars => RingInv'
<1> SUFFICES ASSUME RingInv, [RingNext]_ringVars PROVE RingInv'
  OBVIOUS
<1>1. CASE Push
  BY <1>1, PushLoadStep, PushRefuseStep, PushBodyStep, PushLenStep,
     PushPublishStep DEF Push
<1>2. CASE Pop
  BY <1>2, PopLoadStep, PopEmptyStep, PopLenStep, PopBodyStep,
     PopPublishStep DEF Pop
<1>3. CASE ProducerSync \/ ConsumerSync
  BY <1>3, ProducerSyncStep, ConsumerSyncStep
<1>4. CASE UNCHANGED ringVars
  <2>1. Pushed' = Pushed /\ Popped' = Popped
    BY <1>4 DEF ringVars, Pushed, Popped
  <2>2. RingTypeOK' /\ IndicesCount' /\ Distances' /\ DeliveredIntact'
    BY <2>1, <1>4 DEF ringVars, producerVars, consumerVars, RingInv,
                      RingTypeOK, IndicesCount, Distances, DeliveredIntact
  <2>3. /\ ProducerLocals' /\ ConsumerLocals' /\ SlotsHoldPending'
        /\ AccessCounts'
    BY <2>1, <1>4 DEF ringVars, producerVars, consumerVars, RingInv,
                      ProducerLocals, ConsumerLocals, SlotsHoldPending,
                      AccessCounts
  <2>4. QED
    BY <2>2, <2>3 DEF RingInv
<1>5. QED
  BY <1>1, <1>2, <1>3, <1>4 DEF RingNext

\* The inductive invariant holds in every reachable state of the ring, for every
\* capacity and every number of spans (ring_buffer.c:30-122).
THEOREM RingInvariant == RingSpec => []RingInv
<1>1. QED
  BY RingInvInit, RingInvStep, PTL DEF RingSpec

\* Every variable keeps its type (ring_buffer.c:30-122).
THEOREM RingTypeCorrect == RingSpec => []RingTypeOK
<1>1. RingInv => RingTypeOK
  BY DEF RingInv
<1>2. QED
  BY <1>1, RingInvariant, PTL

\* What a pop returns is what its push encoded, in push order.
THEOREM RingDeliversIntact == RingSpec => []DeliveredIntact
<1>1. RingInv => DeliveredIntact
  BY DEF RingInv
<1>2. QED
  BY <1>1, RingInvariant, PTL

\* The ring never holds more than Capacity - 1 spans.
THEOREM RingKeepsOneSlotFree == RingSpec => []OneSlotFree
<1>1. RingInv => OneSlotFree
  <2> SUFFICES ASSUME RingInv PROVE OneSlotFree
    OBVIOUS
  <2>1. Pushed - Popped <= Capacity - 1
    BY Counts, CapacityType DEF RingInv, Distances
  <2>2. QED
    BY <2>1 DEF RingInv, IndicesCount, OneSlotFree
<1>2. QED
  BY <1>1, RingInvariant, PTL

\* What a producer that writes knows: one slot besides its own is free.
LEMMA WritingHasRoom ==
  ASSUME RingInv, pPc \in {"check", "len", "publish"}, ~Full(pW, pR)
  PROVE  Pushed - (pSync - 1) <= Capacity - 2 /\ pW = SlotAt(Pushed)
<1>1. Pushed - (pSync - 1) # Capacity - 1
  BY FullMeansNoCredit
<1>2. Pushed - (pSync - 1) <= Capacity - 1 /\ pW = SlotAt(Pushed)
  BY DEF RingInv, Distances, ProducerLocals
<1>3. QED
  BY <1>1, <1>2, Counts, CapacityType

\* The last read of the slot being written happens before the write.
LEMMA WriteAfterReads ==
  ASSUME RingInv, Writing
  PROVE  readAt[pW] < pSync
<1>1. /\ Pushed - (pSync - 1) <= Capacity - 2 /\ pW = SlotAt(Pushed)
      /\ pW \in Index
  BY WritingHasRoom DEF Writing, RingInv, RingTypeOK, ProducerLocals
<1> DEFINE k == readAt[pW]
<1>2. k \in Nat
  BY <1>1 DEF RingInv, RingTypeOK
<1>3. CASE k = 0
  BY <1>3, Counts
<1>4. CASE k # 0
  <2>1. SlotAt(k - 1) = SlotAt(Pushed) /\ k <= Pushed
    <3>1. cPc \in {"body", "publish"} => Popped + 1 <= Pushed
      BY ReadSlotPending, Counts DEF RingInv, ConsumerLocals
    <3>2. /\ SlotAt(k - 1) = pW
          /\ k <= Popped + IF cPc \in {"body", "publish"} THEN 1 ELSE 0
      BY <1>1, <1>4 DEF RingInv, AccessCounts
    <3> HIDE DEF k
    <3>3. k <= Pushed
      BY <3>1, <3>2, <1>2, Counts
    <3>4. QED
      BY <3>2, <3>3, <1>1
  <2> HIDE DEF k
  <2>2. k - 1 \in Nat /\ k - 1 < Pushed
    BY <1>2, <1>4, <2>1, Counts
  <2>3. ~(Pushed < (k - 1) + Capacity)
    BY <2>1, <2>2, Counts, SlotAtApart
  <2>4. k < pSync
    BY <2>2, <2>3, <1>1, <1>2, Counts, CapacityType
  <2>5. QED
    BY <2>4 DEF k
<1>5. QED
  BY <1>3, <1>4

\* The last write of the slot being read happens before the read.
LEMMA ReadAfterWrites ==
  ASSUME RingInv, Reading
  PROVE  wroteAt[cR] < cSync
<1>1. /\ Popped + 1 <= cSync - 1 /\ cR = SlotAt(Popped) /\ cR \in Index
  BY NotEmptyMeansPending DEF Reading, RingInv, RingTypeOK, ConsumerLocals
<1> DEFINE k == wroteAt[cR]
<1>2. k \in Nat
  BY <1>1 DEF RingInv, RingTypeOK
<1>3. CASE k = 0
  BY <1>3, Counts
<1>4. CASE k # 0
  <2>1. SlotAt(k - 1) = SlotAt(Popped) /\ k - 1 < Popped + Capacity
    <3>1. pPc \in {"len", "publish"} => Pushed < Popped + Capacity - 1
      BY WritingHasRoom, Counts, CapacityType DEF RingInv, ProducerLocals
    <3>2. Pushed < Popped + Capacity
      BY Counts, CapacityType DEF RingInv, Distances
    <3>3. QED
      BY <3>1, <3>2, <1>1, <1>2, <1>4, Counts, CapacityType
         DEF RingInv, AccessCounts
  <2> HIDE DEF k
  <2>2. ~(Popped < k - 1)
    BY <2>1, <1>2, <1>4, Counts, SlotAtApart
  <2>3. k < cSync
    BY <2>2, <1>1, <1>2, Counts
  <2>4. QED
    BY <2>3 DEF k
<1>5. QED
  BY <1>3, <1>4

\* The producer and the consumer never work on the same slot at once.
LEMMA DistinctSlots ==
  ASSUME RingInv, Writing, Reading
  PROVE  pW # cR
<1>1. pW = SlotAt(Pushed) /\ cR = SlotAt(Popped)
  BY DEF Writing, Reading, RingInv, ProducerLocals, ConsumerLocals
<1>2. Popped + 1 <= cSync - 1
  BY NotEmptyMeansPending DEF Reading, RingInv, ConsumerLocals
<1>3. Popped < Pushed /\ Pushed < Popped + Capacity
  BY <1>2, Counts, CapacityType DEF RingInv, Distances
<1>4. QED
  BY <1>1, <1>3, Counts, SlotAtApart

\* No slot is ever accessed in a data race, whatever the capacity.
THEOREM RingHasNoSlotRace == RingSpec => []NoSlotRace
<1>1. RingInv => NoSlotRace
  BY WriteAfterReads, ReadAfterWrites, DistinctSlots DEF NoSlotRace
<1>2. QED
  BY <1>1, RingInvariant, PTL

-----------------------------------------------------------------------------
(* SpanRing implements SpanChannel. *)

\* Appending to a sequence appends to every suffix of it.
LEMMA SuffixOfAppend ==
  ASSUME NEW S, NEW s \in Seq(S), NEW e \in S, NEW d \in 0..Len(s)
  PROVE  SubSeq(Append(s, e), d + 1, Len(s) + 1)
           = Append(SubSeq(s, d + 1, Len(s)), e)
<1> DEFINE t == Append(s, e)
           left == SubSeq(t, d + 1, Len(s) + 1)
           rest == SubSeq(s, d + 1, Len(s))
<1>1. /\ t \in Seq(S) /\ Len(t) = Len(s) + 1 /\ Len(s) \in Nat
      /\ \A i \in 1..Len(s) : t[i] = s[i]
      /\ t[Len(s) + 1] = e
  BY AppendProperties, LenProperties
<1>2. \A i \in (d + 1)..(Len(s) + 1) : t[i] \in S
  <2> HIDE DEF t
  <2>1. \A i \in 1..Len(t) : t[i] \in S
    BY <1>1, ElementOfSeq
  <2>2. QED
    BY <2>1, <1>1
<1>3. \A i \in (d + 1)..Len(s) : s[i] \in S
  BY <1>1, ElementOfSeq
<1> HIDE DEF t
<1>4. /\ left \in Seq(S) /\ Len(left) = Len(s) + 1 - d
      /\ \A i \in 1..(Len(s) + 1 - d) : left[i] = t[d + i]
  BY <1>1, <1>2, SubSeqProperties
<1>5. /\ rest \in Seq(S) /\ Len(rest) = Len(s) - d
      /\ \A i \in 1..(Len(s) - d) : rest[i] = s[d + i]
  BY <1>1, <1>3, SubSeqProperties
<1> HIDE DEF left, rest
<1>6. /\ Append(rest, e) \in Seq(S) /\ Len(Append(rest, e)) = Len(s) + 1 - d
      /\ \A i \in 1..(Len(s) - d) : Append(rest, e)[i] = rest[i]
      /\ Append(rest, e)[Len(s) + 1 - d] = e
  BY <1>5, AppendProperties
<1>7. \A i \in 1..Len(left) : left[i] = Append(rest, e)[i]
  <2> SUFFICES ASSUME NEW i \in 1..(Len(s) + 1 - d)
               PROVE  left[i] = Append(rest, e)[i]
    BY <1>4
  <2>1. CASE i = Len(s) + 1 - d
    BY <2>1, <1>1, <1>4, <1>6
  <2>2. CASE i \in 1..(Len(s) - d)
    BY <2>2, <1>1, <1>4, <1>5, <1>6
  <2>3. i = Len(s) + 1 - d \/ i \in 1..(Len(s) - d)
    BY LenProperties
  <2>4. QED
    BY <2>1, <2>2, <2>3
<1>8. left = Append(rest, e)
  BY <1>4, <1>6, <1>7, SeqEqual
<1>9. QED
  BY <1>8 DEF left, rest, t

\* Reading a field of an appended record appends the field.
LEMMA BodiesOfAppend ==
  ASSUME NEW s \in Seq(Frame), NEW e \in Frame
  PROVE  [i \in 1..(Len(s) + 1) |-> Append(s, e)[i].body]
           = Append([i \in 1..Len(s) |-> s[i].body], e.body)
<1> DEFINE B == 0..MaxSpans
           bodies == [i \in 1..Len(s) |-> s[i].body]
           more == [i \in 1..(Len(s) + 1) |-> Append(s, e)[i].body]
<1>1. /\ Len(s) \in Nat /\ Append(s, e) \in Seq(Frame)
      /\ Len(Append(s, e)) = Len(s) + 1
      /\ \A i \in 1..Len(s) : Append(s, e)[i] = s[i]
      /\ Append(s, e)[Len(s) + 1] = e
  BY AppendProperties, LenProperties
<1>2. \A i \in 1..Len(s) : s[i].body \in B
  <2>1. \A i \in 1..Len(s) : s[i] \in Frame
    BY ElementOfSeq
  <2>2. QED
    BY <2>1 DEF Frame
<1>3. bodies \in Seq(B) /\ Len(bodies) = Len(s)
  BY <1>1, <1>2, SeqDef
<1>4. e.body \in B
  BY DEF Frame
<1>5. \A i \in 1..(Len(s) + 1) : Append(s, e)[i].body \in B
  BY <1>1, <1>2, <1>4
<1>6. more \in Seq(B) /\ Len(more) = Len(s) + 1
  BY <1>1, <1>5, SeqDef
<1>7. /\ Append(bodies, e.body) \in Seq(B)
      /\ Len(Append(bodies, e.body)) = Len(s) + 1
      /\ \A i \in 1..Len(s) : Append(bodies, e.body)[i] = bodies[i]
      /\ Append(bodies, e.body)[Len(s) + 1] = e.body
  <2> HIDE DEF bodies, B
  <2>1. QED
    BY <1>3, <1>4, AppendProperties
<1>8. \A i \in 1..Len(more) : more[i] = Append(bodies, e.body)[i]
  <2> SUFFICES ASSUME NEW i \in 1..(Len(s) + 1)
               PROVE  more[i] = Append(bodies, e.body)[i]
    BY <1>6
  <2>1. CASE i = Len(s) + 1
    BY <2>1, <1>1, <1>7
  <2>2. CASE i \in 1..Len(s)
    BY <2>2, <1>1, <1>7
  <2>3. i = Len(s) + 1 \/ i \in 1..Len(s)
    BY <1>1
  <2>4. QED
    BY <2>1, <2>2, <2>3
<1>9. more = Append(bodies, e.body)
  <2> HIDE DEF more, bodies, B
  <2>1. QED
    BY <1>6, <1>7, <1>8, SeqEqual
<1>10. QED
  BY <1>9

\* A new ring is an empty channel with all its credits.
LEMMA RingInitImplements == RingInit => Channel!ChannelInit
<1> SUFFICES ASSUME RingInit PROVE Channel!ChannelInit
  OBVIOUS
<1>1. Waiting = <<>>
  BY SubSeqEmpty DEF RingInit, Waiting
<1>2. Bodies = <<>>
  BY DEF RingInit, Bodies
<1>3. Offers = 0 /\ Known = 0
  BY DEF RingInit, Offers, Known
<1>4. Len(accepted) = 0 /\ Len(delivered) = 0
  BY DEF RingInit
<1>5. QED
  BY <1>1, <1>2, <1>3, <1>4, CapacityType DEF Channel!ChannelInit

\* The credits of a producer that has k pops more to learn of: sums of integers.
LEMMA CreditArithmetic ==
  ASSUME NEW c \in Int, NEW n \in Int, NEW m \in Int, NEW k \in Int
  PROVE  /\ c - 1 - (n - (m + k)) = c - 1 - (n - m) + k
         /\ n - (m + k) = n - m - k
OBVIOUS

\* With room to spare a producer has a credit, which a push takes.
LEMMA CreditTaken ==
  ASSUME NEW c \in Int, NEW n \in Int, NEW m \in Int, NEW q \in Int,
         n - m <= c - 2, q = n + 1
  PROVE  /\ c - 1 - (n - m) > 0
         /\ c - 1 - (q - m) = c - 1 - (n - m) - 1
OBVIOUS

\* Learning of k deliveries more, and nothing else, repays k credits.
LEMMA LearningRepays ==
  ASSUME RingInv, NEW i \in pSync..(Popped + 1), pSync' = i,
         Offers' = Offers, UNCHANGED <<accepted, delivered>>
  PROVE  Channel!Repay \/ UNCHANGED Channel!channelVars
<1>1. /\ Waiting' = Waiting /\ Bodies' = Bodies
      /\ Len(accepted') = Len(accepted) /\ Len(delivered') = Len(delivered)
  BY DEF Waiting, Bodies
<1>2. /\ Len(accepted) = Pushed /\ Len(delivered) = Popped
      /\ Known' = i - 1 /\ Known = pSync - 1
  BY DEF RingInv, IndicesCount, Known
<1>3. CASE i = pSync
  BY <1>1, <1>2, <1>3 DEF Channel!channelVars
<1>4. CASE i # pSync
  <2> DEFINE k == i - pSync
  <2>1. k \in 1..(Len(delivered) - Known)
    BY <1>2, <1>4, Counts
  <2>2. /\ Capacity - 1 - (Len(accepted) - Known')
             = Capacity - 1 - (Len(accepted) - Known) + k
        /\ Len(delivered) - Known' = Len(delivered) - Known - k
    <3>1. /\ Known \in Int /\ k \in Int /\ Pushed \in Int /\ Popped \in Int
          /\ Known' = Known + k /\ Capacity \in Int
      BY <1>2, Counts, CapacityType
    <3>2. /\ Capacity - 1 - (Pushed - (Known + k))
               = Capacity - 1 - (Pushed - Known) + k
          /\ Popped - (Known + k) = Popped - Known - k
      BY <3>1, CreditArithmetic
    <3>3. QED
      BY <3>1, <3>2, <1>2
  <2>3. QED
    BY <2>1, <2>2, <1>1 DEF Channel!Repay
<1>5. QED
  BY <1>3, <1>4

\* A push that loads a newer read_index is repaid its credits.
LEMMA PushLoadImplements ==
  ASSUME RingInv, PushLoad
  PROVE  Channel!Repay \/ UNCHANGED Channel!channelVars
<1>1. PICK i \in pSeen..Len(readIndex) : pSync' = i
  BY DEF PushLoad, Acquire
<1>2. i \in pSync..(Popped + 1)
  BY Counts DEF RingInv, Distances
<1>3. Offers' = Offers
  BY DEF PushLoad, Offers, RingInv, RingTypeOK
<1>4. UNCHANGED <<accepted, delivered>>
  BY DEF PushLoad, consumerVars
<1>5. QED
  BY <1>1, <1>2, <1>3, <1>4, LearningRepays

\* So is a producer that learns of pops by a join.
LEMMA ProducerSyncImplements ==
  ASSUME RingInv, ProducerSync
  PROVE  Channel!Repay \/ UNCHANGED Channel!channelVars
<1>1. PICK i \in pSeen..Len(readIndex) : pSync' = i
  BY DEF ProducerSync, ProducerSyncTo
<1>2. i \in pSync..(Popped + 1)
  BY Counts DEF RingInv, Distances
<1>3. Offers' = Offers
  BY DEF ProducerSync, Offers
<1>4. UNCHANGED <<accepted, delivered>>
  BY DEF ProducerSync, consumerVars
<1>5. QED
  BY <1>1, <1>2, <1>3, <1>4, LearningRepays

\* A push that is refused is an offer the channel refuses.
LEMMA PushRefuseImplements ==
  ASSUME RingInv, PushRefuse
  PROVE  Channel!Refuse
<1>1. Offers = offered - 1 /\ Offers' = offered /\ offered \in 1..MaxSpans
  BY CapacityType DEF PushRefuse, Offers, RingInv, RingTypeOK,
                      ProducerLocals, Span
<1>2. UNCHANGED <<Waiting, Bodies, Known, accepted, delivered>>
  BY DEF PushRefuse, consumerVars, Waiting, Bodies, Known
<1>3. Capacity - 1 - (Len(accepted) - Known) = 0
  <2>1. Pushed - (pSync - 1) = Capacity - 1
    BY FullMeansNoCredit DEF PushRefuse
  <2>2. QED
    BY <2>1, CapacityType DEF RingInv, IndicesCount, Known
<1>4. Offers < MaxSpans /\ Offers' = Offers + 1
  BY <1>1, CapacityType
<1>5. QED
  BY <1>2, <1>3, <1>4 DEF Channel!Refuse

\* A push that is published is an offer the channel accepts.
LEMMA PushPublishImplements ==
  ASSUME RingInv, PushPublish
  PROVE  Channel!Accept
<1>1. /\ Offers = offered - 1 /\ Offers' = offered /\ offered \in 1..MaxSpans
      /\ ~Full(pW, pR)
  BY CapacityType DEF PushPublish, Offers, RingInv, RingTypeOK,
                      ProducerLocals, Span
<1>2. /\ accepted \in Seq(Span) /\ Len(accepted) = Pushed
      /\ Len(delivered) = Popped
      /\ accepted' = Append(accepted, offered) /\ Len(accepted') = Pushed + 1
      /\ UNCHANGED <<Bodies, Known, delivered>>
  <2>1. accepted \in Seq(Span) /\ accepted' = Append(accepted, offered)
    BY DEF PushPublish, RingInv, RingTypeOK
  <2>2. Len(accepted) = Pushed /\ Len(delivered) = Popped
    BY DEF RingInv, IndicesCount
  <2>3. Len(accepted') = Pushed + 1
    BY <2>1, <2>2, <1>1, AppendProperties DEF Span
  <2>4. UNCHANGED <<Bodies, Known, delivered>>
    BY DEF PushPublish, consumerVars, Bodies, Known
  <2>5. QED
    BY <2>1, <2>2, <2>3, <2>4
<1>3. Pushed - Known <= Capacity - 2 /\ Known = pSync - 1 /\ Known \in Nat
  BY <1>1, WritingHasRoom, Counts DEF PushPublish, Known
<1>4. Waiting' = Append(Waiting, offered)
  <2>1. Popped \in 0..Len(accepted) /\ offered \in Span
    BY <1>1, <1>2, Counts DEF Span
  <2>2. QED
    BY <2>1, <1>2, SuffixOfAppend DEF Waiting
<1>5. /\ Capacity - 1 - (Len(accepted) - Known) > 0
      /\ Capacity - 1 - (Len(accepted') - Known)
           = Capacity - 1 - (Len(accepted) - Known) - 1
  <2>1. Capacity \in Int /\ Known \in Int /\ Pushed \in Int
    BY <1>3, Counts, CapacityType
  <2>2. /\ Len(accepted) \in Int /\ Len(accepted') \in Int
        /\ Len(accepted') = Len(accepted) + 1
    BY <1>2, <2>1
  <2>3. Len(accepted) - Known <= Capacity - 2
    BY <1>2, <1>3
  <2>4. QED
    BY <2>1, <2>2, <2>3, CreditTaken
<1>6. Offers < MaxSpans /\ Offers' = Offers + 1 /\ offered = Offers + 1
  BY <1>1, CapacityType
<1>7. QED
  BY <1>2, <1>4, <1>5, <1>6 DEF Channel!Accept

\* A pop is a delivery.
LEMMA PopPublishImplements ==
  ASSUME RingInv, PopPublish
  PROVE  Channel!Deliver
<1>1. /\ cOut = Encoded(accepted[Popped + 1]) /\ cOut \in Frame
      /\ Popped + 1 \in 1..Pushed
  BY ReadSlotPending DEF PopPublish, RingInv, RingTypeOK, ConsumerLocals
<1>2. /\ accepted \in Seq(Span) /\ Len(accepted) = Pushed
      /\ delivered \in Seq(Frame) /\ Len(delivered) = Popped
      /\ delivered' = Append(delivered, cOut) /\ Len(delivered') = Popped + 1
      /\ UNCHANGED <<accepted, Offers, Known>>
  <2>1. /\ accepted \in Seq(Span) /\ delivered \in Seq(Frame)
        /\ delivered' = Append(delivered, cOut)
    BY DEF PopPublish, RingInv, RingTypeOK
  <2>2. Len(accepted) = Pushed /\ Len(delivered) = Popped
    BY DEF RingInv, IndicesCount
  <2>3. Len(delivered') = Popped + 1
    BY <2>1, <2>2, <1>1, AppendProperties
  <2>4. UNCHANGED <<accepted, Offers, Known>>
    BY DEF PopPublish, producerVars, Offers, Known
  <2>5. QED
    BY <2>1, <2>2, <2>3, <2>4
<1>3. /\ Waiting # <<>> /\ Head(Waiting) = accepted[Popped + 1]
      /\ Waiting' = Tail(Waiting)
  <2>1. /\ Waiting = SubSeq(accepted, Popped + 1, Pushed)
        /\ Waiting' = SubSeq(accepted, Popped + 2, Pushed)
    <3>1. Len(delivered') + 1 = Popped + 2
      BY <1>2, Counts
    <3>2. QED
      BY <3>1, <1>2 DEF Waiting
  <2>2. /\ Popped + 1 \in 1..Len(accepted)
        /\ Len(accepted) \in (Popped + 1)..Len(accepted)
        /\ Popped + 1 + 1 = Popped + 2
    BY <1>1, <1>2, Counts
  <2>3. /\ Head(Waiting) = accepted[Popped + 1]
        /\ Tail(Waiting) = SubSeq(accepted, Popped + 2, Pushed)
    <3>1. \A m \in 1..Len(accepted) : \A n \in m..Len(accepted) :
             /\ Head(SubSeq(accepted, m, n)) = accepted[m]
             /\ Tail(SubSeq(accepted, m, n)) = SubSeq(accepted, m + 1, n)
      BY <1>2, HeadTailOfSubSeq
    <3>2. QED
      BY <3>1, <2>1, <2>2, <1>2
  <2>4. Waiting # <<>>
    <3>1. \A i \in (Popped + 1)..Pushed : accepted[i] \in Span
      BY <1>1, <1>2, ElementOfSeq, Counts
    <3>2. Len(Waiting) = Pushed - (Popped + 1) + 1
      BY <3>1, <2>1, <1>1, Counts, SubSeqProperties
    <3>3. Len(Waiting) # 0
      BY <3>2, <1>1, Counts
    <3>4. QED
      BY <3>3, EmptySeq
  <2>5. QED
    BY <2>1, <2>3, <2>4
<1>4. Bodies' = Append(Bodies, accepted[Popped + 1])
  <2>1. cOut.body = accepted[Popped + 1]
    BY <1>1 DEF Encoded
  <2>2. Bodies' = [i \in 1..(Len(delivered) + 1) |->
                     Append(delivered, cOut)[i].body]
    BY <1>2 DEF Bodies
  <2>3. QED
    BY <2>1, <2>2, <1>1, <1>2, BodiesOfAppend DEF Bodies
<1>5. Len(delivered') - Known' = Len(delivered) - Known + 1
  BY <1>2, Counts DEF Known
<1>6. QED
  BY <1>2, <1>3, <1>4, <1>5 DEF Channel!Deliver

\* The other steps leave everything the channel sees alone.
LEMMA InnerStepsStutter ==
  ASSUME RingInv,
         PushBody \/ PushLen \/ PopLoad \/ PopEmpty \/ PopLen \/ PopBody
           \/ ConsumerSync \/ UNCHANGED ringVars
  PROVE  UNCHANGED Channel!channelVars
<1>1. UNCHANGED <<offered, accepted, delivered, pSync>>
  BY DEF PushBody, PushLen, PopLoad, PopEmpty, PopLen, PopBody,
         ConsumerSync, ringVars, producerVars, consumerVars
<1>2. (pPc = "idle") = (pPc' = "idle")
  BY DEF PushBody, PushLen, PopLoad, PopEmpty, PopLen, PopBody,
         ConsumerSync, ringVars, producerVars, consumerVars
<1>3. UNCHANGED <<Offers, Known, Waiting, Bodies>>
  BY <1>1, <1>2 DEF Offers, Known, Waiting, Bodies
<1>4. QED
  BY <1>1, <1>3 DEF Channel!channelVars

\* For every capacity the ring is a lossless FIFO channel with
\* Capacity - 1 credits that refuses a span only when none is left.
THEOREM RingImplementsChannel == RingSpec => ImplementsChannel
<1>1. RingInv /\ [RingNext]_ringVars
        => [Channel!ChannelNext]_(Channel!channelVars)
  <2> SUFFICES ASSUME RingInv, [RingNext]_ringVars
               PROVE  Channel!ChannelNext \/ UNCHANGED Channel!channelVars
    OBVIOUS
  <2>1. CASE PushLoad \/ ProducerSync
    BY <2>1, PushLoadImplements, ProducerSyncImplements
       DEF Channel!ChannelNext
  <2>2. CASE PushRefuse
    BY <2>2, PushRefuseImplements DEF Channel!ChannelNext
  <2>3. CASE PushPublish
    BY <2>3, PushPublishImplements DEF Channel!ChannelNext
  <2>4. CASE PopPublish
    BY <2>4, PopPublishImplements DEF Channel!ChannelNext
  <2>5. CASE PushBody \/ PushLen \/ PopLoad \/ PopEmpty \/ PopLen \/ PopBody
               \/ ConsumerSync \/ UNCHANGED ringVars
    BY <2>5, InnerStepsStutter
  <2>6. QED
    BY <2>1, <2>2, <2>3, <2>4, <2>5 DEF RingNext, Push, Pop
<1>2. QED
  BY <1>1, RingInvariant, RingInitImplements, PTL
     DEF RingSpec, ImplementsChannel, Channel!ChannelSpec

=============================================================================

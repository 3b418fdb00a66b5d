--------------------------- MODULE SpanWireProofs ---------------------------
(***************************************************************************)
(* Proofs about SpanWire, for every size of the header, the fields, the    *)
(* slot, the records and the packet: no access of the codec leaves its     *)
(* buffer, what the decoder makes of an encoding is the encoded span less  *)
(* the tail that did not fit, and durations keep their microseconds.       *)
(*                                                                         *)
(* The argument is one inductive invariant, WireInv.  `marks` has the      *)
(* positions the counting loop went through.  The writing loop goes        *)
(* through the same positions (Written), and so does the decoder of these  *)
(* bytes (Read); the last of them is within the buffer and is the length   *)
(* of the bytes, and no other is beyond it (MarksOf).                      *)
(***************************************************************************)
EXTENDS SpanWire, SequenceTheorems, TLAPS

-----------------------------------------------------------------------------
(* Division. *)

\* A remainder is below the divisor, and division leaves exactly it.
LEMMA DivisionWithRemainder ==
  ASSUME NEW C \in Nat \ {0}, NEW x \in Nat
  PROVE  /\ x % C \in 0..(C - 1)
         /\ x \div C \in Nat
         /\ x = C * (x \div C) + (x % C)
BY SMT

\* A positive multiple of C is at least C.
LEMMA MultipleAtLeast ==
  ASSUME NEW C \in Nat \ {0}, NEW d \in Int, d >= 1
  PROVE  C * d >= C
BY SMT

-----------------------------------------------------------------------------
EncodePlaces == {"count", "write", "encoded"}
DecodePlaces == {"header", "key", "value", "accepted", "refused"}

\* The bytes being written or read are an encoding of Sent.
Ours == at \in EncodePlaces \/ (at \in DecodePlaces /\ wire.own)

Places ==
    /\ at \in {"create", "open"} => hop = "build"
    /\ at \in EncodePlaces => hop \in {"export", "store"}
    /\ at \in DecodePlaces => hop \in {"collect", "load"}
    /\ at \in EncodePlaces => wire.own /\ span = Sent
    /\ at = "value" => MoreAnnotations
    /\ wire.own => wire.ids
    /\ at = "accepted" /\ hop = "collect" => arrived = span

\* No span is finished before it began.
Ordered == \A s \in {span, made, arrived} : s.end = 0 \/ s.start <= s.end

\* The positions after the name and after each annotation counted.
MarksOf ==
    Ours =>
      /\ Len(marks) \in 1..(Len(Sent.annotations) + 1)
      /\ marks[1] = HeaderSize + NameLength(Sent, Capacity)
      /\ marks[Len(marks)] <= Capacity
      /\ \A k \in 1..Len(marks) : marks[k] <= marks[Len(marks)]
      /\ \A k \in 1..Counted :
            marks[k + 1] = marks[k] + AnnotationSize(Sent.annotations[k])

\* The header, and the fields written so far.
Written ==
    Ours /\ at # "count" =>
      /\ Counted < Len(Sent.annotations) =>
            marks[Len(marks)] + AnnotationSize(Sent.annotations[Counted + 1])
              > Capacity
      /\ wire.name = NameLength(Sent, Capacity)
      /\ wire.count = Counted
      /\ wire.duration = Duration(Sent)
      /\ Len(wire.fields) <= Counted
      /\ \A i \in 1..Len(wire.fields) : wire.fields[i] = Sent.annotations[i]
      /\ at = "write" => off = marks[Len(wire.fields) + 1]
      /\ at # "write" => Len(wire.fields) = Counted
      /\ at \in DecodePlaces \cup {"encoded"} => wire.size = marks[Len(marks)]

\* What the decoder has found so far, and where it is.
Read ==
    at \in {"key", "value", "accepted"} /\ wire.own =>
      /\ span.name = wire.name
      /\ span.start = 0
      /\ span.end = (wire.duration * Micro) % ClockModulus
      /\ Len(span.annotations) <= Counted
      /\ \A i \in 1..Len(span.annotations) :
            span.annotations[i] = Sent.annotations[i]
      /\ at # "value" => off = marks[Len(span.annotations) + 1]
      /\ at = "value" =>
            LET a == Sent.annotations[Len(span.annotations) + 1]
            IN  key = a.key /\ off = marks[Len(span.annotations) + 1] + 2 + a.key
      /\ at = "accepted" => Len(span.annotations) = Counted

\* An accepted span of the library fits a slot: positions that show it.
Fitted(s, p) ==
    /\ p \in [1..(Len(s.annotations) + 1) -> 0..SlotSize]
    /\ p[1] = HeaderSize + s.name
    /\ \A k \in 1..Len(s.annotations) :
          p[k + 1] = p[k] + AnnotationSize(s.annotations[k])

\* The second encoding goes through the positions of the first, to the end.
Again ==
    library =>
      \E p \in [1..(Len(arrived.annotations) + 1) -> 0..SlotSize] :
        /\ Fitted(arrived, p)
        /\ hop \in {"store", "load"} /\ Ours =>
              /\ \A k \in 1..Len(marks) : marks[k] = p[k]
              /\ at # "count" => Counted = Len(arrived.annotations)

WireInv ==
    /\ TypeOK
    /\ WithinBuffers
    /\ Places
    /\ Ordered
    /\ MarksOf
    /\ Written
    /\ Read
    /\ Again
    /\ Ours => at # "refused"

-----------------------------------------------------------------------------
(* The operators *)

\* What the assumption says of each constant.
LEMMA Sizes ==
  /\ HeaderSize \in Nat \ {0} /\ MaxAnnotations \in Nat
  /\ SlotSize \in Nat /\ WireMax \in Nat /\ PacketMax \in Nat
  /\ NameMax \in Nat \ {0} /\ KeyMax \in Nat \ {0} /\ ValueMax \in Nat \ {0}
  /\ Micro \in Nat \ {0} /\ ClockModulus \in Nat \ {0}
  /\ LengthModulus \in Nat \ {0}
  /\ NameMax <= LengthModulus /\ KeyMax <= LengthModulus
  /\ ValueMax <= LengthModulus /\ MaxAnnotations < LengthModulus
  /\ HeaderSize <= SlotSize /\ SlotSize <= WireMax /\ WireMax <= PacketMax
BY WireAssumption

\* The buffer an encoder has is a number of bytes, and holds the header.
LEMMA CapacityNat ==
  /\ Capacity \in Nat /\ HeaderSize <= Capacity /\ Capacity <= WireMax
  /\ Capacity' \in Nat /\ HeaderSize <= Capacity'
BY Sizes DEF Capacity

\* The name written is a prefix of the span's and ends within the buffer.
LEMMA NameWithin ==
  ASSUME NEW s \in Span, NEW size \in Nat, HeaderSize <= size
  PROVE  /\ NameLength(s, size) \in 0..(NameMax - 1)
         /\ NameLength(s, size) <= s.name
         /\ HeaderSize + NameLength(s, size) <= size
         /\ HeaderSize + s.name <= size => NameLength(s, size) = s.name
BY Sizes DEF Span, NameLength, Least

\* An annotation takes its two length fields and its strings.
LEMMA AnnotationPositive ==
  ASSUME NEW a \in Annotation
  PROVE  /\ AnnotationSize(a) \in Nat
         /\ AnnotationSize(a) = 4 + a.key + a.value
         /\ a.key \in Nat /\ a.value \in Nat
         /\ a.key < KeyMax /\ a.value < ValueMax
BY Sizes DEF Annotation, AnnotationSize

\* A number below the modulus is its own remainder.
LEMMA SmallRemainder ==
  ASSUME NEW C \in Nat \ {0}, NEW x \in Nat, x < C
  PROVE  x % C = x
<1> DEFINE q == x \div C
<1>1. q \in Nat /\ x % C \in Nat /\ x = C * q + (x % C)
  BY DivisionWithRemainder
<1>2. q < 1
  <2> SUFFICES ASSUME q >= 1 PROVE FALSE
    BY <1>1
  <2> C * q >= C
    BY <1>1, MultipleAtLeast
  <2> QED
    BY <1>1
<1>3. q = 0
  BY <1>1, <1>2
<1>4. C * q = 0
  BY <1>3
<1> QED
  BY <1>1, <1>4

\* A length below 2^16 survives its uint16_t.
LEMMA LengthKept ==
  ASSUME NEW x \in Nat
  PROVE  U16(x) \in Lengths /\ (x < LengthModulus => U16(x) = x)
BY Sizes, DivisionWithRemainder, SmallRemainder DEF U16, Lengths

\* What a quotient times the divisor is.
LEMMA DivideAndMultiply ==
  ASSUME NEW C \in Nat \ {0}, NEW q \in Nat, NEW r \in 0..(C - 1), NEW x \in Nat,
         x = C * q + r
  PROVE  q * C = x - r /\ q * C \in Nat /\ q <= x
<1>1. C * q = q * C /\ C * q \in Nat
  BY SMT
<1>2. q <= q * C
  <2>1. CASE q = 0
    BY <1>1, <2>1
  <2>2. CASE q \in Nat \ {0}
    BY <2>2, MultipleAtLeast
  <2> QED
    BY <2>1, <2>2
<1> QED
  BY <1>1, <1>2

\* A time of the clock, to microseconds and back, loses the remainder.
LEMMA DurationRoundTrip ==
  ASSUME NEW s \in Span, s.end = 0 \/ s.start <= s.end
  PROVE  /\ Duration(s) \in Times
         /\ (Duration(s) * Micro) % ClockModulus \in Times
         /\ Measured(s) - ((Duration(s) * Micro) % ClockModulus) \in 0..(Micro - 1)
<1> USE Sizes
<1> s.start \in Times /\ s.end \in Times
  BY DEF Span
<1>1. CASE s.end > s.start
  <2> DEFINE x == s.end - s.start
  <2>1. x \in Nat /\ x < ClockModulus /\ Measured(s) = x
    BY <1>1 DEF Times, Measured
  <2>2. Duration(s) = x \div Micro
    BY <1>1 DEF Duration
  <2>3. /\ x \div Micro \in Nat
        /\ x % Micro \in 0..(Micro - 1)
        /\ x = Micro * (x \div Micro) + (x % Micro)
    BY <2>1, DivisionWithRemainder
  <2>4. /\ Duration(s) * Micro = x - (x % Micro)
        /\ Duration(s) * Micro \in Nat
        /\ Duration(s) <= x
    <3> HIDE DEF x
    <3>1. /\ (x \div Micro) * Micro = x - (x % Micro)
          /\ (x \div Micro) * Micro \in Nat
          /\ x \div Micro <= x
      BY <2>1, <2>3, DivideAndMultiply
    <3> QED
      BY <3>1, <2>2
  <2>5. (Duration(s) * Micro) % ClockModulus = Duration(s) * Micro
    <3> DEFINE y == Duration(s) * Micro
    <3>1. y \in Nat /\ y < ClockModulus
      BY <2>1, <2>3, <2>4
    <3> HIDE DEF y
    <3>2. y % ClockModulus = y
      BY <3>1, SmallRemainder
    <3> QED
      BY <3>2 DEF y
  <2> HIDE DEF x
  <2> QED
    BY <2>1, <2>2, <2>3, <2>4, <2>5 DEF Times
<1>2. CASE ~(s.end > s.start)
  <2>1. Duration(s) = 0 /\ Measured(s) = 0
    BY <1>2 DEF Duration, Measured, Times
  <2>2. 0 * Micro = 0 /\ 0 % ClockModulus = 0
    BY SmallRemainder
  <2> QED
    BY <2>1, <2>2 DEF Times
<1> QED
  BY <1>1, <1>2

\* A duration in microseconds, multiplied back, is a value of the clock.
LEMMA EndIsATime ==
  ASSUME NEW d \in Nat
  PROVE  (d * Micro) % ClockModulus \in Times
<1>1. d * Micro \in Nat
  BY Sizes, SMT
<1> QED
  BY <1>1, Sizes, DivisionWithRemainder DEF Times

-----------------------------------------------------------------------------
(* Initial states, and the steps that encode nothing *)

\* The span of zeros that a decoder fills.
LEMMA BlankIsASpan ==
  /\ Blank \in Span
  /\ Blank.annotations = <<>> /\ Blank.start = 0 /\ Blank.end = 0
BY Sizes DEF Blank, Span, Times

\* And the encoding before anything is written.
LEMMA NoBytesAreBytes == NoBytes \in Bytes
BY Sizes DEF NoBytes, Bytes, Times, Lengths

\* The invariant holds before a span is built.
LEMMA InitInv == Init => WireInv
<1> SUFFICES ASSUME Init PROVE WireInv
  OBVIOUS
<1> USE Sizes, BlankIsASpan, NoBytesAreBytes DEF Init
<1>1. TypeOK
  <2>1. /\ Len(Blank.annotations) <= MaxAnnotations
        /\ copied \in [stored : Nat, room : Nat]
        /\ marks \in Seq(Nat)
        /\ key \in 0..(KeyMax - 1)
    OBVIOUS
  <2> QED
    BY <2>1 DEF TypeOK
<1>2. WithinBuffers /\ Places /\ Ordered
  BY DEF WithinBuffers, Places, Ordered, Blank, NoBytes, EncodePlaces, DecodePlaces
<1>3. ~Ours /\ ~library
  BY DEF Ours, EncodePlaces, DecodePlaces
<1>4. QED
  BY <1>1, <1>2, <1>3 DEF WireInv, MarksOf, Written, Read, Again

\* A span with another annotation.
LEMMA SpanWithAnnotation ==
  ASSUME NEW s \in Span, NEW a \in Annotation,
         NEW t, t = [s EXCEPT !.annotations = Append(@, a)]
  PROVE  /\ t \in Span
         /\ t.name = s.name /\ t.start = s.start /\ t.end = s.end
         /\ t.annotations = Append(s.annotations, a)
         /\ Len(t.annotations) = Len(s.annotations) + 1
<1> DEFINE q == Append(s.annotations, a)
<1>1. /\ q \in Seq(Annotation)
      /\ Len(q) = Len(s.annotations) + 1
  BY DEF Span
<1>2. t = [s EXCEPT !.annotations = q]
  OBVIOUS
<1> HIDE DEF q
<1>3. /\ t \in Span
      /\ t.annotations = q
      /\ t.name = s.name /\ t.start = s.start /\ t.end = s.end
  BY <1>1, <1>2 DEF Span
<1> QED
  BY <1>1, <1>3 DEF q

\* The application builds a span; nothing is encoded yet.
LEMMA BuildInv ==
  ASSUME WireInv, Build
  PROVE  WireInv'
<1> USE Sizes, BlankIsASpan
<1>0. /\ at \in {"create", "open"} /\ at' = "open" /\ hop = "build"
      /\ UNCHANGED <<hop, key, wire, off, marks, reach, copied, history>>
  BY DEF WireInv, Places, Build, Create, Annotate, Finish
<1>1. /\ span' \in Span
      /\ Len(span'.annotations) <= MaxAnnotations
      /\ span'.end = 0 \/ span'.start <= span'.end
  <2>1. CASE \E name \in 0..NameMax, start \in Clock : Create(name, start)
    <3>1. PICK name \in 0..NameMax, start \in Clock : Create(name, start)
      BY <2>1
    <3>2. SafeStrncpy(name, NameMax) \in 0..(NameMax - 1) /\ start \in Times
      BY WireAssumption DEF SafeStrncpy, Least
    <3>3. PICK n \in 0..(NameMax - 1) :
              span' = [Blank EXCEPT !.name = n, !.start = start]
      BY <3>1, <3>2 DEF Create
    <3>4. span' \in Span /\ span'.end = Blank.end
          /\ span'.annotations = Blank.annotations
      BY <3>2, <3>3 DEF Span
    <3> QED
      BY <3>4
  <2>2. CASE \E k \in 0..KeyMax, v \in 0..ValueMax : Annotate(k, v)
    <3>1. PICK k \in 0..KeyMax, v \in 0..ValueMax : Annotate(k, v)
      BY <2>2
    <3> DEFINE a == [key   |-> SafeStrncpy(k, KeyMax),
                     value |-> SafeStrncpy(v, ValueMax)]
    <3>2. a \in Annotation
      BY DEF Annotation, SafeStrncpy, Least
    <3>3. span \in Span /\ Len(span.annotations) <= MaxAnnotations
          /\ (span.end = 0 \/ span.start <= span.end)
      BY DEF WireInv, TypeOK, Ordered
    <3>4. CASE Len(span.annotations) >= MaxAnnotations
      BY <3>1, <3>3, <3>4 DEF Annotate
    <3>5. CASE ~(Len(span.annotations) >= MaxAnnotations)
      <4>1. span' = [span EXCEPT !.annotations = Append(@, a)]
        BY <3>1, <3>5 DEF Annotate
      <4> HIDE DEF a
      <4>2. /\ span' \in Span
            /\ span'.start = span.start /\ span'.end = span.end
            /\ Len(span'.annotations) = Len(span.annotations) + 1
        BY <3>2, <3>3, <4>1, SpanWithAnnotation, ZenonT(40)
      <4>3. Len(span.annotations) \in Nat
        BY <3>3 DEF Span
      <4> QED
        BY <3>3, <3>5, <4>2, <4>3
    <3> QED
      BY <3>4, <3>5
  <2>3. CASE \E now \in Clock : Finish(now)
    BY <2>3, WireAssumption DEF WireInv, TypeOK, Ordered, Finish, Span, Times
  <2> QED
    BY <2>1, <2>2, <2>3 DEF Build
<1>2. TypeOK'
  BY <1>0, <1>1 DEF WireInv, TypeOK, history
<1>3. (WithinBuffers /\ Places /\ Ordered)'
  BY <1>0, <1>1 DEF WireInv, WithinBuffers, Capacity, Places, Ordered, history,
                    EncodePlaces, DecodePlaces
<1>4. ~Ours' /\ hop' = "build" /\ at' = "open"
  BY <1>0 DEF Ours, EncodePlaces, DecodePlaces
<1>5. Again'
  BY <1>0, <1>4 DEF WireInv, Again, Fitted, history
<1>6. QED
  BY <1>2, <1>3, <1>4, <1>5 DEF WireInv, MarksOf, Written, Read

-----------------------------------------------------------------------------
(* Encoding *)

\* The first position of the counting loop.
LEMMA EncodeInv ==
  ASSUME WireInv, Export \/ Store
  PROVE  WireInv'
<1> USE Sizes
<1>1. /\ at' = "count" /\ hop' \in {"export", "store"}
      /\ hop' = "export" => made' = span
      /\ hop' = "store" => arrived = span /\ UNCHANGED made
      /\ UNCHANGED <<span, key, copied, arrived, library>>
      /\ off' = 0 /\ reach' = 0 /\ wire' = NoBytes
      /\ marks' = <<HeaderSize + NameLength(span, Capacity')>>
  BY DEF Export, Store, Encode, Capacity, WireInv, Places, history
<1>2. span \in Span /\ Sent' = span
  BY <1>1 DEF WireInv, TypeOK, Sent
<1>3. /\ HeaderSize + NameLength(span, Capacity') \in Nat
      /\ HeaderSize + NameLength(span, Capacity') <= Capacity'
  BY <1>2, CapacityNat, NameWithin
<1>4. /\ marks' \in Seq(Nat) /\ Len(marks') = 1
      /\ marks'[1] = HeaderSize + NameLength(span, Capacity')
  BY <1>1, <1>3
<1>5. TypeOK'
  <2>1. /\ made' \in Span /\ Len(made'.annotations) <= MaxAnnotations
        /\ wire' \in Bytes
    BY <1>1, NoBytesAreBytes DEF WireInv, TypeOK
  <2> QED
    BY <1>1, <1>4, <2>1 DEF WireInv, TypeOK
<1>6. WithinBuffers'
  BY <1>1, CapacityNat DEF WireInv, WithinBuffers
<1>7. (Places /\ Ordered)'
  BY <1>1, <1>2 DEF WireInv, Places, Ordered, EncodePlaces, DecodePlaces, NoBytes
<1>8. MarksOf'
  <2>1. Len(span.annotations) \in Nat
    BY <1>2 DEF Span
  <2> QED
    BY <1>2, <1>3, <1>4, <2>1, CapacityNat DEF MarksOf, Counted
<1>9. (Written /\ Read)'
  BY <1>1 DEF Written, Read
<1>10. Again'
  <2> SUFFICES ASSUME library PROVE Again'
    BY <1>1 DEF Again
  <2>1. PICK p \in [1..(Len(arrived.annotations) + 1) -> 0..SlotSize] :
            Fitted(arrived, p)
    BY DEF WireInv, Again
  <2>2. Fitted(arrived, p)'
    BY <1>1, <2>1 DEF Fitted
  <2>3. ASSUME hop' = "store"
        PROVE  marks'[1] = p[1]
    <3>1. p[1] = HeaderSize + arrived.name /\ p[1] <= Capacity'
      <4>1. arrived = span /\ Len(span.annotations) \in Nat
        BY <1>1, <1>2, <2>3 DEF Span
      <4>2. p[1] \in 0..SlotSize /\ Capacity' = WireMax
        BY <2>3, <4>1 DEF Capacity
      <4> QED
        BY <2>1, <4>2 DEF Fitted
    <3> QED
      BY <1>1, <1>2, <1>4, <2>3, <3>1, CapacityNat, NameWithin
  <2> QED
    BY <1>1, <1>4, <2>2, <2>3 DEF Again
<1>11. QED
  BY <1>1, <1>5, <1>6, <1>7, <1>8, <1>9, <1>10 DEF WireInv

\* What an encoder's step finds: the span it encodes, and how far it counted.
LEMMA WhileEncoding ==
  ASSUME WireInv, at \in EncodePlaces
  PROVE  /\ span = Sent /\ span \in Span /\ Len(span.annotations) \in Nat
         /\ \A i \in 1..Len(span.annotations) : span.annotations[i] \in Annotation
         /\ Len(span.annotations) <= MaxAnnotations
         /\ Len(marks) \in 1..(Len(span.annotations) + 1)
         /\ marks \in Seq(Nat)
         /\ \A k \in 1..Len(marks) : marks[k] \in Nat
         /\ marks[1] = HeaderSize + NameLength(span, Capacity)
         /\ marks[Len(marks)] <= Capacity
         /\ \A k \in 1..Len(marks) : marks[k] <= marks[Len(marks)]
         /\ \A k \in 1..Counted :
               marks[k + 1] = marks[k] + AnnotationSize(span.annotations[k])
         /\ Counted \in Nat /\ Counted = Len(marks) - 1
         /\ Capacity \in Nat
<1>1. span = Sent /\ span \in Span /\ Len(span.annotations) <= MaxAnnotations
      /\ marks \in Seq(Nat) /\ Ours
  BY DEF WireInv, TypeOK, Places, Ours
<1>2. span.annotations \in Seq(Annotation)
  BY <1>1 DEF Span
<1>3. Len(marks) \in 1..(Len(span.annotations) + 1)
  BY <1>1 DEF WireInv, MarksOf
<1> QED
  BY <1>1, <1>2, <1>3, CapacityNat DEF WireInv, MarksOf, Counted

\* The loop appends a position that is within the buffer.
LEMMA CountAnnotationInv ==
  ASSUME WireInv, CountAnnotation
  PROVE  WireInv'
<1> USE Sizes
<1> DEFINE n == Len(marks)
           a == span.annotations[n]
           m == marks[n] + AnnotationSize(a)
<1>1. /\ at = "count" /\ n <= Len(span.annotations) /\ m <= Capacity
      /\ marks' = Append(marks, m)
      /\ UNCHANGED <<hop, at, span, key, wire, off, reach, copied, history>>
  <2>1. at \in EncodePlaces
    BY DEF CountAnnotation, EncodePlaces
  <2>2. Counted + 1 = n
    BY <2>1, WhileEncoding DEF Counted
  <2> QED
    BY <2>1, <2>2, WhileEncoding DEF CountAnnotation, Fits
<1>2. at \in EncodePlaces /\ UNCHANGED <<Capacity, Sent, Ours>>
  BY <1>1 DEF EncodePlaces, Capacity, Sent, Ours, history
<1>3. n \in Nat \ {0} /\ m \in Nat /\ marks[n] <= m /\ a \in Annotation
  BY <1>1, <1>2, WhileEncoding, AnnotationPositive, SMTT(30)
<1>4. /\ marks' \in Seq(Nat) /\ Len(marks') = n + 1
      /\ \A k \in 1..n : marks'[k] = marks[k]
      /\ marks'[n + 1] = m
  BY <1>1, <1>2, <1>3, WhileEncoding
<1> HIDE DEF m
<1>5. TypeOK'
  BY <1>1, <1>4 DEF WireInv, TypeOK, history
<1>6. (WithinBuffers /\ Places /\ Ordered)'
  BY <1>1, <1>2 DEF WireInv, WithinBuffers, Places, Ordered, MoreAnnotations,
                    history
<1>7. MarksOf'
  <2>1. Counted' = n
    BY <1>4 DEF Counted
  <2>2. \A k \in 1..n :
          marks'[k + 1] = marks'[k] + AnnotationSize(span.annotations[k])
    <3> TAKE k \in 1..n
    <3>1. CASE k = n
      BY <1>3, <1>4, <3>1 DEF m
    <3>2. CASE k # n
      <4>1. k \in 1..Counted /\ k + 1 \in 1..n
        BY <1>2, <1>3, <3>2, WhileEncoding, SMTT(30)
      <4> QED
        BY <1>2, <1>4, <4>1, WhileEncoding
    <3> QED
      BY <3>1, <3>2
  <2>3. \A k \in 1..(n + 1) : marks'[k] <= m
    <3> TAKE k \in 1..(n + 1)
    <3>1. CASE k = n + 1
      BY <1>3, <1>4, <3>1
    <3>2. CASE k # n + 1
      <4>1. k \in 1..n
        BY <1>3, <3>2
      <4>2. \A j \in 1..n : marks[j] \in Nat /\ marks[j] <= marks[n]
        BY <1>2, WhileEncoding
      <4>3. marks[k] \in Nat /\ marks[k] <= marks[n] /\ marks[n] \in Nat
        <5> HIDE DEF n, a
        <5> QED
          BY <1>3, <4>1, <4>2
      <4> QED
        BY <1>3, <1>4, <4>1, <4>3
    <3> QED
      BY <3>1, <3>2
  <2>4. marks'[1] = marks[1] /\ n + 1 <= Len(span.annotations) + 1
    BY <1>1, <1>3, <1>4
  <2>5. /\ Sent' = span /\ Capacity' = Capacity /\ Len(span.annotations) \in Nat
        /\ marks[1] = HeaderSize + NameLength(span, Capacity)
    BY <1>2, WhileEncoding
  <2>6. n \in Nat \ {0} /\ n <= Len(span.annotations) /\ m \in Nat
    BY <1>1, <1>3
  <2>7. Len(marks') = n + 1 /\ marks'[n + 1] = m /\ m <= Capacity
    BY <1>1, <1>4
  <2> HIDE DEF n, a
  <2>8. (Len(marks) \in 1..(Len(Sent.annotations) + 1))'
    BY <2>5, <2>6, <2>7
  <2>9. (marks[1] = HeaderSize + NameLength(Sent, Capacity))'
    BY <2>4, <2>5 DEF NameLength
  <2>10. /\ (marks[Len(marks)] <= Capacity)'
         /\ (\A k \in 1..Len(marks) : marks[k] <= marks[Len(marks)])'
    BY <2>3, <2>5, <2>7
  <2>11. (\A k \in 1..Counted :
            marks[k + 1] = marks[k] + AnnotationSize(Sent.annotations[k]))'
    BY <2>1, <2>2, <2>5 DEF AnnotationSize
  <2> QED
    BY <2>8, <2>9, <2>10, <2>11 DEF MarksOf
<1>8. (Written /\ Read)'
  BY <1>1 DEF Written, Read
<1>9. Again'
  <2> SUFFICES ASSUME library PROVE Again'
    BY <1>1 DEF Again, history
  <2>1. PICK p \in [1..(Len(arrived.annotations) + 1) -> 0..SlotSize] :
          /\ Fitted(arrived, p)
          /\ hop \in {"store", "load"} /\ Ours =>
                \A k \in 1..Len(marks) : marks[k] = p[k]
    BY DEF WireInv, Again
  <2>2. Fitted(arrived, p)'
    BY <1>1, <2>1 DEF Fitted, history
  <2>3. ASSUME hop = "store"
        PROVE  \A k \in 1..(n + 1) : marks'[k] = p[k]
    <3>1. span = arrived /\ Ours
      BY <1>2, <2>3, WhileEncoding DEF Sent, Ours
    <3>2. marks[n] = p[n] /\ \A k \in 1..n : marks'[k] = p[k]
      BY <1>3, <1>4, <2>1, <2>3, <3>1
    <3>3. p[n + 1] = p[n] + AnnotationSize(a)
      BY <1>1, <1>3, <2>1, <3>1 DEF Fitted
    <3>4. p[n + 1] = m
      BY <3>2, <3>3 DEF m
    <3> HIDE DEF n, a
    <3> QED
      BY <1>3, <1>4, <3>2, <3>4
  <2>4. hop \in {"export", "store"}
    BY <1>2 DEF WireInv, Places
  <2> QED
    BY <1>1, <1>4, <2>1, <2>2, <2>3, <2>4 DEF Again, history
<1>10. QED
  BY <1>1, <1>2, <1>5, <1>6, <1>7, <1>8, <1>9 DEF WireInv

\* The counting loop ends because everything was counted, or because the
\* next annotation does not fit, which for a span that went through a ring
\* and is encoded into the log cannot be.
LEMMA WriteHeaderInv ==
  ASSUME WireInv, WriteHeader
  PROVE  WireInv'
<1> USE Sizes
<1>1. /\ at = "count" /\ at' = "write"
      /\ Counted < Len(span.annotations)
           => ~(marks[Len(marks)] + AnnotationSize(span.annotations[Counted + 1])
                  <= Capacity)
      /\ wire' = [NoBytes EXCEPT !.duration = Duration(span),
                                 !.name = U16(marks[1] - HeaderSize),
                                 !.count = U16(Counted)]
      /\ off' = marks[1] /\ reach' = marks[1]
      /\ UNCHANGED <<hop, span, key, marks, copied, history>>
  BY DEF WriteHeader, Fits
<1>2. at \in EncodePlaces /\ at' \in EncodePlaces
      /\ UNCHANGED <<Capacity, Sent, Counted>> /\ Ours /\ Ours'
  BY <1>1 DEF EncodePlaces, Capacity, Sent, Ours, Counted, history
<1>3. NameLength(span, Capacity) \in 0..(NameMax - 1)
  BY <1>2, WhileEncoding, CapacityNat, NameWithin
<1>4. U16(marks[1] - HeaderSize) = NameLength(span, Capacity)
  BY <1>2, <1>3, WhileEncoding, LengthKept
<1>5. U16(Counted) = Counted
  BY <1>2, WhileEncoding, LengthKept
<1>6. Duration(span) \in Times
  <2>1. span.end = 0 \/ span.start <= span.end
    BY DEF WireInv, Ordered
  <2> QED
    BY <1>2, <2>1, WhileEncoding, DurationRoundTrip
<1>7. /\ wire' \in Bytes
      /\ wire'.own /\ wire'.ids /\ wire'.fields = <<>>
      /\ wire'.duration = Duration(span)
      /\ wire'.name = NameLength(span, Capacity)
      /\ wire'.count = Counted
  <2>1. NameLength(span, Capacity) \in Lengths /\ Counted \in Lengths
    BY <1>2, <1>3, <1>4, <1>5, WhileEncoding, LengthKept
  <2>2. PICK d \in Times, n \in Lengths, c \in Lengths :
            /\ d = Duration(span) /\ n = NameLength(span, Capacity)
            /\ c = Counted
            /\ wire' = [NoBytes EXCEPT !.duration = d, !.name = n, !.count = c]
    BY <1>1, <1>4, <1>5, <1>6, <2>1
  <2>3. NoBytes \in Bytes /\ NoBytes.own /\ NoBytes.ids /\ NoBytes.fields = <<>>
    BY NoBytesAreBytes DEF NoBytes
  <2>4. /\ wire' \in Bytes
        /\ wire'.own = NoBytes.own /\ wire'.ids = NoBytes.ids
        /\ wire'.fields = NoBytes.fields
        /\ wire'.duration = d /\ wire'.name = n /\ wire'.count = c
    BY <2>2, <2>3 DEF Bytes
  <2> QED
    BY <2>2, <2>3, <2>4
<1>8. marks[1] \in Nat /\ marks[1] <= Capacity
  BY <1>2, WhileEncoding
<1>9. TypeOK'
  BY <1>1, <1>7, <1>8 DEF WireInv, TypeOK, history
<1>10. (WithinBuffers /\ Places /\ Ordered)'
  BY <1>1, <1>2, <1>7, <1>8
     DEF WireInv, WithinBuffers, Places, Ordered, MoreAnnotations, history,
         EncodePlaces, DecodePlaces
<1>11. MarksOf'
  BY <1>1, <1>2 DEF WireInv, MarksOf
<1>12. Written'
  <2>1. Len(wire'.fields) = 0
    BY <1>7
  <2>2. span = Sent /\ Counted \in Nat /\ Capacity \in Nat
    BY <1>2, WhileEncoding
  <2>3. Counted < Len(Sent.annotations) =>
          marks[Len(marks)] + AnnotationSize(Sent.annotations[Counted + 1])
            > Capacity
    <3> SUFFICES ASSUME Counted < Len(span.annotations)
                 PROVE  marks[Len(marks)]
                          + AnnotationSize(span.annotations[Counted + 1]) > Capacity
      BY <2>2
    <3>1. span.annotations[Counted + 1] \in Annotation
      BY <1>2, <2>2, WhileEncoding
    <3>2. marks[Len(marks)] \in Nat
      BY <1>2, WhileEncoding
    <3>3. AnnotationSize(span.annotations[Counted + 1]) \in Nat
      BY <3>1, AnnotationPositive
    <3> QED
      BY <1>1, <2>2, <3>2, <3>3, SMTT(30)
  <2> QED
    BY <1>1, <1>2, <1>7, <2>1, <2>2, <2>3, SMTT(30) DEF Written, DecodePlaces
<1>13. Read'
  BY <1>1 DEF Read
<1>14. Again'
  <2> SUFFICES ASSUME library PROVE Again'
    BY <1>1 DEF Again, history
  <2>1. PICK p \in [1..(Len(arrived.annotations) + 1) -> 0..SlotSize] :
          /\ Fitted(arrived, p)
          /\ hop \in {"store", "load"} /\ Ours =>
                \A k \in 1..Len(marks) : marks[k] = p[k]
    BY DEF WireInv, Again
  <2>2. Fitted(arrived, p)'
    BY <1>1, <2>1 DEF Fitted, history
  <2>3. ASSUME hop = "store"
        PROVE  Counted = Len(arrived.annotations)
    <3>1. span = arrived /\ Capacity = WireMax
      BY <1>2, <2>3, WhileEncoding DEF Sent, Capacity
    <3>2. /\ Counted \in Nat /\ Counted = Len(marks) - 1
          /\ Len(arrived.annotations) \in Nat
          /\ Counted <= Len(arrived.annotations)
      BY <1>2, <3>1, WhileEncoding
    <3> SUFFICES ASSUME Counted < Len(arrived.annotations)
                 PROVE  FALSE
      BY <3>2
    <3>3. marks[Counted + 1] = p[Counted + 1]
      BY <1>2, <2>1, <2>3, <3>2
    <3>4. p[Counted + 2] = p[Counted + 1]
                             + AnnotationSize(arrived.annotations[Counted + 1])
      BY <2>1, <3>2, SMTT(30) DEF Fitted
    <3>5. p[Counted + 2] \in 0..SlotSize
      BY <2>1, <3>2
    <3> QED
      BY <1>1, <3>1, <3>2, <3>3, <3>4, <3>5
  <2>4. hop \in {"export", "store"}
    BY <1>2 DEF WireInv, Places
  <2> QED
    BY <1>1, <1>2, <2>1, <2>2, <2>3, <2>4 DEF Again, history
<1>15. QED
  BY <1>1, <1>9, <1>10, <1>11, <1>12, <1>13, <1>14 DEF WireInv

\* A step that leaves alone what Again speaks of.
LEMMA AgainKept ==
  ASSUME Again, UNCHANGED <<marks, arrived, library>>,
         hop' \in {"store", "load"} /\ Ours' =>
           /\ hop \in {"store", "load"} /\ Ours
           /\ at' # "count" => at # "count"
  PROVE  Again'
<1> SUFFICES ASSUME library PROVE Again'
  BY DEF Again
<1>1. PICK p \in [1..(Len(arrived.annotations) + 1) -> 0..SlotSize] :
        /\ Fitted(arrived, p)
        /\ hop \in {"store", "load"} /\ Ours =>
              /\ \A k \in 1..Len(marks) : marks[k] = p[k]
              /\ at # "count" => Counted = Len(arrived.annotations)
  BY DEF Again
<1>2. Fitted(arrived, p)' /\ Counted' = Counted
  BY <1>1 DEF Fitted, Counted
<1> QED
  BY <1>1, <1>2 DEF Again

\* The writing loop passes through the counted positions.
LEMMA WriteAnnotationInv ==
  ASSUME WireInv, WriteAnnotation
  PROVE  WireInv'
<1> USE Sizes
<1> DEFINE i == Len(wire.fields)
           a == span.annotations[i + 1]
           f == [key |-> U16(a.key), value |-> U16(a.value)]
<1>i. i < Counted
  BY DEF WriteAnnotation
<1>1. /\ at = "write" /\ at' = "write"
      /\ wire' = [wire EXCEPT !.fields = Append(@, f)]
      /\ off' = off + AnnotationSize(a) /\ reach' = off'
      /\ UNCHANGED <<hop, at, span, key, marks, copied, history>>
  BY DEF WriteAnnotation
<1>2. at \in EncodePlaces /\ Ours /\ Ours'
      /\ UNCHANGED <<Capacity, Sent, Counted>>
  BY <1>1 DEF EncodePlaces, Capacity, Sent, Ours, Counted, history
<1>3. wire \in Bytes /\ wire.fields \in Seq([key : Lengths, value : Lengths])
      /\ i \in Nat
  BY DEF WireInv, TypeOK, Bytes
<1>n. i \in Nat
  BY <1>3
<1> HIDE DEF i
<1>0. /\ Counted \in Nat /\ Len(marks) = Counted + 1
      /\ Len(span.annotations) \in Nat
      /\ Counted <= Len(span.annotations)
  BY <1>2, WhileEncoding
<1>4. a \in Annotation /\ AnnotationSize(a) \in Nat
  <2>1. i + 1 \in 1..Len(span.annotations)
    BY <1>0, <1>i, <1>n
  <2> QED
    BY <1>2, <2>1, WhileEncoding, AnnotationPositive
<1>5. f = a /\ f \in [key : Lengths, value : Lengths]
  <2>1. /\ a.key \in Nat /\ a.key < LengthModulus
        /\ a.value \in Nat /\ a.value < LengthModulus
    BY <1>4, AnnotationPositive
  <2>2. U16(a.key) = a.key /\ U16(a.value) = a.value
        /\ a.key \in Lengths /\ a.value \in Lengths
    BY <2>1, LengthKept
  <2>3. f = [key |-> a.key, value |-> a.value]
    BY <2>2
  <2>4. a = [key |-> a.key, value |-> a.value]
    BY <1>4 DEF Annotation
  <2> QED
    BY <2>2, <2>3, <2>4
<1> HIDE DEF f, a
<1>6. /\ wire' \in Bytes
      /\ wire'.fields = Append(wire.fields, f)
      /\ wire'.own = wire.own /\ wire'.ids = wire.ids
      /\ wire'.name = wire.name /\ wire'.count = wire.count
      /\ wire'.duration = wire.duration /\ wire'.size = wire.size
  <2> DEFINE q == Append(wire.fields, f)
  <2>1. q \in Seq([key : Lengths, value : Lengths])
    BY <1>3, <1>5
  <2>2. wire' = [wire EXCEPT !.fields = q]
    BY <1>1
  <2> HIDE DEF q
  <2>3. /\ wire' \in Bytes
        /\ wire'.fields = q
        /\ wire'.own = wire.own /\ wire'.ids = wire.ids
        /\ wire'.name = wire.name /\ wire'.count = wire.count
        /\ wire'.duration = wire.duration /\ wire'.size = wire.size
    BY <1>3, <2>1, <2>2 DEF Bytes
  <2> QED
    BY <2>3 DEF q
<1>7. /\ Len(wire'.fields) = i + 1
      /\ \A k \in 1..i : wire'.fields[k] = wire.fields[k]
      /\ wire'.fields[i + 1] = a
  BY <1>3, <1>5, <1>6 DEF i
<1>8. off = marks[i + 1]
  BY <1>1, <1>2 DEF WireInv, Written, i
<1>9. off' = marks[i + 2] /\ off' \in Nat /\ off' <= Capacity
  <2>1. i + 1 \in 1..Counted /\ i + 2 \in 1..Len(marks)
    BY <1>0, <1>i, <1>n
  <2>2. marks[i + 2] = marks[i + 1] + AnnotationSize(a)
    <3>1. marks[(i + 1) + 1] = marks[i + 1] + AnnotationSize(a)
      BY <1>2, <2>1, WhileEncoding DEF a
    <3> QED
      BY <1>3, <3>1
  <2>3. marks[i + 2] \in Nat /\ marks[i + 2] <= marks[Len(marks)]
        /\ marks[Len(marks)] \in Nat /\ marks[Len(marks)] <= Capacity
    BY <1>2, <2>1, WhileEncoding, SMTT(30)
  <2>4. Capacity \in Nat
    BY CapacityNat
  <2> QED
    BY <1>1, <1>8, <2>2, <2>3, <2>4, SMTT(30)
<1>10. TypeOK'
  BY <1>1, <1>6, <1>9 DEF WireInv, TypeOK, history
<1>11. (WithinBuffers /\ Places /\ Ordered)'
  BY <1>1, <1>2, <1>6, <1>9
     DEF WireInv, WithinBuffers, Places, Ordered, history, EncodePlaces,
         DecodePlaces
<1>12. MarksOf'
  BY <1>1, <1>2 DEF WireInv, MarksOf
<1>13. Written'
  <2>1. /\ i + 1 <= Counted
        /\ \A k \in 1..(i + 1) : wire'.fields[k] = Sent.annotations[k]
    <3>1. \A k \in 1..i : wire.fields[k] = Sent.annotations[k]
      BY <1>1, <1>2 DEF WireInv, Written, i
    <3>2. a = Sent.annotations[i + 1]
      BY <1>2, WhileEncoding DEF a
    <3>3. i + 1 <= Counted
      BY <1>0, <1>i, <1>n
    <3>4. ASSUME NEW k \in 1..(i + 1)
          PROVE  wire'.fields[k] = Sent.annotations[k]
      <4>1. k = i + 1 \/ k \in 1..i
        BY <1>3
      <4> QED
        BY <4>1, <1>7, <3>1, <3>2
    <3> QED
      BY <3>3, <3>4
  <2>2. off' = marks[(i + 1) + 1]
    BY <1>3, <1>9
  <2> QED
    BY <1>1, <1>2, <1>6, <1>7, <2>1, <2>2, ZenonT(60) DEF WireInv, Written, DecodePlaces
<1>14. Read' /\ Again'
  BY <1>1, <1>2, AgainKept DEF WireInv, Read, history
<1>15. QED
  BY <1>1, <1>10, <1>11, <1>12, <1>13, <1>14 DEF WireInv

\* An encoder is done: the size of the frame is known.
LEMMA EncodedInv ==
  ASSUME WireInv, Encoded
  PROVE  WireInv'
<1>1. /\ at = "write" /\ at' = "encoded" /\ Len(wire.fields) = Counted
      /\ wire' = [wire EXCEPT !.size = off]
      /\ UNCHANGED <<hop, span, key, off, marks, reach, copied, history>>
  BY DEF Encoded
<1>2. at \in EncodePlaces /\ at' \in EncodePlaces /\ Ours /\ Ours'
      /\ UNCHANGED <<Capacity, Sent, Counted>>
  BY <1>1 DEF EncodePlaces, Capacity, Sent, Ours, Counted, history
<1>3. /\ wire' \in Bytes /\ wire'.size = off
      /\ wire'.own = wire.own /\ wire'.ids = wire.ids
      /\ wire'.name = wire.name /\ wire'.count = wire.count
      /\ wire'.duration = wire.duration /\ wire'.fields = wire.fields
  BY <1>1 DEF WireInv, TypeOK, Bytes
<1>4. off = marks[Len(marks)]
  <2>1. off = marks[Counted + 1]
    BY <1>1, <1>2 DEF WireInv, Written
  <2> QED
    BY <1>2, <2>1, WhileEncoding
<1>5. (TypeOK /\ WithinBuffers /\ Places /\ Ordered)'
  BY <1>1, <1>2, <1>3
     DEF WireInv, TypeOK, WithinBuffers, Places, Ordered, history,
         EncodePlaces, DecodePlaces
<1>6. (MarksOf /\ Written)'
  BY <1>1, <1>2, <1>3, <1>4 DEF WireInv, MarksOf, Written, DecodePlaces
<1>7. Read' /\ Again'
  BY <1>1, <1>2, AgainKept DEF WireInv, Read, history
<1>8. QED
  BY <1>1, <1>5, <1>6, <1>7 DEF WireInv

-----------------------------------------------------------------------------
(* Decoding *)

\* The bytes of an encoder reach a decoder as they are ...
LEMMA DecodeInv ==
  ASSUME WireInv, Receive \/ ReadBack
  PROVE  WireInv'
<1>1. /\ at = "encoded" /\ at' = "header"
      /\ \/ hop = "export" /\ hop' = "collect"
         \/ hop = "store" /\ hop' = "load"
      /\ off' = 0 /\ reach' = 0
      /\ UNCHANGED <<wire, span, key, marks, copied, history>>
  BY DEF Receive, ReadBack, Decode
<1>2. at \in EncodePlaces /\ at' \in DecodePlaces /\ Ours /\ Ours'
      /\ UNCHANGED <<Capacity, Sent, Counted>> /\ wire.own
  BY <1>1 DEF EncodePlaces, DecodePlaces, Capacity, Sent, Ours, Counted,
              WireInv, Places, history
<1>3. wire.size \in Nat
  BY DEF WireInv, TypeOK, Bytes
<1>4. (TypeOK /\ WithinBuffers /\ Places /\ Ordered)'
  BY <1>1, <1>2, <1>3
     DEF WireInv, TypeOK, WithinBuffers, Places, Ordered, history,
         EncodePlaces, DecodePlaces
<1>5. (MarksOf /\ Written)'
  BY <1>1, <1>2 DEF WireInv, MarksOf, Written
<1>6. Read' /\ Again'
  BY <1>1, <1>2, AgainKept DEF WireInv, Read, history
<1>7. QED
  BY <1>1, <1>4, <1>5, <1>6 DEF WireInv

\* ... and other bytes come from nowhere.
LEMMA ForeignInv ==
  ASSUME WireInv, ReceiveForeign \/ ReadDamaged
  PROVE  WireInv'
<1> USE Sizes
<1>1. /\ at = "create" /\ at' = "header" /\ hop' \in {"collect", "load"}
      /\ off' = 0 /\ reach' = 0
      /\ wire' \in Bytes /\ wire'.own = FALSE
      /\ UNCHANGED <<span, key, marks, copied, history>>
  <2>1. \A sizes \in SUBSET Nat : \A b \in ForeignBytes(sizes) :
           b \in Bytes /\ b.own = FALSE
    <3> TAKE sizes \in SUBSET Nat
    <3> TAKE b \in ForeignBytes(sizes)
    <3>1. ForeignDurations \subseteq Times
      BY WireAssumption
    <3>2. <<>> \in Seq([key : Lengths, value : Lengths])
      OBVIOUS
    <3>3. b \in [own : {FALSE}, size : sizes, ids : BOOLEAN,
                 duration : ForeignDurations, name : Lengths, count : Lengths,
                 fields : {<<>>}]
      BY DEF ForeignBytes
    <3> HIDE DEF ForeignBytes
    <3> QED
      BY <3>1, <3>2, <3>3, Zenon DEF Bytes
  <2> QED
    BY <2>1 DEF ReceiveForeign, ReadDamaged, Decode
<1>2. hop = "build" /\ ~Ours'
  BY <1>1 DEF WireInv, Places, Ours, EncodePlaces, DecodePlaces
<1>3. wire'.size \in Nat
  BY <1>1 DEF Bytes
<1>4. (TypeOK /\ WithinBuffers /\ Places /\ Ordered)'
  BY <1>1, <1>3
     DEF WireInv, TypeOK, WithinBuffers, Places, Ordered, history,
         EncodePlaces, DecodePlaces
<1>5. (MarksOf /\ Written /\ Read)'
  BY <1>1, <1>2 DEF MarksOf, Written, Read
<1>6. Again'
  BY <1>1, <1>2, AgainKept DEF WireInv, history
<1>7. QED
  BY <1>2, <1>4, <1>5, <1>6 DEF WireInv

\* What a decoder of our bytes finds in them.
LEMMA WhileDecoding ==
  ASSUME WireInv, at \in DecodePlaces, wire.own
  PROVE  /\ Sent \in Span /\ Len(Sent.annotations) \in Nat
         /\ Len(Sent.annotations) <= MaxAnnotations
         /\ \A k \in 1..Len(Sent.annotations) : Sent.annotations[k] \in Annotation
         /\ Counted \in Nat /\ Len(marks) = Counted + 1
         /\ Counted <= Len(Sent.annotations)
         /\ \A k \in 1..(Counted + 1) : marks[k] \in Nat /\ marks[k] <= wire.size
         /\ \A k \in 1..Counted :
               marks[k + 1] = marks[k] + AnnotationSize(Sent.annotations[k])
         /\ marks[Counted + 1] = wire.size
         /\ marks[1] = HeaderSize + wire.name
         /\ wire.name \in 0..(NameMax - 1)
         /\ wire.count = Counted
         /\ \A k \in 1..Counted : wire.fields[k] = Sent.annotations[k]
         /\ wire.size \in Nat /\ wire.size <= Capacity
<1> USE Sizes
<1>1. /\ Ours /\ at # "count" /\ at # "write" /\ at # "create" /\ at # "open"
      /\ Sent \in Span /\ Len(Sent.annotations) <= MaxAnnotations
      /\ marks \in Seq(Nat) /\ wire.size \in Nat
  BY DEF WireInv, TypeOK, Ours, DecodePlaces, Sent, Bytes
<1>2. Sent.annotations \in Seq(Annotation)
  BY <1>1 DEF Span
<1>3. Len(marks) \in 1..(Len(Sent.annotations) + 1)
  BY <1>1 DEF WireInv, MarksOf
<1>4. /\ wire.name = NameLength(Sent, Capacity) /\ wire.count = Counted
      /\ wire.size = marks[Len(marks)] /\ Len(wire.fields) = Counted
      /\ \A i \in 1..Len(wire.fields) : wire.fields[i] = Sent.annotations[i]
  BY <1>1 DEF WireInv, Written
<1>5. wire.name \in 0..(NameMax - 1)
  BY <1>1, <1>4, CapacityNat, NameWithin
<1>6. /\ Counted \in Nat /\ Len(marks) = Counted + 1
      /\ Counted <= Len(Sent.annotations)
  BY <1>2, <1>3 DEF Counted
<1>7. /\ marks[1] = HeaderSize + NameLength(Sent, Capacity)
      /\ marks[Len(marks)] <= Capacity
      /\ \A k \in 1..Len(marks) : marks[k] <= marks[Len(marks)]
      /\ \A k \in 1..Counted :
            marks[k + 1] = marks[k] + AnnotationSize(Sent.annotations[k])
  BY <1>1 DEF WireInv, MarksOf
<1>8. \A k \in 1..(Counted + 1) : marks[k] \in Nat /\ marks[k] <= wire.size
  <2>1. \A k \in 1..Len(marks) : marks[k] \in Nat /\ marks[k] <= wire.size
    BY <1>1, <1>4, <1>7, SMTT(30)
  <2> QED
    BY <1>6, <2>1
<1>9. /\ Len(Sent.annotations) \in Nat
      /\ \A k \in 1..Len(Sent.annotations) : Sent.annotations[k] \in Annotation
  BY <1>2
<1>10. \A k \in 1..Counted : wire.fields[k] = Sent.annotations[k]
  BY <1>4, <1>6
<1>11. /\ marks[1] = HeaderSize + wire.name
       /\ marks[Counted + 1] = wire.size /\ wire.size <= Capacity
  BY <1>4, <1>6, <1>7
<1> QED
  BY <1>1, <1>4, <1>5, <1>6, <1>7, <1>8, <1>9, <1>10, <1>11

\* The next annotation of our bytes is the next of the span they encode,
\* and it ends where the counting loop went next.
LEMMA NextAnnotation ==
  ASSUME WireInv, at \in {"key", "value"}, MoreAnnotations, wire.own,
         NEW i, i = Len(span.annotations),
         NEW a, a = Sent.annotations[i + 1]
  PROVE  /\ i \in Nat /\ i + 1 <= Counted
         /\ a \in Annotation /\ wire.fields[i + 1] = a
         /\ marks[i + 1] \in Nat /\ marks[i + 2] \in Nat
         /\ marks[i + 2] = marks[i + 1] + (4 + a.key + a.value)
         /\ marks[i + 2] <= wire.size
<1>1. at \in DecodePlaces
  BY DEF DecodePlaces
<1>2. i \in Nat
  BY DEF WireInv, TypeOK, Span
<1>3. i < Counted
  BY <1>1, <1>2, Sizes, WhileDecoding DEF MoreAnnotations, Least
<1>4. /\ Counted \in Nat /\ Counted <= Len(Sent.annotations)
      /\ Len(Sent.annotations) \in Nat
  BY <1>1, WhileDecoding
<1>5. /\ i + 1 \in 1..Counted /\ i + 1 \in 1..Len(Sent.annotations)
      /\ i + 1 \in 1..(Counted + 1) /\ i + 2 \in 1..(Counted + 1)
      /\ (i + 1) + 1 = i + 2
  BY <1>2, <1>3, <1>4
<1>6. a \in Annotation /\ wire.fields[i + 1] = a
  BY <1>1, <1>5, WhileDecoding
<1>7. /\ marks[i + 1] \in Nat /\ marks[i + 2] \in Nat
      /\ marks[i + 2] <= wire.size
  BY <1>1, <1>5, WhileDecoding
<1>8. marks[i + 2] = marks[i + 1] + AnnotationSize(a)
  <2>1. marks[(i + 1) + 1] = marks[i + 1] + AnnotationSize(a)
    BY <1>1, <1>5, WhileDecoding
  <2> QED
    BY <1>5, <2>1
<1>9. AnnotationSize(a) = 4 + a.key + a.value /\ a.key \in Nat /\ a.value \in Nat
  BY <1>6, AnnotationPositive
<1>10. i + 1 <= Counted
  BY <1>2, <1>3, <1>4
<1>11. marks[i + 2] = marks[i + 1] + (4 + a.key + a.value)
  BY <1>8, <1>9, Zenon
<1> QED
  BY <1>2, <1>6, <1>7, <1>10, <1>11

\* What a step of the decoder leaves alone.
LEMMA DecodingKept ==
  ASSUME WireInv, at \in {"header", "key", "value"}, at' \in DecodePlaces,
         UNCHANGED <<hop, wire, marks, made>>,
         hop = "load" => UNCHANGED <<arrived, library>>
  PROVE  /\ at \in DecodePlaces /\ hop \in {"collect", "load"}
         /\ UNCHANGED <<Capacity, Sent, Counted>>
         /\ Ours <=> wire.own
         /\ Ours' <=> wire.own
         /\ MarksOf' /\ Written'
<1>1. at \in DecodePlaces /\ hop \in {"collect", "load"}
      /\ at \notin EncodePlaces /\ at' \notin EncodePlaces
  BY DEF WireInv, Places, DecodePlaces, EncodePlaces
<1>2. UNCHANGED <<Capacity, Sent, Counted>>
  BY <1>1 DEF Capacity, Sent, Counted
<1>3. (Ours <=> wire.own) /\ (Ours' <=> wire.own)
  BY <1>1 DEF Ours
<1>4. MarksOf'
  BY <1>2, <1>3 DEF WireInv, MarksOf
<1>5. Written'
  BY <1>1, <1>2, <1>3 DEF WireInv, Written, DecodePlaces
<1> QED
  BY <1>1, <1>2, <1>3, <1>4, <1>5

\* A string of ours is as long as what is copied of it.
LEMMA StrlenFound ==
  ASSUME NEW stored \in Nat, NEW length \in Strlen(stored)
  PROVE  /\ length \in 0..stored
         /\ wire.own => length = stored
BY DEF Strlen

\* The header and the name: the name of our bytes is not cut again.
LEMMA ReadHeaderInv ==
  ASSUME WireInv, ReadHeader
  PROVE  WireInv'
<1> USE Sizes
<1> DEFINE stored == Least(wire.name, NameMax - 1)
           end == (wire.duration * Micro) % ClockModulus
<1>1. /\ at = "header" /\ at' = "key"
      /\ HeaderSize + wire.name <= wire.size
      /\ \E name \in Strlen(stored) :
            span' = [Blank EXCEPT !.name = name, !.end = end]
      /\ copied' = [stored |-> stored + 1, room |-> NameMax]
      /\ reach' = HeaderSize + stored
      /\ off' = HeaderSize + wire.name
      /\ UNCHANGED <<hop, key, wire, marks, history>>
  BY DEF ReadHeader
<1>2. /\ at \in DecodePlaces /\ hop \in {"collect", "load"}
      /\ UNCHANGED <<Capacity, Sent, Counted>>
      /\ (Ours <=> wire.own) /\ (Ours' <=> wire.own)
      /\ MarksOf' /\ Written'
  <2>1. /\ at \in {"header", "key", "value"} /\ at' \in DecodePlaces
        /\ UNCHANGED <<hop, wire, marks, made>>
        /\ UNCHANGED <<arrived, library>>
    BY <1>1 DEF DecodePlaces, history
  <2> QED
    BY <2>1, DecodingKept
<1>3. wire.name \in Nat /\ wire.duration \in Nat /\ wire.size \in Nat
  BY DEF WireInv, TypeOK, Bytes, Lengths, Times
<1>4. /\ stored \in 0..(NameMax - 1) /\ stored <= wire.name
      /\ wire.name <= NameMax - 1 => stored = wire.name
  BY <1>3 DEF Least
<1>5. end \in Times
  BY <1>3, EndIsATime
<1>6. /\ span' \in Span /\ span'.end = end
      /\ wire.own => span'.name = stored
      /\ span'.start = 0 /\ span'.annotations = <<>>
  <2> HIDE DEF stored, end
  <2>0. PICK name \in Strlen(stored) :
            span' = [Blank EXCEPT !.name = name, !.end = end]
    BY <1>1
  <2>n. name \in 0..(NameMax - 1) /\ (wire.own => name = stored)
    BY <1>4, StrlenFound
  <2>1. PICK n \in 0..(NameMax - 1), e \in Times :
            /\ n = name /\ e = end
            /\ span' = [Blank EXCEPT !.name = n, !.end = e]
    BY <1>5, <2>0, <2>n
  <2>2. /\ span' \in Span /\ span'.name = n /\ span'.end = e
        /\ span'.start = Blank.start /\ span'.annotations = Blank.annotations
    BY <2>1, BlankIsASpan DEF Span
  <2> QED
    BY <2>1, <2>2, <2>n, BlankIsASpan
<1> HIDE DEF stored, end
<1>7. TypeOK'
  <2>1. /\ off' \in Nat /\ reach' \in Nat /\ copied' \in [stored : Nat, room : Nat]
    BY <1>1, <1>3, <1>4
  <2>2. Len(span'.annotations) <= MaxAnnotations
    BY <1>6
  <2> QED
    BY <1>1, <1>6, <2>1, <2>2 DEF WireInv, TypeOK, history
<1>8. WithinBuffers'
  BY <1>1, <1>2, <1>3, <1>4 DEF WithinBuffers
<1>9. (Places /\ Ordered)'
  <2>1. span'.start <= span'.end
    BY <1>5, <1>6 DEF Times
  <2> QED
    BY <1>1, <1>2, <2>1
       DEF WireInv, Places, Ordered, EncodePlaces, DecodePlaces, history
<1>10. Read'
  <2> SUFFICES ASSUME wire.own PROVE Read'
    BY <1>1 DEF Read
  <2>1. /\ wire.name \in 0..(NameMax - 1) /\ Counted \in Nat
        /\ marks[1] = HeaderSize + wire.name
    BY <1>2, WhileDecoding
  <2>2. stored = wire.name
    BY <1>4, <2>1
  <2>3. Len(span'.annotations) = 0 /\ off' = marks[0 + 1]
    BY <1>1, <1>6, <2>1
  <2> QED
    BY <1>1, <1>2, <1>6, <2>1, <2>2, <2>3, SMTT(30) DEF Read, end
<1>11. Again'
  BY <1>1, <1>2, AgainKept DEF WireInv, history
<1>12. QED
  BY <1>1, <1>2, <1>7, <1>8, <1>9, <1>10, <1>11 DEF WireInv

\* A decoder refuses bytes that are not ours: the size and the name that the
\* encoder wrote pass its checks.
LEMMA RefuseHeaderInv ==
  ASSUME WireInv, RefuseHeader
  PROVE  WireInv'
<1> USE Sizes
<1>1. /\ at = "header" /\ at' = "refused"
      /\ SizeAccepted => HeaderSize + wire.name > wire.size
      /\ reach' = IF SizeAccepted THEN HeaderSize ELSE 0
      /\ UNCHANGED <<hop, span, key, wire, off, marks, copied, history>>
  BY DEF RefuseHeader
<1>2. /\ at \in DecodePlaces /\ hop \in {"collect", "load"}
      /\ UNCHANGED <<Capacity, Sent, Counted>>
      /\ (Ours <=> wire.own) /\ (Ours' <=> wire.own)
      /\ MarksOf' /\ Written'
  <2>1. /\ at \in {"header", "key", "value"} /\ at' \in DecodePlaces
        /\ UNCHANGED <<hop, wire, marks, made>>
        /\ UNCHANGED <<arrived, library>>
    BY <1>1 DEF DecodePlaces, history
  <2> QED
    BY <2>1, DecodingKept
<1>3. ~wire.own
  <2> SUFFICES ASSUME wire.own PROVE FALSE
    OBVIOUS
  <2>1. /\ Counted \in Nat /\ wire.size \in Nat /\ wire.size <= Capacity
        /\ wire.name \in 0..(NameMax - 1)
        /\ marks[1] = HeaderSize + wire.name
        /\ \A k \in 1..(Counted + 1) : marks[k] <= wire.size
    BY <1>2, WhileDecoding
  <2>2. HeaderSize + wire.name <= wire.size
    BY <2>1
  <2>3. SizeAccepted
    BY <2>1, <2>2, CapacityNat DEF SizeAccepted
  <2> QED
    BY <1>1, <2>1, <2>2, <2>3
<1>4. reach' \in Nat /\ reach' <= wire.size
  BY <1>1 DEF SizeAccepted, WireInv, TypeOK, Bytes
<1>5. (TypeOK /\ WithinBuffers /\ Places /\ Ordered)'
  BY <1>1, <1>2, <1>4
     DEF WireInv, TypeOK, WithinBuffers, Places, Ordered, history,
         EncodePlaces, DecodePlaces
<1>6. Read' /\ Again'
  BY <1>1, <1>2, AgainKept DEF WireInv, Read, history
<1>7. QED
  BY <1>1, <1>2, <1>3, <1>5, <1>6 DEF WireInv

\* The length the decoder finds: of our bytes, that of the annotation.
LEMMA LengthFound ==
  ASSUME WireInv, at \in {"key", "value"}, MoreAnnotations,
         NEW field \in {"key", "value"}, NEW len \in LengthsOf(field),
         NEW i, i = Len(span.annotations),
         NEW a, a = Sent.annotations[i + 1]
  PROVE  len \in Nat /\ (wire.own => len = a[field])
<1>1. CASE wire.own
  <2>1. a \in Annotation /\ wire.fields[i + 1] = a
    BY <1>1, NextAnnotation
  <2>2. len = a[field]
    BY <1>1, <2>1 DEF LengthsOf
  <2>3. a.key \in Nat /\ a.value \in Nat
    BY <2>1, AnnotationPositive
  <2> QED
    BY <2>2, <2>3
<1>2. CASE ~wire.own
  BY <1>2, Sizes DEF LengthsOf, Lengths
<1> QED
  BY <1>1, <1>2

\* A field that is read is copied within its own field and the bytes.
LEMMA StringFieldRead ==
  ASSUME WireInv, NEW len \in Nat, NEW room \in Nat \ {0},
         ReadStringField(len, room)
  PROVE  /\ off' = off + 2 + len /\ off' \in Nat
         /\ reach' \in Nat /\ reach' <= wire.size
         /\ copied' \in [stored : Nat, room : Nat]
         /\ copied'.stored <= copied'.room
         /\ Least(len, room - 1) \in 0..(room - 1)
         /\ len <= room - 1 => Least(len, room - 1) = len
<1>1. off \in Nat /\ wire.size \in Nat
  BY DEF WireInv, TypeOK, Bytes
<1> QED
  BY <1>1 DEF ReadStringField, FieldWithin, Least

\* The key waits for its value.
LEMMA ReadKeyInv ==
  ASSUME WireInv, ReadKey
  PROVE  WireInv'
<1> USE Sizes
<1> DEFINE i == Len(span.annotations)
           a == Sent.annotations[i + 1]
<1>1. /\ at = "key" /\ MoreAnnotations /\ at' = "value"
      /\ UNCHANGED <<hop, span, wire, marks, history>>
  BY DEF ReadKey
<1>2. PICK len \in LengthsOf("key") :
          /\ ReadStringField(len, KeyMax)
          /\ key' \in Strlen(Least(len, KeyMax - 1))
  BY DEF ReadKey
<1>3. len \in Nat /\ (wire.own => len = a.key)
  BY <1>1, LengthFound
<1>4. /\ off' = off + 2 + len /\ off' \in Nat
      /\ reach' \in Nat /\ reach' <= wire.size
      /\ copied' \in [stored : Nat, room : Nat]
      /\ copied'.stored <= copied'.room
      /\ key' \in 0..(KeyMax - 1)
      /\ wire.own /\ len <= KeyMax - 1 => key' = len
  BY <1>2, <1>3, StringFieldRead, StrlenFound
<1>5. /\ at \in DecodePlaces /\ hop \in {"collect", "load"}
      /\ UNCHANGED <<Capacity, Sent, Counted>>
      /\ (Ours <=> wire.own) /\ (Ours' <=> wire.own)
      /\ MarksOf' /\ Written'
  <2>1. /\ at \in {"header", "key", "value"} /\ at' \in DecodePlaces
        /\ UNCHANGED <<hop, wire, marks, made>>
        /\ UNCHANGED <<arrived, library>>
    BY <1>1 DEF DecodePlaces, history
  <2> QED
    BY <2>1, DecodingKept
<1>6. TypeOK'
  BY <1>1, <1>4 DEF WireInv, TypeOK, history
<1>7. (WithinBuffers /\ Places /\ Ordered)'
  BY <1>1, <1>4, <1>5
     DEF WireInv, WithinBuffers, Places, Ordered, history, MoreAnnotations,
         EncodePlaces, DecodePlaces
<1>8. Read'
  <2> SUFFICES ASSUME wire.own PROVE Read'
    BY <1>1 DEF Read
  <2>1. a \in Annotation
    BY <1>1, NextAnnotation
  <2>2. key' = a.key
    <3>1. a.key \in Nat /\ a.key < KeyMax
      BY <2>1, AnnotationPositive
    <3> QED
      BY <1>3, <1>4, <3>1
  <2>3. off = marks[i + 1]
    BY <1>1 DEF WireInv, Read
  <2>4. off' = marks[i + 1] + 2 + a.key
    BY <1>3, <1>4, <2>3
  <2> QED
    BY <1>1, <1>5, <2>2, <2>4 DEF WireInv, Read
<1>9. Again'
  BY <1>1, <1>5, AgainKept DEF WireInv, history
<1>10. QED
  BY <1>1, <1>5, <1>6, <1>7, <1>8, <1>9 DEF WireInv

\* With its value it is an annotation of the span.
LEMMA ReadValueInv ==
  ASSUME WireInv, ReadValue
  PROVE  WireInv'
<1> USE Sizes
<1> DEFINE i == Len(span.annotations)
           a == Sent.annotations[i + 1]
<1>1. /\ at = "value" /\ MoreAnnotations /\ at' = "key"
      /\ UNCHANGED <<hop, key, wire, marks, history>>
  BY DEF ReadValue, WireInv, Places
<1>2. PICK len \in LengthsOf("value") :
          /\ ReadStringField(len, ValueMax)
          /\ \E value \in Strlen(Least(len, ValueMax - 1)) :
                span' = [span EXCEPT !.annotations =
                           Append(@, [key |-> key, value |-> value])]
  BY DEF ReadValue
<1>v. PICK value \in Strlen(Least(len, ValueMax - 1)) :
          span' = [span EXCEPT !.annotations =
                     Append(@, [key |-> key, value |-> value])]
  BY <1>2
<1> DEFINE b == [key |-> key, value |-> value]
<1>3. len \in Nat /\ (wire.own => len = a.value)
  BY <1>1, LengthFound
<1>4. /\ off' = off + 2 + len /\ off' \in Nat
      /\ reach' \in Nat /\ reach' <= wire.size
      /\ copied' \in [stored : Nat, room : Nat]
      /\ copied'.stored <= copied'.room
      /\ value \in 0..(ValueMax - 1)
      /\ wire.own /\ len <= ValueMax - 1 => value = len
  BY <1>2, <1>3, StringFieldRead, StrlenFound, SMTT(30)
<1>5. /\ at \in DecodePlaces /\ hop \in {"collect", "load"}
      /\ UNCHANGED <<Capacity, Sent, Counted>>
      /\ (Ours <=> wire.own) /\ (Ours' <=> wire.own)
      /\ MarksOf' /\ Written'
  <2>1. /\ at \in {"header", "key", "value"} /\ at' \in DecodePlaces
        /\ UNCHANGED <<hop, wire, marks, made>>
        /\ UNCHANGED <<arrived, library>>
    BY <1>1 DEF DecodePlaces, history
  <2> QED
    BY <2>1, DecodingKept
<1>6. b \in Annotation
  BY <1>4 DEF WireInv, TypeOK, Annotation
<1>7. /\ span \in Span /\ span' \in Span
      /\ span'.name = span.name /\ span'.start = span.start /\ span'.end = span.end
      /\ span'.annotations = Append(span.annotations, b)
      /\ Len(span'.annotations) = i + 1
  <2>1. span \in Span
    BY DEF WireInv, TypeOK
  <2>2. span' = [span EXCEPT !.annotations = Append(@, b)]
    BY <1>v
  <2> HIDE DEF b
  <2> QED
    BY <1>6, <2>1, <2>2, SpanWithAnnotation, Zenon
<1> HIDE DEF b
<1>8. /\ i \in Nat
      /\ \A k \in 1..i : span'.annotations[k] = span.annotations[k]
      /\ span'.annotations[i + 1] = b
  BY <1>6, <1>7 DEF Span
<1>n. i \in Nat
  BY <1>8
<1>9. i < MaxAnnotations
  <2>1. wire.count \in Nat
    BY DEF WireInv, TypeOK, Bytes, Lengths
  <2> QED
    BY <1>1, <1>n, <2>1 DEF MoreAnnotations, Least
<1> HIDE DEF i
<1>10. TypeOK'
  <2>1. Len(span'.annotations) <= MaxAnnotations
    BY <1>7, <1>9, <1>n
  <2> QED
    BY <1>1, <1>4, <1>7, <2>1 DEF WireInv, TypeOK, history
<1>11. (WithinBuffers /\ Places /\ Ordered)'
  BY <1>1, <1>4, <1>5, <1>7
     DEF WireInv, WithinBuffers, Places, Ordered, history,
         EncodePlaces, DecodePlaces
<1>12. Read'
  <2> SUFFICES ASSUME wire.own PROVE Read'
    BY <1>1 DEF Read
  <2>1. /\ i + 1 <= Counted /\ a \in Annotation
        /\ marks[i + 1] \in Nat /\ marks[i + 2] \in Nat
        /\ marks[i + 2] = marks[i + 1] + (4 + a.key + a.value)
    BY <1>1, NextAnnotation DEF i
  <2>2. a.key \in Nat /\ a.value \in Nat /\ a.value < ValueMax
    BY <2>1, AnnotationPositive
  <2>3. key = a.key /\ off = marks[i + 1] + 2 + a.key
    BY <1>1 DEF WireInv, Read, i
  <2>4. off' = marks[(i + 1) + 1]
    <3>1. off' = marks[i + 2]
      BY <1>3, <1>4, <2>1, <2>2, <2>3
    <3> QED
      BY <1>n, <3>1
  <2>5. b = a
    <3>1. b = [key |-> a.key, value |-> a.value]
      BY <1>3, <1>4, <2>2, <2>3 DEF b
    <3>2. a = [key |-> a.key, value |-> a.value]
      BY <2>1 DEF Annotation
    <3> QED
      BY <3>1, <3>2
  <2>6. \A k \in 1..(i + 1) : span'.annotations[k] = Sent.annotations[k]
    <3> TAKE k \in 1..(i + 1)
    <3>1. k = i + 1 \/ k \in 1..i
      BY <1>n
    <3>2. \A j \in 1..i : span.annotations[j] = Sent.annotations[j]
      BY <1>1 DEF WireInv, Read, i
    <3> QED
      BY <1>8, <2>5, <3>1, <3>2
  <2>7. /\ span.name = wire.name /\ span.start = 0
        /\ span.end = (wire.duration * Micro) % ClockModulus
    BY <1>1 DEF WireInv, Read
  <2> QED
    BY <1>1, <1>5, <1>7, <2>1, <2>4, <2>6, <2>7 DEF Read
<1>13. Again'
  BY <1>1, <1>5, AgainKept DEF WireInv, history
<1>14. QED
  BY <1>1, <1>5, <1>10, <1>11, <1>12, <1>13 DEF WireInv

\* Every field of our bytes is within them.
LEMMA RefuseFieldInv ==
  ASSUME WireInv, RefuseField
  PROVE  WireInv'
<1> USE Sizes
<1> DEFINE i == Len(span.annotations)
           a == Sent.annotations[i + 1]
<1>1. /\ at \in {"key", "value"} /\ MoreAnnotations /\ at' = "refused"
      /\ reach' = IF off + 2 <= wire.size THEN off + 2 ELSE reach
      /\ UNCHANGED <<hop, span, key, wire, off, marks, copied, history>>
  BY DEF RefuseField, WireInv, Places
<1>2. PICK len \in LengthsOf(at) : ~FieldWithin(len)
  BY DEF RefuseField
<1>3. /\ at \in DecodePlaces /\ hop \in {"collect", "load"}
      /\ UNCHANGED <<Capacity, Sent, Counted>>
      /\ (Ours <=> wire.own) /\ (Ours' <=> wire.own)
      /\ MarksOf' /\ Written'
  <2>1. /\ at \in {"header", "key", "value"} /\ at' \in DecodePlaces
        /\ UNCHANGED <<hop, wire, marks, made>>
        /\ UNCHANGED <<arrived, library>>
    BY <1>1 DEF DecodePlaces, history
  <2> QED
    BY <2>1, DecodingKept
<1>4. off \in Nat /\ wire.size \in Nat /\ reach \in Nat
  BY DEF WireInv, TypeOK, Bytes
<1>5. ~wire.own
  <2> SUFFICES ASSUME wire.own PROVE FALSE
    OBVIOUS
  <2>1. /\ a \in Annotation
        /\ marks[i + 1] \in Nat /\ marks[i + 2] \in Nat
        /\ marks[i + 2] = marks[i + 1] + (4 + a.key + a.value)
        /\ marks[i + 2] <= wire.size
    BY <1>1, NextAnnotation
  <2>2. a.key \in Nat /\ a.value \in Nat
    BY <2>1, AnnotationPositive
  <2>3. len \in Nat /\ len = a[at]
    BY <1>1, <1>2, LengthFound, ZenonT(40)
  <2>4. CASE at = "key"
    <3>1. off = marks[i + 1] /\ len = a.key
      BY <2>3, <2>4 DEF WireInv, Read
    <3> HIDE DEF i, a
    <3>2. off + 2 + len <= marks[i + 2] /\ off + 2 <= marks[i + 2]
      BY <2>1, <2>2, <3>1
    <3> QED
      BY <1>2, <1>4, <2>1, <2>3, <3>2 DEF FieldWithin
  <2>5. CASE at = "value"
    <3>1. off = marks[i + 1] + 2 + a.key /\ len = a.value
      BY <2>3, <2>5 DEF WireInv, Read
    <3> HIDE DEF i, a
    <3>2. off + 2 + len <= marks[i + 2] /\ off + 2 <= marks[i + 2]
      BY <2>1, <2>2, <3>1
    <3> QED
      BY <1>2, <1>4, <2>1, <2>3, <3>2 DEF FieldWithin
  <2> QED
    BY <1>1, <2>4, <2>5
<1>6. reach' \in Nat /\ reach' <= wire.size
  BY <1>1, <1>3, <1>4 DEF WireInv, WithinBuffers
<1>7. (TypeOK /\ WithinBuffers /\ Places /\ Ordered)'
  BY <1>1, <1>3, <1>6
     DEF WireInv, TypeOK, WithinBuffers, Places, Ordered, history,
         EncodePlaces, DecodePlaces
<1>8. Read' /\ Again'
  BY <1>1, <1>3, AgainKept DEF WireInv, Read, history
<1>9. QED
  BY <1>1, <1>3, <1>5, <1>7, <1>8 DEF WireInv

\* The decoder stops after as many annotations as the encoder counted, and
\* the positions of an accepted span of our own show that it fits a slot.
LEMMA DecodedInv ==
  ASSUME WireInv, Decoded
  PROVE  WireInv'
<1> USE Sizes
<1>1. /\ at = "key" /\ ~MoreAnnotations /\ at' = "accepted"
      /\ hop = "collect" => arrived' = span /\ library' = wire.own
      /\ hop # "collect" => UNCHANGED <<arrived, library>>
      /\ UNCHANGED <<hop, span, key, wire, off, marks, reach, copied, made>>
  BY DEF Decoded
<1>2. /\ at \in DecodePlaces /\ hop \in {"collect", "load"}
      /\ UNCHANGED <<Capacity, Sent, Counted>>
      /\ (Ours <=> wire.own) /\ (Ours' <=> wire.own)
      /\ MarksOf' /\ Written'
  <2>1. /\ at \in {"header", "key", "value"} /\ at' \in DecodePlaces
        /\ UNCHANGED <<hop, wire, marks, made>>
        /\ hop = "load" => UNCHANGED <<arrived, library>>
    BY <1>1 DEF DecodePlaces
  <2> QED
    BY <2>1, DecodingKept
<1>3. span \in Span /\ Len(span.annotations) \in Nat
      /\ Len(span.annotations) <= MaxAnnotations /\ wire.own \in BOOLEAN
  BY DEF WireInv, TypeOK, Span, Bytes
<1>4. TypeOK'
  <2>1. arrived' \in Span /\ Len(arrived'.annotations) <= MaxAnnotations
        /\ library' \in BOOLEAN
    BY <1>1, <1>3 DEF WireInv, TypeOK
  <2> QED
    BY <1>1, <2>1 DEF WireInv, TypeOK
<1>5. (WithinBuffers /\ Places /\ Ordered)'
  BY <1>1, <1>2
     DEF WireInv, WithinBuffers, Places, Ordered, EncodePlaces, DecodePlaces
<1>6. wire.own => Len(span.annotations) = Counted
  <2> SUFFICES ASSUME wire.own PROVE Len(span.annotations) = Counted
    OBVIOUS
  <2>1. Len(span.annotations) <= Counted
    BY <1>1 DEF WireInv, Read
  <2>2. /\ wire.count = Counted /\ Counted \in Nat /\ Counted <= MaxAnnotations
    BY <1>2, WhileDecoding
  <2>3. ~(Len(span.annotations) < Counted)
    BY <1>1, <2>2 DEF MoreAnnotations, Least
  <2> QED
    BY <1>3, <2>1, <2>2, <2>3
<1>7. Read'
  BY <1>1, <1>2, <1>6 DEF WireInv, Read
<1>8. Again'
  <2>1. CASE hop = "load"
    BY <1>1, <1>2, <2>1, AgainKept DEF WireInv
  <2>2. CASE hop = "collect" /\ ~wire.own
    BY <1>1, <2>2 DEF Again
  <2>3. CASE hop = "collect" /\ wire.own
    <3> DEFINE p == [k \in 1..(Counted + 1) |-> marks[k]]
    <3>1. /\ Counted \in Nat /\ Len(arrived'.annotations) = Counted
          /\ Capacity = SlotSize /\ wire.size \in Nat /\ wire.size <= Capacity
          /\ \A k \in 1..(Counted + 1) : marks[k] \in Nat /\ marks[k] <= wire.size
          /\ \A k \in 1..Counted :
                marks[k + 1] = marks[k] + AnnotationSize(Sent.annotations[k])
          /\ marks[1] = HeaderSize + wire.name
      BY <1>1, <1>2, <1>6, <2>3, WhileDecoding DEF Capacity
    <3>2. /\ span.name = wire.name
          /\ \A k \in 1..Counted : span.annotations[k] = Sent.annotations[k]
      BY <1>1, <1>6, <2>3 DEF WireInv, Read
    <3>3. p \in [1..(Counted + 1) -> 0..SlotSize]
      BY <3>1
    <3>4. /\ p[1] = HeaderSize + span.name
          /\ \A k \in 1..Counted :
                p[k + 1] = p[k] + AnnotationSize(span.annotations[k])
      BY <3>1, <3>2, SMTT(30)
    <3> HIDE DEF p
    <3>5. Fitted(arrived', p)
      BY <1>1, <2>3, <3>1, <3>3, <3>4 DEF Fitted
    <3>6. hop' = "collect"
      BY <1>1, <2>3
    <3>7. p \in [1..(Len(arrived'.annotations) + 1) -> 0..SlotSize]
      BY <3>1, <3>3
    <3> QED
      BY <3>5, <3>6, <3>7 DEF Again, Fitted
  <2> QED
    BY <1>2, <2>1, <2>2, <2>3
<1>9. QED
  BY <1>1, <1>2, <1>4, <1>5, <1>7, <1>8 DEF WireInv

\* Ids of zero are not ours.
LEMMA RefuseIdsInv ==
  ASSUME WireInv, RefuseIds
  PROVE  WireInv'
<1>1. /\ at = "key" /\ at' = "refused" /\ ~wire.ids
      /\ UNCHANGED <<hop, span, key, wire, off, marks, reach, copied, history>>
  BY DEF RefuseIds
<1>2. /\ at \in DecodePlaces /\ hop \in {"collect", "load"}
      /\ UNCHANGED <<Capacity, Sent, Counted>>
      /\ (Ours <=> wire.own) /\ (Ours' <=> wire.own)
      /\ MarksOf' /\ Written'
  <2>1. /\ at \in {"header", "key", "value"} /\ at' \in DecodePlaces
        /\ UNCHANGED <<hop, wire, marks, made>>
        /\ UNCHANGED <<arrived, library>>
    BY <1>1 DEF DecodePlaces, history
  <2> QED
    BY <2>1, DecodingKept
<1>3. ~wire.own
  BY <1>1 DEF WireInv, Places
<1>4. (TypeOK /\ WithinBuffers /\ Places /\ Ordered)'
  BY <1>1, <1>2
     DEF WireInv, TypeOK, WithinBuffers, Places, Ordered, history,
         EncodePlaces, DecodePlaces
<1>5. Read' /\ Again'
  BY <1>1, <1>2, AgainKept DEF WireInv, Read, history
<1>6. QED
  BY <1>1, <1>2, <1>3, <1>4, <1>5 DEF WireInv

-----------------------------------------------------------------------------
(* The theorems *)

\* Every step of the application, the encoder and the decoder.
LEMMA StepInv ==
  ASSUME WireInv, [Next]_vars
  PROVE  WireInv'
<1>1. CASE Build
  BY <1>1, BuildInv
<1>2. CASE Export \/ Store
  BY <1>2, EncodeInv
<1>3. CASE Serialize
  BY <1>3, CountAnnotationInv, WriteHeaderInv, WriteAnnotationInv, EncodedInv
     DEF Serialize
<1>4. CASE Receive \/ ReadBack
  BY <1>4, DecodeInv
<1>5. CASE ReceiveForeign \/ ReadDamaged
  BY <1>5, ForeignInv
<1>6. CASE Deserialize
  BY <1>6, ReadHeaderInv, RefuseHeaderInv, ReadKeyInv, ReadValueInv,
     RefuseFieldInv, DecodedInv, RefuseIdsInv
     DEF Deserialize
<1>7. CASE UNCHANGED vars
  BY <1>7 DEF WireInv, vars, history, TypeOK, WithinBuffers, Places, Ordered,
              MarksOf, Written, Read, Again, Fitted, Ours, Capacity, Sent,
              Counted, MoreAnnotations
<1> QED
  BY <1>1, <1>2, <1>3, <1>4, <1>5, <1>6, <1>7 DEF Next

\* The invariant the others rest on: encoder and decoder go through the
\* positions that serialize_annotation_count went through.
THEOREM WireInvariant == Spec => []WireInv
<1>1. Init => WireInv
  BY InitInv
<1>2. WireInv /\ [Next]_vars => WireInv'
  BY StepInv
<1> QED
  BY <1>1, <1>2, PTL DEF Spec

\* Spans keep their shape (types.h) whatever the bytes they are decoded from.
THEOREM WireTypeCorrect == Spec => []TypeOK
<1>1. WireInv => TypeOK
  BY DEF WireInv
<1> QED
  BY <1>1, WireInvariant, PTL

\* span_serialize never writes, and span_deserialize never reads or copies,
\* outside the buffers they are given.
THEOREM WireWithinBuffers == Spec => []WithinBuffers
<1>1. WireInv => WithinBuffers
  BY DEF WireInv
<1> QED
  BY <1>1, WireInvariant, PTL

\* span_deserialize never refuses what span_serialize made, and loses only
\* the annotations that serialize_annotation_count left out; what came
\* through a slot of the ring is not cut again on its way through the log.
THEOREM WireOnlyTailsLost == Spec => []OnlyTailsLost
<1>1. WireInv => OnlyTailsLost
  <2> SUFFICES ASSUME WireInv, hop \in {"collect", "load"}, wire.own
               PROVE  OnlyTailsLost
    BY DEF OnlyTailsLost
  <2>1. at # "refused"
    BY DEF WireInv, Ours, DecodePlaces
  <2> SUFFICES ASSUME at = "accepted" PROVE OnlyTailsLost
    BY <2>1 DEF OnlyTailsLost
  <2>2. at \in DecodePlaces /\ Ours /\ at # "count"
    BY DEF Ours, DecodePlaces
  <2>3. /\ span.name = wire.name /\ Len(span.annotations) = Counted
        /\ \A i \in 1..Len(span.annotations) :
              span.annotations[i] = Sent.annotations[i]
        /\ off = marks[Counted + 1]
    BY DEF WireInv, Read
  <2>4. /\ wire.name = NameLength(Sent, Capacity)
        /\ Counted < Len(Sent.annotations) =>
              marks[Len(marks)] + AnnotationSize(Sent.annotations[Counted + 1])
                > Capacity
    BY <2>2 DEF WireInv, Written
  <2>5. /\ Counted \in Nat /\ Counted <= Len(Sent.annotations)
        /\ Len(marks) = Counted + 1
        /\ marks[Counted + 1] = wire.size
        /\ marks[1] = HeaderSize + wire.name
        /\ wire.name \in Nat
    BY <2>2, Sizes, WhileDecoding
  <2>6. ASSUME hop = "load", library
        PROVE  span.name = arrived.name /\ Counted = Len(arrived.annotations)
    <3>1. PICK p : /\ Fitted(arrived, p)
                   /\ \A k \in 1..Len(marks) : marks[k] = p[k]
                   /\ Counted = Len(arrived.annotations)
      BY <2>2, <2>6 DEF WireInv, Again
    <3>2. HeaderSize + wire.name = HeaderSize + arrived.name
      BY <2>5, <3>1 DEF Fitted
    <3>3. arrived.name \in Nat
      BY Sizes DEF WireInv, TypeOK, Span
    <3> QED
      BY <2>3, <2>5, <3>1, <3>2, <3>3, Sizes
  <2> QED
    BY <2>1, <2>3, <2>4, <2>5, <2>6 DEF OnlyTailsLost
<1> QED
  BY <1>1, WireInvariant, PTL

\* The durations of the log are those of the application to the microsecond,
\* and survive the second encoding to the microsecond too.
THEOREM WireDurationKept == Spec => []DurationKept
<1>1. WireInv => DurationKept
  <2> SUFFICES ASSUME WireInv, hop \in {"collect", "load"}, wire.own,
                      at = "accepted"
               PROVE  Measured(Sent) - Measured(span) \in 0..(Micro - 1)
    BY DEF DurationKept
  <2>1. wire.duration = Duration(Sent)
    BY DEF WireInv, Written, Ours, DecodePlaces
  <2>2. /\ span.start = 0
        /\ span.end = (wire.duration * Micro) % ClockModulus
    BY DEF WireInv, Read
  <2>3. Sent \in Span /\ (Sent.end = 0 \/ Sent.start <= Sent.end)
    BY DEF WireInv, TypeOK, Ordered, Sent
  <2>4. /\ span.end \in Times
        /\ Measured(Sent) - span.end \in 0..(Micro - 1)
    BY <2>1, <2>2, <2>3, DurationRoundTrip
  <2>5. Measured(span) = span.end
    BY <2>2, <2>4 DEF Measured, Times
  <2> QED
    BY <2>4, <2>5
<1> QED
  BY <1>1, WireInvariant, PTL

\* What the decoder accepts of our bytes is the span the encoder was given,
\* up to the losses named above.
THEOREM WireArrivesAsSent == Spec => []ArrivesAsSent
<1>1. OnlyTailsLost /\ DurationKept => ArrivesAsSent
  BY DEF ArrivesAsSent
<1> QED
  BY <1>1, WireOnlyTailsLost, WireDurationKept, PTL

=============================================================================

------------------------------ MODULE SpanWire ------------------------------
(***************************************************************************)
(* A span on its way from the application to the analysis:                 *)
(*   build    span_create, span_annotate, span_finish (core/span.c)        *)
(*   export   span_serialize into a slot of the ring, sent as a datagram   *)
(*   collect  recvfrom and collector_decode_span                           *)
(*   store    span_serialize into the record of the log                    *)
(*   load     span_deserialize by the reader of the log                    *)
(* The codec of wire/serialize.c is stepped through, one action per        *)
(* iteration of its loops, because what keeps its unchecked memcpy inside  *)
(* the buffer is another loop that ran before.                             *)
(*                                                                         *)
(* A string is its length: every copy in this code takes a prefix, so what *)
(* is left of a string is told by how much is left.  A length field that   *)
(* span_serialize wrote reads as written.  The bytes of a datagram         *)
(* somebody else made, or of a damaged log, hold any lengths, and strings  *)
(* that a NUL ends early.  The ids, the start time and the sampling bit    *)
(* are copied as they are and left out, except for the collector's test    *)
(* that the ids are not zero.                                              *)
(***************************************************************************)
EXTENDS Integers, Sequences

CONSTANTS
    HeaderSize,                  \* SPAN_WIRE_HEADER_SIZE, 48
    NameMax, KeyMax, ValueMax,   \* sizes of the string fields: 128, 64, 192
    MaxAnnotations,              \* MAX_ANNOTATIONS, 16
    SlotSize,                    \* MAX_PAYLOAD_SIZE, 256 - 4
    WireMax,                     \* SPAN_WIRE_MAX_SIZE, 256
    PacketMax,                   \* COLLECTOR_UDP_MAX_PACKET, 512
    LengthModulus,               \* of a uint16_t length field
    ClockModulus,                \* of a uint64_t time
    Micro,                       \* nanoseconds in a microsecond
    Clock,                       \* (bound) readings of the monotonic clock
    ForeignDurations             \* (bound) durations other senders put

Lengths == 0..(LengthModulus - 1)
Times == 0..(ClockModulus - 1)

ASSUME WireAssumption ==
    /\ {MaxAnnotations, SlotSize, WireMax, PacketMax} \subseteq Nat
    /\ {HeaderSize, NameMax, KeyMax, ValueMax, Micro, ClockModulus} \subseteq Nat \ {0}
    /\ LengthModulus \in Nat
    /\ {NameMax, KeyMax, ValueMax} \subseteq 1..LengthModulus
    /\ MaxAnnotations < LengthModulus
    /\ HeaderSize <= SlotSize
    /\ SlotSize <= WireMax
    /\ WireMax <= PacketMax
    /\ Clock \subseteq Times \ {0}
    /\ ForeignDurations \subseteq Times

VARIABLES
    hop,       \* "build", "export", "collect", "store" or "load"
    at,        \* place in the function of this hop
    span,      \* the span in memory: written by a decoder, read by an encoder
    key,       \* the key copied into the annotation being decoded
    wire,      \* the bytes: the fields written, or found, and their number
    off,       \* *offset
    marks,     \* `start_pos` and `pos` after each pass of the counting loop
    reach,     \* end of the furthest access of this hop to its buffer
    copied,    \* bytes stored by the last string copy, and room for them
    made,      \* the span as the application exported it
    arrived,   \* the span as the collector accepted it
    library    \* it was encoded here

history == <<made, arrived, library>>
vars == <<hop, at, span, key, wire, off, marks, reach, copied, history>>

Least(x, y) == IF x <= y THEN x ELSE y
U16(x) == x % LengthModulus
Blank == [name |-> 0, annotations |-> <<>>, start |-> 0, end |-> 0]
NoBytes == [own |-> TRUE, size |-> 0, ids |-> TRUE, duration |-> 0,
            name |-> 0, count |-> 0, fields |-> <<>>]

\* The sizes of an annotation on the wire, and of the name, which the
\* encoder clamps to its field and to the room after the header.
AnnotationSize(a) == 2 + a.key + 2 + a.value
NameLength(s, size) == Least(Least(s.name, NameMax - 1), size - HeaderSize)

Duration(s) == IF s.end > s.start THEN (s.end - s.start) \div Micro ELSE 0

-----------------------------------------------------------------------------
(* The application *)

\* span_create before it is named; the log and the wire are empty.
Init ==
    /\ hop = "build" /\ at = "create"
    /\ span = Blank /\ made = Blank /\ arrived = Blank
    /\ library = FALSE
    /\ key = 0 /\ wire = NoBytes
    /\ off = 0 /\ marks = <<>> /\ reach = 0
    /\ copied = [stored |-> 0, room |-> 1]

\* What safe_strncpy leaves of a string in a field of this size.
SafeStrncpy(length, size) == Least(length, size - 1)

Create(name, start) ==
    /\ at = "create"
    /\ span' = [Blank EXCEPT !.name = SafeStrncpy(name, NameMax),
                             !.start = start]
    /\ at' = "open"
    /\ UNCHANGED <<hop, key, wire, off, marks, reach, copied, history>>

\* Mutant of Annotate: one annotation past the end of the array.
AnnotateTooMany(k, v) ==
    /\ at = "open"
    /\ span' = IF Len(span.annotations) > MaxAnnotations THEN span
               ELSE [span EXCEPT !.annotations =
                       Append(@, [key   |-> SafeStrncpy(k, KeyMax),
                                  value |-> SafeStrncpy(v, ValueMax)])]
    /\ UNCHANGED <<hop, at, key, wire, off, marks, reach, copied, history>>

\* An annotation past the last is silently ignored.
Annotate(k, v) ==
    /\ at = "open"
    /\ span' = IF Len(span.annotations) >= MaxAnnotations THEN span
               ELSE [span EXCEPT !.annotations =
                       Append(@, [key   |-> SafeStrncpy(k, KeyMax),
                                  value |-> SafeStrncpy(v, ValueMax)])]
    /\ UNCHANGED <<hop, at, key, wire, off, marks, reach, copied, history>>

\* Only the first call takes the time.
Finish(now) ==
    /\ at = "open"
    /\ now >= span.start
    /\ span' = IF span.end = 0 THEN [span EXCEPT !.end = now] ELSE span
    /\ UNCHANGED <<hop, at, key, wire, off, marks, reach, copied, history>>

-----------------------------------------------------------------------------
(* span_serialize *)

\* The size of the buffer the bytes of this hop are encoded into, and the
\* span they are an encoding of.
Capacity == IF hop \in {"export", "collect"} THEN SlotSize ELSE WireMax
Sent == IF hop \in {"export", "collect"} THEN made ELSE arrived

Counted == Len(marks) - 1

\* serialize_name_len; the counting loop starts after the name.
Encode(h, size) ==
    /\ hop' = h
    /\ at' = "count"
    /\ marks' = <<HeaderSize + NameLength(span, size)>>
    /\ off' = 0 /\ reach' = 0
    /\ wire' = NoBytes

\* ring_buffer_push of exporter_submit, into the slot after its prefix.
Export ==
    /\ at = "open"
    /\ Encode("export", SlotSize)
    /\ made' = span
    /\ UNCHANGED <<span, key, copied, arrived, library>>

\* storage_write_trace
Store ==
    /\ hop = "collect" /\ at = "accepted"
    /\ Encode("store", WireMax)
    /\ UNCHANGED <<span, key, copied, history>>

\* Mutant of Fits: the lengths of the two strings are not counted.
FitsLoosely(a) ==
    marks[Len(marks)] + Least(4, AnnotationSize(a)) <= Capacity

\* Does annotation `a` fit in the buffer, after those counted so far?
Fits(a) == marks[Len(marks)] + AnnotationSize(a) <= Capacity

\* A pass of the loop of serialize_annotation_count ...
CountAnnotation ==
    /\ at = "count"
    /\ Counted < Len(span.annotations)
    /\ Fits(span.annotations[Counted + 1])
    /\ marks' = Append(marks, marks[Len(marks)]
                                + AnnotationSize(span.annotations[Counted + 1]))
    /\ UNCHANGED <<hop, at, span, key, wire, off, reach, copied, history>>

\* ... and its end, the header and the name.
WriteHeader ==
    /\ at = "count"
    /\ Counted < Len(span.annotations)
         => ~Fits(span.annotations[Counted + 1])
    /\ wire' = [NoBytes EXCEPT !.duration = Duration(span),
                               !.name = U16(marks[1] - HeaderSize),
                               !.count = U16(Counted)]
    /\ off' = marks[1]
    /\ reach' = marks[1]
    /\ at' = "write"
    /\ UNCHANGED <<hop, span, key, marks, copied, history>>

\* A pass of the loop of serialize_annotations.  The strings are copied
\* without a check.  The checks of write_u16 are left out: they could only
\* fail past the end of the buffer, where WithinBuffers is violated anyway.
WriteAnnotation ==
    /\ at = "write"
    /\ Len(wire.fields) < Counted
    /\ LET a == span.annotations[Len(wire.fields) + 1] IN
          /\ wire' = [wire EXCEPT !.fields =
                        Append(@, [key |-> U16(a.key), value |-> U16(a.value)])]
          /\ off' = off + AnnotationSize(a)
    /\ reach' = off'
    /\ UNCHANGED <<hop, at, span, key, marks, copied, history>>

\* span_serialize returns the length.
Encoded ==
    /\ at = "write"
    /\ Len(wire.fields) = Counted
    /\ wire' = [wire EXCEPT !.size = off]
    /\ at' = "encoded"
    /\ UNCHANGED <<hop, span, key, off, marks, reach, copied, history>>

-----------------------------------------------------------------------------
(* From encoder to decoder *)

\* To decode `bytes` at a hop.
Decode(h, bytes) ==
    /\ wire' = bytes
    /\ hop' = h /\ at' = "header"
    /\ off' = 0 /\ reach' = 0
    /\ UNCHANGED <<span, key, marks, copied, history>>

\* The sink sends the slot as one datagram; recvfrom has room for it.
Receive == hop = "export" /\ at = "encoded" /\ Decode("collect", wire)

\* The reader takes the length prefix and as many bytes.
ReadBack == hop = "store" /\ at = "encoded" /\ Decode("load", wire)

\* Bytes nobody here encoded, with any header.  The lengths of the strings
\* are drawn when they are read.
ForeignBytes(sizes) ==
    [own : {FALSE}, size : sizes, ids : BOOLEAN, duration : ForeignDurations,
     name : Lengths, count : Lengths, fields : {<<>>}]

\* Another sender's datagram: recvfrom cuts it to the packet, and an empty
\* one is skipped.
ReceiveForeign ==
    at = "create" /\ \E bytes \in ForeignBytes(1..PacketMax) :
                         Decode("collect", bytes)

\* A record that was torn and written over (StorageLog).
ReadDamaged ==
    at = "create" /\ \E bytes \in ForeignBytes(0..(WireMax + 1)) :
                         Decode("load", bytes)

-----------------------------------------------------------------------------
(* span_deserialize *)

\* The checks of a size: of collector_decode_span, of the reader of the
\* log (query.c:143), and of span_deserialize itself.
SizeAccepted ==
    /\ wire.size >= HeaderSize
    /\ wire.size <= IF hop = "collect" THEN PacketMax ELSE WireMax
    /\ wire.size # 0

\* The length of a copied string, which in other bytes than ours a NUL may
\* end early.
Strlen(stored) == IF wire.own THEN {stored} ELSE 0..stored

\* The header and the name, which must end within the bytes.
ReadHeader ==
    /\ at = "header"
    /\ SizeAccepted
    /\ HeaderSize + wire.name <= wire.size
    /\ LET stored == Least(wire.name, NameMax - 1) IN
          /\ \E name \in Strlen(stored) :
                span' = [Blank EXCEPT
                           !.name = name,
                           !.end = (wire.duration * Micro) % ClockModulus]
          /\ copied' = [stored |-> stored + 1, room |-> NameMax]
          /\ reach' = HeaderSize + stored
    /\ off' = HeaderSize + wire.name
    /\ at' = "key"
    /\ UNCHANGED <<hop, key, wire, marks, history>>

RefuseHeader ==
    /\ at = "header"
    /\ SizeAccepted => HeaderSize + wire.name > wire.size
    /\ reach' = IF SizeAccepted THEN HeaderSize ELSE 0
    /\ at' = "refused"
    /\ UNCHANGED <<hop, span, key, wire, off, marks, copied, history>>

\* Mutant of MoreAnnotations: the limit is off by one.
MoreAnnotationsShort ==
    Len(span.annotations) < Least(wire.count, MaxAnnotations - 1)

\* The condition of the loop of deserialize_annotations.
MoreAnnotations == Len(span.annotations) < Least(wire.count, MaxAnnotations)

\* What read_u16 may find in the next length field.
LengthsOf(field) ==
    IF wire.own THEN {wire.fields[Len(span.annotations) + 1][field]} ELSE Lengths

\* The two checks of read_string_field.
FieldWithin(len) == off + 2 <= wire.size /\ off + 2 + len <= wire.size

\* read_string_field copies what fits, with a terminator, and skips the rest.
ReadStringField(len, room) ==
    /\ FieldWithin(len)
    /\ copied' = [stored |-> Least(len, room - 1) + 1, room |-> room]
    /\ reach' = off + 2 + Least(len, room - 1)
    /\ off' = off + 2 + len

ReadKey ==
    /\ at = "key"
    /\ MoreAnnotations
    /\ \E len \in LengthsOf("key") :
          /\ ReadStringField(len, KeyMax)
          /\ key' \in Strlen(Least(len, KeyMax - 1))
    /\ at' = "value"
    /\ UNCHANGED <<hop, span, wire, marks, history>>

ReadValue ==
    /\ at = "value"
    /\ \E len \in LengthsOf("value") :
          /\ ReadStringField(len, ValueMax)
          /\ \E value \in Strlen(Least(len, ValueMax - 1)) :
                span' = [span EXCEPT !.annotations =
                           Append(@, [key |-> key, value |-> value])]
    /\ at' = "key"
    /\ UNCHANGED <<hop, key, wire, marks, history>>

RefuseField ==
    /\ \/ at = "key" /\ MoreAnnotations
       \/ at = "value"
    /\ \E len \in LengthsOf(at) : ~FieldWithin(len)
    /\ reach' = IF off + 2 <= wire.size THEN off + 2 ELSE reach
    /\ at' = "refused"
    /\ UNCHANGED <<hop, span, key, wire, off, marks, copied, history>>

\* span_deserialize succeeds; bytes after the last annotation are ignored.
Decoded ==
    /\ at = "key"
    /\ ~MoreAnnotations
    /\ hop = "collect" => wire.ids
    /\ at' = "accepted"
    /\ IF hop = "collect" THEN arrived' = span /\ library' = wire.own
                           ELSE UNCHANGED <<arrived, library>>
    /\ UNCHANGED <<hop, span, key, wire, off, marks, reach, copied, made>>

\* collector_decode_span wants ids that are not zero.
RefuseIds ==
    /\ hop = "collect" /\ at = "key"
    /\ ~MoreAnnotations
    /\ ~wire.ids
    /\ at' = "refused"
    /\ UNCHANGED <<hop, span, key, wire, off, marks, reach, copied, history>>

-----------------------------------------------------------------------------
Build ==
    \/ \E name \in 0..NameMax, start \in Clock : Create(name, start)
    \/ \E k \in 0..KeyMax, v \in 0..ValueMax : Annotate(k, v)
    \/ \E now \in Clock : Finish(now)

Serialize == CountAnnotation \/ WriteHeader \/ WriteAnnotation \/ Encoded
Deserialize ==
    ReadHeader \/ RefuseHeader \/ ReadKey \/ ReadValue \/ RefuseField \/ Decoded
      \/ RefuseIds

Next ==
    \/ Build
    \/ Export \/ Receive \/ ReceiveForeign
    \/ Store \/ ReadBack \/ ReadDamaged
    \/ Serialize
    \/ Deserialize

Spec == Init /\ [][Next]_vars

-----------------------------------------------------------------------------
(* Properties *)

\* The strings of a span are shorter than their fields: they end in a
\* terminator.
Annotation == [key : 0..(KeyMax - 1), value : 0..(ValueMax - 1)]
Span == [name : 0..(NameMax - 1), annotations : Seq(Annotation),
         start : Times, end : Times]
Bytes == [own : BOOLEAN, size : Nat, ids : BOOLEAN, duration : Times,
          name : Lengths, count : Lengths,
          fields : Seq([key : Lengths, value : Lengths])]

\* Every span there is, made, decoded from any bytes or read back from a
\* damaged log, has no more annotations than its array holds and no string
\* without a terminator (types.h:28-65).
TypeOK ==
    /\ hop \in {"build", "export", "collect", "store", "load"}
    /\ at \in {"create", "open", "count", "write", "encoded", "header", "key",
              "value", "accepted", "refused"}
    /\ span \in Span /\ made \in Span /\ arrived \in Span
    /\ \A s \in {span, made, arrived} : Len(s.annotations) <= MaxAnnotations
    /\ key \in 0..(KeyMax - 1)
    /\ library \in BOOLEAN
    /\ wire \in Bytes
    /\ off \in Nat /\ reach \in Nat
    /\ marks \in Seq(Nat)
    /\ copied \in [stored : Nat, room : Nat]

\* No step of the codec leaves its buffers: an encoder stays inside the slot
\* or the buffer it was given (its second loop copies strings unchecked), a
\* decoder inside the bytes that came, whatever their lengths say, and a
\* copied string with its terminator inside its field.
WithinBuffers ==
    /\ hop \in {"export", "store"} => reach <= Capacity
    /\ hop \in {"collect", "load"} => reach <= wire.size
    /\ copied.stored <= copied.room

\* The one loss on the way is at the ring.  The decoder never refuses what
\* the encoder made, consumes all of it, and finds the name and the first
\* annotations; one more would not have fitted.  What came through a ring is
\* written to the log and read back without another loss.
OnlyTailsLost ==
    hop \in {"collect", "load"} /\ wire.own =>
      /\ at # "refused"
      /\ at = "accepted" =>
           LET kept == Len(span.annotations) IN
           /\ span.name = NameLength(Sent, Capacity)
           /\ kept <= Len(Sent.annotations)
           /\ \A i \in 1..kept : span.annotations[i] = Sent.annotations[i]
           /\ off = wire.size
           /\ kept < Len(Sent.annotations) =>
                off + AnnotationSize(Sent.annotations[kept + 1]) > Capacity
           /\ hop = "load" /\ library => /\ span.name = arrived.name
                                         /\ kept = Len(arrived.annotations)

\* span_duration_ns
Measured(s) == IF s.end = 0 THEN 0 ELSE s.end - s.start

\* Durations lose less than a microsecond between application and
\* collector, and less than a microsecond between collector and analysis
\* even when another sender's duration wrapped on its way to nanoseconds.
DurationKept ==
    hop \in {"collect", "load"} /\ wire.own /\ at = "accepted" =>
      Measured(Sent) - Measured(span) \in 0..(Micro - 1)

\* What arrives, at the collector and at the analysis, is the span that was
\* sent, less the tail that did not fit and less than a microsecond.
ArrivesAsSent == OnlyTailsLost /\ DurationKept

=============================================================================

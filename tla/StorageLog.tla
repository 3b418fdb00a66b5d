----------------------------- MODULE StorageLog -----------------------------
(***************************************************************************)
(* The collector's append-only trace log, byte by byte as far as the       *)
(* verdicts of its reader depend on bytes: storage.c writes it through a   *)
(* stdio stream, query.c reads it back, possibly while it is being         *)
(* written.  Collector keeps the log as a sequence of whole records; this  *)
(* module is what is underneath.                                           *)
(*                                                                         *)
(* A cell <<r, i>> is the i-th piece of the r-th record, a piece standing  *)
(* for one or more adjacent bytes that are written and read together.  A   *)
(* record is a trace id, a span count and, for every span, a length and    *)
(* the serialized span; each field is one or more cells, so that a record  *)
(* can be cut inside a field as well as between two.  The reader takes     *)
(* fields off the file by their size alone.  Cells that are a field of the *)
(* kind expected have the value that was written; any other run of cells   *)
(* is a number or a span nobody wrote, and its value is left open.         *)
(***************************************************************************)
EXTENDS Integers, Sequences

CONSTANTS
    TidCells, NumCells, LenCells, SpanCells,  \* cells of the four fields
    BufCells,      \* capacity of the stdio buffer (bound)
    MaxSpans,      \* spans in a trace (bound)
    MaxSpansRead,  \* STORAGE_MAX_SPANS_PER_TRACE, the reader's own limit
    MaxRecords,    \* calls of storage_write_trace that put something (bound)
    MaxOpens,      \* runs of the collector (bound)
    MaxPowerCuts,  \* losses of the machine (bound)
    WritesFail,    \* whether write(2) may fail
    ReadsFail,     \* whether read(2) or an allocation of the reader may fail
    LuckyNumbers,  \* whether a count or a length nobody wrote may be plausible
    Garbage        \* a value read from bytes that were not written as such

ASSUME StorageAssumption ==
    /\ {TidCells, NumCells, LenCells, SpanCells, MaxSpansRead} \subseteq Nat \ {0}
    /\ {BufCells, MaxSpans, MaxRecords, MaxOpens, MaxPowerCuts} \subseteq Nat
    /\ {WritesFail, ReadsFail, LuckyNumbers} \subseteq BOOLEAN
    /\ Garbage \notin Nat

VARIABLES
    file,       \* the cells of the file, as read(2) sees them
    onDisk,     \* how many of them no power cut can take away
    isOpen,     \* ts->fp # NULL: a collector has the log open
    opens,      \* collectors started
    cuts,       \* power cuts
    buf,        \* cells in the stdio buffer of ts->fp
    spansOf,    \* spansOf[r]: num_spans of record r
    pending,    \* records accepted since the last flush or failed call
    safe,       \* records a successful storage_flush or close covered
    rPc,        \* the field the reader takes next, or idle / stopped
    rOff,       \* its position in the file
    rTid,       \* trace_id of the record being read
    rLeft,      \* spans of it still to be read
    rLen,       \* slen
    rSpans,     \* span_ptrs
    loaded,     \* traces
    rStatus,    \* *out_status
    rFault,     \* an injected failure made the reader stop
    rBase       \* records readable when the reader opened the file

writerVars == <<file, onDisk, isOpen, opens, cuts, buf, spansOf, pending, safe>>
readerVars == <<rPc, rOff, rTid, rLeft, rLen, rSpans, loaded, rStatus, rFault,
                rBase>>
vars == <<writerVars, readerVars>>

(***************************************************************************)
(* The record format.                                                      *)
(***************************************************************************)

RecordCells(n) == TidCells + NumCells + n * (LenCells + SpanCells)

Record(r, n) == [i \in 1..RecordCells(n) |-> <<r, i>>]

\* Cells of record r before its span count, and before the length and the
\* payload of its j-th span.
NumAt == TidCells
LenAt(j) == TidCells + NumCells + (j - 1) * (LenCells + SpanCells)
SpanAt(j) == LenAt(j) + LenCells

Records == DOMAIN spansOf

\* Whether the cells w are those of record r after its first `skip`.
AreCells(w, r, skip) == w = [i \in 1..Len(w) |-> <<r, skip + i>>]

(***************************************************************************)
(* What the file holds.  A record is torn where a cell is not followed by  *)
(* the next cell of its record; the records wholly before the first tear   *)
(* are the readable ones.                                                  *)
(***************************************************************************)

IsLastCell(c) == c[2] = RecordCells(spansOf[c[1]])

TornAfter == {p \in DOMAIN file :
                /\ ~IsLastCell(file[p])
                /\ \/ p = Len(file)
                   \/ file[p + 1] # <<file[p][1], file[p][2] + 1>>}

\* Where a torn record is followed by another record.
TornInside == TornAfter \ {Len(file)}

\* No record is torn before position q.
Sound(q) == \A p \in TornAfter : q <= p

Readable == {file[p][1] : p \in {e \in DOMAIN file : Sound(e) /\ IsLastCell(file[e])}}

\* The trace the reader makes of an intact record.
Image(r) == [tid |-> r, spans |-> [j \in 1..spansOf[r] |-> <<r, j>>]]

(***************************************************************************)
(* The initial state: a file that does not exist yet reads as empty.       *)
(***************************************************************************)

Init ==
    /\ file = <<>> /\ onDisk = 0 /\ cuts = 0
    /\ isOpen = FALSE /\ opens = 0 /\ buf = <<>>
    /\ spansOf = <<>> /\ pending = {} /\ safe = {}
    /\ rPc = "idle" /\ rOff = 0 /\ rTid = Garbage /\ rLeft = 0 /\ rLen = 0
    /\ rSpans = <<>> /\ loaded = <<>> /\ rStatus = "IO_ERROR"
    /\ rFault = FALSE /\ rBase = {}

(***************************************************************************)
(* The writer: storage_open, _write_trace, _flush and _close.  A stdio     *)
(* stream that fails to write drops what it had buffered.                  *)
(***************************************************************************)

\* storage_open: append mode, whatever the end of the file looks like.
StorageOpen ==
    /\ ~isOpen /\ opens < MaxOpens
    /\ isOpen' = TRUE /\ opens' = opens + 1
    /\ UNCHANGED <<file, onDisk, cuts, buf, spansOf, pending, safe>>
    /\ UNCHANGED readerVars

\* Up to the fwrite a record is only memory of its own: a failure before it,
\* or a trace without spans, leaves no trace in the state.
StageRecord(n, out) ==
    /\ isOpen /\ Len(spansOf) < MaxRecords
    /\ spansOf' = Append(spansOf, n)
    /\ out = buf \o Record(Len(spansOf) + 1, n)

\* A full buffer goes to the file, in any number of cells that makes the
\* rest fit.
StorageWriteTrace ==
    \E n \in 1..MaxSpans : LET out == buf \o Record(Len(spansOf) + 1, n) IN
        /\ StageRecord(n, out)
        /\ \E k \in 0..Len(out) :
              /\ Len(out) - k <= BufCells
              /\ Len(out) <= BufCells => k = 0
              /\ file' = file \o SubSeq(out, 1, k)
              /\ buf' = SubSeq(out, k + 1, Len(out))
        /\ pending' = pending \union {Len(spansOf) + 1}
        /\ UNCHANGED <<onDisk, isOpen, opens, cuts, safe>>
        /\ UNCHANGED readerVars

\* written # used: part of what the buffer and the record amount to has
\* reached the file, the rest never will.
StorageWriteTraceFails ==
    \E n \in 1..MaxSpans : LET out == buf \o Record(Len(spansOf) + 1, n) IN
        /\ WritesFail /\ Len(out) > BufCells
        /\ StageRecord(n, out)
        /\ \E k \in 0..Len(out) - 1 : file' = file \o SubSeq(out, 1, k)
        /\ buf' = <<>> /\ pending' = {}
        /\ UNCHANGED <<onDisk, isOpen, opens, cuts, safe>>
        /\ UNCHANGED readerVars

\* Mutant of FlushBuffer: the result is 0 although fflush failed.
FlushBufferUnchecked ==
    \E k \in 0..Len(buf) : /\ file' = file \o SubSeq(buf, 1, k)
                           /\ safe' = safe \union pending

\* fflush: all of the buffer reaches the kernel, or part of it does.
FlushBuffer ==
    \/ /\ file' = file \o buf
       /\ safe' = safe \union pending
    \/ /\ WritesFail /\ buf # <<>>
       /\ \E k \in 0..Len(buf) - 1 : file' = file \o SubSeq(buf, 1, k)
       /\ UNCHANGED safe

StorageFlush ==
    /\ isOpen /\ pending # {}
    /\ FlushBuffer
    /\ buf' = <<>> /\ pending' = {}
    /\ UNCHANGED <<onDisk, isOpen, opens, cuts, spansOf>>
    /\ UNCHANGED readerVars

\* fclose flushes as well; storage_close does not look at what it returns.
StorageClose ==
    /\ isOpen
    /\ FlushBuffer
    /\ isOpen' = FALSE /\ buf' = <<>> /\ pending' = {}
    /\ UNCHANGED <<onDisk, opens, cuts, spansOf>>
    /\ UNCHANGED readerVars

\* The collector is killed: its buffer goes, the file stays.
Kill ==
    /\ isOpen
    /\ isOpen' = FALSE /\ buf' = <<>> /\ pending' = {}
    /\ UNCHANGED <<file, onDisk, opens, cuts, spansOf, safe>>
    /\ UNCHANGED readerVars

\* The machine stops: nothing was ever fsynced, so any part of what was
\* written since the last start may be missing from the end of the file.
PowerCut ==
    /\ cuts < MaxPowerCuts /\ cuts' = cuts + 1
    /\ onDisk' \in onDisk..Len(file) /\ file' = SubSeq(file, 1, onDisk')
    /\ isOpen' = FALSE /\ buf' = <<>> /\ pending' = {}
    /\ rPc' = "idle" /\ rOff' = 0 /\ rTid' = Garbage /\ rLeft' = 0
    /\ rLen' = 0 /\ rSpans' = <<>> /\ loaded' = <<>> /\ rStatus' = "IO_ERROR"
    /\ rFault' = FALSE /\ rBase' = {}
    /\ UNCHANGED <<opens, spansOf, safe>>

(***************************************************************************)
(* The reader: query_load_all_status and read_one_trace.  A field is read  *)
(* whole or, when the file ends before it does, not at all.                *)
(***************************************************************************)

\* Mutant of Has: a field that ends where the file ends counts as short.
HasMore(k) == Len(file) - rOff > k

Has(k) == Len(file) - rOff >= k

Window(k) == SubSeq(file, rOff + 1, rOff + k)

\* read_one_trace returns NULL and the loop ends; its spans are freed.
Stop(status) ==
    /\ rPc' = "stopped" /\ rStatus' = status
    /\ rTid' = Garbage /\ rLeft' = 0 /\ rLen' = 0 /\ rSpans' = <<>>

ReaderOpen ==
    /\ rPc = "idle" /\ opens > 0
    /\ rPc' = "tid" /\ rStatus' = "EOF" /\ rBase' = Readable
    /\ UNCHANGED <<rOff, rTid, rLeft, rLen, rSpans, loaded, rFault>>
    /\ UNCHANGED writerVars

TidsIn(w) ==
    LET owners == {r \in Records : AreCells(w, r, 0)}
    IN IF owners = {} THEN {Garbage} ELSE owners

\* A short read of the trace id is the end of the file, whether or not some
\* of its bytes were there.
ReadTraceId ==
    /\ rPc = "tid"
    /\ IF Has(TidCells)
       THEN /\ rTid' \in TidsIn(Window(TidCells))
            /\ rOff' = rOff + TidCells /\ rPc' = "num"
            /\ UNCHANGED <<rLeft, rLen, rSpans, rStatus>>
       ELSE Stop("EOF") /\ UNCHANGED rOff
    /\ UNCHANGED <<loaded, rFault, rBase>> /\ UNCHANGED writerVars

\* The numbers that cells nobody wrote as a number can be read as; 0 stands
\* for every one that is rejected.
NumberUpTo(k) == IF LuckyNumbers THEN 0..k ELSE {0}

\* Mutant of CountsIn: the loop over the spans begins at 1.
CountsLessOne(w) ==
    LET owners == {r \in Records : AreCells(w, r, NumAt)}
    IN IF owners = {} THEN NumberUpTo(MaxSpansRead)
       ELSE {IF spansOf[r] > MaxSpansRead THEN 0 ELSE spansOf[r] - 1 : r \in owners}

\* A count above the reader's limit is rejected, whoever wrote it: with
\* max_spans_per_trace = 0 the writer has no limit of its own.
CountsIn(w) ==
    LET owners == {r \in Records : AreCells(w, r, NumAt)}
    IN IF owners = {} THEN NumberUpTo(MaxSpansRead)
       ELSE {IF spansOf[r] > MaxSpansRead THEN 0 ELSE spansOf[r] : r \in owners}

ReadNumSpans ==
    /\ rPc = "num"
    /\ IF Has(NumCells)
       THEN \E n \in CountsIn(Window(NumCells)) :
               /\ rOff' = rOff + NumCells
               /\ IF n = 0
                  THEN Stop("CORRUPT")
                  ELSE /\ rLeft' = n /\ rPc' = "len"
                       /\ UNCHANGED <<rTid, rLen, rSpans, rStatus>>
       ELSE Stop("CORRUPT") /\ UNCHANGED rOff
    /\ UNCHANGED <<loaded, rFault, rBase>> /\ UNCHANGED writerVars

\* Mutant of LengthsIn: longer spans than SPAN_WIRE_MAX_SIZE are let in.
LengthsUnchecked(w) == NumberUpTo(SpanCells + 2)

\* A length read by accident may be that of a payload or not.
LengthsIn(w) ==
    IF \E r \in Records : \E j \in 1..spansOf[r] : AreCells(w, r, LenAt(j))
    THEN {SpanCells} ELSE NumberUpTo(SpanCells + 1)

ReadSpanLength ==
    /\ rPc = "len"
    /\ IF Has(LenCells)
       THEN \E k \in LengthsIn(Window(LenCells)) :
               /\ rOff' = rOff + LenCells
               /\ IF k = 0
                  THEN Stop("CORRUPT")
                  ELSE /\ rLen' = k /\ rPc' = "span"
                       /\ UNCHANGED <<rTid, rLeft, rSpans, rStatus>>
       ELSE Stop("CORRUPT") /\ UNCHANGED rOff
    /\ UNCHANGED <<loaded, rFault, rBase>> /\ UNCHANGED writerVars

\* What span_deserialize makes of the cells: a span that was written, or,
\* as it checks lengths alone, possibly a span of other bytes.  NoSpan is
\* its refusal.
NoSpan == <<0, 0>>

SpansIn(w) ==
    LET owners == {s \in Records \X (1..MaxSpans) :
                      /\ s[2] <= spansOf[s[1]] /\ Len(w) = SpanCells
                      /\ AreCells(w, s[1], SpanAt(s[2]))}
    IN IF owners = {} THEN {Garbage, NoSpan} ELSE owners

ReadSpan ==
    /\ rPc = "span"
    /\ IF Has(rLen)
       THEN \E s \in SpansIn(Window(rLen)) :
               /\ rOff' = rOff + rLen
               /\ \/ /\ s = NoSpan
                     /\ Stop("CORRUPT") /\ UNCHANGED loaded
                  \/ /\ s # NoSpan /\ rLeft > 1
                     /\ rSpans' = Append(rSpans, s) /\ rLeft' = rLeft - 1
                     /\ rPc' = "len"
                     /\ UNCHANGED <<rTid, rLen, rStatus, loaded>>
                  \/ /\ s # NoSpan /\ rLeft = 1
                     /\ loaded' = Append(loaded,
                                         [tid |-> rTid, spans |-> Append(rSpans, s)])
                     /\ rPc' = "tid" /\ rStatus' = "OK"
                     /\ rTid' = Garbage /\ rLeft' = 0 /\ rLen' = 0
                     /\ rSpans' = <<>>
       ELSE Stop("CORRUPT") /\ UNCHANGED <<rOff, loaded>>
    /\ UNCHANGED <<rFault, rBase>> /\ UNCHANGED writerVars

\* fread or an allocation fails.  Only before the first byte of a record is
\* a failing read told from a truncated record.
ReadFails ==
    /\ ReadsFail /\ rPc \in {"tid", "num", "len", "span"}
    /\ \E status \in CASE rPc = "tid" -> {"IO_ERROR"}
                       [] rPc = "len" -> {"CORRUPT"}
                       [] OTHER -> {"CORRUPT", "IO_ERROR"} : Stop(status)
    /\ rFault' = TRUE
    /\ UNCHANGED <<rOff, loaded, rBase>> /\ UNCHANGED writerVars

-----------------------------------------------------------------------------

Writer == \/ StorageOpen \/ StorageWriteTrace \/ StorageWriteTraceFails
          \/ StorageFlush \/ StorageClose \/ Kill

Reader == \/ ReaderOpen \/ ReadTraceId \/ ReadNumSpans \/ ReadSpanLength
          \/ ReadSpan \/ ReadFails

Next == Writer \/ Reader \/ PowerCut

Spec == Init /\ [][Next]_vars

(***************************************************************************)
(* Properties.                                                             *)
(***************************************************************************)

Cells == {<<r, i>> : r \in Records, i \in 1..RecordCells(MaxSpans)}

SpanValues == (Records \X (1..MaxSpans)) \union {Garbage}

Traces == [tid : Records \union {Garbage}, spans : Seq(SpanValues)]

\* Type invariant: cells of records that exist, a buffer within its bound.
TypeOK ==
    /\ file \in Seq(Cells) /\ buf \in Seq(Cells) /\ Len(buf) <= BufCells
    /\ onDisk \in 0..Len(file) /\ isOpen \in BOOLEAN
    /\ opens \in 0..MaxOpens /\ cuts \in 0..MaxPowerCuts
    /\ spansOf \in Seq(1..MaxSpans) /\ Len(spansOf) <= MaxRecords
    /\ pending \subseteq Records /\ safe \subseteq Records \ pending
    /\ rPc \in {"idle", "tid", "num", "len", "span", "stopped"}
    /\ rOff \in 0..Len(file) /\ rTid \in Records \union {Garbage}
    /\ rLeft \in 0..MaxSpansRead /\ rLen \in 0..SpanCells + 1
    /\ rSpans \in Seq(SpanValues) /\ loaded \in Seq(Traces)
    /\ rStatus \in {"OK", "EOF", "CORRUPT", "IO_ERROR"}
    /\ rFault \in BOOLEAN /\ rBase \subseteq Records

LoadedTids(n) == {loaded[i].tid : i \in 1..n}

\* The first n traces returned are intact records, each complete, in the
\* order they were written and with none left out.
InOrder(n) ==
    \A i \in 1..n : /\ loaded[i].tid \in Readable
                    /\ loaded[i] = Image(loaded[i].tid)
                    /\ {r \in Readable : r < loaded[i].tid} = LoadedTids(i - 1)

\* The traces query_load_all returns begin with the log's intact records,
\* and there are others only after all of these, where a torn record has
\* another after it.  This is with a collector that writes the file, fails
\* and is restarted meanwhile.
SoundPrefixLoaded ==
    \E n \in 0..Len(loaded) :
        /\ InOrder(n)
        /\ n < Len(loaded) => TornInside # {} /\ LoadedTids(n) = Readable

\* Whether neither record r nor a whole one before it has more spans than
\* the reader takes: at such a record it stops for good.
WithinLimit(r) == \A s \in Readable : s <= r => spansOf[s] <= MaxSpansRead

\* A reader that meets no failure of its own returns every record that was
\* whole when it opened the file, whatever follows them, up to the first one
\* that has more spans than it takes.
NothingSkipped ==
    rPc = "stopped" /\ ~rFault =>
        \A r \in rBase : WithinLimit(r) =>
            \E i \in DOMAIN loaded : loaded[i] = Image(r)

\* A record whose storage_write_trace succeeded, and that a storage_flush
\* or storage_close without failure followed, is whole in the file from then
\* on, with nothing torn before it, across kills and restarts, unless an
\* earlier record of the log is torn or the machine stopped: a reader that
\* is not stopped by its limit on spans returns it (NothingSkipped).
FlushedIsReadable ==
    cuts = 0 => \A r \in safe :
        (\A p \in TornInside : file[p][1] > r) => r \in Readable

\* What storage.c says of a torn write, that the reader detects it rather
\* than seeing a half-record that looks well-formed: every trace returned
\* is a record that was written.
NoHalfRecordLoaded ==
    \A i \in DOMAIN loaded : \E r \in Records : loaded[i] = Image(r)

=============================================================================

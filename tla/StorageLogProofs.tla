-------------------------- MODULE StorageLogProofs --------------------------
(***************************************************************************)
(* Proofs about StorageLog, for every size of the fields and of the        *)
(* buffer: what was flushed can be read back, and a reader that runs       *)
(* beside a collector that fails and is restarted returns the intact       *)
(* records in order before anything else, and all that it could.           *)
(*                                                                         *)
(* The inductive invariant, StorageInv, has a part for each side.  The     *)
(* writer's (LogInv): the file and the buffer after it hold the cells of   *)
(* the records in order, parts of them missing, and a record accepted has  *)
(* its last cell there as long as nothing failed.  The reader's            *)
(* (ReaderInv): until it comes to a tear it is in step with the file, its  *)
(* position that of the field of the record it believes to read            *)
(* (InStep); past the first tear it has loaded all that is intact before   *)
(* (Past), and whatever it takes for records after it comes after those.   *)
(*                                                                         *)
(* The writer only adds to the file (Grows) unless the machine stops, and  *)
(* so leaves a reader in step, or past the tear it passed.                 *)
(***************************************************************************)
EXTENDS StorageLog, SequenceTheorems, FiniteSetTheorems, WellFoundedInduction,
        TLAPS

-----------------------------------------------------------------------------
(* The inductive invariant. *)

\* The file, and what of the buffer will follow it.
Log == file \o buf

Before(c, d) == c[1] < d[1] \/ (c[1] = d[1] /\ c[2] < d[2])

\* The cells of w are cells of the records whose numbers of spans are n, in
\* the order they were written, and what follows the end of a record is the
\* beginning of one.
WellFormed(w, n) ==
    /\ \A p \in DOMAIN w : /\ w[p][1] \in DOMAIN n /\ w[p][2] \in Nat \ {0}
                           /\ w[p][2] <= RecordCells(n[w[p][1]])
    /\ \A p, q \in DOMAIN w : p < q => Before(w[p], w[q])
    /\ \A p \in DOMAIN w :
          (p = 1 \/ w[p - 1][2] = RecordCells(n[w[p - 1][1]])) => w[p][2] = 1

\* Record r ends in w.
EndsIn(r, w) == \E p \in DOMAIN w : w[p] = <<r, RecordCells(spansOf[r])>>

LogInv ==
    /\ WellFormed(Log, spansOf)
    /\ ~isOpen => buf = <<>> /\ pending = {}
    /\ \A r \in pending : EndsIn(r, Log)
    /\ cuts = 0 => \A r \in safe : EndsIn(r, file)

\* The records whose last cell is not after position q.
Ended(q) ==
    {file[p][1] : p \in {e \in DOMAIN file : e <= q /\ IsLastCell(file[e])}}

\* The reader has just read the field of record rTid that ends with its k-th
\* cell.
HasRead(k) == rOff \in DOMAIN file /\ rTid \in Records /\ file[rOff] = <<rTid, k>>

\* It has read the first spans of the record, and there are rLeft more.
SpansRead ==
    /\ rLeft >= 1 /\ spansOf[rTid] = Len(rSpans) + rLeft
    /\ rSpans = [j \in 1..Len(rSpans) |-> <<rTid, j>>]

\* Its position is what it believes it to be.
Position ==
    CASE rPc = "tid"  -> /\ rOff = 0 \/ (rOff \in DOMAIN file /\ IsLastCell(file[rOff]))
                         /\ rSpans = <<>>
      [] rPc = "num"  -> HasRead(NumAt) /\ rSpans = <<>>
      [] rPc = "len"  -> HasRead(LenAt(Len(rSpans) + 1)) /\ SpansRead
      [] rPc = "span" -> /\ HasRead(SpanAt(Len(rSpans) + 1)) /\ SpansRead
                         /\ rLen = SpanCells

InStep ==
    /\ Sound(rOff) /\ Position
    /\ InOrder(Len(loaded)) /\ LoadedTids(Len(loaded)) = Ended(rOff)

\* It has loaded everything before the first tear, and left that behind.
Past ==
    /\ ~Sound(rOff)
    /\ \E n \in 0..Len(loaded) : InOrder(n) /\ LoadedTids(n) = Readable

Reading == rPc \in {"tid", "num", "len", "span"}

ReaderInv ==
    /\ SoundPrefixLoaded /\ NothingSkipped
    /\ rPc = "idle" => rOff = 0 /\ rSpans = <<>> /\ loaded = <<>>
    /\ Reading => rBase \subseteq Readable /\ (InStep \/ Past)

StorageInv == TypeOK /\ LogInv /\ ReaderInv

-----------------------------------------------------------------------------
(* The record format. *)

\* The sizes are numbers.
LEMMA StorageConstants ==
  /\ TidCells \in Nat /\ TidCells >= 1 /\ NumCells \in Nat /\ NumCells >= 1
  /\ LenCells \in Nat /\ LenCells >= 1 /\ SpanCells \in Nat /\ SpanCells >= 1
  /\ BufCells \in Nat /\ MaxSpans \in Nat /\ MaxRecords \in Nat
  /\ MaxOpens \in Nat /\ MaxPowerCuts \in Nat /\ Garbage \notin Nat
  /\ MaxSpansRead \in Nat
<1>1. /\ TidCells \in Nat \ {0} /\ NumCells \in Nat \ {0}
      /\ LenCells \in Nat \ {0} /\ SpanCells \in Nat \ {0}
      /\ MaxSpansRead \in Nat \ {0}
  BY StorageAssumption
<1>2. /\ BufCells \in Nat /\ MaxSpans \in Nat /\ MaxRecords \in Nat
      /\ MaxOpens \in Nat /\ MaxPowerCuts \in Nat
  BY StorageAssumption
<1> QED
  BY <1>1, <1>2, StorageAssumption

\* Multiples of a positive number are at least that number apart.
LEMMA MultiplesApart ==
  ASSUME NEW c \in Nat, NEW a \in Nat, NEW b \in Nat, a < b
  PROVE  a * c \in Nat /\ b * c \in Nat /\ a * c + c <= b * c
<1> DEFINE d == b - a - 1
<1>1. d \in Nat /\ b = a + 1 + d
  OBVIOUS
<1>2. d * c \in Nat /\ a * c \in Nat
  BY <1>1
<1>3. b * c = a * c + c + d * c
  BY <1>1
<1>4. b * c \in Nat
  OBVIOUS
<1> HIDE DEF d
<1> QED
  BY <1>2, <1>3, <1>4

\* The fields of a record follow each other.
LEMMA Fields ==
  /\ NumAt = TidCells /\ NumAt + NumCells = LenAt(1)
  /\ \A j \in Nat \ {0} : /\ LenAt(j) \in Nat /\ SpanAt(j) \in Nat
                          /\ LenAt(j) + LenCells = SpanAt(j)
                          /\ SpanAt(j) + SpanCells = LenAt(j + 1)
                          /\ NumAt + NumCells <= LenAt(j)
  /\ \A n \in Nat : RecordCells(n) \in Nat /\ RecordCells(n) = LenAt(n + 1)
  /\ \A j, k \in Nat \ {0} : j < k => LenAt(j + 1) <= LenAt(k)
<1> DEFINE c == LenCells + SpanCells
<1>c. c \in Nat /\ c >= 1
  BY StorageConstants
<1>1. LenAt(1) = TidCells + NumCells
  <2>1. (1 - 1) * c = 0
    BY <1>c
  <2> QED
    BY <2>1, StorageConstants DEF LenAt
<1>2. ASSUME NEW j \in Nat \ {0}
      PROVE  /\ (j - 1) * c \in Nat
             /\ LenAt(j) = TidCells + NumCells + (j - 1) * c
             /\ LenAt(j + 1) = TidCells + NumCells + (j - 1) * c + c
  <2>1. j - 1 \in Nat /\ j - 1 < j /\ j \in Nat
    OBVIOUS
  <2>2. (j - 1) * c \in Nat
    BY <1>c, <2>1
  <2>3. j * c = (j - 1) * c + c
    BY <1>c, <2>1
  <2>4. LenAt(j + 1) = TidCells + NumCells + j * c
    <3>1. j + 1 - 1 = j
      BY <2>1
    <3> QED
      BY <3>1 DEF LenAt
  <2>5. LenAt(j) = TidCells + NumCells + (j - 1) * c
    BY DEF LenAt
  <2> HIDE DEF c
  <2> QED
    BY <1>c, <2>2, <2>3, <2>4, <2>5, StorageConstants
<1>3. ASSUME NEW n \in Nat PROVE RecordCells(n) = LenAt(n + 1)
  <2>1. n + 1 - 1 = n
    OBVIOUS
  <2> QED
    BY <2>1 DEF RecordCells, LenAt
<1>4. ASSUME NEW j \in Nat \ {0}, NEW k \in Nat \ {0}, j < k
      PROVE  LenAt(j + 1) <= LenAt(k)
  <2>1. (j - 1) * c + c <= (k - 1) * c
    <3>1. j - 1 \in Nat /\ k - 1 \in Nat /\ j - 1 < k - 1
      BY <1>4
    <3> HIDE DEF c
    <3> QED
      BY <1>c, <3>1, MultiplesApart
  <2> DEFINE x == (j - 1) * c
             y == (k - 1) * c
  <2>2. /\ x \in Nat /\ y \in Nat /\ x + c <= y
        /\ LenAt(j + 1) = TidCells + NumCells + x + c
        /\ LenAt(k) = TidCells + NumCells + y
    BY <1>2, <2>1
  <2> HIDE DEF c, x, y
  <2> QED
    BY <1>c, <2>2, StorageConstants
<1>5. ASSUME NEW j \in Nat \ {0}
      PROVE  LenAt(j) + LenCells = SpanAt(j) /\ SpanAt(j) + SpanCells = LenAt(j + 1)
  <2>1. SpanAt(j) = LenAt(j) + LenCells
    BY DEF SpanAt
  <2>2. LenAt(j) \in Nat /\ LenAt(j + 1) = LenAt(j) + LenCells + SpanCells
    <3>1. (j - 1) * c \in Nat
      BY <1>2
    <3>2. LenAt(j + 1) = LenAt(j) + c
      <4> DEFINE x == (j - 1) * c
      <4>1. /\ x \in Nat /\ LenAt(j) = TidCells + NumCells + x
            /\ LenAt(j + 1) = TidCells + NumCells + x + c
        BY <1>2
      <4> HIDE DEF c, x
      <4> QED
        BY <1>c, <4>1, StorageConstants
    <3>3. LenAt(j) \in Nat
      <4> DEFINE x == (j - 1) * c
      <4>1. x \in Nat /\ LenAt(j) = TidCells + NumCells + x
        BY <1>2
      <4> HIDE DEF c, x
      <4> QED
        BY <1>c, <4>1, StorageConstants
    <3> QED
      BY <3>2, <3>3, StorageConstants
  <2> QED
    BY <2>1, <2>2, StorageConstants
<1>6. ASSUME NEW j \in Nat \ {0}
      PROVE  /\ LenAt(j) \in Nat /\ SpanAt(j) \in Nat
             /\ TidCells + NumCells <= LenAt(j)
  <2>1. LenAt(j) \in Nat /\ TidCells + NumCells <= LenAt(j)
    <3> DEFINE x == (j - 1) * c
    <3>1. x \in Nat /\ LenAt(j) = TidCells + NumCells + x
      BY <1>2
    <3> HIDE DEF c, x
    <3> QED
      BY <1>c, <3>1, StorageConstants
  <2> QED
    BY <1>5, <2>1, StorageConstants
<1> QED
  BY <1>1, <1>3, <1>4, <1>5, <1>6 DEF NumAt

\* The spans of a record end within it, and a longer record is longer.
LEMMA RecordFields ==
  ASSUME NEW n \in Nat, NEW j \in 1..n
  PROVE  /\ RecordCells(n) \in Nat /\ NumAt + NumCells < RecordCells(n)
         /\ LenAt(j) \in Nat /\ SpanAt(j) \in Nat
         /\ LenAt(j) + LenCells = SpanAt(j)
         /\ SpanAt(j) + SpanCells = LenAt(j + 1)
         /\ LenAt(j + 1) <= RecordCells(n)
         /\ LenAt(j + 1) = RecordCells(n) <=> j = n
         /\ \A k \in 1..n : SpanAt(j) = SpanAt(k) => j = k
         /\ RecordCells(j) <= RecordCells(n)
<1>1. j \in Nat \ {0} /\ n + 1 \in Nat \ {0} /\ j < n + 1 /\ j + 1 \in Nat \ {0}
  OBVIOUS
<1>2. /\ RecordCells(n) \in Nat /\ RecordCells(n) = LenAt(n + 1)
      /\ RecordCells(j) = LenAt(j + 1)
  BY <1>1, Fields
<1>3. /\ LenAt(j) \in Nat /\ SpanAt(j) \in Nat /\ LenAt(j + 1) \in Nat
      /\ LenAt(j) + LenCells = SpanAt(j) /\ SpanAt(j) + SpanCells = LenAt(j + 1)
      /\ NumAt + NumCells <= LenAt(j)
  BY <1>1, Fields
<1>4. LenAt(j + 1) <= LenAt(n + 1)
  BY <1>1, Fields
<1>5. ASSUME j # n PROVE LenAt(j + 1) < LenAt(n + 1)
  <2>1. j + 1 < n + 1
    BY <1>5
  <2>2. LenAt(j + 1 + 1) <= LenAt(n + 1)
    BY <1>1, <2>1, Fields
  <2>3. /\ LenAt(j + 1) + LenCells = SpanAt(j + 1)
        /\ SpanAt(j + 1) + SpanCells = LenAt(j + 1 + 1)
        /\ LenAt(j + 1) \in Nat /\ SpanAt(j + 1) \in Nat
    BY <1>1, Fields
  <2>4. LenAt(n + 1) \in Nat
    BY <1>1, Fields
  <2> QED
    BY <2>2, <2>3, <2>4, StorageConstants
<1>6. ASSUME NEW k \in 1..n, NEW i \in 1..n, i < k PROVE SpanAt(i) < SpanAt(k)
  <2>1. i \in Nat \ {0} /\ k \in Nat \ {0}
    OBVIOUS
  <2>2. LenAt(i + 1) <= LenAt(k)
    BY <1>6, <2>1, Fields
  <2>3. /\ SpanAt(i) + SpanCells = LenAt(i + 1) /\ LenAt(k) + LenCells = SpanAt(k)
        /\ SpanAt(i) \in Nat /\ LenAt(k) \in Nat
    BY <2>1, Fields
  <2> QED
    BY <2>2, <2>3, StorageConstants
<1>7. ASSUME NEW k \in 1..n, SpanAt(j) = SpanAt(k) PROVE j = k
  <2>1. SpanAt(k) \in Nat
    BY Fields
  <2>2. ~(j < k) /\ ~(k < j)
    BY <1>3, <1>6, <1>7, <2>1
  <2> QED
    BY <2>2
<1>8. NumAt + NumCells < RecordCells(n)
  BY <1>2, <1>3, <1>4, StorageConstants, Fields
<1> QED
  BY <1>2, <1>3, <1>4, <1>5, <1>7, <1>8

-----------------------------------------------------------------------------
(* Sequences of cells. *)

\* A set of numbers has a least element.
LEMMA LeastElement ==
  ASSUME NEW S, S \subseteq Nat, S # {}
  PROVE  \E m \in S : \A k \in S : m <= k
<1> DEFINE R == StrictSubsetOrdering(Nat)
           T == {1..k : k \in S}
<1>1. IsWellFoundedOn(R, FiniteSubsetsOf(Nat))
  BY FS_StrictSubsetOrderingWellFounded
<1>2. T \subseteq FiniteSubsetsOf(Nat) /\ T # {}
  <2>1. ASSUME NEW k \in S PROVE 1..k \in FiniteSubsetsOf(Nat)
    <3>1. IsFiniteSet(1..k) /\ 1..k \subseteq Nat
      BY FS_Interval
    <3> QED
      BY <3>1 DEF FiniteSubsetsOf
  <2> QED
    BY <2>1
<1>3. PICK x \in T : \A y \in T : ~(<<y, x>> \in R)
  <2> HIDE DEF R, T
  <2> QED
    BY <1>1, <1>2, WFMin
<1>4. PICK m \in S : x = 1..m
  OBVIOUS
<1>5. ASSUME NEW k \in S, k < m PROVE FALSE
  <2>1. 1..k \in SUBSET Nat /\ 1..m \in SUBSET Nat
    OBVIOUS
  <2>2. 1..k \subseteq 1..m /\ m \in 1..m /\ m \notin 1..k
    BY <1>5
  <2>3. <<1..k, 1..m>> \in R
    BY <2>1, <2>2 DEF StrictSubsetOrdering
  <2> QED
    BY <1>3, <1>4, <2>3
<1> QED
  BY <1>5

Pairs == Nat \X Nat

CellsOf(n) == {<<r, i>> : r \in DOMAIN n, i \in 1..RecordCells(MaxSpans)}

\* A prefix of a well-formed log is one, whatever records come later.
LEMMA PrefixWellFormed ==
  ASSUME NEW w \in Seq(Pairs), NEW v \in Seq(Pairs), NEW n, NEW m,
         Len(v) <= Len(w), \A p \in 1..Len(v) : v[p] = w[p],
         DOMAIN n \subseteq DOMAIN m, \A r \in DOMAIN n : m[r] = n[r],
         WellFormed(w, n)
  PROVE  WellFormed(v, m)
<1>1. /\ Len(v) \in Nat /\ DOMAIN v = 1..Len(v)
      /\ Len(w) \in Nat /\ DOMAIN w = 1..Len(w)
  BY LenProperties
<1>2. \A p \in DOMAIN v : p \in DOMAIN w /\ v[p] = w[p]
  BY <1>1
<1>3. ASSUME NEW p \in DOMAIN v
      PROVE  /\ v[p][1] \in DOMAIN m /\ v[p][2] \in Nat \ {0}
             /\ v[p][2] <= RecordCells(m[v[p][1]])
  BY <1>2 DEF WellFormed
<1>4. ASSUME NEW p \in DOMAIN v, NEW q \in DOMAIN v, p < q
      PROVE  Before(v[p], v[q])
  BY <1>2, <1>4 DEF WellFormed
<1>5. ASSUME NEW p \in DOMAIN v,
             p = 1 \/ v[p - 1][2] = RecordCells(m[v[p - 1][1]])
      PROVE  v[p][2] = 1
  <2>1. CASE p = 1
    BY <1>2, <2>1 DEF WellFormed
  <2>2. CASE p # 1
    <3>1. p - 1 \in DOMAIN v
      BY <1>1, <2>2
    <3>2. v[p - 1] = w[p - 1] /\ w[p - 1][1] \in DOMAIN n
      BY <1>2, <3>1 DEF WellFormed
    <3>3. w[p - 1][2] = RecordCells(n[w[p - 1][1]])
      BY <1>5, <2>2, <3>2
    <3> QED
      BY <1>2, <3>3 DEF WellFormed
  <2> QED
    BY <2>1, <2>2
<1> QED
  BY <1>3, <1>4, <1>5 DEF WellFormed

\* A record's cells.
LEMMA RecordIsASeq ==
  ASSUME NEW r \in Nat, NEW n \in Nat
  PROVE  /\ Record(r, n) \in Seq(Pairs) /\ Len(Record(r, n)) = RecordCells(n)
         /\ RecordCells(n) \in Nat
         /\ \A i \in 1..RecordCells(n) : Record(r, n)[i] = <<r, i>>
<1>1. RecordCells(n) \in Nat
  BY Fields
<1>2. Record(r, n) \in [1..RecordCells(n) -> Pairs]
  BY <1>1 DEF Record, Pairs
<1>3. Record(r, n) \in Seq(Pairs)
  BY <1>1, <1>2, SeqDef
<1>4. Len(Record(r, n)) = RecordCells(n)
  <2>1. DOMAIN Record(r, n) = 1..RecordCells(n)
    BY <1>2
  <2>2. DOMAIN Record(r, n) = 1..Len(Record(r, n)) /\ Len(Record(r, n)) \in Nat
    BY <1>3, LenProperties
  <2> QED
    BY <1>1, <2>1, <2>2
<1> QED
  BY <1>1, <1>3, <1>4 DEF Record

\* A further record leaves a well-formed log so.
LEMMA RecordAppended ==
  ASSUME NEW w \in Seq(Pairs), NEW n \in Seq(Nat), NEW k \in Nat \ {0},
         WellFormed(w, n)
  PROVE  WellFormed(w \o Record(Len(n) + 1, k), Append(n, k))
<1> DEFINE r == Len(n) + 1
           c == RecordCells(k)
           v == w \o Record(r, k)
           m == Append(n, k)
<1>1. r \in Nat /\ Len(n) \in Nat /\ DOMAIN n = 1..Len(n)
  BY LenProperties
<1>2. /\ Record(r, k) \in Seq(Pairs) /\ Len(Record(r, k)) = c /\ c \in Nat
      /\ \A i \in 1..c : Record(r, k)[i] = <<r, i>>
  BY <1>1, RecordIsASeq
<1>3. Len(w) \in Nat /\ DOMAIN w = 1..Len(w)
  BY LenProperties
<1>4. /\ DOMAIN v = 1..Len(w) + c
      /\ \A p \in 1..Len(w) : v[p] = w[p]
      /\ \A i \in 1..c : v[Len(w) + i] = <<r, i>>
  <2>1. /\ v \in Seq(Pairs) /\ Len(v) = Len(w) + c
        /\ \A p \in 1..Len(w) + c :
              v[p] = IF p <= Len(w) THEN w[p] ELSE Record(r, k)[p - Len(w)]
    BY <1>2, ConcatProperties
  <2>2. DOMAIN v = 1..Len(v)
    BY <2>1, LenProperties
  <2> HIDE DEF v, c, r
  <2>3. ASSUME NEW p \in 1..Len(w) PROVE v[p] = w[p]
    <3>1. p \in 1..Len(w) + c /\ p <= Len(w)
      BY <1>2, <1>3
    <3>2. \A q \in 1..Len(w) + c : q <= Len(w) => v[q] = w[q]
      BY <2>1
    <3> QED
      BY <3>1, <3>2
  <2>4. ASSUME NEW i \in 1..c PROVE v[Len(w) + i] = <<r, i>>
    <3>1. /\ Len(w) + i \in 1..Len(w) + c /\ ~(Len(w) + i <= Len(w))
          /\ Len(w) + i - Len(w) = i
      BY <1>2, <1>3
    <3>2. \A q \in 1..Len(w) + c : ~(q <= Len(w)) => v[q] = Record(r, k)[q - Len(w)]
      BY <2>1
    <3>3. v[Len(w) + i] = Record(r, k)[i]
      BY <3>1, <3>2
    <3> QED
      BY <1>2, <3>3
  <2> QED
    BY <2>1, <2>2, <2>3, <2>4
<1>5. /\ DOMAIN m = 1..r /\ m[r] = k
      /\ \A s \in 1..Len(n) : m[s] = n[s]
  <2>1. m \in Seq(Nat) /\ Len(m) = r /\ m[r] = k /\ \A s \in 1..Len(n) : m[s] = n[s]
    BY AppendProperties
  <2> QED
    BY <2>1, LenProperties
<1>6. /\ \A p \in 1..Len(w) : /\ w[p][1] \in 1..Len(n) /\ w[p][2] \in Nat \ {0}
                              /\ w[p][2] <= RecordCells(n[w[p][1]])
      /\ \A p, q \in 1..Len(w) : p < q => Before(w[p], w[q])
      /\ \A p \in 1..Len(w) :
            (p = 1 \/ w[p - 1][2] = RecordCells(n[w[p - 1][1]])) => w[p][2] = 1
  BY <1>1, <1>3 DEF WellFormed
<1>c. c = RecordCells(k)
  OBVIOUS
<1> HIDE DEF r, c, v, m
<1>r. r = Len(n) + 1
  BY DEF r
<1>7. \A p \in DOMAIN v : \/ p \in 1..Len(w) /\ v[p] = w[p]
                          \/ /\ p > Len(w) /\ p - Len(w) \in 1..c
                             /\ v[p] = <<r, p - Len(w)>>
  <2> TAKE p \in DOMAIN v
  <2>1. CASE p <= Len(w)
    BY <1>2, <1>3, <1>4, <2>1
  <2>2. CASE p > Len(w)
    <3>1. p - Len(w) \in 1..c /\ p = Len(w) + (p - Len(w))
      BY <1>2, <1>3, <1>4, <2>2
    <3>2. v[Len(w) + (p - Len(w))] = <<r, p - Len(w)>>
      BY <1>4, <3>1
    <3> QED
      BY <2>2, <3>1, <3>2
  <2> QED
    BY <1>2, <1>3, <1>4, <2>1, <2>2
<1>8. ASSUME NEW p \in DOMAIN v
      PROVE  /\ v[p][1] \in DOMAIN m /\ v[p][2] \in Nat \ {0}
             /\ v[p][2] <= RecordCells(m[v[p][1]])
  <2>1. CASE p \in 1..Len(w) /\ v[p] = w[p]
    BY <1>1, <1>5, <1>6, <1>r, <2>1
  <2>2. CASE p - Len(w) \in 1..c /\ v[p] = <<r, p - Len(w)>>
    BY <1>1, <1>2, <1>5, <1>c, <1>r, <2>2
  <2> QED
    BY <1>7, <2>1, <2>2
<1>9. ASSUME NEW p \in DOMAIN v, NEW q \in DOMAIN v, p < q
      PROVE  Before(v[p], v[q])
  <2>1. CASE p \in 1..Len(w) /\ v[p] = w[p] /\ q \in 1..Len(w) /\ v[q] = w[q]
    BY <1>6, <1>9, <2>1
  <2>2. CASE p \in 1..Len(w) /\ v[p] = w[p] /\ v[q] = <<r, q - Len(w)>>
    BY <1>1, <1>6, <1>r, <2>2 DEF Before
  <2>3. CASE p > Len(w) /\ v[p] = <<r, p - Len(w)>> /\ v[q] = <<r, q - Len(w)>>
    BY <1>2, <1>3, <1>4, <1>9, <2>3 DEF Before
  <2>4. ~(p > Len(w) /\ q \in 1..Len(w))
    BY <1>2, <1>3, <1>4, <1>9
  <2> QED
    BY <1>7, <2>1, <2>2, <2>3, <2>4
<1>10. ASSUME NEW p \in DOMAIN v,
              p = 1 \/ v[p - 1][2] = RecordCells(m[v[p - 1][1]])
       PROVE  v[p][2] = 1
  <2>1. CASE p \in 1..Len(w) /\ v[p] = w[p]
    <3>1. CASE p = 1
      BY <1>6, <2>1, <3>1
    <3>2. CASE p # 1
      <4>1. p - 1 \in 1..Len(w)
        BY <1>3, <2>1, <3>2
      <4>2. v[p - 1] = w[p - 1] /\ w[p - 1][1] \in 1..Len(n)
        BY <1>4, <1>6, <4>1
      <4>3. w[p - 1][2] = RecordCells(n[w[p - 1][1]])
        BY <1>10, <1>5, <3>2, <4>2
      <4> QED
        BY <1>6, <2>1, <4>3
    <3> QED
      BY <3>1, <3>2
  <2>2. CASE p > Len(w) /\ p - Len(w) \in 1..c /\ v[p] = <<r, p - Len(w)>>
    <3>1. CASE p = Len(w) + 1
      BY <1>3, <2>2, <3>1
    <3>2. CASE p # Len(w) + 1
      <4>1. p - 1 > Len(w) /\ p - 1 \in DOMAIN v /\ p - 1 \notin 1..Len(w)
        BY <1>2, <1>3, <1>4, <1>10, <2>2, <3>2
      <4>2. v[p - 1] = <<r, p - 1 - Len(w)>>
        BY <1>7, <4>1
      <4>3. p - 1 - Len(w) = c
        <5>1. p # 1
          BY <1>3, <2>2, <3>2
        <5>2. v[p - 1][2] = RecordCells(m[v[p - 1][1]])
          BY <1>10, <5>1
        <5> QED
          BY <1>5, <1>c, <4>2, <5>2
      <4> QED
        BY <1>2, <1>3, <1>4, <1>10, <4>3
    <3> QED
      BY <3>1, <3>2
  <2> QED
    BY <1>7, <2>1, <2>2
<1>11. WellFormed(v, m)
  BY <1>8, <1>9, <1>10 DEF WellFormed
<1> QED
  BY <1>11 DEF v, m, r

\* The cells of a well-formed log are cells of its records.
LEMMA PartsAreCells ==
  ASSUME NEW f \in Seq(Pairs), NEW b \in Seq(Pairs), NEW n \in Seq(1..MaxSpans),
         WellFormed(f \o b, n)
  PROVE  /\ f \in Seq(CellsOf(n)) /\ b \in Seq(CellsOf(n))
         /\ WellFormed(f, n)
<1>1. /\ f \o b \in Seq(Pairs) /\ Len(f \o b) = Len(f) + Len(b)
      /\ \A i \in 1..Len(f) + Len(b) :
            (f \o b)[i] = IF i <= Len(f) THEN f[i] ELSE b[i - Len(f)]
  BY ConcatProperties
<1>2. /\ Len(f) \in Nat /\ f \in [1..Len(f) -> Pairs]
      /\ Len(b) \in Nat /\ b \in [1..Len(b) -> Pairs]
      /\ DOMAIN (f \o b) = 1..Len(f \o b)
  BY <1>1, LenProperties
<1>3. /\ \A i \in 1..Len(f) : (f \o b)[i] = f[i]
      /\ \A i \in 1..Len(b) : (f \o b)[Len(f) + i] = b[i]
  BY <1>1, <1>2
<1>4. ASSUME NEW p \in DOMAIN (f \o b) PROVE (f \o b)[p] \in CellsOf(n)
  <2>0. PICK c \in Pairs : c = (f \o b)[p]
    BY <1>1, <1>2, ElementOfSeq
  <2>1. c = <<c[1], c[2]>>
    BY DEF Pairs
  <2>2. c[1] \in DOMAIN n /\ c[2] \in Nat \ {0} /\ c[2] <= RecordCells(n[c[1]])
    BY <2>0 DEF WellFormed
  <2>3. n[c[1]] \in 1..MaxSpans
    <3>1. PICK r \in DOMAIN n : r = c[1]
      BY <2>2
    <3>2. DOMAIN n = 1..Len(n)
      BY LenProperties
    <3>3. n[r] \in 1..MaxSpans
      BY <3>2, ElementOfSeq
    <3> QED
      BY <3>1, <3>3
  <2>4. RecordCells(n[c[1]]) <= RecordCells(MaxSpans) /\ RecordCells(MaxSpans) \in Nat
        /\ RecordCells(n[c[1]]) \in Nat
    <3>1. n[c[1]] \in Nat \ {0} /\ MaxSpans \in Nat /\ n[c[1]] <= MaxSpans
      BY <2>3, StorageConstants
    <3> DEFINE x == n[c[1]]
    <3>2. x \in 1..MaxSpans
      BY <2>3
    <3> HIDE DEF x
    <3>3. RecordCells(x) <= RecordCells(MaxSpans) /\ RecordCells(MaxSpans) \in Nat
      BY <3>1, <3>2, RecordFields
    <3>4. x \in Nat
      BY <3>2
    <3> QED
      BY <3>3, <3>4, Fields DEF x
  <2>5. c[2] \in 1..RecordCells(MaxSpans)
    BY <2>2, <2>4
  <2>6. PICK r \in DOMAIN n, i \in 1..RecordCells(MaxSpans) : c = <<r, i>>
    BY <2>1, <2>2, <2>5
  <2> QED
    BY <2>0, <2>6 DEF CellsOf
<1>5. f \in [1..Len(f) -> CellsOf(n)] /\ b \in [1..Len(b) -> CellsOf(n)]
  <2>1. ASSUME NEW i \in 1..Len(f) PROVE f[i] \in CellsOf(n)
    BY <1>1, <1>2, <1>3, <1>4
  <2>2. ASSUME NEW i \in 1..Len(b) PROVE b[i] \in CellsOf(n)
    <3>1. Len(f) + i \in 1..Len(f) + Len(b)
      BY <1>2
    <3> QED
      BY <1>1, <1>2, <1>3, <1>4, <3>1
  <2> QED
    BY <1>2, <2>1, <2>2
<1>6. f \in Seq(CellsOf(n)) /\ b \in Seq(CellsOf(n))
  BY <1>2, <1>5, SeqDef
<1>7. WellFormed(f, n)
  <2>1. Len(f) <= Len(f \o b)
    BY <1>1, <1>2
  <2> DEFINE w == f \o b
  <2>2. /\ w \in Seq(Pairs) /\ Len(f) <= Len(w) /\ WellFormed(w, n)
        /\ \A i \in 1..Len(f) : f[i] = w[i]
    BY <1>1, <1>3, <2>1
  <2> HIDE DEF w
  <2> QED
    BY <2>2, PrefixWellFormed
<1> QED
  BY <1>6, <1>7

-----------------------------------------------------------------------------
(* The writer. *)

WriterTypes ==
    /\ file \in Seq(Cells) /\ buf \in Seq(Cells) /\ Len(buf) <= BufCells
    /\ onDisk \in 0..Len(file) /\ isOpen \in BOOLEAN
    /\ opens \in 0..MaxOpens /\ cuts \in 0..MaxPowerCuts
    /\ spansOf \in Seq(1..MaxSpans) /\ Len(spansOf) <= MaxRecords
    /\ pending \subseteq Records /\ safe \subseteq Records \ pending

ReaderTypes ==
    /\ rPc \in {"idle", "tid", "num", "len", "span", "stopped"}
    /\ rOff \in 0..Len(file) /\ rTid \in Records \union {Garbage}
    /\ rLeft \in 0..MaxSpansRead /\ rLen \in 0..SpanCells + 1
    /\ rSpans \in Seq(SpanValues) /\ loaded \in Seq(Traces)
    /\ rStatus \in {"OK", "EOF", "CORRUPT", "IO_ERROR"}
    /\ rFault \in BOOLEAN /\ rBase \subseteq Records

\* The file and the records only become more.
Grows ==
    /\ Len(file) <= Len(file') /\ \A p \in 1..Len(file) : file'[p] = file[p]
    /\ Records \subseteq Records' /\ \A r \in Records : spansOf'[r] = spansOf[r]

\* What the type invariant says of the file, the buffer and the records.
LEMMA Types ==
  ASSUME TypeOK
  PROVE  /\ file \in Seq(Pairs) /\ Len(file) \in Nat /\ DOMAIN file = 1..Len(file)
         /\ buf \in Seq(Pairs) /\ Len(buf) \in Nat /\ Len(buf) <= BufCells
         /\ spansOf \in Seq(1..MaxSpans) /\ spansOf \in Seq(Nat)
         /\ Len(spansOf) \in Nat /\ Records = 1..Len(spansOf)
         /\ \A r \in Records : spansOf[r] \in 1..MaxSpans
<1>1. Records \subseteq Nat /\ spansOf \in Seq(1..MaxSpans) /\ Records = 1..Len(spansOf)
      /\ Len(spansOf) \in Nat
  BY LenProperties DEF TypeOK, Records
<1>2. Cells \subseteq Pairs
  BY <1>1 DEF Cells, Pairs
<1>3. file \in Seq(Cells) /\ buf \in Seq(Cells) /\ Len(buf) <= BufCells
  BY DEF TypeOK
<1>4. file \in Seq(Pairs) /\ buf \in Seq(Pairs)
  BY <1>2, <1>3, SeqMonotonic
<1>5. spansOf \in Seq(Nat)
  <2>1. 1..MaxSpans \subseteq Nat
    BY StorageConstants
  <2> QED
    BY <1>1, <2>1, SeqMonotonic
<1>6. \A r \in Records : spansOf[r] \in 1..MaxSpans
  BY <1>1, ElementOfSeq
<1> QED
  BY <1>1, <1>3, <1>4, <1>5, <1>6, LenProperties

\* Concatenations can be regrouped.
LEMMA Regrouped ==
  ASSUME NEW S, NEW a \in Seq(S), NEW b \in Seq(S), NEW c \in Seq(S)
  PROVE  (a \o b) \o c = a \o (b \o c)
BY ConcatAssociative, SMT

\* Part of a sequence, and the rest of it after that.
LEMMA CutAndJoin ==
  ASSUME NEW f \in Seq(Pairs), NEW out \in Seq(Pairs), NEW k \in 0..Len(out),
         NEW n, WellFormed(f \o out, n)
  PROVE  /\ f \o SubSeq(out, 1, k) \in Seq(Pairs)
         /\ Len(f \o SubSeq(out, 1, k)) = Len(f) + k
         /\ \A p \in 1..Len(f) : (f \o SubSeq(out, 1, k))[p] = f[p]
         /\ SubSeq(out, k + 1, Len(out)) \in Seq(Pairs)
         /\ Len(SubSeq(out, k + 1, Len(out))) = Len(out) - k
         /\ (f \o SubSeq(out, 1, k)) \o SubSeq(out, k + 1, Len(out)) = f \o out
         /\ WellFormed((f \o SubSeq(out, 1, k)) \o <<>>, n)
<1> DEFINE a == SubSeq(out, 1, k)
           b == SubSeq(out, k + 1, Len(out))
<1>1. /\ Len(out) \in Nat /\ DOMAIN out = 1..Len(out) /\ k \in Nat /\ k <= Len(out)
      /\ Len(f) \in Nat
  BY LenProperties
<1>2. a \in Seq(Pairs) /\ Len(a) = k
  <2>1. \A i \in 1..k : out[i] \in Pairs
    BY <1>1, ElementOfSeq
  <2>2. a \in Seq(Pairs) /\ Len(a) = IF 1 <= k THEN k - 1 + 1 ELSE 0
    BY <1>1, <2>1, SubSeqProperties
  <2> QED
    BY <1>1, <2>2
<1>3. b \in Seq(Pairs) /\ Len(b) = Len(out) - k
  <2>1. \A i \in k + 1..Len(out) : out[i] \in Pairs
    BY <1>1, ElementOfSeq
  <2>2. /\ b \in Seq(Pairs)
        /\ Len(b) = IF k + 1 <= Len(out) THEN Len(out) - (k + 1) + 1 ELSE 0
    BY <1>1, <2>1, SubSeqProperties
  <2> HIDE DEF b
  <2> DEFINE l == Len(out)
  <2>3. l \in Nat /\ k \in Nat /\ k <= l
    BY <1>1
  <2>4. Len(b) = IF k + 1 <= l THEN l - (k + 1) + 1 ELSE 0
    BY <2>2
  <2> HIDE DEF l
  <2>5. Len(b) = l - k
    BY <2>3, <2>4
  <2> QED
    BY <2>2, <2>5 DEF l
<1>4. a \o b = out
  <2>1. SubSeq(out, 1, k) \o SubSeq(out, k + 1, Len(out)) = SubSeq(out, 1, Len(out))
    <3>1. /\ 1 \in 1..Len(out) + 1 /\ k \in 1 - 1..Len(out)
          /\ Len(out) \in k..Len(out)
      BY <1>1
    <3> QED
      BY <3>1, ConcatAdjacentSubSeq
  <2> QED
    BY <2>1, SubSeqFull
<1> HIDE DEF a, b
<1>5. (f \o a) \o b = f \o out
  <2>1. (f \o a) \o b = f \o (a \o b)
    <3>1. a \in Seq(Pairs) /\ b \in Seq(Pairs) /\ f \in Seq(Pairs)
      BY <1>2, <1>3
    <3>2. \A S : \A u, v, w \in Seq(S) : (u \o v) \o w = u \o (v \o w)
      BY Regrouped
    <3> QED
      BY <3>1, <3>2
  <2> QED
    BY <1>4, <2>1
<1>6. /\ f \o a \in Seq(Pairs) /\ Len(f \o a) = Len(f) + k
      /\ \A p \in 1..Len(f) : (f \o a)[p] = f[p]
  <2>1. /\ f \o a \in Seq(Pairs) /\ Len(f \o a) = Len(f) + Len(a)
        /\ \A p \in 1..Len(f) + Len(a) :
              (f \o a)[p] = IF p <= Len(f) THEN f[p] ELSE a[p - Len(f)]
    BY <1>2, ConcatProperties
  <2>2. \A p \in 1..Len(f) : p \in 1..Len(f) + Len(a) /\ p <= Len(f)
    BY <1>1, <1>2
  <2> QED
    BY <1>2, <2>1, <2>2
<1>7. WellFormed((f \o a) \o <<>>, n)
  <2> DEFINE g == f \o a
             h == g \o b
  <2>w. g \in Seq(Pairs)
    BY <1>6
  <2>4. WellFormed(h, n)
    BY <1>5
  <2> HIDE DEF g
  <2>1. /\ h \in Seq(Pairs) /\ Len(h) = Len(g) + Len(b)
        /\ \A p \in 1..Len(g) + Len(b) :
              h[p] = IF p <= Len(g) THEN g[p] ELSE b[p - Len(g)]
    BY <1>3, <2>w, ConcatProperties
  <2>2. g \in Seq(Pairs) /\ h \in Seq(Pairs) /\ Len(g) \in Nat /\ Len(b) \in Nat
    BY <1>3, <2>w, <2>1, LenProperties
  <2>3. Len(g) <= Len(h) /\ \A p \in 1..Len(g) : g[p] = h[p]
    <3>1. /\ Len(h) = Len(g) + Len(b)
          /\ \A p \in 1..Len(g) + Len(b) : p <= Len(g) => h[p] = g[p]
      BY <2>1
    <3> HIDE DEF h
    <3>2. \A p \in 1..Len(g) : p \in 1..Len(g) + Len(b) /\ p <= Len(g)
      BY <2>2
    <3> QED
      BY <2>2, <3>1, <3>2
  <2> HIDE DEF h
  <2>5. WellFormed(g, n)
    BY <2>2, <2>3, <2>4, PrefixWellFormed
  <2>6. g \o <<>> = g
    BY <2>2, ConcatEmptySeq
  <2> QED
    BY <2>5, <2>6 DEF g
<1> QED
  BY <1>2, <1>3, <1>5, <1>6, <1>7 DEF a, b

\* A record's last cell is in the concatenation of what it was in and more.
LEMMA EndsInConcat ==
  ASSUME NEW f \in Seq(Pairs), NEW b \in Seq(Pairs), NEW p \in DOMAIN f
  PROVE  p \in DOMAIN (f \o b) /\ (f \o b)[p] = f[p]
<1>1. /\ f \o b \in Seq(Pairs) /\ Len(f \o b) = Len(f) + Len(b)
      /\ \A q \in 1..Len(f) + Len(b) :
            (f \o b)[q] = IF q <= Len(f) THEN f[q] ELSE b[q - Len(f)]
  BY ConcatProperties
<1>2. /\ DOMAIN (f \o b) = 1..Len(f \o b) /\ DOMAIN f = 1..Len(f)
      /\ Len(f) \in Nat /\ Len(b) \in Nat
  BY <1>1, LenProperties
<1>3. p \in 1..Len(f) + Len(b) /\ p <= Len(f)
  BY <1>2
<1>4. (f \o b)[p] = IF p <= Len(f) THEN f[p] ELSE b[p - Len(f)]
  BY <1>1, <1>3
<1> QED
  BY <1>1, <1>2, <1>3, <1>4

\* A record staged is one more, and its cells follow those of the log.
LEMMA Staged ==
  ASSUME TypeOK, LogInv, NEW n \in 1..MaxSpans,
         StageRecord(n, buf \o Record(Len(spansOf) + 1, n))
  PROVE  LET out == buf \o Record(Len(spansOf) + 1, n) IN
         /\ out \in Seq(Pairs) /\ WellFormed(file \o out, spansOf')
         /\ spansOf' \in Seq(1..MaxSpans) /\ Len(spansOf') <= MaxRecords
         /\ Records' = Records \union {Len(spansOf) + 1}
         /\ Len(spansOf) + 1 \notin Records
         /\ \A r \in Records : spansOf'[r] = spansOf[r]
         /\ \A r \in pending \union {Len(spansOf) + 1} :
               \E p \in DOMAIN (file \o out) :
                  (file \o out)[p] = <<r, RecordCells(spansOf'[r])>>
<1> DEFINE new == Len(spansOf) + 1
           rec == Record(new, n)
           out == buf \o rec
<1>1. /\ isOpen /\ Len(spansOf) < MaxRecords
      /\ spansOf' = Append(spansOf, n)
  BY DEF StageRecord
<1>2. /\ file \in Seq(Pairs) /\ buf \in Seq(Pairs) /\ spansOf \in Seq(Nat)
      /\ spansOf \in Seq(1..MaxSpans) /\ Len(spansOf) \in Nat
      /\ Records = 1..Len(spansOf)
  BY Types
<1>3. /\ spansOf' \in Seq(1..MaxSpans) /\ Len(spansOf') = new
      /\ \A r \in 1..Len(spansOf) : spansOf'[r] = spansOf[r]
      /\ spansOf'[new] = n
  BY <1>1, <1>2, AppendProperties
<1>4. Records' = 1..new
  BY <1>3, LenProperties DEF Records
<1>5. n \in Nat \ {0} /\ new \in Nat /\ MaxRecords \in Nat
  BY <1>2, StorageConstants
<1>6. /\ rec \in Seq(Pairs) /\ Len(rec) = RecordCells(n) /\ RecordCells(n) \in Nat
      /\ \A i \in 1..RecordCells(n) : rec[i] = <<new, i>>
  BY <1>5, RecordIsASeq
<1>7. out \in Seq(Pairs)
  BY <1>2, <1>6, ConcatProperties
<1>8. Log \in Seq(Pairs) /\ Log \o rec = file \o out
  <2> HIDE DEF rec
  <2>1. Log \in Seq(Pairs)
    BY <1>2, ConcatProperties DEF Log
  <2>2. \A S : \A u, v, w \in Seq(S) : (u \o v) \o w = u \o (v \o w)
    BY Regrouped
  <2>3. (file \o buf) \o rec = file \o (buf \o rec)
    BY <1>2, <1>6, <2>2
  <2> QED
    BY <2>1, <2>3 DEF Log
<1>9. WellFormed(file \o out, spansOf')
  <2>1. WellFormed(Log, spansOf)
    BY DEF LogInv
  <2>2. WellFormed(Log \o Record(Len(spansOf) + 1, n), Append(spansOf, n))
    BY <1>2, <1>5, <1>8, <2>1, RecordAppended
  <2> QED
    BY <1>1, <1>8, <2>2
<1>10. Len(spansOf') <= MaxRecords
  BY <1>1, <1>2, <1>3, <1>5
<1>11. ASSUME NEW r \in pending
       PROVE  \E p \in DOMAIN (file \o out) :
                 (file \o out)[p] = <<r, RecordCells(spansOf'[r])>>
  <2>1. PICK p \in DOMAIN Log : Log[p] = <<r, RecordCells(spansOf[r])>>
    BY DEF LogInv, EndsIn
  <2>2. spansOf'[r] = spansOf[r]
    <3>1. r \in Records
      BY DEF TypeOK
    <3> QED
      BY <1>2, <1>3, <3>1
  <2>3. p \in DOMAIN (Log \o rec) /\ (Log \o rec)[p] = Log[p]
    BY <1>6, <1>8, EndsInConcat
  <2> QED
    BY <1>8, <2>1, <2>2, <2>3
<1>12. \E p \in DOMAIN (file \o out) :
          (file \o out)[p] = <<new, RecordCells(spansOf'[new])>>
  <2> DEFINE c == RecordCells(n)
             v == Log \o rec
             l == Len(Log)
  <2>1. c \in Nat /\ c >= 1
    <3>1. c >= 1
      <4>1. NumAt + NumCells < RecordCells(n) /\ NumAt = TidCells
        BY <1>5, RecordFields, Fields
      <4> QED
        BY <1>6, <4>1, StorageConstants
    <3> QED
      BY <1>6, <3>1
  <2>2. /\ v \in Seq(Pairs) /\ Len(v) = l + c
        /\ \A q \in 1..l + c : v[q] = IF q <= l THEN Log[q] ELSE rec[q - l]
        /\ l \in Nat
    BY <1>6, <1>8, ConcatProperties, LenProperties, SMTT(30)
  <2>3. DOMAIN v = 1..l + c
    BY <2>2, LenProperties
  <2>4. rec[c] = <<new, c>>
    BY <1>6, <2>1
  <2> HIDE DEF c, v, l, rec, new
  <2>5. l + c \in 1..l + c /\ ~(l + c <= l) /\ l + c - l = c
    BY <2>1, <2>2
  <2>6. v[l + c] = <<new, c>>
    <3> DEFINE e == l + c
    <3>1. \A q \in 1..e : ~(q <= l) => v[q] = rec[q - l]
      BY <2>2
    <3>2. e \in 1..e /\ ~(e <= l) /\ e - l = c
      BY <2>1, <2>2
    <3> HIDE DEF e
    <3>3. v[e] = rec[c]
      BY <3>1, <3>2
    <3> QED
      BY <2>4, <3>3 DEF e
  <2>7. c = RecordCells(spansOf'[new])
    BY <1>3 DEF c
  <2>8. v = file \o out
    BY <1>8 DEF v
  <2> QED
    BY <2>3, <2>5, <2>6, <2>7, <2>8
<1>13. Records' = Records \union {new} /\ new \notin Records
  BY <1>2, <1>4
<1> QED
  BY <1>2, <1>3, <1>7, <1>9, <1>10, <1>11, <1>12, <1>13

\* The types and the form of the log follow from what becomes of its parts.
LEMMA LogTyped ==
  ASSUME NEW f \in Seq(Pairs), NEW b \in Seq(Pairs), file' = f, buf' = b,
         spansOf' \in Seq(1..MaxSpans), WellFormed(f \o b, spansOf')
  PROVE  /\ file' \in Seq(Cells') /\ buf' \in Seq(Cells')
         /\ WellFormed(Log, spansOf)'
<1>1. Cells' = CellsOf(spansOf')
  BY DEF Cells, CellsOf, Records
<1>2. f \in Seq(CellsOf(spansOf')) /\ b \in Seq(CellsOf(spansOf'))
  BY PartsAreCells
<1>3. WellFormed(Log, spansOf)' <=> WellFormed(f \o b, spansOf')
  BY DEF WellFormed, Log
<1> QED
  BY <1>1, <1>2, <1>3

\* What the writer never does to the log: take anything back.
WriterKept == WriterTypes' /\ LogInv' /\ Grows

\* storage_write_trace adds a record.
LEMMA WriteTraceKept ==
  ASSUME TypeOK, LogInv, StorageWriteTrace
  PROVE  WriterKept
<1>1. PICK n \in 1..MaxSpans :
        LET out == buf \o Record(Len(spansOf) + 1, n) IN
        /\ StageRecord(n, out)
        /\ \E k \in 0..Len(out) :
              /\ Len(out) - k <= BufCells
              /\ Len(out) <= BufCells => k = 0
              /\ file' = file \o SubSeq(out, 1, k)
              /\ buf' = SubSeq(out, k + 1, Len(out))
        /\ pending' = pending \union {Len(spansOf) + 1}
        /\ UNCHANGED <<onDisk, isOpen, opens, cuts, safe>>
  BY DEF StorageWriteTrace
<1> DEFINE new == Len(spansOf) + 1
           out == buf \o Record(new, n)
<1>2. StageRecord(n, out)
  BY <1>1
<1>3. PICK k \in 0..Len(out) : /\ Len(out) - k <= BufCells
                               /\ file' = file \o SubSeq(out, 1, k)
                               /\ buf' = SubSeq(out, k + 1, Len(out))
  BY <1>1
<1>4. /\ pending' = pending \union {new}
      /\ onDisk' = onDisk /\ isOpen' = isOpen /\ opens' = opens /\ cuts' = cuts
      /\ safe' = safe
  BY <1>1
<1>5. /\ out \in Seq(Pairs) /\ WellFormed(file \o out, spansOf')
      /\ spansOf' \in Seq(1..MaxSpans) /\ Len(spansOf') <= MaxRecords
      /\ Records' = Records \union {new} /\ new \notin Records
      /\ \A r \in Records : spansOf'[r] = spansOf[r]
      /\ \A r \in pending \union {new} :
            \E p \in DOMAIN (file \o out) :
               (file \o out)[p] = <<r, RecordCells(spansOf'[r])>>
  BY <1>2, Staged
<1> HIDE DEF out, new
<1>6. file \in Seq(Pairs) /\ Len(file) \in Nat /\ DOMAIN file = 1..Len(file)
  BY Types
<1>7. /\ file' \in Seq(Pairs) /\ Len(file') = Len(file) + k
      /\ \A p \in 1..Len(file) : file'[p] = file[p]
      /\ buf' \in Seq(Pairs) /\ Len(buf') = Len(out) - k
      /\ file' \o buf' = file \o out
  <2> DEFINE m == spansOf'
             f == file
  <2>1. f \in Seq(Pairs) /\ out \in Seq(Pairs) /\ WellFormed(f \o out, m)
    BY <1>5, <1>6
  <2> HIDE DEF m, f
  <2>2. /\ f \o SubSeq(out, 1, k) \in Seq(Pairs)
        /\ Len(f \o SubSeq(out, 1, k)) = Len(f) + k
        /\ \A p \in 1..Len(f) : (f \o SubSeq(out, 1, k))[p] = f[p]
        /\ SubSeq(out, k + 1, Len(out)) \in Seq(Pairs)
        /\ Len(SubSeq(out, k + 1, Len(out))) = Len(out) - k
        /\ (f \o SubSeq(out, 1, k)) \o SubSeq(out, k + 1, Len(out)) = f \o out
    BY <2>1, CutAndJoin, ZenonT(30)
  <2>3. file' = f \o SubSeq(out, 1, k) /\ buf' = SubSeq(out, k + 1, Len(out))
    BY <1>3 DEF f
  <2> QED
    BY <2>2, <2>3 DEF f
<1>8. /\ file' \in Seq(Cells') /\ buf' \in Seq(Cells')
      /\ WellFormed(Log, spansOf)'
  BY <1>5, <1>7, LogTyped
<1>9. Grows
  BY <1>5, <1>6, <1>7 DEF Grows
<1>10. WriterTypes'
  <2>1. Len(buf') <= BufCells /\ Len(file') >= Len(file) /\ Len(file') \in Nat
    BY <1>3, <1>6, <1>7
  <2>2. onDisk' \in 0..Len(file')
    <3>1. onDisk \in 0..Len(file)
      BY DEF TypeOK
    <3> QED
      BY <1>4, <1>6, <2>1, <3>1
  <2>3. /\ isOpen' \in BOOLEAN /\ opens' \in 0..MaxOpens
        /\ cuts' \in 0..MaxPowerCuts
    BY <1>4 DEF TypeOK
  <2>4. pending' \subseteq Records' /\ safe' \subseteq Records' \ pending'
    <3>1. pending \subseteq Records /\ safe \subseteq Records \ pending
      BY DEF TypeOK
    <3> QED
      BY <1>4, <1>5, <3>1
  <2> QED
    BY <1>5, <1>8, <2>1, <2>2, <2>3, <2>4 DEF WriterTypes
<1>11. LogInv'
  <2>1. isOpen'
    BY <1>2, <1>4 DEF StageRecord
  <2>2. \A r \in pending' : EndsIn(r, Log)'
    BY <1>4, <1>5, <1>7 DEF EndsIn, Log
  <2>3. ASSUME cuts' = 0, NEW r \in safe' PROVE EndsIn(r, file)'
    <3>1. cuts = 0 /\ r \in safe /\ r \in Records
      BY <1>4, <2>3 DEF TypeOK
    <3>2. PICK p \in DOMAIN file : file[p] = <<r, RecordCells(spansOf[r])>>
      BY <3>1 DEF LogInv, EndsIn
    <3>3. p \in DOMAIN file' /\ file'[p] = file[p]
      <4>1. DOMAIN file' = 1..Len(file') /\ p \in 1..Len(file) /\ k \in Nat
        BY <1>6, <1>7, LenProperties
      <4>2. p \in 1..Len(file')
        BY <1>6, <1>7, <4>1
      <4> QED
        BY <1>7, <4>1, <4>2
    <3> QED
      BY <1>5, <3>1, <3>2, <3>3 DEF EndsIn
  <2> QED
    BY <1>8, <2>1, <2>2, <2>3 DEF LogInv
<1> QED
  BY <1>9, <1>10, <1>11 DEF WriterKept

\* A record that ends in the file still does when the file has grown.
LEMMA SafeKept ==
  ASSUME TypeOK, Grows, file' \in Seq(Pairs), NEW r \in Records, EndsIn(r, file)
  PROVE  EndsIn(r, file)'
<1>1. PICK p \in DOMAIN file : file[p] = <<r, RecordCells(spansOf[r])>>
  BY DEF EndsIn
<1>2. /\ Len(file) \in Nat /\ DOMAIN file = 1..Len(file)
      /\ Len(file') \in Nat /\ DOMAIN file' = 1..Len(file')
  BY Types, LenProperties
<1>3. p \in DOMAIN file' /\ file'[p] = file[p] /\ spansOf'[r] = spansOf[r]
  BY <1>1, <1>2 DEF Grows
<1> QED
  BY <1>1, <1>3 DEF EndsIn

\* The buffer is gone, part of it or of what was to join it written.
LEMMA BufferDropped ==
  ASSUME TypeOK, LogInv, NEW out \in Seq(Pairs), NEW k \in 0..Len(out),
         file' = file \o SubSeq(out, 1, k), buf' = <<>>,
         pending' = {}, safe' = safe, onDisk' = onDisk,
         cuts' = cuts, opens' = opens, isOpen' \in BOOLEAN,
         spansOf' \in Seq(1..MaxSpans), Len(spansOf') <= MaxRecords,
         Records \subseteq Records', \A r \in Records : spansOf'[r] = spansOf[r],
         WellFormed(file \o out, spansOf')
  PROVE  WriterKept
<1>1. /\ file \in Seq(Pairs) /\ Len(file) \in Nat
      /\ DOMAIN file = 1..Len(file)
  BY Types
<1>2. /\ file' \in Seq(Pairs) /\ Len(file') = Len(file) + k
      /\ \A p \in 1..Len(file) : file'[p] = file[p]
      /\ WellFormed(file' \o <<>>, spansOf')
  BY <1>1, CutAndJoin
<1>3. buf' \in Seq(Pairs) /\ Len(buf') = 0
  BY EmptySeq
<1>4. /\ file' \in Seq(Cells') /\ buf' \in Seq(Cells')
      /\ WellFormed(Log, spansOf)'
  <2>1. <<>> \in Seq(Pairs)
    BY EmptySeq
  <2> QED
    BY <1>2, <2>1, LogTyped
<1>5. Len(file') \in Nat /\ Len(file) <= Len(file') /\ k \in Nat
  BY <1>1, <1>2, LenProperties
<1>6. Grows
  BY <1>2, <1>5 DEF Grows
<1>7. WriterTypes'
  <2>1. Len(buf') <= BufCells
    BY <1>3, StorageConstants
  <2>2. onDisk' \in 0..Len(file')
    <3>1. onDisk \in 0..Len(file)
      BY DEF TypeOK
    <3> QED
      BY <1>1, <1>5, <3>1
  <2>3. opens' \in 0..MaxOpens /\ cuts' \in 0..MaxPowerCuts
    BY DEF TypeOK
  <2>4. pending' \subseteq Records' /\ safe' \subseteq Records' \ pending'
    BY DEF TypeOK
  <2> QED
    BY <1>4, <2>1, <2>2, <2>3, <2>4 DEF WriterTypes
<1>8. LogInv'
  <2>1. ASSUME cuts' = 0, NEW r \in safe' PROVE EndsIn(r, file)'
    <3>1. r \in Records /\ EndsIn(r, file)
      BY <2>1 DEF LogInv, TypeOK
    <3> QED
      BY <1>2, <1>6, <3>1, SafeKept
  <2> QED
    BY <1>4, <2>1 DEF LogInv
<1> QED
  BY <1>6, <1>7, <1>8 DEF WriterKept

\* The buffer was written.
LEMMA BufferWritten ==
  ASSUME TypeOK, LogInv, file' = file \o buf, buf' = <<>>,
         pending' = {}, safe' = safe \union pending, onDisk' = onDisk,
         cuts' = cuts, opens' = opens, isOpen' \in BOOLEAN, spansOf' = spansOf
  PROVE  WriterKept
<1>1. /\ file \in Seq(Pairs) /\ Len(file) \in Nat
      /\ DOMAIN file = 1..Len(file)
      /\ buf \in Seq(Pairs) /\ Len(buf) \in Nat
  BY Types
<1>2. /\ file' \in Seq(Pairs) /\ Len(file') = Len(file) + Len(buf)
      /\ \A p \in 1..Len(file) : file'[p] = file[p]
  <2>1. /\ file \o buf \in Seq(Pairs) /\ Len(file \o buf) = Len(file) + Len(buf)
    BY <1>1, ConcatProperties
  <2> QED
    BY <1>1, <2>1, EndsInConcat
<1>3. buf' \in Seq(Pairs) /\ Len(buf') = 0 /\ <<>> \in Seq(Pairs)
  BY EmptySeq
<1>r. Records' = Records
  BY DEF Records
<1>4. /\ file' \in Seq(Cells') /\ buf' \in Seq(Cells')
      /\ WellFormed(Log, spansOf)'
  <2>1. file' \o <<>> = file'
    BY <1>2, ConcatEmptySeq
  <2>2. WellFormed(file', spansOf')
    BY DEF LogInv, Log
  <2>3. spansOf' \in Seq(1..MaxSpans)
    BY DEF TypeOK
  <2> QED
    BY <1>2, <1>3, <2>1, <2>2, <2>3, LogTyped
<1>5. Len(file') \in Nat /\ Len(file) <= Len(file')
  BY <1>1, <1>2
<1>6. Grows
  BY <1>2, <1>5, <1>r DEF Grows
<1>7. WriterTypes'
  <2>1. Len(buf') <= BufCells
    BY <1>3, StorageConstants
  <2>2. onDisk' \in 0..Len(file')
    <3>1. onDisk \in 0..Len(file)
      BY DEF TypeOK
    <3> QED
      BY <1>1, <1>5, <3>1
  <2>3. /\ opens' \in 0..MaxOpens /\ cuts' \in 0..MaxPowerCuts
        /\ spansOf' \in Seq(1..MaxSpans) /\ Len(spansOf') <= MaxRecords
    BY DEF TypeOK
  <2>4. pending' \subseteq Records' /\ safe' \subseteq Records' \ pending'
    BY <1>r DEF TypeOK
  <2> QED
    BY <1>4, <2>1, <2>2, <2>3, <2>4 DEF WriterTypes
<1>8. LogInv'
  <2>1. ASSUME cuts' = 0, NEW r \in safe' PROVE EndsIn(r, file)'
    <3>1. CASE r \in safe
      <4>1. r \in Records /\ EndsIn(r, file)
        BY <2>1, <3>1 DEF LogInv, TypeOK
      <4> QED
        BY <1>2, <1>6, <4>1, SafeKept
    <3>2. CASE r \in pending
      <4>1. EndsIn(r, Log)
        BY <3>2 DEF LogInv
      <4> QED
        BY <4>1 DEF EndsIn, Log
    <3> QED
      BY <3>1, <3>2
  <2> QED
    BY <1>4, <2>1 DEF LogInv
<1> QED
  BY <1>6, <1>7, <1>8 DEF WriterKept

\* fflush, with or without failure; `FlushBuffer` is what both callers do.
LEMMA FlushKept ==
  ASSUME TypeOK, LogInv, FlushBuffer, buf' = <<>>, pending' = {},
         isOpen' \in BOOLEAN,
         onDisk' = onDisk, opens' = opens, cuts' = cuts, spansOf' = spansOf
  PROVE  WriterKept
<1>1. CASE file' = file \o buf /\ safe' = safe \union pending
  BY <1>1, BufferWritten
<1>2. CASE /\ \E k \in 0..Len(buf) - 1 : file' = file \o SubSeq(buf, 1, k)
           /\ UNCHANGED safe
  <2>1. buf \in Seq(Pairs) /\ Len(buf) \in Nat
    BY Types
  <2>2. PICK k \in 0..Len(buf) - 1 : file' = file \o SubSeq(buf, 1, k)
    BY <1>2
  <2>3. k \in 0..Len(buf)
    BY <2>1
  <2>4. WellFormed(file \o buf, spansOf') /\ Records' = Records
    BY DEF LogInv, Log, Records
  <2>5. spansOf' \in Seq(1..MaxSpans) /\ Len(spansOf') <= MaxRecords
    BY DEF TypeOK
  <2> QED
    BY <1>2, <2>1, <2>2, <2>3, <2>4, <2>5, BufferDropped
<1> QED
  BY <1>1, <1>2 DEF FlushBuffer

\* Every step of the writer.
LEMMA WriterStep ==
  ASSUME TypeOK, LogInv, Writer
  PROVE  WriterKept
<1>1. CASE StorageWriteTrace
  BY <1>1, WriteTraceKept
<1>2. CASE StorageWriteTraceFails
  <2>1. PICK n \in 1..MaxSpans :
          LET out == buf \o Record(Len(spansOf) + 1, n) IN
          /\ StageRecord(n, out)
          /\ \E k \in 0..Len(out) - 1 : file' = file \o SubSeq(out, 1, k)
          /\ buf' = <<>> /\ pending' = {}
          /\ UNCHANGED <<onDisk, isOpen, opens, cuts, safe>>
    BY <1>2 DEF StorageWriteTraceFails
  <2> DEFINE out == buf \o Record(Len(spansOf) + 1, n)
  <2>2. /\ StageRecord(n, out) /\ buf' = <<>> /\ pending' = {}
        /\ onDisk' = onDisk /\ isOpen' = isOpen /\ opens' = opens
        /\ cuts' = cuts /\ safe' = safe
        /\ \E k \in 0..Len(out) - 1 : file' = file \o SubSeq(out, 1, k)
    BY <2>1
  <2>3. /\ out \in Seq(Pairs) /\ WellFormed(file \o out, spansOf')
        /\ spansOf' \in Seq(1..MaxSpans) /\ Len(spansOf') <= MaxRecords
        /\ Records \subseteq Records'
        /\ \A r \in Records : spansOf'[r] = spansOf[r]
    BY <2>2, Staged
  <2>4. isOpen' \in BOOLEAN
    BY <2>2 DEF TypeOK
  <2> HIDE DEF out
  <2>5. Len(out) \in Nat
    BY <2>3, LenProperties
  <2>6. PICK k \in 0..Len(out) - 1 : file' = file \o SubSeq(out, 1, k)
    BY <2>2
  <2>7. k \in 0..Len(out)
    BY <2>5
  <2> QED
    BY <2>2, <2>3, <2>4, <2>6, <2>7, BufferDropped
<1>3. CASE StorageFlush
  <2>1. isOpen' \in BOOLEAN
    BY <1>3 DEF StorageFlush, TypeOK
  <2> QED
    BY <1>3, <2>1, FlushKept DEF StorageFlush
<1>4. CASE StorageClose
  BY <1>4, FlushKept DEF StorageClose
<1>5. CASE Kill
  <2>1. /\ buf \in Seq(Pairs) /\ 0 \in 0..Len(buf) /\ file \in Seq(Pairs)
        /\ Len(buf) \in Nat
    BY Types
  <2>2. SubSeq(buf, 1, 0) = <<>>
    BY SubSeqEmpty
  <2>3. file' = file \o SubSeq(buf, 1, 0)
    BY <1>5, <2>1, <2>2, ConcatEmptySeq DEF Kill
  <2>4. WellFormed(file \o buf, spansOf') /\ Records' = Records
    BY <1>5 DEF LogInv, Log, Records, Kill
  <2>5. /\ spansOf' \in Seq(1..MaxSpans) /\ Len(spansOf') <= MaxRecords
        /\ \A r \in Records : spansOf'[r] = spansOf[r]
    BY <1>5 DEF TypeOK, Kill
  <2>6. /\ buf' = <<>> /\ pending' = {} /\ safe' = safe /\ onDisk' = onDisk
        /\ cuts' = cuts /\ opens' = opens /\ isOpen' \in BOOLEAN
    BY <1>5 DEF Kill
  <2> QED
    BY <2>1, <2>3, <2>4, <2>5, <2>6, BufferDropped
<1>6. CASE StorageOpen
  <2>1. /\ isOpen' /\ opens < MaxOpens /\ opens' = opens + 1
        /\ file' = file /\ onDisk' = onDisk /\ cuts' = cuts /\ buf' = buf
        /\ spansOf' = spansOf /\ pending' = pending /\ safe' = safe
    BY <1>6 DEF StorageOpen
  <2>2. Records' = Records /\ Cells' = Cells /\ Log' = Log
    BY <2>1 DEF Records, Cells, Log
  <2>3. WriterTypes'
    <3>1. opens' \in 0..MaxOpens
      BY <2>1, StorageConstants DEF TypeOK
    <3>2. isOpen' \in BOOLEAN
      BY <1>6 DEF StorageOpen
    <3> QED
      BY <2>1, <2>2, <3>1, <3>2 DEF TypeOK, WriterTypes
  <2>4. LogInv'
    BY <2>1, <2>2 DEF LogInv, EndsIn, WellFormed
  <2>5. Grows
    <3>1. Len(file) \in Nat
      BY Types
    <3> QED
      BY <2>1, <2>2, <3>1 DEF Grows
  <2> QED
    BY <2>3, <2>4, <2>5 DEF WriterKept
<1> QED
  BY <1>1, <1>2, <1>3, <1>4, <1>5, <1>6 DEF Writer

-----------------------------------------------------------------------------
(* What the file holds. *)

\* Number of the last cell of record r.
Size(r) == RecordCells(spansOf[r])

\* The cells of the file belong to records, in order.
LEMMA FileCells ==
  ASSUME TypeOK, LogInv
  PROVE  /\ \A p \in 1..Len(file) :
               /\ file[p] = <<file[p][1], file[p][2]>> /\ file[p][1] \in Records
               /\ file[p][2] \in Nat \ {0} /\ file[p][2] <= Size(file[p][1])
         /\ \A p, q \in 1..Len(file) :
               p < q => \/ file[p][1] < file[q][1]
                        \/ file[p][1] = file[q][1] /\ file[p][2] < file[q][2]
         /\ \A p \in 1..Len(file) :
               p = 1 \/ file[p - 1][2] = Size(file[p - 1][1]) => file[p][2] = 1
         /\ \A r \in Records : Size(r) \in Nat /\ r \in Nat
<1>1. /\ file \in Seq(Pairs) /\ buf \in Seq(Pairs)
      /\ spansOf \in Seq(1..MaxSpans) /\ DOMAIN file = 1..Len(file)
      /\ Records = 1..Len(spansOf) /\ Len(spansOf) \in Nat
      /\ \A r \in Records : spansOf[r] \in 1..MaxSpans
  BY Types
<1>2. WellFormed(file, spansOf)
  <2>1. WellFormed(file \o buf, spansOf)
    BY DEF LogInv, Log
  <2> QED
    BY <1>1, <2>1, PartsAreCells
<1>3. ASSUME NEW p \in 1..Len(file)
      PROVE  /\ file[p] = <<file[p][1], file[p][2]>> /\ file[p][1] \in Records
             /\ file[p][2] \in Nat \ {0} /\ file[p][2] <= Size(file[p][1])
  <2>1. file[p] \in Pairs
    BY <1>1, ElementOfSeq
  <2>2. file[p] = <<file[p][1], file[p][2]>>
    BY <2>1 DEF Pairs
  <2> QED
    BY <1>1, <1>2, <2>2 DEF WellFormed, Size, Records
<1>4. ASSUME NEW r \in Records PROVE Size(r) \in Nat /\ r \in Nat
  <2>1. spansOf[r] \in Nat /\ r \in Nat
    BY <1>1, StorageConstants
  <2> QED
    BY <2>1, Fields DEF Size
<1>5. \A p, q \in 1..Len(file) :
         p < q => \/ file[p][1] < file[q][1]
                  \/ file[p][1] = file[q][1] /\ file[p][2] < file[q][2]
  BY <1>1, <1>2 DEF WellFormed, Before
<1>6. \A p \in 1..Len(file) :
         p = 1 \/ file[p - 1][2] = Size(file[p - 1][1]) => file[p][2] = 1
  BY <1>1, <1>2 DEF WellFormed, Size
<1> QED
  BY <1>3, <1>4, <1>5, <1>6

\* After the last cell of a record come those of later ones.
LEMMA AfterLastCell ==
  ASSUME TypeOK, LogInv, NEW p \in 1..Len(file), NEW q \in 1..Len(file), p < q,
         IsLastCell(file[p])
  PROVE  file[p][1] < file[q][1]
<1>1. /\ file[p][1] \in Records /\ file[q][1] \in Records
      /\ file[p][2] \in Nat /\ file[q][2] \in Nat
      /\ file[q][2] <= Size(file[q][1])
      /\ Size(file[q][1]) \in Nat
  BY FileCells
<1>4. \/ file[p][1] < file[q][1]
      \/ file[p][1] = file[q][1] /\ file[p][2] < file[q][2]
  BY FileCells
<1>2. file[p][2] = Size(file[p][1])
  BY DEF IsLastCell, Size
<1>3. CASE file[p][1] = file[q][1] /\ file[p][2] < file[q][2]
  BY <1>1, <1>2, <1>3
<1> QED
  BY <1>3, <1>4

\* What is sound up to a position is so up to an earlier one.
LEMMA SoundBefore ==
  ASSUME TypeOK, NEW p \in Nat, NEW q \in Nat, p <= q, Sound(q)
  PROVE  Sound(p)
<1>1. \A t \in TornAfter : t \in Nat
  BY Types DEF TornAfter
<1> QED
  BY <1>1 DEF Sound

\* From a cell the record goes on until it ends or is torn.
LEMMA RunOn ==
  ASSUME TypeOK, LogInv, NEW p \in 1..Len(file), NEW r \in Records,
         NEW i \in Nat, file[p] = <<r, i>>, NEW m \in Nat, i + m <= Size(r),
         Sound(p + m)
  PROVE  \A l \in 0..m : p + l \in 1..Len(file) /\ file[p + l] = <<r, i + l>>
<1> DEFINE Bad == {l \in 0..m :
                     ~(p + l \in 1..Len(file) /\ file[p + l] = <<r, i + l>>)}
<1>1. Len(file) \in Nat /\ DOMAIN file = 1..Len(file) /\ Size(r) \in Nat
  BY Types, FileCells
<1>2. ASSUME Bad # {} PROVE FALSE
  <2>1. PICK b \in Bad : \A l \in Bad : b <= l
    <3>1. Bad \subseteq Nat
      OBVIOUS
    <3> HIDE DEF Bad
    <3> QED
      BY <1>2, <3>1, LeastElement
  <2>2. b \in 0..m
    OBVIOUS
  <2>3. b # 0
    <3>1. p + 0 = p /\ i + 0 = i
      BY <1>1
    <3> QED
      BY <3>1
  <2> DEFINE a == b - 1
  <2>4. a \in 0..m /\ a < b /\ a + 1 = b /\ a \in Nat
    BY <2>2, <2>3
  <2>5. a \notin Bad
    BY <2>1, <2>4, SMTT(30)
  <2>6. p + a \in 1..Len(file) /\ file[p + a] = <<r, i + a>>
    BY <2>4, <2>5
  <2>7. p + a < p + m /\ i + a < Size(r)
    BY <1>1, <2>2, <2>4
  <2>8. ~IsLastCell(file[p + a])
    BY <1>1, <2>6, <2>7 DEF IsLastCell, Size
  <2>9. p + a \notin TornAfter
    BY <1>1, <2>6, <2>7 DEF Sound
  <2>10. /\ p + a # Len(file)
         /\ file[p + a + 1] = <<r, i + a + 1>>
    BY <1>1, <2>6, <2>8, <2>9 DEF TornAfter
  <2>11. /\ p + a + 1 = p + b /\ i + a + 1 = i + b
         /\ p + b \in 1..Len(file)
    BY <1>1, <2>4, <2>6, <2>10
  <2>12. b \notin Bad
    BY <2>10, <2>11
  <2> QED
    BY <2>12
<1> QED
  BY <1>2

\* The i-th cell of record r was the last one before position p, or p is at
\* the beginning of record r and i is 0.
Ahead(p, r, i) ==
    /\ p \in 0..Len(file) /\ Sound(p) /\ r \in Records /\ i \in Nat
    /\ p + 1 <= Len(file) /\ Sound(p + 1) => file[p + 1] = <<r, i + 1>>

\* The cells of a field that is there, before any tear.
LEMMA FieldCells ==
  ASSUME TypeOK, LogInv, NEW p, NEW r, NEW i, Ahead(p, r, i),
         NEW k \in Nat \ {0}, i + k <= Size(r), NEW e \in Nat,
         p < e, e <= p + k, e <= Len(file), Sound(e)
  PROVE  \A q \in p + 1..e : q \in 1..Len(file) /\ file[q] = <<r, i + (q - p)>>
<1>1. p \in Nat /\ p <= Len(file) /\ r \in Records /\ i \in Nat /\ Len(file) \in Nat
      /\ Size(r) \in Nat
  BY Types, FileCells DEF Ahead
<1> DEFINE m == e - (p + 1)
<1>2. /\ p + 1 \in 1..Len(file) /\ m \in Nat /\ p + 1 + m = e
      /\ i + 1 + m <= Size(r) /\ p + 1 <= e /\ p + 1 \in Nat /\ i + 1 \in Nat
  BY <1>1
<1>3. Sound(p + 1)
  BY <1>2, SoundBefore
<1>4. file[p + 1] = <<r, i + 1>>
  BY <1>1, <1>2, <1>3 DEF Ahead
<1>5. \A l \in 0..m : p + 1 + l \in 1..Len(file) /\ file[p + 1 + l] = <<r, i + 1 + l>>
  <2> DEFINE p1 == p + 1
             i1 == i + 1
  <2>1. /\ p1 \in 1..Len(file) /\ i1 \in Nat /\ file[p1] = <<r, i1>>
        /\ m \in Nat /\ i1 + m <= Size(r) /\ Sound(p1 + m) /\ r \in Records
    BY <1>1, <1>2, <1>4
  <2> HIDE DEF m, p1, i1
  <2>2. \A l \in 0..m : p1 + l \in 1..Len(file) /\ file[p1 + l] = <<r, i1 + l>>
    BY <2>1, RunOn
  <2> QED
    BY <2>2 DEF p1, i1
<1> TAKE q \in p + 1..e
<1> DEFINE l == q - (p + 1)
<1>6. l \in 0..m /\ p + 1 + l = q /\ i + 1 + l = i + (q - p)
  BY <1>1, <1>2
<1> QED
  BY <1>5, <1>6

\* k cells of record r after its first i.
Run(r, i, k) == [l \in 1..k |-> <<r, i + l>>]

\* Reading such a field leaves the records that have ended as they are, or
\* adds the one it is of.
LEMMA FieldThere ==
  ASSUME TypeOK, LogInv, NEW p, NEW r, NEW i, Ahead(p, r, i),
         NEW k \in Nat \ {0}, i + k <= Size(r), p + k <= Len(file), Sound(p + k)
  PROVE  /\ SubSeq(file, p + 1, p + k) = Run(r, i, k)
         /\ p + k \in 1..Len(file) /\ file[p + k] = <<r, i + k>>
         /\ i + k < Size(r) => Ended(p + k) = Ended(p)
         /\ i + k = Size(r) => Ended(p + k) = Ended(p) \union {r}
<1>1. p \in Nat /\ p <= Len(file) /\ r \in Records /\ i \in Nat /\ Len(file) \in Nat
      /\ Size(r) \in Nat /\ file \in Seq(Pairs) /\ DOMAIN file = 1..Len(file)
      /\ r \in Nat
  BY Types, FileCells DEF Ahead
<1> DEFINE e == p + k
<1>2. e \in Nat /\ p < e /\ e <= p + k /\ e <= Len(file) /\ e - p = k
  BY <1>1
<1>3. \A q \in p + 1..e : q \in 1..Len(file) /\ file[q] = <<r, i + (q - p)>>
  <2>1. Sound(e)
    OBVIOUS
  <2> HIDE DEF e
  <2> QED
    BY <1>2, <2>1, FieldCells
<1>4. e \in 1..Len(file) /\ file[e] = <<r, i + k>>
  <2>1. e \in p + 1..e
    BY <1>1, <1>2
  <2>2. file[e] = <<r, i + (e - p)>>
    BY <1>3, <2>1
  <2> QED
    BY <1>2, <1>3, <2>1, <2>2
<1>5. SubSeq(file, p + 1, e) = Run(r, i, k)
  <2> DEFINE w == SubSeq(file, p + 1, e)
             v == Run(r, i, k)
  <2>1. \A q \in p + 1..e : file[q] \in Pairs
    BY <1>1, <1>3, ElementOfSeq
  <2>2. p + 1 \in Int /\ e \in Int
    BY <1>1, <1>2
  <2>3. /\ w \in Seq(Pairs)
        /\ Len(w) = IF p + 1 <= e THEN e - (p + 1) + 1 ELSE 0
        /\ \A l \in 1..e - (p + 1) + 1 : w[l] = file[p + 1 + l - 1]
    BY <2>1, <2>2, SubSeqProperties
  <2>4. e - (p + 1) + 1 = k /\ p + 1 <= e
    BY <1>1, <1>2
  <2>5. Len(w) = k /\ \A l \in 1..k : w[l] = file[p + 1 + l - 1]
    BY <2>3, <2>4
  <2>6. ASSUME NEW l \in 1..k PROVE w[l] = v[l]
    <3>1. p + 1 + l - 1 = p + l /\ p + l \in p + 1..e /\ p + l - p = l
      BY <1>1
    <3>2. file[p + l] = <<r, i + l>>
      <4> DEFINE q == p + l
      <4>1. q \in p + 1..e /\ q - p = l
        BY <1>1
      <4> HIDE DEF q
      <4>2. file[q] = <<r, i + (q - p)>>
        BY <1>3, <4>1
      <4>3. file[q] = <<r, i + l>>
        BY <4>1, <4>2
      <4> QED
        BY <4>3 DEF q
    <3>3. w[l] = file[p + l]
      BY <2>5, <3>1
    <3>4. v[l] = <<r, i + l>>
      BY DEF Run
    <3> HIDE DEF w, v
    <3> QED
      BY <3>2, <3>3, <3>4
  <2>7. v \in Seq(Pairs) /\ Len(v) = k
    <3>0. \A l \in 1..k : <<r, i + l>> \in Pairs
      BY <1>1 DEF Pairs
    <3>1. v \in [1..k -> Pairs]
      BY <3>0 DEF Run
    <3>2. v \in Seq(Pairs)
      BY <3>1, SeqDef
    <3>3. DOMAIN v = 1..k /\ DOMAIN v = 1..Len(v) /\ Len(v) \in Nat
      BY <3>1, <3>2, LenProperties
    <3> QED
      BY <3>2, <3>3
  <2> HIDE DEF w
  <2> HIDE DEF v
  <2>8. w = v
    BY <2>3, <2>5, <2>6, <2>7, SeqEqual
  <2> QED
    BY <2>8 DEF w, v
<1>6. ASSUME NEW q \in p + 1..e, IsLastCell(file[q])
      PROVE  q = e /\ i + k = Size(r)
  <2>1. file[q] = <<r, i + (q - p)>>
    BY <1>3
  <2>2. i + (q - p) = Size(r)
    BY <1>6, <2>1 DEF IsLastCell, Size
  <2> QED
    BY <1>1, <2>2
<1>7. \A q \in 1..e : q <= p \/ q \in p + 1..e
  BY <1>1, <1>2
<1>8. ASSUME i + k < Size(r) PROVE Ended(e) = Ended(p)
  <2>1. \A q \in DOMAIN file : q <= e /\ IsLastCell(file[q]) => q <= p
    BY <1>1, <1>2, <1>6, <1>7, <1>8
  <2>2. \A q \in DOMAIN file : q <= p => q <= e
    BY <1>1, <1>2
  <2> HIDE DEF e
  <2> QED
    BY <2>1, <2>2 DEF Ended
<1>9. ASSUME i + k = Size(r) PROVE Ended(e) = Ended(p) \union {r}
  <2>1. \A q \in DOMAIN file : q <= e /\ IsLastCell(file[q]) => q <= p \/ q = e
    BY <1>1, <1>2, <1>6, <1>7
  <2>2. \A q \in DOMAIN file : q <= p => q <= e
    BY <1>1, <1>2
  <2>3. IsLastCell(file[e]) /\ file[e][1] = r /\ e \in DOMAIN file /\ e <= e
    BY <1>1, <1>2, <1>4, <1>9 DEF IsLastCell, Size
  <2> HIDE DEF e
  <2> QED
    BY <2>1, <2>2, <2>3 DEF Ended
<1> QED
  BY <1>4, <1>5, <1>8, <1>9

\* Where it is not all there, or torn, nothing after it can be read.
LEMMA FieldTorn ==
  ASSUME TypeOK, LogInv, NEW p, NEW r, NEW i, Ahead(p, r, i),
         NEW k \in Nat \ {0}, i + k <= Size(r),
         ~(p + k <= Len(file) /\ Sound(p + k))
  PROVE  Readable = Ended(p)
<1>1. p \in Nat /\ p <= Len(file) /\ r \in Records /\ i \in Nat /\ Len(file) \in Nat
      /\ Size(r) \in Nat /\ DOMAIN file = 1..Len(file) /\ Sound(p)
  BY Types, FileCells DEF Ahead
<1>2. ASSUME NEW e \in DOMAIN file, Sound(e), IsLastCell(file[e]) PROVE e <= p
  <2>1. SUFFICES ASSUME p < e PROVE FALSE
    BY <1>1
  <2>2. e < p + k
    <3>1. SUFFICES ASSUME p + k <= e PROVE FALSE
      BY <1>1
    <3>2. p + k <= Len(file) /\ p + k \in Nat /\ e \in Nat
      BY <1>1, <3>1
    <3>3. Sound(p + k)
      BY <1>2, <3>1, <3>2, SoundBefore
    <3> QED
      BY <3>2, <3>3
  <2>3. \A q \in p + 1..e : file[q] = <<r, i + (q - p)>>
    <3>1. e \in Nat /\ e <= Len(file) /\ e <= p + k /\ Sound(e)
      BY <1>1, <1>2, <2>2
    <3> QED
      BY <2>1, <3>1, FieldCells
  <2>4. file[e] = <<r, i + (e - p)>>
    BY <1>1, <2>1, <2>3
  <2>5. i + (e - p) = Size(r)
    BY <1>2, <2>4 DEF IsLastCell, Size
  <2> QED
    BY <1>1, <2>2, <2>5
<1>3. ASSUME NEW e \in DOMAIN file, e <= p PROVE Sound(e)
  BY <1>1, <1>3, SoundBefore
<1> QED
  BY <1>2, <1>3 DEF Readable, Ended

\* The records that can be read exist.
LEMMA ReadableRecords ==
  ASSUME TypeOK, LogInv
  PROVE  Readable \subseteq Records /\ Readable \subseteq Nat
BY Types, FileCells DEF Readable

\* A record that the last failure but the machine's left whole, and that no
\* tear precedes, can be read.
LEMMA WholeIsReadable ==
  ASSUME TypeOK, LogInv
  PROVE  FlushedIsReadable
<1> SUFFICES ASSUME cuts = 0, NEW r \in safe,
                    \A p \in TornInside : file[p][1] > r
             PROVE  r \in Readable
  BY DEF FlushedIsReadable
<1>1. PICK q \in DOMAIN file : file[q] = <<r, Size(r)>>
  BY DEF LogInv, EndsIn, Size
<1>2. /\ Len(file) \in Nat /\ DOMAIN file = 1..Len(file) /\ IsLastCell(file[q])
      /\ file[q][1] = r
  BY <1>1, Types DEF IsLastCell, Size
<1>3. ASSUME NEW t \in TornAfter, t < q PROVE FALSE
  <2>1. t \in 1..Len(file) /\ t # Len(file)
    BY <1>2, <1>3 DEF TornAfter
  <2>2. file[t][1] > r
    BY <2>1 DEF TornInside
  <2>3. file[t][1] \in Nat /\ file[t][1] <= r /\ r \in Nat
    <3>1. /\ file[t][1] \in Records /\ file[q][1] \in Records
          /\ Records \subseteq Nat
      BY <1>2, <2>1, FileCells
    <3>2. file[t][1] < file[q][1] \/ file[t][1] = file[q][1]
      BY <1>2, <1>3, <2>1, FileCells
    <3>3. file[t][1] \in Nat /\ file[q][1] \in Nat
      BY <3>1
    <3>4. file[t][1] <= file[q][1]
      BY <3>2, <3>3
    <3> QED
      BY <1>2, <3>3, <3>4
  <2> QED
    BY <2>2, <2>3
<1>4. Sound(q)
  <2>1. \A t \in TornAfter : t \in Nat
    BY <1>2 DEF TornAfter
  <2> QED
    BY <1>2, <1>3, <2>1 DEF Sound
<1> QED
  BY <1>2, <1>4 DEF Readable

\* What becomes of tears, of records that have ended and of readable ones
\* when the log grows: the readable records become more only while no record
\* is torn inside the file, and the new ones are later ones.
LEMMA Grown ==
  ASSUME TypeOK, LogInv, WriterKept
  PROVE  /\ \A q \in 0..Len(file) :
               (Sound(q)' <=> Sound(q)) /\ Ended(q)' = Ended(q)
         /\ \A p \in 1..Len(file) : /\ p \in DOMAIN file' /\ file'[p] = file[p]
                                    /\ IsLastCell(file[p])' <=> IsLastCell(file[p])
         /\ Readable \subseteq Readable'
         /\ \A r \in Readable', s \in Readable : r \notin Readable => s < r
         /\ TornInside # {} => TornInside' # {} /\ Readable' = Readable
<1>1. /\ Len(file) \in Nat /\ DOMAIN file = 1..Len(file)
      /\ Records \subseteq Nat
  BY Types
<1>2. /\ file' \in Seq(Pairs) /\ buf' \in Seq(Pairs) /\ spansOf' \in Seq(1..MaxSpans)
      /\ Len(file') \in Nat /\ DOMAIN file' = 1..Len(file')
      /\ DOMAIN spansOf' = 1..Len(spansOf') /\ Records' = DOMAIN spansOf'
  <2>1. /\ file' \in Seq(Cells') /\ buf' \in Seq(Cells')
        /\ spansOf' \in Seq(1..MaxSpans)
    BY DEF WriterKept, WriterTypes
  <2>2. Records' = DOMAIN spansOf' /\ DOMAIN spansOf' = 1..Len(spansOf')
    BY <2>1, LenProperties DEF Records
  <2>3. Cells' \subseteq Pairs
    BY <2>2 DEF Cells, Pairs
  <2>4. file' \in Seq(Pairs) /\ buf' \in Seq(Pairs)
    BY <2>1, <2>3, SeqMonotonic
  <2> QED
    BY <2>1, <2>2, <2>4, LenProperties
<1>3. WellFormed(file', spansOf')
  <2>1. WellFormed(file' \o buf', spansOf')
    <3>1. WellFormed(Log, spansOf)'
      BY DEF WriterKept, LogInv
    <3> QED
      BY <3>1 DEF WellFormed, Log
  <2> QED
    BY <1>2, <2>1, PartsAreCells
<1>4. /\ Len(file) <= Len(file') /\ \A p \in 1..Len(file) : file'[p] = file[p]
      /\ Records \subseteq Records' /\ \A r \in Records : spansOf'[r] = spansOf[r]
  BY DEF WriterKept, Grows
<1>5. ASSUME NEW p \in 1..Len(file)
      PROVE  /\ p \in DOMAIN file' /\ file'[p] = file[p]
             /\ IsLastCell(file[p])' <=> IsLastCell(file[p])
  <2>1. file[p][1] \in Records
    BY FileCells
  <2>2. file'[p] = file[p] /\ spansOf'[file[p][1]] = spansOf[file[p][1]]
    BY <1>4, <2>1
  <2>3. IsLastCell(file[p])' <=> file'[p][2] = RecordCells(spansOf'[file'[p][1]])
    BY DEF IsLastCell
  <2>4. IsLastCell(file[p]) <=> file[p][2] = RecordCells(spansOf[file[p][1]])
    BY DEF IsLastCell
  <2>5. p \in DOMAIN file'
    <3>1. PICK l \in Nat, m \in Nat : l = Len(file) /\ m = Len(file') /\ l <= m
      BY <1>1, <1>2, <1>4
    <3>2. p \in 1..m
      BY <3>1
    <3> QED
      BY <1>2, <3>1, <3>2
  <2> QED
    BY <2>2, <2>3, <2>4, <2>5
<1>6. ASSUME NEW p \in 1..Len(file), p < Len(file)
      PROVE  p \in TornAfter' <=> p \in TornAfter
  <2>1. p + 1 \in 1..Len(file) /\ p # Len(file) /\ p # Len(file')
    <3>1. PICK l \in Nat, m \in Nat : l = Len(file) /\ m = Len(file') /\ l <= m
      BY <1>1, <1>2, <1>4
    <3>2. p \in 1..l /\ p < l
      BY <1>6, <3>1
    <3>3. p + 1 \in 1..l /\ p # l /\ p # m
      BY <3>1, <3>2
    <3> QED
      BY <3>1, <3>3
  <2>2. file'[p + 1] = file[p + 1] /\ file'[p] = file[p]
    BY <1>4, <2>1
  <2>3. p \in TornAfter' <=> ~IsLastCell(file[p])'
                                /\ file'[p + 1] # <<file'[p][1], file'[p][2] + 1>>
    BY <1>5, <2>1 DEF TornAfter
  <2>4. p \in TornAfter <=> ~IsLastCell(file[p])
                               /\ file[p + 1] # <<file[p][1], file[p][2] + 1>>
    BY <1>1, <2>1 DEF TornAfter
  <2> QED
    BY <1>5, <2>2, <2>3, <2>4
<1>7. TornAfter \subseteq 1..Len(file) /\ TornAfter' \subseteq 1..Len(file')
  BY <1>1, <1>2 DEF TornAfter
<1>8. ASSUME NEW q \in 0..Len(file) PROVE Sound(q)' <=> Sound(q)
  <2>1. Sound(q) <=> \A p \in TornAfter : q <= p
    BY DEF Sound
  <2>2. Sound(q)' <=> \A p \in TornAfter' : q <= p
    BY DEF Sound
  <2>3. ASSUME Sound(q)', NEW p \in TornAfter PROVE q <= p
    <3>1. CASE p < Len(file)
      BY <1>6, <1>7, <2>2, <2>3, <3>1
    <3>2. CASE ~(p < Len(file))
      BY <1>1, <1>7, <3>2
    <3> QED
      BY <3>1, <3>2
  <2>4. ASSUME Sound(q), NEW p \in TornAfter' PROVE q <= p
    <3>1. CASE p < Len(file)
      <4>1. p \in 1..Len(file)
        BY <1>1, <1>2, <1>7, <3>1
      <4> QED
        BY <1>6, <2>1, <2>4, <3>1, <4>1
    <3>2. CASE ~(p < Len(file))
      BY <1>1, <1>2, <1>7, <3>2
    <3> QED
      BY <3>1, <3>2
  <2> QED
    BY <2>1, <2>2, <2>3, <2>4
<1>9. ASSUME NEW q \in 0..Len(file) PROVE Ended(q)' = Ended(q)
  <2>1. \A p \in DOMAIN file' : p <= q => p \in 1..Len(file)
    BY <1>1, <1>2
  <2> QED
    BY <1>1, <1>5, <2>1 DEF Ended
<1>10. Readable \subseteq Readable'
  <2>1. \A p \in DOMAIN file : p \in 0..Len(file) /\ p \in 1..Len(file)
    BY <1>1
  <2> QED
    BY <1>5, <1>8, <2>1 DEF Readable
<1>11. ASSUME NEW r \in Readable', r \notin Readable
       PROVE  \E e \in DOMAIN file' : /\ e > Len(file) /\ Sound(e)' /\ file'[e][1] = r
  <2>1. PICK e \in DOMAIN file' : Sound(e)' /\ IsLastCell(file[e])' /\ file'[e][1] = r
    BY DEF Readable
  <2>2. ASSUME e <= Len(file) PROVE FALSE
    <3>1. e \in 1..Len(file) /\ e \in 0..Len(file)
      BY <1>1, <1>2, <2>2
    <3>2. Sound(e) /\ IsLastCell(file[e]) /\ file[e][1] = r
      BY <1>5, <1>8, <2>1, <3>1
    <3> QED
      BY <1>1, <1>11, <3>1, <3>2 DEF Readable
  <2> QED
    BY <1>1, <1>2, <2>1, <2>2
<1>12. ASSUME NEW r \in Readable', NEW s \in Readable, r \notin Readable PROVE s < r
  <2>1. PICK e \in DOMAIN file' : e > Len(file) /\ file'[e][1] = r
    BY <1>11, <1>12
  <2>2. PICK p \in DOMAIN file : IsLastCell(file[p]) /\ file[p][1] = s
    BY DEF Readable
  <2>3. p \in DOMAIN file' /\ file'[p] = file[p] /\ p < e
    BY <1>1, <1>2, <1>5, <2>1
  <2>4. Before(file'[p], file'[e])
    BY <1>3, <2>3 DEF WellFormed
  <2>5. /\ file'[e][1] \in DOMAIN spansOf' /\ file'[e][2] \in Nat
        /\ file'[e][2] <= RecordCells(spansOf'[file'[e][1]])
    BY <1>3 DEF WellFormed
  <2>6. s \in Records /\ spansOf'[s] = spansOf[s] /\ Size(s) \in Nat
    BY <1>1, <1>4, <2>2, FileCells
  <2>7. file'[p][1] = s /\ file'[p][2] = Size(s)
    BY <2>2, <2>3 DEF IsLastCell, Size
  <2>8. CASE s = r /\ Size(s) < file'[e][2]
    <3>1. file'[e][2] <= Size(s)
      BY <2>1, <2>5, <2>6, <2>8 DEF Size
    <3> QED
      BY <2>5, <2>6, <2>8, <3>1
  <2> QED
    BY <2>1, <2>4, <2>7, <2>8 DEF Before
<1>13. ASSUME TornInside # {} PROVE TornInside' # {} /\ Readable' = Readable
  <2>1. PICK t \in TornInside : TRUE
    BY <1>13
  <2>2. t \in TornAfter /\ t \in 1..Len(file) /\ t < Len(file)
    <3>1. t \in TornAfter /\ t # Len(file)
      BY DEF TornInside
    <3>2. t \in 1..Len(file)
      BY <1>7, <3>1
    <3>3. t < Len(file)
      <4>1. Len(file) \in Nat
        BY <1>1
      <4> QED
        BY <3>1, <3>2, <4>1
    <3> QED
      BY <3>1, <3>2, <3>3
  <2>3. t \in TornAfter' /\ t # Len(file')
    <3>1. t \in TornAfter'
      BY <1>6, <2>2
    <3>2. PICK l \in Nat, m \in Nat : l = Len(file) /\ m = Len(file') /\ l <= m
      BY <1>1, <1>2, <1>4
    <3>3. t \in 1..l /\ t < l
      BY <2>2, <3>2
    <3>4. t # m
      BY <3>2, <3>3
    <3> QED
      BY <3>1, <3>2, <3>4
  <2>4. TornInside' # {}
    BY <2>3 DEF TornInside
  <2>5. ASSUME NEW r \in Readable' PROVE r \in Readable
    <3>1. SUFFICES ASSUME r \notin Readable PROVE FALSE
      OBVIOUS
    <3>2. PICK e \in DOMAIN file' : e > Len(file) /\ Sound(e)'
      BY <1>11, <3>1
    <3>3. e <= t
      BY <2>3, <3>2 DEF Sound
    <3> QED
      BY <1>1, <1>2, <2>2, <3>2, <3>3
  <2> QED
    BY <1>10, <2>4, <2>5
<1> QED
  BY <1>5, <1>8, <1>9, <1>10, <1>12, <1>13

-----------------------------------------------------------------------------
(* The reader while the writer is at work. *)

\* A prefix of the traces loaded is in order whatever later records become
\* readable.
LEMMA OrderKept ==
  ASSUME TypeOK, LogInv, WriterKept, UNCHANGED readerVars,
         NEW n \in 0..Len(loaded), InOrder(n)
  PROVE  InOrder(n)' /\ LoadedTids(n)' = LoadedTids(n)
<1>1. loaded' = loaded
  BY DEF readerVars
<1>2. \A m : LoadedTids(m)' = LoadedTids(m)
  BY <1>1 DEF LoadedTids
<1>3. ASSUME NEW i \in 1..n
      PROVE  /\ loaded[i].tid \in Readable'
             /\ loaded[i] = Image(loaded[i].tid)'
             /\ {r \in Readable' : r < loaded[i].tid} = LoadedTids(i - 1)
  <2> DEFINE t == loaded[i].tid
  <2>1. /\ t \in Readable /\ loaded[i] = Image(t)
        /\ {r \in Readable : r < t} = LoadedTids(i - 1)
    BY DEF InOrder
  <2>2. t \in Records /\ t \in Nat /\ spansOf'[t] = spansOf[t]
    BY <2>1, ReadableRecords DEF WriterKept, Grows
  <2>3. Image(t)' = Image(t)
    BY <1>1, <2>2 DEF Image
  <2>4. /\ Readable \subseteq Readable'
        /\ \A r \in Readable', s \in Readable : r \notin Readable => s < r
    BY Grown
  <2>5. Readable \subseteq Nat
    BY ReadableRecords
  <2> HIDE DEF t
  <2>6. ASSUME NEW r \in Readable', r < t PROVE r \in Readable
    <3>1. SUFFICES ASSUME r \notin Readable PROVE FALSE
      OBVIOUS
    <3>2. t < r
      BY <2>1, <2>4, <3>1
    <3>3. t < r /\ r < t => FALSE
      <4>1. r \in Nat
        <5>1. file' \in Seq(Cells') /\ Records' \subseteq Nat
          BY LenProperties DEF WriterKept, WriterTypes, Records
        <5>2. \A p \in DOMAIN file' : file'[p] \in Cells'
          BY <5>1, LenProperties
        <5>3. \A c \in Cells' : c[1] \in Nat
          BY <5>1 DEF Cells
        <5> QED
          BY <5>2, <5>3 DEF Readable
      <4> QED
        BY <2>2, <4>1
    <3> QED
      BY <2>6, <3>2, <3>3
  <2>7. {r \in Readable' : r < t} = {r \in Readable : r < t}
    BY <2>4, <2>6
  <2>8. loaded[i] = Image(t)'
    BY <2>1, <2>3
  <2>9. loaded[i] = Image(loaded[i].tid)'
    BY <2>8 DEF t
  <2> QED
    BY <2>1, <2>4, <2>7, <2>9 DEF t
<1>4. InOrder(n)'
  BY <1>1, <1>2, <1>3 DEF InOrder
<1> QED
  BY <1>2, <1>4

\* The reader's variables keep their types.
LEMMA ReaderTypesKept ==
  ASSUME TypeOK, LogInv, WriterKept, UNCHANGED readerVars
  PROVE  ReaderTypes'
<1>1. /\ rPc' = rPc /\ rOff' = rOff /\ rTid' = rTid /\ rLeft' = rLeft
      /\ rLen' = rLen /\ rSpans' = rSpans /\ loaded' = loaded
      /\ rStatus' = rStatus /\ rFault' = rFault /\ rBase' = rBase
  BY DEF readerVars
<1>2. Records \subseteq Records'
  BY DEF WriterKept, Grows
<1>3. rOff' \in 0..Len(file')
  <2>1. /\ rOff \in 0..Len(file) /\ Len(file) \in Nat /\ Len(file') \in Nat
        /\ Len(file) <= Len(file')
    BY Types, LenProperties DEF TypeOK, WriterKept, WriterTypes, Grows
  <2>2. PICK l \in Nat, m \in Nat : l = Len(file) /\ m = Len(file') /\ l <= m
    BY <2>1
  <2>3. rOff \in 0..m
    BY <2>1, <2>2
  <2> QED
    BY <1>1, <2>2, <2>3
<1>4. SpanValues \subseteq SpanValues'
  BY <1>2 DEF SpanValues
<1>5. rSpans \in Seq(SpanValues')
  BY <1>4, SeqMonotonic DEF TypeOK
<1>6. loaded \in Seq(Traces')
  <2>1. \A s \in Seq(SpanValues) : s \in Seq(SpanValues')
    BY <1>4, SeqMonotonic
  <2>2. Traces \subseteq Traces'
    BY <1>2, <2>1 DEF Traces
  <2> QED
    BY <2>2, SeqMonotonic DEF TypeOK
<1>7. /\ rPc \in {"idle", "tid", "num", "len", "span", "stopped"}
      /\ rTid \in Records' \union {Garbage} /\ rLeft \in 0..MaxSpansRead
      /\ rLen \in 0..SpanCells + 1 /\ rFault \in BOOLEAN
      /\ rStatus \in {"OK", "EOF", "CORRUPT", "IO_ERROR"}
      /\ rBase \subseteq Records'
  BY <1>2 DEF TypeOK
<1> QED
  BY <1>1, <1>3, <1>5, <1>6, <1>7 DEF ReaderTypes

\* A reader in step stays so.
LEMMA InStepKept ==
  ASSUME TypeOK, LogInv, WriterKept, UNCHANGED readerVars, Reading, InStep
  PROVE  InStep'
<1>1. /\ rPc' = rPc /\ rOff' = rOff /\ rTid' = rTid /\ rLeft' = rLeft
      /\ rLen' = rLen /\ rSpans' = rSpans /\ loaded' = loaded
  BY DEF readerVars
<1>2. /\ rOff \in 0..Len(file) /\ Len(file) \in Nat /\ DOMAIN file = 1..Len(file)
      /\ Len(loaded) \in 0..Len(loaded)
  <2>1. Len(loaded) \in Nat
    BY LenProperties DEF TypeOK
  <2> QED
    BY <2>1, Types DEF TypeOK
<1>3. Sound(rOff)'
  <2>1. \A q \in 0..Len(file) : Sound(q)' <=> Sound(q)
    BY Grown
  <2>2. Sound(rOff)' <=> \A t \in TornAfter' : rOff <= t
    BY <1>1 DEF Sound
  <2>3. PICK q \in 0..Len(file) : q = rOff
    BY <1>2
  <2>4. Sound(q) /\ Sound(q)'
    BY <2>1, <2>3 DEF InStep
  <2> QED
    BY <2>2, <2>3, <2>4 DEF Sound
<1>4. Ended(rOff)' = Ended(rOff)
  <2>1. PICK q \in 0..Len(file) : q = rOff
    BY <1>2
  <2>2. Ended(q)' = Ended(q)
    BY Grown
  <2>3. Ended(rOff)' = Ended(q)' /\ Ended(rOff) = Ended(q)
    BY <1>1, <2>1 DEF Ended
  <2> QED
    BY <2>2, <2>3
<1>5. InOrder(Len(loaded))' /\ LoadedTids(Len(loaded))' = LoadedTids(Len(loaded))
  <2>1. PICK n \in 0..Len(loaded) : n = Len(loaded)
    BY <1>2
  <2>2. InOrder(n)' /\ LoadedTids(n)' = LoadedTids(n)
    BY <2>1, OrderKept DEF InStep
  <2> QED
    BY <1>1, <2>1, <2>2 DEF InOrder, LoadedTids
<1>6. Position'
  <2>1. ASSUME rOff \in DOMAIN file
        PROVE  /\ rOff' \in DOMAIN file' /\ file'[rOff'] = file[rOff]
               /\ IsLastCell(file[rOff]) => IsLastCell(file[rOff])'
    <3>1. PICK q \in 1..Len(file) : q = rOff
      BY <1>2, <2>1
    <3>2. q \in DOMAIN file' /\ file'[q] = file[q]
          /\ (IsLastCell(file[q])' <=> IsLastCell(file[q]))
      BY Grown
    <3> QED
      BY <1>1, <3>1, <3>2 DEF IsLastCell
  <2>2. ASSUME NEW k, HasRead(k)
        PROVE  /\ rOff' \in DOMAIN file' /\ file'[rOff'] = <<rTid', k>>
               /\ rTid' \in Records' /\ spansOf'[rTid'] = spansOf[rTid]
    BY <1>1, <2>1, <2>2 DEF HasRead, WriterKept, Grows
  <2>3. CASE rPc = "tid"
    BY <1>1, <2>1, <2>3 DEF InStep, Position
  <2>4. CASE rPc = "num"
    <3>1. HasRead(NumAt) /\ rSpans = <<>>
      BY <2>4 DEF InStep, Position
    <3>2. rOff' \in DOMAIN file' /\ file'[rOff'] = <<rTid', NumAt>> /\ rTid' \in Records'
      BY <2>2, <3>1
    <3> QED
      BY <1>1, <2>4, <3>1, <3>2 DEF Position, HasRead
  <2>5. CASE rPc = "len"
    <3> DEFINE k == LenAt(Len(rSpans) + 1)
    <3>1. HasRead(k) /\ SpansRead
      BY <2>5 DEF InStep, Position
    <3>2. /\ rOff' \in DOMAIN file' /\ file'[rOff'] = <<rTid', k>>
          /\ rTid' \in Records' /\ spansOf'[rTid'] = spansOf[rTid]
      BY <2>2, <3>1
    <3>3. SpansRead'
      BY <1>1, <3>1, <3>2 DEF SpansRead
    <3> QED
      BY <1>1, <2>5, <3>2, <3>3 DEF Position, HasRead
  <2>6. CASE rPc = "span"
    <3> DEFINE k == SpanAt(Len(rSpans) + 1)
    <3>1. HasRead(k) /\ SpansRead /\ rLen = SpanCells
      BY <2>6 DEF InStep, Position
    <3>2. /\ rOff' \in DOMAIN file' /\ file'[rOff'] = <<rTid', k>>
          /\ rTid' \in Records' /\ spansOf'[rTid'] = spansOf[rTid]
      BY <2>2, <3>1
    <3>3. SpansRead'
      BY <1>1, <3>1, <3>2 DEF SpansRead
    <3> QED
      BY <1>1, <2>6, <3>1, <3>2, <3>3 DEF Position, HasRead
  <2> QED
    BY <2>3, <2>4, <2>5, <2>6 DEF Reading
<1> QED
  BY <1>1, <1>3, <1>4, <1>5, <1>6 DEF InStep

\* Past a tear there is one inside the file.
LEMMA TornBehind ==
  ASSUME TypeOK, NEW q \in 0..Len(file), ~Sound(q)
  PROVE  TornInside # {}
<1>1. PICK t \in TornAfter : ~(q <= t)
  BY DEF Sound
<1>2. t \in 1..Len(file) /\ Len(file) \in Nat
  BY Types DEF TornAfter
<1>3. t # Len(file)
  BY <1>1, <1>2
<1> QED
  BY <1>3 DEF TornInside

\* What the reader has and knows outlasts whatever the writer does.
LEMMA WriterReader ==
  ASSUME StorageInv, WriterKept, UNCHANGED readerVars
  PROVE  ReaderInv'
<1> TypeOK /\ LogInv /\ ReaderInv
  BY DEF StorageInv
<1>1. /\ rPc' = rPc /\ rOff' = rOff /\ loaded' = loaded /\ rBase' = rBase
      /\ rFault' = rFault /\ rSpans' = rSpans
  BY DEF readerVars
<1>2. /\ Readable \subseteq Readable'
      /\ TornInside # {} => TornInside' # {} /\ Readable' = Readable
  BY Grown
<1>3. SoundPrefixLoaded'
  <2>1. PICK n \in 0..Len(loaded) :
          /\ InOrder(n)
          /\ n < Len(loaded) => TornInside # {} /\ LoadedTids(n) = Readable
    BY DEF ReaderInv, SoundPrefixLoaded
  <2>2. InOrder(n)' /\ LoadedTids(n)' = LoadedTids(n)
    BY <2>1, OrderKept
  <2>3. n < Len(loaded) => TornInside' # {} /\ LoadedTids(n)' = Readable'
    BY <1>2, <2>1, <2>2
  <2> QED
    BY <1>1, <2>2, <2>3 DEF SoundPrefixLoaded
<1>4. NothingSkipped'
  <2>1. ASSUME NEW r \in rBase PROVE Image(r)' = Image(r)
    <3>1. r \in Records /\ spansOf'[r] = spansOf[r]
      BY DEF TypeOK, WriterKept, Grows
    <3> QED
      BY <3>1 DEF Image
  <2>2. NothingSkipped
    BY DEF ReaderInv
  <2>3. ASSUME NEW r \in rBase, WithinLimit(r)' PROVE WithinLimit(r)
    <3>1. Readable \subseteq Readable' /\ Readable \subseteq Records
      BY <1>2, ReadableRecords
    <3>2. \A s \in Records : spansOf'[s] = spansOf[s]
      BY DEF WriterKept, Grows
    <3> QED
      BY <2>3, <3>1, <3>2 DEF WithinLimit
  <2> QED
    BY <1>1, <2>1, <2>2, <2>3 DEF NothingSkipped
<1>5. Past => Past'
  <2>1. SUFFICES ASSUME Past PROVE Past'
    OBVIOUS
  <2>2. rOff \in 0..Len(file)
    BY DEF TypeOK
  <2>3. PICK q \in 0..Len(file) : q = rOff
    BY <2>2
  <2>4. ~Sound(q) /\ ~Sound(q)'
    BY <2>1, <2>3, Grown DEF Past
  <2>5. ~Sound(rOff)'
    BY <1>1, <2>3, <2>4 DEF Sound
  <2>6. TornInside # {}
    BY <2>4, TornBehind
  <2>7. PICK n \in 0..Len(loaded) : InOrder(n) /\ LoadedTids(n) = Readable
    BY <2>1 DEF Past
  <2>8. InOrder(n)' /\ LoadedTids(n)' = LoadedTids(n)
    BY <2>7, OrderKept
  <2>9. LoadedTids(n)' = Readable'
    BY <1>2, <2>6, <2>7, <2>8
  <2> QED
    BY <1>1, <2>5, <2>8, <2>9 DEF Past
<1>6. Reading' => rBase' \subseteq Readable' /\ (InStep' \/ Past')
  <2>1. Reading' <=> Reading
    BY <1>1 DEF Reading
  <2> QED
    BY <1>1, <1>2, <1>5, <2>1, InStepKept DEF ReaderInv
<1>7. rPc' = "idle" => rOff' = 0 /\ rSpans' = <<>> /\ loaded' = <<>>
  BY <1>1 DEF ReaderInv
<1> QED
  BY <1>3, <1>4, <1>6, <1>7 DEF ReaderInv

-----------------------------------------------------------------------------
(* The reader's steps. *)

\* All that can be read has been loaded, before anything else.
Done == \E n \in 0..Len(loaded) : InOrder(n) /\ LoadedTids(n) = Readable

\* The next k cells are not all there, or one before the last of them is
\* followed by a tear.
Torn(k) == ~(rOff + k <= Len(file) /\ Sound(rOff + k))

\* A step of the reader leaves what the file holds as it is.
LEMMA ReaderFrame ==
  ASSUME UNCHANGED writerVars
  PROVE  /\ file' = file /\ spansOf' = spansOf /\ Records' = Records
         /\ Readable' = Readable /\ TornInside' = TornInside
         /\ SpanValues' = SpanValues /\ Traces' = Traces
         /\ \A q : (Sound(q)' <=> Sound(q)) /\ Ended(q)' = Ended(q)
         /\ \A r : Image(r)' = Image(r)
<1>1. file' = file /\ spansOf' = spansOf
  BY DEF writerVars
<1>2. Records' = Records
  BY <1>1 DEF Records
<1>3. \A p : IsLastCell(file[p])' <=> IsLastCell(file[p])
  BY <1>1 DEF IsLastCell
<1>4. TornAfter' = TornAfter
  BY <1>1, <1>3 DEF TornAfter
<1>5. TornInside' = TornInside
  BY <1>1, <1>4 DEF TornInside
<1>6. ASSUME NEW q PROVE (Sound(q)' <=> Sound(q)) /\ Ended(q)' = Ended(q)
  <2>1. Sound(q)' <=> Sound(q)
    BY <1>4 DEF Sound
  <2>2. Ended(q)' = Ended(q)
    BY <1>1, <1>3 DEF Ended
  <2> QED
    BY <2>1, <2>2
<1>7. Readable' = Readable
  BY <1>1, <1>3, <1>6 DEF Readable
<1>8. \A r : Image(r)' = Image(r)
  BY <1>1 DEF Image
<1>9. SpanValues' = SpanValues
  BY <1>2 DEF SpanValues
<1>10. Traces' = Traces
  BY <1>2, <1>9 DEF Traces
<1> QED
  BY <1>1, <1>2, <1>5, <1>6, <1>7, <1>8, <1>9, <1>10

\* Nor does it disturb the traces it has loaded.
LEMMA OrderFrame ==
  ASSUME UNCHANGED writerVars, NEW n \in Nat,
         \A i \in 1..n : loaded'[i] = loaded[i], InOrder(n)
  PROVE  InOrder(n)' /\ LoadedTids(n)' = LoadedTids(n)
<1>1. \A m \in 0..n : LoadedTids(m)' = LoadedTids(m)
  <2> TAKE m \in 0..n
  <2>1. \A i \in 1..m : i \in 1..n
    OBVIOUS
  <2> QED
    BY <2>1 DEF LoadedTids
<1>2. ASSUME NEW i \in 1..n
      PROVE  /\ loaded'[i].tid \in Readable'
             /\ loaded'[i] = Image(loaded[i].tid)'
             /\ {r \in Readable' : r < loaded'[i].tid} = LoadedTids(i - 1)'
  <2>1. i - 1 \in 0..n /\ loaded'[i] = loaded[i]
    OBVIOUS
  <2> DEFINE x == loaded[i]
  <2>2. /\ x.tid \in Readable /\ x = Image(x.tid)
        /\ {r \in Readable : r < x.tid} = LoadedTids(i - 1)
    BY DEF InOrder
  <2>3. LoadedTids(i - 1)' = LoadedTids(i - 1)
    BY <1>1, <2>1
  <2>4. Readable' = Readable /\ Image(x.tid)' = Image(x.tid)
    BY <2>1, ReaderFrame DEF Image
  <2>5. x = loaded'[i]
    BY <2>1
  <2>6. Image(loaded[i].tid)' = Image(x.tid)
    BY <2>1, ReaderFrame DEF Image
  <2> QED
    BY <2>2, <2>3, <2>4, <2>5, <2>6
<1>3. InOrder(n)'
  BY <1>2 DEF InOrder
<1>4. LoadedTids(n)' = LoadedTids(n)
  BY <1>1
<1> QED
  BY <1>3, <1>4

\* What can be read up to a record with too many spans has been loaded.
Enough ==
    \A r \in Readable : WithinLimit(r) =>
        \E n \in 0..Len(loaded) : InOrder(n) /\ r \in LoadedTids(n)

\* The reader stops, having loaded all that can be read unless it failed.
LEMMA Stopped ==
  ASSUME StorageInv, Reading, UNCHANGED writerVars,
         NEW status \in {"EOF", "CORRUPT", "IO_ERROR"}, Stop(status),
         loaded' = loaded, rBase' = rBase, rFault' \in BOOLEAN,
         rOff' \in 0..Len(file), rFault' \/ Done \/ Enough
  PROVE  ReaderTypes' /\ ReaderInv'
<1> TypeOK /\ LogInv /\ ReaderInv
  BY DEF StorageInv
<1>1. /\ rPc' = "stopped" /\ rStatus' = status /\ rTid' = Garbage /\ rLeft' = 0
      /\ rLen' = 0 /\ rSpans' = <<>>
  BY DEF Stop
<1>2. Len(loaded) \in Nat
  BY LenProperties DEF TypeOK
<1>3. ReaderTypes'
  <2>1. <<>> \in Seq(SpanValues) /\ loaded \in Seq(Traces) /\ rBase \subseteq Records
    BY EmptySeq DEF TypeOK
  <2>2. /\ SpanValues' = SpanValues /\ Traces' = Traces /\ Records' = Records
        /\ file' = file
    BY ReaderFrame
  <2>3. 0 \in 0..MaxSpansRead /\ 0 \in 0..SpanCells + 1
    BY StorageConstants
  <2> QED
    BY <1>1, <2>1, <2>2, <2>3 DEF ReaderTypes
<1>4. SoundPrefixLoaded'
  <2>1. PICK n \in 0..Len(loaded) :
          /\ InOrder(n)
          /\ n < Len(loaded) => TornInside # {} /\ LoadedTids(n) = Readable
    BY DEF ReaderInv, SoundPrefixLoaded
  <2>2. InOrder(n)' /\ LoadedTids(n)' = LoadedTids(n)
    BY <1>2, <2>1, OrderFrame
  <2>3. n < Len(loaded) => TornInside' # {} /\ LoadedTids(n)' = Readable'
    BY <2>1, <2>2, ReaderFrame
  <2> QED
    BY <2>2, <2>3 DEF SoundPrefixLoaded
<1>5. ASSUME ~rFault', NEW r \in rBase, WithinLimit(r)
      PROVE  \E i \in DOMAIN loaded : loaded[i] = Image(r)
  <2>1. r \in Readable
    BY DEF ReaderInv
  <2>2. PICK n \in 0..Len(loaded) : InOrder(n) /\ r \in LoadedTids(n)
    BY <1>5, <2>1 DEF Done, Enough
  <2>3. PICK i \in 1..n : loaded[i].tid = r
    BY <2>2 DEF LoadedTids
  <2>4. loaded[i] = Image(r)
    BY <2>2, <2>3 DEF InOrder
  <2>5. i \in DOMAIN loaded
    <3>1. DOMAIN loaded = 1..Len(loaded)
      BY LenProperties DEF TypeOK
    <3> QED
      BY <1>2, <3>1
  <2> QED
    BY <2>4, <2>5
<1>6. NothingSkipped'
  <2>1. ASSUME ~rFault', NEW r \in rBase', WithinLimit(r)'
        PROVE  \E i \in DOMAIN loaded' : loaded'[i] = Image(r)'
    <3>1. WithinLimit(r)
      BY <2>1, ReaderFrame DEF WithinLimit
    <3> QED
      BY <1>5, <2>1, <3>1, ReaderFrame
  <2> QED
    BY <2>1 DEF NothingSkipped
<1> QED
  BY <1>1, <1>3, <1>4, <1>6 DEF ReaderInv, Reading

\* The reader goes on past a tear, having loaded all that can be read.
LEMMA WentPast ==
  ASSUME StorageInv, Reading, UNCHANGED writerVars, Done,
         rPc' \in {"tid", "num", "len", "span"},
         rOff' \in 0..Len(file), ~Sound(rOff'), rBase' = rBase,
         \/ loaded' = loaded
         \/ \E x \in Traces : loaded' = Append(loaded, x)
  PROVE  ReaderInv'
<1> TypeOK /\ LogInv /\ ReaderInv
  BY DEF StorageInv
<1>1. Len(loaded) \in Nat /\ loaded \in Seq(Traces)
  BY LenProperties DEF TypeOK
<1>2. /\ Len(loaded') \in Nat /\ Len(loaded) <= Len(loaded')
      /\ \A i \in 1..Len(loaded) : loaded'[i] = loaded[i]
  <2>1. CASE loaded' = loaded
    BY <1>1, <2>1
  <2>2. ASSUME NEW x \in Traces, loaded' = Append(loaded, x)
        PROVE  /\ Len(loaded') = Len(loaded) + 1
               /\ \A i \in 1..Len(loaded) : loaded'[i] = loaded[i]
    BY <1>1, <2>2, AppendProperties
  <2> QED
    BY <1>1, <2>1, <2>2
<1>3. PICK n \in 0..Len(loaded) : InOrder(n) /\ LoadedTids(n) = Readable
  BY DEF Done
<1>4. InOrder(n)' /\ LoadedTids(n)' = Readable' /\ n \in 0..Len(loaded')
  <2>1. n \in Nat /\ \A i \in 1..n : loaded'[i] = loaded[i]
    BY <1>1, <1>2
  <2>2. InOrder(n)' /\ LoadedTids(n)' = LoadedTids(n)
    BY <1>3, <2>1, OrderFrame
  <2>3. n \in 0..Len(loaded')
    <3>1. PICK l \in Nat, m \in Nat : l = Len(loaded) /\ m = Len(loaded') /\ l <= m
      BY <1>1, <1>2
    <3>2. n \in 0..m
      BY <3>1
    <3> QED
      BY <3>1, <3>2
  <2> QED
    BY <1>3, <2>2, <2>3, ReaderFrame
<1>5. TornInside' # {} /\ ~Sound(rOff)'
  <2>1. PICK q \in 0..Len(file) : q = rOff'
    OBVIOUS
  <2>2. ~Sound(q)
    BY <2>1
  <2>3. TornInside # {}
    BY <2>2, TornBehind
  <2>4. ~Sound(q)'
    BY <2>2, ReaderFrame
  <2>5. Sound(rOff)' <=> Sound(q)'
    BY <2>1 DEF Sound
  <2> QED
    BY <2>3, <2>4, <2>5, ReaderFrame
<1>6. SoundPrefixLoaded' /\ Past'
  BY <1>4, <1>5 DEF SoundPrefixLoaded, Past
<1>7. NothingSkipped' /\ rPc' # "idle"
  BY DEF NothingSkipped
<1>8. rBase' \subseteq Readable'
  BY ReaderFrame DEF ReaderInv
<1> QED
  BY <1>6, <1>7, <1>8 DEF ReaderInv

\* The cells of a record are those of no other, and of no other place in it.
LEMMA WhoseCells ==
  ASSUME NEW r \in Nat, NEW i \in Nat, NEW k \in Nat \ {0}
  PROVE  /\ Len(Run(r, i, k)) = k
         /\ \A s, skip \in Nat :
               AreCells(Run(r, i, k), s, skip) <=> s = r /\ skip = i
<1> DEFINE w == Run(r, i, k)
<1>w. w = [l \in 1..k |-> <<r, i + l>>]
  BY DEF Run
<1> HIDE DEF w
<1>1. Len(w) = k
  <2>1. w \in [1..k -> Pairs]
    BY <1>w DEF Pairs
  <2>2. w \in Seq(Pairs)
    BY <2>1, SeqDef
  <2>3. DOMAIN w = 1..k /\ DOMAIN w = 1..Len(w) /\ Len(w) \in Nat
    BY <2>1, <2>2, LenProperties
  <2> QED
    BY <2>3
<1>2. ASSUME NEW s \in Nat, NEW skip \in Nat, AreCells(w, s, skip)
      PROVE  s = r /\ skip = i
  <2>1. w = [l \in 1..k |-> <<s, skip + l>>]
    BY <1>1, <1>2 DEF AreCells
  <2>2. w[1] = <<s, skip + 1>> /\ w[1] = <<r, i + 1>>
    BY <1>w, <2>1
  <2> QED
    BY <2>2
<1>3. AreCells(w, r, i)
  BY <1>1, <1>w DEF AreCells
<1> QED
  BY <1>1, <1>2, <1>3 DEF w

\* The next field of the record being read is there, or there is nothing
\* more to be read.
LEMMA KnownField ==
  ASSUME StorageInv, InStep, NEW i \in Nat, HasRead(i), NEW k \in Nat \ {0},
         i + k <= Size(rTid)
  PROVE  \/ Torn(k) /\ Done
         \/ /\ ~Torn(k) /\ rOff + k \in 1..Len(file)
            /\ Window(k) = Run(rTid, i, k)
            /\ file[rOff + k] = <<rTid, i + k>>
            /\ i + k < Size(rTid) => Ended(rOff + k) = Ended(rOff)
            /\ i + k = Size(rTid) => Ended(rOff + k) = Ended(rOff) \union {rTid}
<1> TypeOK /\ LogInv /\ ReaderInv
  BY DEF StorageInv
<1>1. /\ rOff \in 1..Len(file) /\ rTid \in Records /\ file[rOff] = <<rTid, i>>
      /\ Len(file) \in Nat /\ DOMAIN file = 1..Len(file) /\ Size(rTid) \in Nat
  BY Types, FileCells DEF HasRead
<1>2. Ahead(rOff, rTid, i)
  <2>1. ASSUME rOff + 1 <= Len(file), Sound(rOff + 1)
        PROVE  file[rOff + 1] = <<rTid, i + 1>>
    <3>1. ~IsLastCell(file[rOff])
      BY <1>1 DEF IsLastCell, Size
    <3>2. rOff \notin TornAfter
      <4>1. ~(rOff + 1 <= rOff)
        BY <1>1
      <4> QED
        BY <2>1, <4>1 DEF Sound
    <3>3. rOff # Len(file) /\ rOff \in DOMAIN file
      <4>1. rOff + 1 <= Len(file)
        BY <2>1
      <4>2. rOff \in 1..Len(file) /\ Len(file) \in Nat
        BY <1>1
      <4>3. rOff # Len(file)
        BY <4>1, <4>2
      <4> QED
        BY <1>1, <4>3
    <3>4. file[rOff + 1] = <<file[rOff][1], file[rOff][2] + 1>>
      BY <3>1, <3>2, <3>3 DEF TornAfter
    <3> QED
      BY <1>1, <3>4
  <2>2. rOff \in 0..Len(file) /\ Sound(rOff)
    BY <1>1 DEF InStep
  <2> QED
    BY <1>1, <2>1, <2>2 DEF Ahead
<1>3. CASE Torn(k)
  <2>1. Readable = Ended(rOff)
    BY <1>2, <1>3, FieldTorn DEF Torn
  <2>2. Len(loaded) \in 0..Len(loaded)
    BY LenProperties DEF TypeOK
  <2> QED
    BY <1>3, <2>1, <2>2 DEF Done, InStep
<1>4. CASE ~Torn(k)
  <2>1. rOff + k <= Len(file) /\ Sound(rOff + k)
    BY <1>4 DEF Torn
  <2>2. /\ SubSeq(file, rOff + 1, rOff + k) = Run(rTid, i, k)
        /\ rOff + k \in 1..Len(file) /\ file[rOff + k] = <<rTid, i + k>>
        /\ i + k < Size(rTid) => Ended(rOff + k) = Ended(rOff)
        /\ i + k = Size(rTid) => Ended(rOff + k) = Ended(rOff) \union {rTid}
    <3> DEFINE p == rOff
               r == rTid
    <3>1. Ahead(p, r, i) /\ p + k <= Len(file) /\ Sound(p + k) /\ i + k <= Size(r)
      BY <1>2, <2>1
    <3> HIDE DEF p, r
    <3>2. /\ SubSeq(file, p + 1, p + k) = Run(r, i, k)
          /\ p + k \in 1..Len(file) /\ file[p + k] = <<r, i + k>>
          /\ i + k < Size(r) => Ended(p + k) = Ended(p)
          /\ i + k = Size(r) => Ended(p + k) = Ended(p) \union {r}
      BY <3>1, FieldThere
    <3> QED
      BY <3>2 DEF p, r
  <2> QED
    BY <1>4, <2>2 DEF Window
<1> QED
  BY <1>3, <1>4

\* Where a record may begin, the trace id of one is there, or there is
\* nothing more to be read.
LEMMA TidField ==
  ASSUME StorageInv, InStep, rPc = "tid"
  PROVE  \/ Torn(TidCells) /\ Done
         \/ /\ ~Torn(TidCells) /\ rOff + TidCells \in 1..Len(file)
            /\ \E r \in Records :
                  /\ Window(TidCells) = Run(r, 0, TidCells)
                  /\ file[rOff + TidCells] = <<r, TidCells>>
                  /\ Ended(rOff + TidCells) = Ended(rOff)
<1> TypeOK /\ LogInv /\ ReaderInv
  BY DEF StorageInv
<1> DEFINE p == rOff
           k == TidCells
<1>1. /\ p \in 0..Len(file) /\ Len(file) \in Nat /\ k \in Nat \ {0} /\ Sound(p)
      /\ p = 0 \/ (p \in DOMAIN file /\ IsLastCell(file[p]))
      /\ Len(loaded) \in 0..Len(loaded)
  <2>1. Len(loaded) \in Nat
    BY LenProperties DEF TypeOK
  <2>2. p \in 0..Len(file) /\ Len(file) \in Nat
    BY Types DEF TypeOK
  <2>3. /\ Sound(p)
        /\ p = 0 \/ (p \in DOMAIN file /\ IsLastCell(file[p]))
    BY DEF InStep, Position
  <2> QED
    BY <2>1, <2>2, <2>3, StorageConstants
<1>2. DOMAIN file = 1..Len(file)
  BY Types
<1>3. Readable = Ended(p) => Done
  BY <1>1 DEF Done, InStep
<1> HIDE DEF p, k
<1>4. CASE p = Len(file)
  <2>1. ~(p + k <= Len(file))
    BY <1>1, <1>4
  <2>2. ASSUME NEW e \in DOMAIN file PROVE e <= p /\ Sound(e)
    <3>1. e \in Nat /\ p \in Nat /\ e <= p
      BY <1>1, <1>2, <1>4
    <3> QED
      BY <1>1, <3>1, SoundBefore
  <2>3. Readable = Ended(p)
    BY <2>2 DEF Readable, Ended
  <2>4. Torn(TidCells)
    BY <2>1 DEF Torn, p, k
  <2> QED
    BY <1>3, <2>3, <2>4
<1>5. CASE p # Len(file)
  <2>1. p + 1 \in 1..Len(file) /\ p \in Nat /\ p + 1 - 1 = p
    BY <1>1, <1>5
  <2>2. file[p + 1][2] = 1
    <3>1. CASE p = 0
      <4>1. p + 1 = 1
        BY <3>1
      <4> QED
        BY <2>1, <4>1, FileCells
    <3>2. CASE p # 0
      <4>1. file[p][2] = Size(file[p][1])
        BY <1>1, <3>2 DEF IsLastCell, Size
      <4> DEFINE q == p + 1
      <4>2. q \in 1..Len(file) /\ file[q - 1][2] = Size(file[q - 1][1])
        BY <2>1, <4>1
      <4> HIDE DEF q
      <4>3. file[q][2] = 1
        BY <4>2, FileCells
      <4> QED
        BY <4>3 DEF q
    <3> QED
      BY <3>1, <3>2
  <2> DEFINE r == file[p + 1][1]
  <2>3. r \in Records /\ file[p + 1] = <<r, 1>>
    BY <2>1, <2>2, FileCells
  <2>4. Size(r) \in Nat /\ k < Size(r)
    <3>1. spansOf[r] \in Nat /\ spansOf[r] \in 1..MaxSpans /\ 1 \in 1..spansOf[r]
      BY <2>3, Types, StorageConstants
    <3> DEFINE n == spansOf[r]
    <3> HIDE DEF r, n
    <3>2. n \in Nat /\ 1 \in 1..n
      BY <3>1 DEF n
    <3>3. RecordCells(n) \in Nat /\ NumAt + NumCells < RecordCells(n)
      BY <3>2, RecordFields
    <3>4. NumAt = k
      BY DEF NumAt, k
    <3>5. k < RecordCells(n)
      BY <1>1, <3>3, <3>4, StorageConstants
    <3> QED
      BY <3>3, <3>5 DEF Size, n
  <2> HIDE DEF r
  <2>5. Ahead(p, r, 0)
    <3>1. file[p + 1] = <<r, 0 + 1>>
      BY <2>3
    <3> QED
      BY <1>1, <2>3, <3>1 DEF Ahead
  <2>6. 0 + k <= Size(r) /\ 0 + k < Size(r) /\ 0 + k = k
    BY <1>1, <2>4
  <2>7. CASE Torn(TidCells)
    <3>1. ~(p + k <= Len(file) /\ Sound(p + k))
      BY <2>7 DEF Torn, p, k
    <3>2. Readable = Ended(p)
      BY <1>1, <2>5, <2>6, <3>1, FieldTorn
    <3> QED
      BY <1>3, <2>7, <3>2
  <2>8. CASE ~Torn(TidCells)
    <3>1. p + k <= Len(file) /\ Sound(p + k)
      BY <2>8 DEF Torn, p, k
    <3>2. /\ SubSeq(file, p + 1, p + k) = Run(r, 0, k)
          /\ p + k \in 1..Len(file) /\ file[p + k] = <<r, 0 + k>>
          /\ 0 + k < Size(r) => Ended(p + k) = Ended(p)
      <4> DEFINE i == 0
      <4>1. Ahead(p, r, i) /\ k \in Nat \ {0} /\ i + k <= Size(r)
        BY <1>1, <2>5, <2>6
      <4> HIDE DEF i
      <4>2. /\ SubSeq(file, p + 1, p + k) = Run(r, i, k)
            /\ p + k \in 1..Len(file) /\ file[p + k] = <<r, i + k>>
            /\ i + k < Size(r) => Ended(p + k) = Ended(p)
        BY <3>1, <4>1, FieldThere
      <4> QED
        BY <4>2 DEF i
    <3>3. Ended(p + k) = Ended(p) /\ file[p + k] = <<r, k>>
      BY <2>6, <3>2
    <3> QED
      BY <2>3, <2>8, <3>2, <3>3 DEF Window, p, k
  <2> QED
    BY <2>7, <2>8
<1> QED
  BY <1>4, <1>5

\* Fields and positions.
LEMMA HasField ==
  ASSUME TypeOK, NEW k \in Nat
  PROVE  /\ Has(k) <=> rOff + k <= Len(file)
         /\ Has(k) => rOff + k \in 0..Len(file)
<1>1. rOff \in 0..Len(file) /\ Len(file) \in Nat
  BY Types DEF TypeOK
<1> QED
  BY <1>1 DEF Has

\* What the reader takes when there is nothing more to be read lies past a
\* tear.
LEMMA TornOn ==
  ASSUME StorageInv, NEW k \in Nat, Has(k), Past \/ (Torn(k) /\ Done)
  PROVE  Done /\ rOff + k \in 0..Len(file) /\ ~Sound(rOff + k)
<1> TypeOK /\ LogInv /\ ReaderInv
  BY DEF StorageInv
<1>1. rOff + k <= Len(file) /\ rOff + k \in 0..Len(file) /\ Len(file) \in Nat
  BY HasField, Types
<1>2. CASE Past
  <2>1. rOff \in Nat /\ rOff + k \in Nat /\ rOff <= rOff + k
    BY <1>1 DEF TypeOK
  <2>2. ~Sound(rOff) /\ Done
    BY <1>2 DEF Past, Done
  <2> QED
    BY <1>1, <2>1, <2>2, SoundBefore
<1>3. CASE Torn(k) /\ Done
  BY <1>1, <1>3 DEF Torn
<1> QED
  BY <1>2, <1>3

\* The reader takes a field and remains in step.
LEMMA WentOn ==
  ASSUME StorageInv, InStep, UNCHANGED writerVars, loaded' = loaded,
         rBase' = rBase, Reading, rPc' \in {"tid", "num", "len", "span"},
         rOff' \in 1..Len(file), Sound(rOff'), Ended(rOff') = Ended(rOff),
         Position'
  PROVE  ReaderInv'
<1> TypeOK /\ LogInv /\ ReaderInv
  BY DEF StorageInv
<1>1. Len(loaded) \in Nat
  BY LenProperties DEF TypeOK
<1>2. /\ InOrder(Len(loaded))'
      /\ LoadedTids(Len(loaded))' = LoadedTids(Len(loaded))
  <2>1. PICK n \in Nat : n = Len(loaded)
    BY <1>1
  <2>2. InOrder(n)' /\ LoadedTids(n)' = LoadedTids(n)
    BY <2>1, OrderFrame DEF InStep
  <2> QED
    BY <2>1, <2>2 DEF InOrder, LoadedTids
<1>3. Sound(rOff)' /\ Ended(rOff)' = Ended(rOff)
  <2>1. PICK q : q = rOff'
    OBVIOUS
  <2>2. Sound(q)' /\ Ended(q)' = Ended(q)
    BY <2>1, ReaderFrame
  <2>3. (Sound(rOff)' <=> Sound(q)') /\ Ended(rOff)' = Ended(q)'
    BY <2>1 DEF Sound, Ended
  <2> QED
    BY <2>1, <2>2, <2>3
<1>4. InStep'
  BY <1>2, <1>3 DEF InStep
<1>5. SoundPrefixLoaded'
  <2>1. PICK n \in 0..Len(loaded') : n = Len(loaded')
    BY <1>1
  <2>2. InOrder(n)' /\ ~(n < Len(loaded'))
    BY <1>1, <1>2, <2>1 DEF InOrder, LoadedTids
  <2> QED
    BY <2>1, <2>2 DEF SoundPrefixLoaded
<1>6. NothingSkipped' /\ rPc' # "idle"
  BY DEF NothingSkipped
<1>7. rBase' \subseteq Readable'
  BY ReaderFrame DEF ReaderInv
<1> QED
  BY <1>4, <1>5, <1>6, <1>7 DEF ReaderInv

\* The trace id.
LEMMA ReadTraceIdStep ==
  ASSUME StorageInv, ReadTraceId
  PROVE  ReaderTypes' /\ ReaderInv'
<1> TypeOK /\ LogInv /\ ReaderInv
  BY DEF StorageInv
<1> DEFINE k == TidCells
<1>1. /\ rPc = "tid" /\ loaded' = loaded /\ rFault' = rFault /\ rBase' = rBase
      /\ UNCHANGED writerVars
  BY DEF ReadTraceId
<1>2. Reading /\ (InStep \/ Past)
  BY <1>1 DEF Reading, ReaderInv
<1>3. /\ k \in Nat /\ DOMAIN file = 1..Len(file)
      /\ rOff \in 0..Len(file) /\ rFault \in BOOLEAN
  BY StorageConstants, Types DEF TypeOK
<1>4. Past => Done
  BY DEF Past, Done
<1>5. CASE ~Has(k)
  <2>1. Stop("EOF") /\ rOff' = rOff
    BY <1>5 DEF ReadTraceId
  <2>2. Done
    <3>1. Torn(k)
      BY <1>3, <1>5, HasField DEF Torn
    <3>2. CASE InStep
      BY <1>1, <3>1, <3>2, TidField
    <3> QED
      BY <1>2, <1>4, <3>2
  <2> QED
    BY <1>1, <1>2, <1>3, <2>1, <2>2, Stopped
<1>6. CASE Has(k)
  <2>1. /\ rTid' \in TidsIn(Window(k)) /\ rOff' = rOff + k /\ rPc' = "num"
        /\ rLeft' = rLeft /\ rLen' = rLen /\ rSpans' = rSpans
        /\ rStatus' = rStatus
    BY <1>6 DEF ReadTraceId
  <2>2. rOff' \in 0..Len(file)
    BY <1>3, <1>6, <2>1, HasField
  <2>3. ReaderTypes'
    <3>1. rTid' \in Records \union {Garbage}
      BY <2>1 DEF TidsIn
    <3>2. /\ SpanValues' = SpanValues /\ Traces' = Traces /\ Records' = Records
          /\ file' = file
      BY <1>1, ReaderFrame
    <3> QED
      BY <1>1, <2>1, <2>2, <3>1, <3>2 DEF ReaderTypes, TypeOK
  <2>4. CASE Past \/ (Torn(k) /\ Done)
    <3>1. Done /\ ~Sound(rOff')
      BY <1>3, <1>6, <2>1, <2>4, TornOn
    <3> QED
      BY <1>1, <1>2, <2>1, <2>2, <2>3, <3>1, WentPast
  <2>5. CASE InStep /\ ~Torn(k)
    <3>1. /\ rOff + k \in 1..Len(file) /\ Sound(rOff + k)
          /\ \E r \in Records :
                /\ Window(k) = Run(r, 0, k)
                /\ file[rOff + k] = <<r, k>>
                /\ Ended(rOff + k) = Ended(rOff)
      BY <1>1, <2>5, TidField DEF Torn
    <3>2. PICK r \in Records : /\ Window(k) = Run(r, 0, k)
                               /\ file[rOff + k] = <<r, k>>
                               /\ Ended(rOff + k) = Ended(rOff)
      BY <3>1
    <3>3. rTid' = r
      <4>1. r \in Nat /\ k \in Nat \ {0} /\ 0 \in Nat
        BY StorageConstants, Types
      <4>2. \A s \in Nat : AreCells(Window(k), s, 0) <=> s = r
        <5> DEFINE i == 0
                   w == Window(k)
        <5>1. i \in Nat /\ w = Run(r, i, k)
          BY <3>2
        <5> HIDE DEF i, w, k
        <5>2. \A s \in Nat : AreCells(w, s, i) <=> s = r
          BY <4>1, <5>1, WhoseCells
        <5> QED
          BY <5>2 DEF i, w
      <4>3. Records \subseteq Nat
        BY Types
      <4> QED
        BY <2>1, <4>2, <4>3 DEF TidsIn
    <3>4. rSpans = <<>>
      BY <1>1, <2>5 DEF InStep, Position
    <3>5. Position'
      <4>1. /\ rPc' = "num" /\ rTid' \in Records' /\ rOff' \in DOMAIN file'
            /\ file'[rOff'] = <<rTid', NumAt>> /\ rSpans' = <<>>
        <5>1. file' = file /\ Records' = Records
          BY <1>1, ReaderFrame
        <5>2. NumAt = k
          BY DEF NumAt
        <5> QED
          BY <1>3, <2>1, <3>1, <3>2, <3>3, <3>4, <5>1, <5>2
      <4> QED
        BY <4>1 DEF Position, HasRead
    <3> QED
      BY <1>1, <1>2, <2>1, <2>3, <2>5, <3>1, <3>2, <3>5, WentOn
  <2> QED
    BY <1>1, <1>2, <2>4, <2>5, TidField
<1> QED
  BY <1>5, <1>6

\* A reader in step that is at a record with too many spans has loaded what
\* it has to.
LEMMA AtLimit ==
  ASSUME StorageInv, InStep, rPc = "num", spansOf[rTid] > MaxSpansRead
  PROVE  Done \/ Enough
<1> TypeOK /\ LogInv /\ ReaderInv
  BY DEF StorageInv
<1> DEFINE k == Size(rTid) - NumAt
           L == Len(loaded)
<1>1. HasRead(NumAt) /\ NumAt \in Nat
  BY StorageConstants DEF InStep, Position, NumAt
<1>2. /\ rTid \in Records /\ rOff \in 1..Len(file) /\ file[rOff] = <<rTid, NumAt>>
      /\ rTid \in Nat /\ DOMAIN file = 1..Len(file) /\ Len(file) \in Nat
  BY <1>1, Types DEF HasRead
<1>3. NumAt < Size(rTid) /\ Size(rTid) \in Nat
  <2> DEFINE n == spansOf[rTid]
  <2>1. n \in 1..MaxSpans /\ MaxSpans \in Nat
    BY <1>2, Types, StorageConstants
  <2>2. n \in Nat /\ 1 \in 1..n
    BY <2>1
  <2> HIDE DEF n
  <2>3. RecordCells(n) \in Nat /\ NumAt + NumCells < RecordCells(n)
    BY <2>2, RecordFields
  <2> QED
    BY <1>1, <2>3, StorageConstants DEF Size, n
<1>4. k \in Nat \ {0} /\ NumAt + k = Size(rTid)
  BY <1>1, <1>3
<1>5. NumAt + k <= Size(rTid)
  BY <1>3, <1>4
<1> HIDE DEF k
<1>6. SUFFICES ASSUME ~Done PROVE Enough
  OBVIOUS
<1>7. ~Torn(k) /\ rOff + k \in 1..Len(file) /\ file[rOff + k] = <<rTid, Size(rTid)>>
  BY <1>1, <1>4, <1>5, <1>6, KnownField
<1>8. rTid \in Readable
  <2>1. PICK q \in 1..Len(file) : q = rOff + k
    BY <1>7
  <2>2. IsLastCell(file[q]) /\ file[q][1] = rTid
    BY <1>7, <2>1 DEF IsLastCell, Size
  <2>3. Sound(q) /\ q \in DOMAIN file
    BY <1>2, <1>7, <2>1 DEF Torn
  <2> QED
    BY <2>2, <2>3 DEF Readable
<1>9. ASSUME NEW r \in Readable, WithinLimit(r) PROVE r \in Ended(rOff)
  <2>1. PICK p \in DOMAIN file : Sound(p) /\ IsLastCell(file[p]) /\ file[p][1] = r
    BY DEF Readable
  <2>2. p \in 1..Len(file) /\ file[p][1] \in Nat
    BY <1>2, <2>1, FileCells
  <2>3. p <= rOff
    <3>1. rOff < p => rTid <= file[p][1]
      <4>1. rOff < p => file[rOff][1] < file[p][1] \/ file[rOff][1] = file[p][1]
        BY <1>2, <2>2, FileCells
      <4>2. file[rOff][1] = rTid
        BY <1>2
      <4> QED
        BY <1>2, <2>2, <4>1, <4>2
    <3>2. ~(rTid <= r)
      <4>1. spansOf[rTid] \in Nat /\ MaxSpansRead \in Nat
        BY <1>2, Types, StorageConstants
      <4>2. ~(spansOf[rTid] <= MaxSpansRead)
        BY <4>1
      <4> QED
        BY <1>8, <1>9, <4>2 DEF WithinLimit
    <3> QED
      BY <1>2, <2>1, <2>2, <3>1, <3>2
  <2> QED
    BY <2>1, <2>3 DEF Ended
<1>10. InOrder(L) /\ LoadedTids(L) = Ended(rOff) /\ L \in 0..L
  <2>1. L \in Nat
    BY LenProperties DEF TypeOK
  <2> QED
    BY <2>1 DEF InStep
<1> QED
  BY <1>9, <1>10 DEF Enough

\* The number of spans.
LEMMA ReadNumSpansStep ==
  ASSUME StorageInv, ReadNumSpans
  PROVE  ReaderTypes' /\ ReaderInv'
<1> TypeOK /\ LogInv /\ ReaderInv
  BY DEF StorageInv
<1> DEFINE k == NumCells
           there == /\ ~Torn(k) /\ rOff + k \in 1..Len(file)
                    /\ Window(k) = Run(rTid, NumAt, k)
                    /\ file[rOff + k] = <<rTid, NumAt + k>>
                    /\ Ended(rOff + k) = Ended(rOff)
<1>1. /\ rPc = "num" /\ loaded' = loaded /\ rFault' = rFault /\ rBase' = rBase
      /\ UNCHANGED writerVars
  BY DEF ReadNumSpans
<1>2. Reading /\ (InStep \/ Past)
  BY <1>1 DEF Reading, ReaderInv
<1>3. /\ k \in Nat \ {0} /\ NumAt \in Nat /\ DOMAIN file = 1..Len(file)
      /\ rOff \in 0..Len(file) /\ rFault \in BOOLEAN /\ MaxSpans \in Nat
  BY StorageConstants, Types DEF TypeOK, NumAt
<1>4. Past => Done
  BY DEF Past, Done
<1>5. ASSUME InStep
      PROVE  /\ rTid \in Records /\ rTid \in Nat /\ rSpans = <<>>
             /\ spansOf[rTid] \in 1..MaxSpans /\ NumAt + k = LenAt(1)
             /\ (Torn(k) /\ Done) \/ there
  <2>1. HasRead(NumAt) /\ rSpans = <<>>
    BY <1>1, <1>5 DEF InStep, Position
  <2>2. rTid \in Records /\ spansOf[rTid] \in 1..MaxSpans /\ rTid \in Nat
    BY <2>1, Types DEF HasRead
  <2>3. NumAt + k < Size(rTid) /\ Size(rTid) \in Nat
    <3> DEFINE n == spansOf[rTid]
    <3>1. n \in Nat /\ 1 \in 1..n
      BY <1>3, <2>2
    <3> HIDE DEF n
    <3>2. RecordCells(n) \in Nat /\ NumAt + NumCells < RecordCells(n)
      BY <3>1, RecordFields
    <3> QED
      BY <3>2 DEF Size, n
  <2>4. NumAt + k = LenAt(1)
    BY Fields
  <2> HIDE DEF k
  <2>5. NumAt + k <= Size(rTid)
    BY <1>3, <2>3
  <2>6. \/ Torn(k) /\ Done
        \/ /\ ~Torn(k) /\ rOff + k \in 1..Len(file)
           /\ Window(k) = Run(rTid, NumAt, k)
           /\ file[rOff + k] = <<rTid, NumAt + k>>
           /\ NumAt + k < Size(rTid) => Ended(rOff + k) = Ended(rOff)
    BY <1>3, <1>5, <2>1, <2>5, KnownField
  <2> QED
    BY <2>1, <2>2, <2>3, <2>4, <2>6
<1>6. CASE ~Has(k)
  <2>1. Stop("CORRUPT") /\ rOff' = rOff
    BY <1>6 DEF ReadNumSpans
  <2>2. Torn(k)
    BY <1>3, <1>6, HasField DEF Torn
  <2>3. Done
    BY <1>2, <1>4, <1>5, <2>2
  <2> QED
    BY <1>1, <1>2, <1>3, <2>1, <2>3, Stopped
<1>7. CASE Has(k)
  <2>1. PICK n \in CountsIn(Window(k)) :
          /\ rOff' = rOff + k
          /\ IF n = 0
             THEN Stop("CORRUPT")
             ELSE /\ rLeft' = n /\ rPc' = "len"
                  /\ UNCHANGED <<rTid, rLen, rSpans, rStatus>>
    BY <1>7 DEF ReadNumSpans
  <2>2. rOff' \in 0..Len(file) /\ rOff' = rOff + k
    BY <1>3, <1>7, <2>1, HasField
  <2>3. n \in 0..MaxSpansRead /\ MaxSpansRead \in Nat
    <3>1. \A r \in Records : spansOf[r] \in Nat
      BY <1>3, Types
    <3>2. MaxSpansRead \in Nat
      BY StorageConstants
    <3>3. NumberUpTo(MaxSpansRead) \subseteq 0..MaxSpansRead
      BY <3>2 DEF NumberUpTo
    <3>4. \A r \in Records : (IF spansOf[r] > MaxSpansRead THEN 0 ELSE spansOf[r])
                                \in 0..MaxSpansRead
      BY <3>1, <3>2
    <3> QED
      BY <3>2, <3>3, <3>4 DEF CountsIn
  <2>4. ASSUME n # 0
        PROVE  /\ rLeft' = n /\ rPc' = "len" /\ rTid' = rTid /\ rLen' = rLen
               /\ rSpans' = rSpans /\ rStatus' = rStatus
    BY <2>1, <2>4
  <2>5. ASSUME n # 0 PROVE ReaderTypes'
    <3>1. /\ SpanValues' = SpanValues /\ Traces' = Traces /\ Records' = Records
          /\ file' = file
      BY <1>1, ReaderFrame
    <3> QED
      BY <1>1, <2>2, <2>3, <2>4, <2>5, <3>1 DEF ReaderTypes, TypeOK
  <2>6. CASE Past \/ (Torn(k) /\ Done)
    <3>1. Done /\ ~Sound(rOff')
      BY <1>3, <1>7, <2>2, <2>6, TornOn
    <3>2. CASE n = 0
      <4>1. Stop("CORRUPT")
        BY <2>1, <3>2
      <4> QED
        BY <1>1, <1>2, <1>3, <2>2, <3>1, <4>1, Stopped
    <3>3. CASE n # 0
      <4>1. rPc' \in {"tid", "num", "len", "span"}
        BY <2>4, <3>3
      <4> QED
        BY <1>1, <1>2, <2>2, <2>5, <3>1, <3>3, <4>1, WentPast
    <3> QED
      BY <3>2, <3>3
  <2>7. CASE InStep /\ there
    <3>1. /\ rTid \in Records /\ rTid \in Nat /\ rSpans = <<>>
          /\ spansOf[rTid] \in 1..MaxSpans /\ NumAt + k = LenAt(1)
      BY <1>5, <2>7
    <3>2. n = IF spansOf[rTid] > MaxSpansRead THEN 0 ELSE spansOf[rTid]
      <4>1. \A s \in Nat : AreCells(Window(k), s, NumAt) <=> s = rTid
        <5> DEFINE i == NumAt
                   w == Window(k)
        <5>1. i \in Nat /\ w = Run(rTid, i, k) /\ k \in Nat \ {0}
          BY <1>3, <2>7
        <5> HIDE DEF i, w, k
        <5>3. \A s \in Nat : AreCells(w, s, i) <=> s = rTid
          BY <3>1, <5>1, WhoseCells
        <5> QED
          BY <5>3 DEF i, w
      <4>2. Records \subseteq Nat
        BY Types
      <4> QED
        BY <3>1, <4>1, <4>2 DEF CountsIn
    <3>7. CASE spansOf[rTid] > MaxSpansRead
      <4>1. Stop("CORRUPT")
        BY <2>1, <3>2, <3>7
      <4>2. Done \/ Enough
        BY <1>1, <2>7, <3>7, AtLimit
      <4> QED
        BY <1>1, <1>2, <1>3, <2>2, <4>1, <4>2, Stopped
    <3>8. SUFFICES ASSUME ~(spansOf[rTid] > MaxSpansRead) PROVE ReaderTypes' /\ ReaderInv'
      BY <3>7
    <3>3. n # 0 /\ n >= 1 /\ n = spansOf[rTid]
      BY <1>3, <3>1, <3>2, <3>8
    <3>4. Position'
      <4>1. file' = file /\ Records' = Records /\ spansOf' = spansOf
        BY <1>1, ReaderFrame
      <4>2. /\ rPc' = "len" /\ rTid' = rTid /\ rSpans' = <<>> /\ rLeft' = n
        BY <2>4, <3>1, <3>3
      <4>3. Len(rSpans') = 0
        BY <4>2
      <4>4. HasRead(LenAt(Len(rSpans) + 1))'
        <5>1. LenAt(Len(rSpans') + 1) = LenAt(1)
          BY <4>3
        <5>2. /\ rOff' \in DOMAIN file' /\ rTid' \in Records'
              /\ file'[rOff'] = <<rTid', LenAt(1)>>
          BY <1>3, <2>2, <2>7, <3>1, <4>1, <4>2
        <5> QED
          BY <5>1, <5>2 DEF HasRead, LenAt
      <4>5. SpansRead'
        <5>1. rLeft' >= 1 /\ spansOf'[rTid'] = Len(rSpans') + rLeft'
          BY <1>3, <2>3, <3>3, <4>1, <4>2, <4>3
        <5>2. rSpans' = [j \in 1..Len(rSpans') |-> <<rTid', j>>]
          BY <4>2, <4>3
        <5> QED
          BY <5>1, <5>2 DEF SpansRead
      <4> QED
        BY <4>2, <4>4, <4>5 DEF Position
    <3>5. Sound(rOff') /\ rOff' \in 1..Len(file) /\ Ended(rOff') = Ended(rOff)
      BY <2>2, <2>7 DEF Torn
    <3>6. rPc' \in {"tid", "num", "len", "span"}
      BY <2>4, <3>3
    <3> QED
      BY <1>1, <1>2, <2>5, <2>7, <3>3, <3>4, <3>5, <3>6, WentOn
  <2> QED
    BY <1>2, <1>5, <2>6, <2>7
<1> QED
  BY <1>6, <1>7

\* In a record the reader is in step with, the span it is at is one of it.
LEMMA SpanAhead ==
  ASSUME TypeOK, rTid \in Records, SpansRead, NEW j, j = Len(rSpans) + 1
  PROVE  /\ j \in Nat \ {0} /\ spansOf[rTid] \in Nat /\ j \in 1..spansOf[rTid]
         /\ spansOf[rTid] <= MaxSpans /\ rTid \in Nat /\ rTid # 0
         /\ rLeft = spansOf[rTid] - j + 1
         /\ LenAt(j) \in Nat /\ SpanAt(j) \in Nat /\ Size(rTid) \in Nat
         /\ LenAt(j) + LenCells = SpanAt(j)
         /\ SpanAt(j) + SpanCells = LenAt(j + 1)
         /\ LenAt(j) + LenCells < Size(rTid)
         /\ SpanAt(j) + SpanCells <= Size(rTid)
         /\ SpanAt(j) + SpanCells = Size(rTid) <=> j = spansOf[rTid]
<1> DEFINE n == spansOf[rTid]
<1>1. /\ n \in 1..MaxSpans /\ MaxSpans \in Nat /\ rTid \in Nat /\ rTid # 0
      /\ Len(rSpans) \in Nat /\ rLeft \in Nat /\ MaxSpansRead \in Nat
  <2>1. Records = 1..Len(spansOf) /\ Len(spansOf) \in Nat
    BY Types
  <2>2. rLeft \in 0..MaxSpansRead /\ Len(rSpans) \in Nat
    BY LenProperties DEF TypeOK
  <2> QED
    BY <2>1, <2>2, Types, StorageConstants
<1>2. rLeft >= 1 /\ n = Len(rSpans) + rLeft
  BY DEF SpansRead
<1> HIDE DEF n
<1>3. /\ j \in Nat \ {0} /\ n \in Nat /\ j \in 1..n /\ n <= MaxSpans
      /\ rLeft = n - j + 1
  BY <1>1, <1>2
<1>4. /\ RecordCells(n) \in Nat /\ LenAt(j) \in Nat /\ SpanAt(j) \in Nat
      /\ LenAt(j) + LenCells = SpanAt(j)
      /\ SpanAt(j) + SpanCells = LenAt(j + 1)
      /\ LenAt(j + 1) <= RecordCells(n)
      /\ LenAt(j + 1) = RecordCells(n) <=> j = n
  BY <1>3, RecordFields
<1>5. RecordCells(n) = Size(rTid)
  BY DEF Size, n
<1>6. LenAt(j) + LenCells < Size(rTid)
  BY <1>4, <1>5, StorageConstants
<1> QED
  BY <1>1, <1>3, <1>4, <1>5, <1>6 DEF n

\* The length of a span.
LEMMA ReadSpanLengthStep ==
  ASSUME StorageInv, ReadSpanLength
  PROVE  ReaderTypes' /\ ReaderInv'
<1> TypeOK /\ LogInv /\ ReaderInv
  BY DEF StorageInv
<1> DEFINE k == LenCells
           j == Len(rSpans) + 1
           there == /\ ~Torn(k) /\ rOff + k \in 1..Len(file)
                    /\ Window(k) = Run(rTid, LenAt(j), k)
                    /\ file[rOff + k] = <<rTid, SpanAt(j)>>
                    /\ Ended(rOff + k) = Ended(rOff)
<1>1. /\ rPc = "len" /\ loaded' = loaded /\ rFault' = rFault /\ rBase' = rBase
      /\ UNCHANGED writerVars
  BY DEF ReadSpanLength
<1>2. Reading /\ (InStep \/ Past)
  BY <1>1 DEF Reading, ReaderInv
<1>3. /\ k \in Nat \ {0} /\ DOMAIN file = 1..Len(file)
      /\ rOff \in 0..Len(file) /\ rFault \in BOOLEAN
      /\ SpanCells \in Nat /\ SpanCells >= 1
  BY StorageConstants, Types DEF TypeOK
<1>4. Past => Done
  BY DEF Past, Done
<1>5. ASSUME InStep
      PROVE  /\ rTid \in Records /\ rTid \in Nat /\ SpansRead
             /\ j \in 1..spansOf[rTid] /\ LenAt(j) \in Nat
             /\ (Torn(k) /\ Done) \/ there
  <2>1. HasRead(LenAt(j)) /\ SpansRead
    BY <1>1, <1>5 DEF InStep, Position
  <2>2. rTid \in Records
    BY <2>1 DEF HasRead
  <2> HIDE DEF k, j
  <2>3. /\ rTid \in Nat /\ j \in 1..spansOf[rTid] /\ LenAt(j) \in Nat
        /\ LenAt(j) + k = SpanAt(j) /\ LenAt(j) + k < Size(rTid)
        /\ Size(rTid) \in Nat
    BY <2>1, <2>2, SpanAhead DEF j, k
  <2>4. LenAt(j) + k <= Size(rTid)
    BY <1>3, <2>3
  <2>5. \/ Torn(k) /\ Done
        \/ /\ ~Torn(k) /\ rOff + k \in 1..Len(file)
           /\ Window(k) = Run(rTid, LenAt(j), k)
           /\ file[rOff + k] = <<rTid, LenAt(j) + k>>
           /\ LenAt(j) + k < Size(rTid) => Ended(rOff + k) = Ended(rOff)
    BY <1>3, <1>5, <2>1, <2>3, <2>4, KnownField
  <2> QED
    BY <2>1, <2>2, <2>3, <2>5
<1>6. CASE ~Has(k)
  <2>1. Stop("CORRUPT") /\ rOff' = rOff
    BY <1>6 DEF ReadSpanLength
  <2>2. Torn(k)
    BY <1>3, <1>6, HasField DEF Torn
  <2>3. Done
    BY <1>2, <1>4, <1>5, <2>2
  <2> QED
    BY <1>1, <1>2, <1>3, <2>1, <2>3, Stopped
<1>7. CASE Has(k)
  <2>1. PICK n \in LengthsIn(Window(k)) :
          /\ rOff' = rOff + k
          /\ IF n = 0
             THEN Stop("CORRUPT")
             ELSE /\ rLen' = n /\ rPc' = "span"
                  /\ UNCHANGED <<rTid, rLeft, rSpans, rStatus>>
    BY <1>7 DEF ReadSpanLength
  <2>2. rOff' \in 0..Len(file) /\ rOff' = rOff + k
    BY <1>3, <1>7, <2>1, HasField
  <2>3. n \in 0..SpanCells + 1
    <3>1. NumberUpTo(SpanCells + 1) \subseteq 0..SpanCells + 1
      BY <1>3 DEF NumberUpTo
    <3>2. SpanCells \in 0..SpanCells + 1
      BY <1>3
    <3> QED
      BY <3>1, <3>2 DEF LengthsIn
  <2>4. ASSUME n # 0
        PROVE  /\ rLen' = n /\ rPc' = "span" /\ rTid' = rTid /\ rLeft' = rLeft
               /\ rSpans' = rSpans /\ rStatus' = rStatus
    BY <2>1, <2>4
  <2>5. ASSUME n # 0 PROVE ReaderTypes'
    <3>1. /\ SpanValues' = SpanValues /\ Traces' = Traces /\ Records' = Records
          /\ file' = file
      BY <1>1, ReaderFrame
    <3> QED
      BY <1>1, <2>2, <2>3, <2>4, <2>5, <3>1 DEF ReaderTypes, TypeOK
  <2>6. CASE Past \/ (Torn(k) /\ Done)
    <3>1. Done /\ ~Sound(rOff')
      BY <1>3, <1>7, <2>2, <2>6, TornOn
    <3>2. CASE n = 0
      <4>1. Stop("CORRUPT")
        BY <2>1, <3>2
      <4> QED
        BY <1>1, <1>2, <1>3, <2>2, <3>1, <4>1, Stopped
    <3>3. CASE n # 0
      <4>1. rPc' \in {"tid", "num", "len", "span"}
        BY <2>4, <3>3
      <4> QED
        BY <1>1, <1>2, <2>2, <2>5, <3>1, <3>3, <4>1, WentPast
    <3> QED
      BY <3>2, <3>3
  <2>7. CASE InStep /\ there
    <3>1. /\ rTid \in Records /\ rTid \in Nat /\ SpansRead
          /\ j \in 1..spansOf[rTid] /\ LenAt(j) \in Nat
      BY <1>5, <2>7
    <3>2. n = SpanCells
      <4>1. AreCells(Window(k), rTid, LenAt(j))
        <5> DEFINE i == LenAt(j)
                   w == Window(k)
        <5>1. i \in Nat /\ w = Run(rTid, i, k) /\ k \in Nat \ {0}
          BY <1>3, <2>7, <3>1
        <5> HIDE DEF i, w, k
        <5>2. AreCells(Run(rTid, i, k), rTid, i)
          BY <3>1, <5>1, WhoseCells
        <5>3. AreCells(w, rTid, i)
          BY <5>1, <5>2
        <5> QED
          BY <5>3 DEF i, w
      <4> QED
        BY <3>1, <4>1 DEF LengthsIn
    <3>3. n # 0
      BY <1>3, <3>2
    <3>4. Position'
      <4>1. file' = file /\ Records' = Records /\ spansOf' = spansOf
        BY <1>1, ReaderFrame
      <4>2. /\ rPc' = "span" /\ rTid' = rTid /\ rSpans' = rSpans /\ rLeft' = rLeft
            /\ rLen' = SpanCells
        BY <2>4, <3>2, <3>3
      <4>3. HasRead(SpanAt(Len(rSpans) + 1))'
        <5>1. /\ rOff' \in DOMAIN file' /\ rTid' \in Records'
              /\ file'[rOff'] = <<rTid', SpanAt(j)>>
          BY <1>3, <2>2, <2>7, <3>1, <4>1, <4>2
        <5>2. SpanAt(j) = SpanAt(Len(rSpans') + 1)
          BY <4>2
        <5> QED
          BY <5>1, <5>2 DEF HasRead, SpanAt, LenAt
      <4>4. SpansRead'
        BY <3>1, <4>1, <4>2 DEF SpansRead
      <4> QED
        BY <4>2, <4>3, <4>4 DEF Position
    <3>5. Sound(rOff') /\ rOff' \in 1..Len(file) /\ Ended(rOff') = Ended(rOff)
      BY <2>2, <2>7 DEF Torn
    <3>6. rPc' \in {"tid", "num", "len", "span"}
      BY <2>4, <3>3
    <3> QED
      BY <1>1, <1>2, <2>5, <2>7, <3>3, <3>4, <3>5, <3>6, WentOn
  <2> QED
    BY <1>2, <1>5, <2>6, <2>7
<1> QED
  BY <1>6, <1>7

\* One more span of the record.
LEMMA OneMoreSpan ==
  ASSUME TypeOK, rTid \in Records, SpansRead, NEW j, j = Len(rSpans) + 1
  PROVE  /\ <<rTid, j>> \in SpanValues
         /\ Append(rSpans, <<rTid, j>>) \in Seq(SpanValues)
         /\ Len(Append(rSpans, <<rTid, j>>)) = j
         /\ Append(rSpans, <<rTid, j>>) = [i \in 1..j |-> <<rTid, i>>]
<1>1. /\ j \in 1..spansOf[rTid] /\ spansOf[rTid] \in Nat /\ spansOf[rTid] <= MaxSpans
      /\ MaxSpans \in Nat /\ Len(rSpans) \in Nat /\ rSpans \in Seq(SpanValues)
  BY SpanAhead, StorageConstants, LenProperties DEF TypeOK
<1> DEFINE s == <<rTid, j>>
           w == Append(rSpans, s)
           v == [i \in 1..j |-> <<rTid, i>>]
<1>2. j \in 1..MaxSpans
  BY <1>1
<1>3. s \in SpanValues
  BY <1>2 DEF SpanValues
<1>4. \A i \in 1..Len(rSpans) : rSpans[i] = <<rTid, i>>
  BY DEF SpansRead
<1> HIDE DEF s
<1>5. /\ w \in Seq(SpanValues) /\ Len(w) = Len(rSpans) + 1
      /\ \A i \in 1..Len(rSpans) : w[i] = rSpans[i]
      /\ w[Len(rSpans) + 1] = s
  BY <1>1, <1>3, AppendProperties
<1> HIDE DEF w
<1>6. Len(w) = j /\ w[j] = s /\ \A i \in 1..j : i # j => w[i] = <<rTid, i>>
  BY <1>1, <1>4, <1>5
<1>7. w = [i \in 1..j |-> w[i]]
  BY <1>5, <1>6, SeqDef, LenProperties
<1>8. \A i \in 1..j : w[i] = <<rTid, i>>
  BY <1>6 DEF s
<1>9. w = v
  BY <1>7, <1>8
<1> QED
  BY <1>3, <1>5, <1>6, <1>9 DEF s, w

\* The last span of a record completes a trace, and the reader remains in
\* step.
LEMMA LoadedOne ==
  ASSUME StorageInv, InStep, rPc = "span", UNCHANGED writerVars,
         rBase' = rBase, rPc' = "tid", rSpans' = <<>>,
         rOff' \in 1..Len(file), Sound(rOff'),
         file[rOff'] = <<rTid, Size(rTid)>>,
         Ended(rOff') = Ended(rOff) \union {rTid},
         Image(rTid) \in Traces, loaded' = Append(loaded, Image(rTid))
  PROVE  ReaderInv'
<1> TypeOK /\ LogInv /\ ReaderInv
  BY DEF StorageInv
<1> DEFINE j == Len(rSpans) + 1
           L == Len(loaded)
<1>1. HasRead(SpanAt(j)) /\ SpansRead /\ Reading
  BY DEF InStep, Position, Reading
<1>2. /\ rTid \in Records /\ rOff \in 1..Len(file) /\ file[rOff] = <<rTid, SpanAt(j)>>
      /\ rTid \in Nat /\ DOMAIN file = 1..Len(file) /\ Len(file) \in Nat
  BY <1>1, Types DEF HasRead
<1>3. SpanAt(j) \in Nat /\ Size(rTid) \in Nat /\ SpanAt(j) < Size(rTid)
  <2> HIDE DEF j
  <2>1. /\ SpanAt(j) \in Nat /\ Size(rTid) \in Nat
        /\ SpanAt(j) + SpanCells <= Size(rTid)
    BY <1>1, <1>2, SpanAhead DEF j
  <2> QED
    BY <2>1, StorageConstants
<1>4. L \in Nat /\ loaded \in Seq(Traces)
  BY LenProperties DEF TypeOK
<1>5. {r \in Readable : r < rTid} = Ended(rOff)
  <2>1. ASSUME NEW r \in Readable, r < rTid PROVE r \in Ended(rOff)
    <3>1. PICK p \in DOMAIN file : Sound(p) /\ IsLastCell(file[p]) /\ file[p][1] = r
      BY DEF Readable
    <3>2. p \in 1..Len(file) /\ file[p][1] \in Nat
      BY <1>2, <3>1, FileCells
    <3>3. p <= rOff
      <4>1. rOff < p => rTid <= file[p][1]
        <5>1. rOff < p => \/ file[rOff][1] < file[p][1]
                          \/ file[rOff][1] = file[p][1]
          BY <1>2, <3>2, FileCells
        <5>2. file[rOff][1] = rTid
          BY <1>2
        <5> QED
          BY <1>2, <3>2, <5>1, <5>2
      <4>2. ~(rTid <= r)
        BY <1>2, <2>1, <3>1, <3>2
      <4> QED
        BY <1>2, <3>1, <3>2, <4>1, <4>2
    <3> QED
      BY <3>1, <3>3 DEF Ended
  <2>2. ASSUME NEW r \in Ended(rOff) PROVE r \in Readable /\ r < rTid
    <3>1. PICK p \in DOMAIN file : p <= rOff /\ IsLastCell(file[p]) /\ file[p][1] = r
      BY DEF Ended
    <3>2. p \in 1..Len(file) /\ p \in Nat /\ rOff \in Nat
      BY <1>2, <3>1
    <3>3. Sound(p)
      BY <3>1, <3>2, SoundBefore DEF InStep
    <3>4. p # rOff
      <4>1. ~IsLastCell(file[rOff])
        BY <1>2, <1>3 DEF IsLastCell, Size
      <4> QED
        BY <3>1, <4>1
    <3>5. file[p][1] < file[rOff][1]
      <4>1. p < rOff
        BY <3>1, <3>2, <3>4
      <4> QED
        BY <1>2, <3>1, <3>2, <4>1, AfterLastCell
    <3> QED
      BY <1>2, <3>1, <3>3, <3>5 DEF Readable
  <2> QED
    BY <2>1, <2>2
<1>6. rTid \in Readable
  <2>1. PICK q \in 1..Len(file) : q = rOff'
    OBVIOUS
  <2>2. IsLastCell(file[q])
    BY <2>1 DEF IsLastCell, Size
  <2>3. Sound(q) /\ file[q][1] = rTid /\ q \in DOMAIN file
    BY <1>2, <2>1
  <2> QED
    BY <2>2, <2>3 DEF Readable
<1> DEFINE x == Image(rTid)
<1>7. x.tid = rTid
  BY DEF Image
<1> HIDE DEF x
<1>8. /\ Len(loaded') = L + 1 /\ \A i \in 1..L : loaded'[i] = loaded[i]
      /\ loaded'[L + 1] = x
  BY <1>4, AppendProperties DEF x
<1>9. PICK n \in Nat : n = Len(loaded)
  BY <1>4
<1> HIDE DEF L
<1>10. InOrder(n)' /\ LoadedTids(n)' = LoadedTids(n) /\ LoadedTids(n) = Ended(rOff)
  <2>1. InOrder(n) /\ LoadedTids(n) = Ended(rOff)
    BY <1>9 DEF InStep
  <2>2. \A i \in 1..n : loaded'[i] = loaded[i]
    BY <1>8, <1>9 DEF L
  <2> QED
    BY <2>1, <2>2, OrderFrame
<1>11. Len(loaded') = n + 1 /\ loaded'[n + 1] = x
  BY <1>8, <1>9 DEF L
<1>12. LoadedTids(n + 1)' = Ended(rOff) \union {rTid}
  <2>1. 1..n + 1 = (1..n) \union {n + 1}
    BY <1>9
  <2>2. LoadedTids(n + 1)' = LoadedTids(n)' \union {x.tid}
    BY <1>11, <2>1 DEF LoadedTids
  <2> QED
    BY <1>7, <1>10, <2>2
<1>13. InOrder(n + 1)'
  <2>1. ASSUME NEW i \in 1..n + 1
        PROVE  /\ loaded'[i].tid \in Readable'
               /\ loaded'[i] = Image(loaded[i].tid)'
               /\ {r \in Readable' : r < loaded'[i].tid} = LoadedTids(i - 1)'
    <3>1. CASE i \in 1..n
      BY <1>10, <3>1 DEF InOrder
    <3>2. CASE i = n + 1
      <4>1. i - 1 = n /\ loaded'[i] = x
        BY <1>9, <1>11, <3>2
      <4>2. Readable' = Readable /\ Image(rTid)' = Image(rTid)'
        BY ReaderFrame
      <4>3. loaded'[i].tid = rTid
        BY <1>7, <4>1
      <4>4. Image(loaded[i].tid)' = x
        BY <4>3, ReaderFrame DEF Image, x
      <4>5. {r \in Readable' : r < loaded'[i].tid} = Ended(rOff)
        BY <1>5, <4>2, <4>3
      <4>6. LoadedTids(i - 1)' = Ended(rOff)
        BY <1>10, <4>1
      <4> QED
        BY <1>6, <4>1, <4>2, <4>3, <4>4, <4>5, <4>6
    <3> QED
      BY <1>9, <3>1, <3>2
  <2> QED
    BY <2>1 DEF InOrder
<1>14. InOrder(Len(loaded))' /\ LoadedTids(Len(loaded))' = Ended(rOff')
  <2>1. InOrder(Len(loaded))' <=> InOrder(n + 1)'
    BY <1>11 DEF InOrder
  <2>2. LoadedTids(Len(loaded))' = LoadedTids(n + 1)'
    BY <1>11 DEF LoadedTids
  <2> QED
    BY <1>12, <1>13, <2>1, <2>2
<1>15. Sound(rOff)' /\ Ended(rOff)' = Ended(rOff')
  <2>1. PICK q : q = rOff'
    OBVIOUS
  <2>2. Sound(q)' /\ Ended(q)' = Ended(q)
    BY <2>1, ReaderFrame
  <2>3. (Sound(rOff)' <=> Sound(q)') /\ Ended(rOff)' = Ended(q)'
    BY <2>1 DEF Sound, Ended
  <2> QED
    BY <2>1, <2>2, <2>3
<1>16. Position'
  <2>1. file' = file /\ spansOf' = spansOf
    BY ReaderFrame
  <2>2. rOff' \in DOMAIN file' /\ file'[rOff'] = <<rTid, Size(rTid)>>
    BY <1>2, <2>1
  <2>3. IsLastCell(file[rOff])'
    BY <2>1, <2>2 DEF IsLastCell, Size
  <2> QED
    BY <2>2, <2>3 DEF Position
<1>17. InStep'
  BY <1>14, <1>15, <1>16 DEF InStep
<1>18. SoundPrefixLoaded'
  <2>1. PICK m \in 0..Len(loaded') : m = Len(loaded')
    BY <1>9, <1>11
  <2>2. InOrder(m)' /\ ~(m < Len(loaded'))
    BY <1>9, <1>11, <1>13, <2>1
  <2> QED
    BY <2>1, <2>2 DEF SoundPrefixLoaded
<1>19. NothingSkipped' /\ rPc' # "idle"
  BY DEF NothingSkipped
<1>20. rBase' \subseteq Readable'
  BY <1>1, ReaderFrame DEF ReaderInv
<1> QED
  BY <1>17, <1>18, <1>19, <1>20 DEF ReaderInv

\* The span a reader in step takes is the one it believes to be at.
LEMMA SpanField ==
  ASSUME StorageInv, InStep, rPc = "span", NEW j, j = Len(rSpans) + 1
  PROVE  /\ rLen = SpanCells /\ SpansRead /\ rTid \in Records
         /\ \/ Torn(SpanCells) /\ Done
            \/ /\ ~Torn(SpanCells) /\ rOff + SpanCells \in 1..Len(file)
               /\ SpansIn(Window(SpanCells)) = {<<rTid, j>>}
               /\ file[rOff + SpanCells] = <<rTid, LenAt(j + 1)>>
               /\ j < spansOf[rTid] => Ended(rOff + SpanCells) = Ended(rOff)
               /\ j = spansOf[rTid] =>
                    /\ Ended(rOff + SpanCells) = Ended(rOff) \union {rTid}
                    /\ LenAt(j + 1) = Size(rTid)
<1> TypeOK /\ LogInv /\ ReaderInv
  BY DEF StorageInv
<1>1. HasRead(SpanAt(j)) /\ SpansRead /\ rLen = SpanCells
  BY DEF InStep, Position
<1>2. rTid \in Records
  BY <1>1 DEF HasRead
<1>3. /\ j \in Nat \ {0} /\ spansOf[rTid] \in Nat /\ j \in 1..spansOf[rTid]
      /\ spansOf[rTid] <= MaxSpans /\ rTid \in Nat
      /\ SpanAt(j) \in Nat /\ Size(rTid) \in Nat
      /\ SpanAt(j) + SpanCells = LenAt(j + 1)
      /\ SpanAt(j) + SpanCells <= Size(rTid)
      /\ SpanAt(j) + SpanCells = Size(rTid) <=> j = spansOf[rTid]
  BY <1>1, <1>2, SpanAhead
<1> DEFINE k == SpanCells
<1>4. k \in Nat \ {0} /\ MaxSpans \in Nat
  BY StorageConstants
<1>5. \/ Torn(k) /\ Done
      \/ /\ ~Torn(k) /\ rOff + k \in 1..Len(file)
         /\ Window(k) = Run(rTid, SpanAt(j), k)
         /\ file[rOff + k] = <<rTid, SpanAt(j) + k>>
         /\ SpanAt(j) + k < Size(rTid) => Ended(rOff + k) = Ended(rOff)
         /\ SpanAt(j) + k = Size(rTid) => Ended(rOff + k) = Ended(rOff) \union {rTid}
  <2> DEFINE i == SpanAt(j)
  <2>1. i \in Nat /\ HasRead(i) /\ i + k <= Size(rTid)
    BY <1>1, <1>3
  <2> HIDE DEF i, k
  <2>2. \/ Torn(k) /\ Done
        \/ /\ ~Torn(k) /\ rOff + k \in 1..Len(file)
           /\ Window(k) = Run(rTid, i, k)
           /\ file[rOff + k] = <<rTid, i + k>>
           /\ i + k < Size(rTid) => Ended(rOff + k) = Ended(rOff)
           /\ i + k = Size(rTid) => Ended(rOff + k) = Ended(rOff) \union {rTid}
    BY <1>4, <2>1, KnownField
  <2> QED
    BY <2>2 DEF i
<1>6. ASSUME Window(k) = Run(rTid, SpanAt(j), k)
      PROVE  SpansIn(Window(k)) = {<<rTid, j>>}
  <2> DEFINE i == SpanAt(j)
             w == Window(k)
             owners == {s \in Records \X (1..MaxSpans) :
                          /\ s[2] <= spansOf[s[1]] /\ Len(w) = SpanCells
                          /\ AreCells(w, s[1], SpanAt(s[2]))}
  <2>1. i \in Nat /\ w = Run(rTid, i, k)
    BY <1>3, <1>6
  <2> HIDE DEF i, w, k
  <2>2. Len(w) = k /\ \A s, skip \in Nat : AreCells(w, s, skip) <=> s = rTid /\ skip = i
    <3>1. PICK r \in Nat : r = rTid
      BY <1>3
    <3>2. i \in Nat /\ k \in Nat \ {0}
      BY <1>4, <2>1
    <3>3. /\ Len(Run(r, i, k)) = k
          /\ \A s, skip \in Nat :
                AreCells(Run(r, i, k), s, skip) <=> s = r /\ skip = i
      BY <3>2, WhoseCells
    <3>4. w = Run(r, i, k)
      BY <2>1, <3>1
    <3> QED
      BY <3>1, <3>3, <3>4
  <2>3. <<rTid, j>> \in owners
    <3>1. j \in 1..MaxSpans /\ j <= spansOf[rTid]
      BY <1>3, <1>4
    <3>2. AreCells(w, rTid, SpanAt(j))
      BY <1>3, <2>1, <2>2 DEF i
    <3> QED
      BY <1>2, <2>2, <3>1, <3>2 DEF k
  <2>4. ASSUME NEW s \in owners PROVE s = <<rTid, j>>
    <3>1. /\ s[1] \in Records /\ s[2] \in 1..MaxSpans /\ s[2] <= spansOf[s[1]]
          /\ AreCells(w, s[1], SpanAt(s[2])) /\ s = <<s[1], s[2]>>
      OBVIOUS
    <3> DEFINE a == s[1]
               b == s[2]
    <3> HIDE DEF owners
    <3>2. a \in Nat /\ b \in Nat \ {0} /\ SpanAt(b) \in Nat
      BY <1>4, <3>1, Types, Fields
    <3>3. a = rTid /\ SpanAt(b) = SpanAt(j)
      BY <2>2, <3>1, <3>2 DEF i
    <3>4. b \in 1..spansOf[rTid]
      BY <1>3, <3>1, <3>2, <3>3
    <3> HIDE DEF a, b
    <3>5. j = b
      <4> DEFINE n == spansOf[rTid]
      <4>1. n \in Nat /\ j \in 1..n /\ b \in 1..n
        BY <1>3, <3>4
      <4> HIDE DEF n
      <4> QED
        BY <3>3, <4>1, RecordFields
    <3> QED
      BY <3>1, <3>3, <3>5 DEF a, b
  <2>5. owners = {<<rTid, j>>}
    BY <2>3, <2>4
  <2> QED
    BY <2>5 DEF SpansIn, w
<1>7. j < spansOf[rTid] => SpanAt(j) + k < Size(rTid)
  BY <1>3, <1>4
<1> QED
  BY <1>1, <1>2, <1>3, <1>5, <1>6, <1>7

\* The spans.
LEMMA ReadSpanStep ==
  ASSUME StorageInv, ReadSpan
  PROVE  ReaderTypes' /\ ReaderInv'
<1> TypeOK /\ LogInv /\ ReaderInv
  BY DEF StorageInv
<1> DEFINE k == rLen
           j == Len(rSpans) + 1
<1>1. /\ rPc = "span" /\ rFault' = rFault /\ rBase' = rBase /\ UNCHANGED writerVars
  BY DEF ReadSpan
<1>2. Reading /\ (InStep \/ Past)
  BY <1>1 DEF Reading, ReaderInv
<1>3. /\ k \in Nat /\ DOMAIN file = 1..Len(file)
      /\ rOff \in 0..Len(file) /\ rFault \in BOOLEAN
      /\ rSpans \in Seq(SpanValues) /\ loaded \in Seq(Traces)
      /\ rLeft \in 0..MaxSpansRead /\ MaxSpansRead \in Nat /\ rLen \in 0..SpanCells + 1
      /\ rTid \in Records \union {Garbage} /\ rBase \subseteq Records
  BY StorageConstants, Types DEF TypeOK
<1>4. Past => Done
  BY DEF Past, Done
<1>5. InStep => SpansRead /\ rTid \in Records /\ ((Torn(k) /\ Done) \/ ~Torn(k))
  BY <1>1, SpanField
<1>f. /\ SpanValues' = SpanValues /\ Traces' = Traces /\ Records' = Records
      /\ file' = file /\ spansOf' = spansOf
  BY <1>1, ReaderFrame
<1>6. CASE ~Has(k)
  <2>1. Stop("CORRUPT") /\ rOff' = rOff /\ loaded' = loaded
    BY <1>6 DEF ReadSpan
  <2>2. Torn(k)
    BY <1>3, <1>6, HasField DEF Torn
  <2>3. Done
    BY <1>2, <1>4, <1>5, <2>2
  <2> QED
    BY <1>1, <1>2, <1>3, <2>1, <2>3, Stopped
<1>7. CASE Has(k)
  <2>1. PICK s \in SpansIn(Window(k)) :
          /\ rOff' = rOff + k
          /\ \/ s = NoSpan /\ Stop("CORRUPT") /\ loaded' = loaded
             \/ /\ s # NoSpan /\ rLeft > 1
                /\ rSpans' = Append(rSpans, s) /\ rLeft' = rLeft - 1
                /\ rPc' = "len" /\ rTid' = rTid /\ rLen' = rLen
                /\ rStatus' = rStatus /\ loaded' = loaded
             \/ /\ s # NoSpan /\ rLeft = 1
                /\ loaded' = Append(loaded,
                                    [tid |-> rTid, spans |-> Append(rSpans, s)])
                /\ rPc' = "tid" /\ rStatus' = "OK"
                /\ rTid' = Garbage /\ rLeft' = 0 /\ rLen' = 0
                /\ rSpans' = <<>>
    BY <1>7 DEF ReadSpan
  <2>2. rOff' \in 0..Len(file) /\ rOff' = rOff + k
    BY <1>3, <1>7, <2>1, HasField
  <2>3. s # NoSpan => s \in SpanValues
    BY DEF SpansIn, SpanValues
  <2> DEFINE w == Append(rSpans, s)
             x == [tid |-> rTid, spans |-> w]
  <2>4. ASSUME s # NoSpan PROVE w \in Seq(SpanValues) /\ x \in Traces
    <3>1. w \in Seq(SpanValues)
      BY <1>3, <2>3, <2>4, AppendProperties
    <3> QED
      BY <1>3, <3>1 DEF Traces
  <2>5. ASSUME s # NoSpan PROVE ReaderTypes'
    <3>1. CASE rLeft > 1
      <4>1. /\ rSpans' = w /\ rLeft' = rLeft - 1 /\ rPc' = "len" /\ rTid' = rTid
            /\ rLen' = rLen /\ rStatus' = rStatus /\ loaded' = loaded
        BY <2>1, <2>5, <3>1
      <4>2. rLeft' \in 0..MaxSpansRead
        BY <1>3, <3>1, <4>1
      <4>3. rStatus \in {"OK", "EOF", "CORRUPT", "IO_ERROR"}
        BY DEF TypeOK
      <4> HIDE DEF w, x
      <4> QED
        BY <1>1, <1>3, <1>f, <2>2, <2>4, <2>5, <4>1, <4>2, <4>3 DEF ReaderTypes
    <3>2. CASE ~(rLeft > 1)
      <4>1. /\ loaded' = Append(loaded, x) /\ rPc' = "tid" /\ rStatus' = "OK"
            /\ rTid' = Garbage /\ rLeft' = 0 /\ rLen' = 0 /\ rSpans' = <<>>
        BY <2>1, <2>5, <3>2
      <4>2. Append(loaded, x) \in Seq(Traces) /\ <<>> \in Seq(SpanValues)
        <5> HIDE DEF x, w
        <5> QED
          BY <1>3, <2>4, <2>5, AppendProperties, EmptySeq
      <4>3. 0 \in 0..MaxSpansRead /\ 0 \in 0..SpanCells + 1
        BY StorageConstants
      <4> HIDE DEF w, x
      <4> QED
        BY <1>1, <1>3, <1>f, <2>2, <4>1, <4>2, <4>3 DEF ReaderTypes
    <3> QED
      BY <3>1, <3>2
  <2>6. CASE Past \/ (Torn(k) /\ Done)
    <3>1. Done /\ ~Sound(rOff')
      BY <1>3, <1>7, <2>2, <2>6, TornOn
    <3>2. CASE s = NoSpan
      <4>1. Stop("CORRUPT") /\ loaded' = loaded
        BY <2>1, <3>2
      <4> QED
        BY <1>1, <1>2, <1>3, <2>2, <3>1, <4>1, Stopped
    <3>3. CASE s # NoSpan
      <4>1. rPc' \in {"tid", "num", "len", "span"}
        BY <2>1, <3>3
      <4>2. loaded' = loaded \/ (x \in Traces /\ loaded' = Append(loaded, x))
        BY <2>1, <2>4, <3>3
      <4> HIDE DEF x
      <4> QED
        BY <1>1, <1>2, <2>2, <2>5, <3>1, <3>3, <4>1, <4>2, WentPast
    <3> QED
      BY <3>2, <3>3
  <2>7. CASE InStep /\ ~Torn(k)
    <3>1. /\ k = SpanCells /\ SpansRead /\ rTid \in Records
      BY <1>1, <2>7, SpanField
    <3>2. /\ rOff + k \in 1..Len(file)
          /\ SpansIn(Window(k)) = {<<rTid, j>>}
          /\ file[rOff + k] = <<rTid, LenAt(j + 1)>>
          /\ j < spansOf[rTid] => Ended(rOff + k) = Ended(rOff)
          /\ j = spansOf[rTid] =>
                /\ Ended(rOff + k) = Ended(rOff) \union {rTid}
                /\ LenAt(j + 1) = Size(rTid)
      <4> DEFINE i == j
      <4>1. i = Len(rSpans) + 1
        OBVIOUS
      <4> HIDE DEF i
      <4> QED
        BY <1>1, <2>7, <3>1, <4>1, SpanField
    <3>3. /\ j \in Nat \ {0} /\ spansOf[rTid] \in Nat /\ j \in 1..spansOf[rTid]
          /\ rTid \in Nat /\ rTid # 0 /\ rLeft = spansOf[rTid] - j + 1
      BY <3>1, SpanAhead
    <3>4. /\ w \in Seq(SpanValues) /\ Len(w) = j
          /\ w = [i \in 1..j |-> <<rTid, i>>]
      <4>1. s = <<rTid, j>>
        BY <3>2
      <4> QED
        BY <3>1, <4>1, OneMoreSpan
    <3>5. s # NoSpan
      BY <3>2, <3>3 DEF NoSpan
    <3>6. Sound(rOff') /\ rOff' \in 1..Len(file)
      BY <2>2, <2>7, <3>2 DEF Torn
    <3> HIDE DEF w, j
    <3>7. CASE rLeft > 1
      <4>1. /\ rSpans' = w /\ rLeft' = rLeft - 1 /\ rPc' = "len" /\ rTid' = rTid
            /\ loaded' = loaded
        BY <2>1, <3>5, <3>7 DEF w
      <4>2. j < spansOf[rTid]
        BY <3>3, <3>7
      <4>3. HasRead(LenAt(Len(rSpans) + 1))'
        <5>1. /\ rOff' \in DOMAIN file' /\ rTid' \in Records'
              /\ file'[rOff'] = <<rTid', LenAt(j + 1)>>
          BY <1>3, <1>f, <2>2, <3>1, <3>2, <3>6, <4>1
        <5>2. LenAt(j + 1) = LenAt(Len(rSpans') + 1)
          BY <3>4, <4>1
        <5> QED
          BY <5>1, <5>2 DEF HasRead, LenAt
      <4>4. SpansRead'
        <5>1. rLeft' >= 1 /\ spansOf'[rTid'] = Len(rSpans') + rLeft'
          <6>1. Len(rSpans') = j /\ spansOf'[rTid'] = spansOf[rTid]
            BY <1>f, <3>4, <4>1
          <6>2. rLeft' >= 1 /\ spansOf[rTid] = j + rLeft'
            BY <3>3, <3>7, <4>1
          <6> QED
            BY <6>1, <6>2
        <5>2. rSpans' = [i \in 1..Len(rSpans') |-> <<rTid', i>>]
          BY <3>4, <4>1
        <5> QED
          BY <5>1, <5>2 DEF SpansRead
      <4>5. Position'
        BY <4>1, <4>3, <4>4 DEF Position
      <4>6. Ended(rOff') = Ended(rOff)
        BY <2>2, <3>2, <4>2
      <4> QED
        BY <1>1, <1>2, <2>5, <2>7, <3>5, <3>6, <4>1, <4>5, <4>6, WentOn
    <3>8. CASE ~(rLeft > 1)
      <4>1. loaded' = Append(loaded, x) /\ rPc' = "tid" /\ rSpans' = <<>>
        BY <2>1, <3>5, <3>8 DEF w
      <4>2. j = spansOf[rTid]
        <5>1. rLeft >= 1
          BY <3>1 DEF SpansRead
        <5> QED
          BY <3>3, <3>8, <5>1
      <4>3. x = Image(rTid)
        BY <3>4, <4>2 DEF Image
      <4>4. Image(rTid) \in Traces
        BY <2>4, <3>5, <4>3
      <4>5. /\ file[rOff'] = <<rTid, Size(rTid)>>
            /\ Ended(rOff') = Ended(rOff) \union {rTid}
        BY <2>2, <3>2, <4>2
      <4>6. loaded' = Append(loaded, Image(rTid))
        BY <4>1, <4>3
      <4> HIDE DEF x
      <4> QED
        BY <1>1, <2>5, <2>7, <3>5, <3>6, <4>1, <4>4, <4>5, <4>6, LoadedOne
    <3> QED
      BY <3>7, <3>8
  <2> QED
    BY <1>2, <1>5, <2>6, <2>7
<1> QED
  BY <1>6, <1>7

\* A read or an allocation fails.
LEMMA ReadFailsStep ==
  ASSUME StorageInv, ReadFails
  PROVE  ReaderTypes' /\ ReaderInv'
<1> TypeOK /\ LogInv /\ ReaderInv
  BY DEF StorageInv
<1>1. /\ rPc \in {"tid", "num", "len", "span"} /\ rFault' = TRUE /\ rOff' = rOff
      /\ loaded' = loaded /\ rBase' = rBase /\ UNCHANGED writerVars
  BY DEF ReadFails
<1>2. PICK status \in CASE rPc = "tid" -> {"IO_ERROR"}
                        [] rPc = "len" -> {"CORRUPT"}
                        [] OTHER -> {"CORRUPT", "IO_ERROR"} : Stop(status)
  BY DEF ReadFails
<1>3. status \in {"EOF", "CORRUPT", "IO_ERROR"}
  <2>1. CASE rPc = "tid"
    BY <1>2, <2>1
  <2>2. CASE rPc = "len"
    BY <1>2, <2>2
  <2>3. CASE rPc # "tid" /\ rPc # "len"
    BY <1>2, <2>3
  <2> QED
    BY <2>1, <2>2, <2>3
<1>4. rOff \in 0..Len(file) /\ Reading
  BY <1>1 DEF TypeOK, Reading
<1> QED
  BY <1>1, <1>2, <1>3, <1>4, Stopped

\* The reader opens the file.
LEMMA ReaderOpenStep ==
  ASSUME StorageInv, ReaderOpen
  PROVE  ReaderTypes' /\ ReaderInv'
<1> TypeOK /\ LogInv /\ ReaderInv
  BY DEF StorageInv
<1>1. /\ rPc = "idle" /\ rPc' = "tid" /\ rStatus' = "EOF" /\ rBase' = Readable
      /\ rOff' = rOff /\ rTid' = rTid /\ rLeft' = rLeft /\ rLen' = rLen
      /\ rSpans' = rSpans /\ loaded' = loaded /\ rFault' = rFault
      /\ UNCHANGED writerVars
  BY DEF ReaderOpen
<1>2. rOff = 0 /\ rSpans = <<>> /\ loaded = <<>>
  BY <1>1 DEF ReaderInv
<1>3. /\ SpanValues' = SpanValues /\ Traces' = Traces /\ Records' = Records
      /\ file' = file /\ Readable' = Readable
  BY <1>1, ReaderFrame
<1>4. ReaderTypes'
  <2>1. Readable \subseteq Records
    BY ReadableRecords
  <2> QED
    BY <1>1, <1>3, <2>1 DEF ReaderTypes, TypeOK
<1>5. \A p \in DOMAIN file : p \in Nat /\ p >= 1
  <2>1. DOMAIN file = 1..Len(file) /\ Len(file) \in Nat
    BY Types
  <2> QED
    BY <2>1
<1>6. Sound(0) /\ Ended(0) = {}
  BY <1>5 DEF Sound, Ended, TornAfter
<1>7. Sound(rOff)' /\ Ended(rOff)' = {}
  <2>1. Sound(0)' /\ Ended(0)' = {}
    <3>1. PICK q : q = 0
      OBVIOUS
    <3>2. Sound(q)' /\ Ended(q)' = {}
      BY <1>1, <1>6, <3>1, ReaderFrame
    <3> QED
      BY <3>1, <3>2 DEF Sound, Ended
  <2> QED
    BY <1>1, <1>2, <2>1 DEF Sound, Ended
<1>8. Len(loaded') = 0
  BY <1>1, <1>2
<1>9. InOrder(0)' /\ LoadedTids(0)' = {}
  BY DEF InOrder, LoadedTids
<1>10. InStep'
  <2>1. InOrder(Len(loaded))' /\ LoadedTids(Len(loaded))' = {}
    BY <1>8, <1>9 DEF InOrder, LoadedTids
  <2>2. Position'
    BY <1>1, <1>2 DEF Position
  <2> QED
    BY <1>7, <2>1, <2>2 DEF InStep
<1>11. SoundPrefixLoaded'
  BY <1>8, <1>9 DEF SoundPrefixLoaded
<1>12. NothingSkipped' /\ rPc' # "idle"
  BY <1>1 DEF NothingSkipped
<1> QED
  BY <1>1, <1>3, <1>4, <1>10, <1>11, <1>12 DEF ReaderInv

\* A step of the reader.
LEMMA ReaderStep ==
  ASSUME StorageInv, Reader
  PROVE  ReaderTypes' /\ ReaderInv' /\ UNCHANGED writerVars
<1>1. CASE ReaderOpen
  BY <1>1, ReaderOpenStep DEF ReaderOpen
<1>2. CASE ReadTraceId
  BY <1>2, ReadTraceIdStep DEF ReadTraceId
<1>3. CASE ReadNumSpans
  BY <1>3, ReadNumSpansStep DEF ReadNumSpans
<1>4. CASE ReadSpanLength
  BY <1>4, ReadSpanLengthStep DEF ReadSpanLength
<1>5. CASE ReadSpan
  BY <1>5, ReadSpanStep DEF ReadSpan
<1>6. CASE ReadFails
  BY <1>6, ReadFailsStep DEF ReadFails
<1> QED
  BY <1>1, <1>2, <1>3, <1>4, <1>5, <1>6 DEF Reader

-----------------------------------------------------------------------------
(* The machine stops, the start, and the theorems. *)

\* The machine stops: what is left of the file is the beginning of a good one.
LEMMA PowerCutStep ==
  ASSUME StorageInv, PowerCut
  PROVE  WriterTypes' /\ LogInv' /\ ReaderTypes' /\ ReaderInv'
<1> TypeOK /\ LogInv /\ ReaderInv
  BY DEF StorageInv
<1>1. /\ cuts < MaxPowerCuts /\ cuts' = cuts + 1
      /\ onDisk' \in onDisk..Len(file) /\ file' = SubSeq(file, 1, onDisk')
      /\ isOpen' = FALSE /\ buf' = <<>> /\ pending' = {}
      /\ opens' = opens /\ spansOf' = spansOf /\ safe' = safe
  BY DEF PowerCut
<1>2. /\ rPc' = "idle" /\ rOff' = 0 /\ rTid' = Garbage /\ rLeft' = 0 /\ rLen' = 0
      /\ rSpans' = <<>> /\ loaded' = <<>> /\ rStatus' = "IO_ERROR"
      /\ rFault' = FALSE /\ rBase' = {}
  BY DEF PowerCut
<1>3. /\ file \in Seq(Pairs) /\ Len(file) \in Nat /\ DOMAIN file = 1..Len(file)
      /\ buf \in Seq(Pairs) /\ Len(buf) \in Nat /\ spansOf \in Seq(1..MaxSpans)
      /\ onDisk \in 0..Len(file) /\ cuts \in 0..MaxPowerCuts
  BY Types DEF TypeOK
<1>4. PICK d \in 0..Len(file) : d = onDisk'
  BY <1>1, <1>3
<1> DEFINE f == SubSeq(file, 1, d)
<1>5. /\ f \in Seq(Pairs) /\ Len(f) = d /\ d \in Nat
      /\ \A p \in 1..d : f[p] = file[p]
  <2>1. \A p \in 1..d : file[p] \in Pairs
    BY <1>3, <1>4, ElementOfSeq
  <2>2. 1 \in Int /\ d \in Int /\ d \in Nat /\ d - 1 + 1 = d
    <3>1. PICK l \in Nat : l = Len(file)
      BY <1>3
    <3>2. d \in 0..l
      BY <1>4, <3>1
    <3> QED
      BY <3>2
  <2>3. /\ f \in Seq(Pairs) /\ Len(f) = IF 1 <= d THEN d - 1 + 1 ELSE 0
        /\ \A p \in 1..d - 1 + 1 : f[p] = file[1 + p - 1]
    BY <2>1, <2>2, SubSeqProperties
  <2> HIDE DEF f
  <2>4. Len(f) = d
    BY <2>2, <2>3
  <2>5. \A p \in 1..d : f[p] = file[p]
    <3> TAKE p \in 1..d
    <3>1. 1 + p - 1 = p
      OBVIOUS
    <3> QED
      BY <2>2, <2>3, <3>1
  <2> QED
    BY <2>2, <2>3, <2>4, <2>5
<1>6. file' = f
  BY <1>1, <1>4
<1> HIDE DEF f
<1>7. WellFormed(f \o <<>>, spansOf)
  <2> DEFINE v == f \o <<>>
             w == file \o buf
  <2>1. <<>> \in Seq(Pairs) /\ Len(<<>>) = 0
    BY EmptySeq
  <2>2. /\ v \in Seq(Pairs) /\ Len(v) = d + 0
        /\ \A p \in 1..d + 0 : p <= d => v[p] = f[p]
    BY <1>5, <2>1, ConcatProperties
  <2>3. /\ w \in Seq(Pairs) /\ Len(w) = Len(file) + Len(buf)
        /\ \A p \in 1..Len(file) + Len(buf) : p <= Len(file) => w[p] = file[p]
    BY <1>3, ConcatProperties
  <2>4. WellFormed(w, spansOf)
    BY DEF LogInv, Log
  <2> HIDE DEF v, w
  <2>5. Len(v) = d /\ \A p \in 1..d : v[p] = f[p]
    BY <1>5, <2>2
  <2>6. d <= Len(w) /\ \A p \in 1..d : w[p] = file[p]
    <3>1. PICK l \in Nat, m \in Nat : l = Len(file) /\ m = Len(buf)
      BY <1>3
    <3>2. d \in 0..l
      BY <1>4, <3>1
    <3>3. Len(w) = l + m /\ \A p \in 1..l + m : p <= l => w[p] = file[p]
      BY <2>3, <3>1
    <3> QED
      BY <3>1, <3>2, <3>3
  <2>7. Len(v) <= Len(w) /\ \A p \in 1..Len(v) : v[p] = w[p]
    BY <1>5, <2>5, <2>6
  <2>8. WellFormed(v, spansOf)
    BY <2>2, <2>3, <2>4, <2>7, PrefixWellFormed
  <2> QED
    BY <2>8 DEF v
<1>8. /\ file' \in Seq(Cells') /\ buf' \in Seq(Cells')
      /\ WellFormed(Log, spansOf)'
  <2>1. <<>> \in Seq(Pairs)
    BY EmptySeq
  <2> QED
    BY <1>1, <1>3, <1>5, <1>6, <1>7, <2>1, LogTyped
<1>9. cuts' \in 0..MaxPowerCuts /\ cuts' # 0
  BY <1>1, <1>3, StorageConstants
<1>10. WriterTypes'
  <2>1. Len(buf') <= BufCells
    BY <1>1, StorageConstants
  <2>2. onDisk' \in 0..Len(file')
    BY <1>4, <1>5, <1>6
  <2>3. /\ opens' \in 0..MaxOpens /\ spansOf' \in Seq(1..MaxSpans)
        /\ Len(spansOf') <= MaxRecords /\ isOpen' \in BOOLEAN
        /\ pending' \subseteq Records' /\ safe' \subseteq Records' \ pending'
    BY <1>1 DEF TypeOK, Records
  <2> QED
    BY <1>8, <1>9, <2>1, <2>2, <2>3 DEF WriterTypes
<1>11. LogInv'
  BY <1>1, <1>8, <1>9 DEF LogInv
<1>12. ReaderTypes'
  <2>1. 0 \in 0..Len(file') /\ 0 \in 0..MaxSpansRead /\ 0 \in 0..SpanCells + 1
    BY <1>5, <1>6, StorageConstants
  <2>2. <<>> \in Seq(SpanValues') /\ <<>> \in Seq(Traces')
    BY EmptySeq
  <2> QED
    BY <1>2, <2>1, <2>2 DEF ReaderTypes
<1>13. ReaderInv'
  <2>1. SoundPrefixLoaded'
    <3>1. Len(loaded') = 0 /\ InOrder(0)'
      BY <1>2 DEF InOrder
    <3> QED
      BY <3>1 DEF SoundPrefixLoaded
  <2>2. NothingSkipped' /\ ~Reading'
    BY <1>2 DEF NothingSkipped, Reading
  <2> QED
    BY <1>2, <2>1, <2>2 DEF ReaderInv
<1> QED
  BY <1>10, <1>11, <1>12, <1>13

\* There is no file yet.
LEMMA InitStorageInv == Init => StorageInv
<1> SUFFICES ASSUME Init PROVE StorageInv
  OBVIOUS
<1>1. /\ file = <<>> /\ onDisk = 0 /\ cuts = 0 /\ isOpen = FALSE /\ opens = 0
      /\ buf = <<>> /\ spansOf = <<>> /\ pending = {} /\ safe = {}
      /\ rPc = "idle" /\ rOff = 0 /\ rTid = Garbage /\ rLeft = 0 /\ rLen = 0
      /\ rSpans = <<>> /\ loaded = <<>> /\ rStatus = "IO_ERROR"
      /\ rFault = FALSE /\ rBase = {}
  BY DEF Init
<1>2. Len(<<>>) = 0 /\ \A S : <<>> \in Seq(S)
  BY EmptySeq
<1>3. TypeOK
  <2>1. /\ 0 \in 0..MaxOpens /\ 0 \in 0..MaxPowerCuts /\ 0 \in 0..MaxSpansRead
        /\ 0 \in 0..SpanCells + 1 /\ 0 <= BufCells /\ 0 <= MaxRecords
    BY StorageConstants
  <2>2. /\ file \in Seq(Cells) /\ buf \in Seq(Cells) /\ spansOf \in Seq(1..MaxSpans)
        /\ rSpans \in Seq(SpanValues) /\ loaded \in Seq(Traces)
    BY <1>1, <1>2
  <2>3. 0 \in 0..Len(file) /\ Len(buf) = 0 /\ Len(spansOf) = 0
    BY <1>1
  <2> QED
    BY <1>1, <2>1, <2>2, <2>3 DEF TypeOK
<1>4. LogInv
  <2>1. Log = <<>>
    <3>1. <<>> \o <<>> = <<>>
      OBVIOUS
    <3> QED
      BY <1>1, <3>1 DEF Log
  <2>2. DOMAIN Log = {}
    BY <2>1
  <2> QED
    BY <1>1, <2>2 DEF LogInv, WellFormed
<1>5. ReaderInv
  <2>1. SoundPrefixLoaded
    <3>1. Len(loaded) = 0 /\ InOrder(0)
      BY <1>1 DEF InOrder
    <3> QED
      BY <3>1 DEF SoundPrefixLoaded
  <2> QED
    BY <1>1, <2>1 DEF ReaderInv, NothingSkipped, Reading
<1> QED
  BY <1>3, <1>4, <1>5 DEF StorageInv

\* The type invariant is the two sides' together.
LEMMA TypeParts == TypeOK <=> WriterTypes /\ ReaderTypes
BY DEF TypeOK, WriterTypes, ReaderTypes

\* Every step preserves the invariant.
LEMMA StepStorageInv ==
  ASSUME StorageInv, [Next]_vars
  PROVE  StorageInv'
<1> TypeOK /\ LogInv /\ ReaderInv /\ WriterTypes /\ ReaderTypes
  BY TypeParts DEF StorageInv
<1> SUFFICES WriterTypes' /\ ReaderTypes' /\ LogInv' /\ ReaderInv'
  BY DEF StorageInv, TypeOK, WriterTypes, ReaderTypes
<1>1. CASE Writer
  <2>1. UNCHANGED readerVars
    BY <1>1 DEF Writer, StorageOpen, StorageWriteTrace, StorageWriteTraceFails,
                StorageFlush, StorageClose, Kill
  <2>2. WriterKept
    BY <1>1, WriterStep
  <2> QED
    BY <2>1, <2>2, ReaderTypesKept, WriterReader DEF WriterKept
<1>2. ASSUME UNCHANGED writerVars PROVE WriterTypes' /\ LogInv' /\ Grows
  <2>1. /\ file' = file /\ onDisk' = onDisk /\ isOpen' = isOpen /\ opens' = opens
        /\ cuts' = cuts /\ buf' = buf /\ spansOf' = spansOf
        /\ pending' = pending /\ safe' = safe
    BY <1>2 DEF writerVars
  <2>2. Records' = Records
    BY <2>1 DEF Records
  <2>3. WriterTypes'
    BY <2>1, <2>2 DEF WriterTypes, Cells, Records
  <2>4. LogInv'
    BY <2>1 DEF LogInv, Log, WellFormed, EndsIn
  <2>5. Grows
    BY <2>1, <2>2, Types DEF Grows
  <2> QED
    BY <2>3, <2>4, <2>5
<1>3. CASE Reader
  BY <1>2, <1>3, ReaderStep
<1>4. CASE PowerCut
  BY <1>4, PowerCutStep
<1>5. CASE UNCHANGED vars
  <2>1. UNCHANGED writerVars /\ UNCHANGED readerVars
    BY <1>5 DEF vars
  <2> QED
    BY <1>2, <2>1, ReaderTypesKept, WriterReader DEF WriterKept
<1> QED
  BY <1>1, <1>3, <1>4, <1>5 DEF Next

\* The invariant holds in every behaviour, for every size of the fields, the
\* buffer and the log.
THEOREM StorageInvariant == Spec => []StorageInv
<1>1. Init => StorageInv
  BY InitStorageInv
<1>2. StorageInv /\ [Next]_vars => StorageInv'
  BY StepStorageInv
<1> QED
  BY <1>1, <1>2, PTL DEF Spec

\* The file and the buffer of storage.c hold only cells of records that
\* exist, and what query.c has read, a count or a length of garbage
\* included, stays within its bounds.
THEOREM StorageTypeCorrect == Spec => []TypeOK
<1>1. StorageInv => TypeOK
  BY DEF StorageInv
<1> QED
  BY <1>1, StorageInvariant, PTL

\* query_load_all_status returns the intact records that precede the first
\* torn one, whole, in order and with none left out, before it returns
\* anything else, whatever the collector, its restarts and a power cut do
\* to the file meanwhile.
THEOREM StorageSoundPrefix == Spec => []SoundPrefixLoaded
<1>1. StorageInv => SoundPrefixLoaded
  BY DEF StorageInv, ReaderInv
<1> QED
  BY <1>1, StorageInvariant, PTL

\* A reader that meets no failure of its own returns every record that could
\* be read when it opened the file, up to the first with more spans than the
\* reader takes.
THEOREM StorageNothingSkipped == Spec => []NothingSkipped
<1>1. StorageInv => NothingSkipped
  BY DEF StorageInv, ReaderInv
<1> QED
  BY <1>1, StorageInvariant, PTL

\* What storage_flush or storage_close wrote without failure can be read
\* from then on, unless a record before it is torn or the machine stopped.
THEOREM StorageFlushed == Spec => []FlushedIsReadable
<1>1. StorageInv => FlushedIsReadable
  BY WholeIsReadable DEF StorageInv
<1> QED
  BY <1>1, StorageInvariant, PTL
=============================================================================

-------------------------- MODULE LogTailerProofs --------------------------
(***************************************************************************)
(* LogTailer implements LineStream, for any numbers of lines, files and    *)
(* starts, whether the file is joined at its start or at its end.          *)
(***************************************************************************)
EXTENDS LogTailer, SequenceTheorems, TLAPS

\* q may be what was written right after p, or p begins the line q ends.
Precedes(p, q) ==
    \/ p.line < q.line
    \/ p.line = q.line /\ p.part = "first" /\ q.part = "rest"

\* Lines are begun in the order of their numbers ...
InOrder(s) ==
    \A i, j \in DOMAIN s : i < j =>
        s[i].line < s[j].line \/ (j = i + 1 /\ Precedes(s[i], s[j]))

\* ... and one that was begun is ended by the next piece.
Paired(s) ==
    \A i \in DOMAIN s : (s[i].part = "first" /\ i + 1 \in DOMAIN s) =>
        s[i + 1].part = "rest" /\ s[i + 1].line = s[i].line

\* The end of a line at i follows its beginning.
EndsItsLine(s, i) == i > 1 /\ s[i - 1].part = "first" /\ s[i - 1].line = s[i].line

Sound(s) ==
    /\ InOrder(s)
    /\ Paired(s)
    /\ \A i \in DOMAIN s : s[i].part = "rest" => EndsItsLine(s, i)

\* Every line is in one file, and later files hold later lines.
LogIsInOrder ==
    /\ path \in {NoFile, created}
    /\ \A f \in Files : f > created => content[f] = <<>>
    /\ \A f \in Files : Sound(content[f])
    /\ \A f, g \in Files : f < g =>
          \A i \in DOMAIN content[f], j \in DOMAIN content[g] : content[f][i].line < content[g][j].line
    /\ \A f \in Files : \A i \in DOMAIN content[f] : content[f][i].line <= written

\* A line that is not excused is in the file the path names.
UnexcusedStays ==
    /\ excused \subseteq 1 .. written
    /\ \A k \in (1 .. written) \ excused : path # NoFile /\ k \in LinesOf(content[path])

\* What the tailer holds and what it yielded was written.
BufferIsWritten ==
    /\ \A i \in DOMAIN pending : pending[i].line <= written
    /\ \A i \in DOMAIN partial : partial[i].line <= written
    /\ Stream!Newest \in 0 .. written

CursorIsKnown ==
    /\ fingerprint <= created
    /\ fingerprint = NoFile => position = 0 /\ partial = <<>> /\ ~cut
    /\ place \in {"opening", "reading"} => fingerprint # NoFile

Tracked == LogIsInOrder /\ UnexcusedStays /\ BufferIsWritten /\ CursorIsKnown

\* The buffer holds later lines than came out, whole unless they are excused.
BufferIsInOrder ==
    /\ InOrder(pending)
    /\ Paired(pending)
    /\ \A i \in DOMAIN pending :
          pending[i].part = "rest" => EndsItsLine(pending, i) \/ pending[i].line \in excused
    /\ Len(partial) <= 1
    /\ \A i \in DOMAIN pending : pending[i].line > Stream!Newest
    /\ \A i \in DOMAIN partial : partial[i].line > Stream!Newest
    /\ \A i \in DOMAIN pending, j \in DOMAIN partial : pending[i].line < partial[j].line

\* The line is later than those yielded and those to be yielded.
IsAhead(k) == k > Stream!Newest /\ \A i \in DOMAIN pending : k > pending[i].line

\* In a file the tailer has not looked at, or not since it was truncated, all is
\* ahead.
NewFileIsAhead ==
    path # NoFile /\ (fingerprint # path \/ cut) =>
        \A j \in DOMAIN content[path] :
            /\ IsAhead(content[path][j].line)
            /\ \A i \in DOMAIN partial : content[path][j].line > partial[i].line

\* The position parts the file into what is ahead and what is excused, yielded or
\* buffered.
Accounted(k) ==
    k \in excused \/ k <= Stream!Newest \/ k \in LinesOf(pending) \/ k \in LinesOf(partial)

CursorIsExact ==
    fingerprint # NoFile /\ ~cut =>
        /\ position <= Len(content[fingerprint])
        /\ partial # <<>> => position > 0 /\ content[fingerprint][position] = partial[1]
        /\ \A i \in position + 1 .. Len(content[fingerprint]) : IsAhead(content[fingerprint][i].line)
        /\ \A i \in 1 .. position : Accounted(content[fingerprint][i].line)
        /\ position > 0 /\ content[fingerprint][position].part = "first" =>
              /\ IsAhead(content[fingerprint][position].line)
              /\ partial # <<>> \/ content[fingerprint][position].line \in excused

Exact == BufferIsInOrder /\ NewFileIsAhead /\ CursorIsExact

\* The inductive invariant.
IInv == TypeOK /\ Tracked /\ (torn \/ Exact)
-----------------------------------------------------------------------------
(* Sequences of pieces. *)

LEMMA SliceProperties ==
    ASSUME NEW s \in Seq(Pieces), NEW m \in Nat \ {0}, NEW n \in Nat, n <= Len(s)
    PROVE  /\ SubSeq(s, m, n) \in Seq(Pieces)
           /\ Len(SubSeq(s, m, n)) = IF m <= n THEN n - m + 1 ELSE 0
           /\ DOMAIN SubSeq(s, m, n) = 1 .. Len(SubSeq(s, m, n))
           /\ \A i \in DOMAIN SubSeq(s, m, n) :
                 m + i - 1 \in DOMAIN s /\ SubSeq(s, m, n)[i] = s[m + i - 1]
<1>1. \A i \in m .. n : s[i] \in Pieces
  BY ElementOfSeq
<1>2. /\ SubSeq(s, m, n) \in Seq(Pieces)
      /\ Len(SubSeq(s, m, n)) = IF m <= n THEN n - m + 1 ELSE 0
      /\ \A i \in 1 .. n - m + 1 : SubSeq(s, m, n)[i] = s[m + i - 1]
  BY <1>1, SubSeqProperties
<1>3. DOMAIN SubSeq(s, m, n) = 1 .. Len(SubSeq(s, m, n)) /\ DOMAIN s = 1 .. Len(s)
  BY <1>2, LenProperties
<1> QED
  BY <1>2, <1>3

LEMMA SuffixProperties ==
    ASSUME NEW s \in Seq(Pieces), NEW n \in Nat, n <= Len(s)
    PROVE  /\ SubSeq(s, n + 1, Len(s)) \in Seq(Pieces)
           /\ Len(SubSeq(s, n + 1, Len(s))) = Len(s) - n
           /\ DOMAIN SubSeq(s, n + 1, Len(s)) = 1 .. Len(s) - n
           /\ \A i \in 1 .. Len(s) - n : n + i \in DOMAIN s /\ SubSeq(s, n + 1, Len(s))[i] = s[n + i]
<1>1. Len(s) \in Nat
  BY LenProperties
<1> DEFINE m == n + 1
           t == SubSeq(s, m, Len(s))
<1>2. m \in Nat \ {0} /\ m = n + 1
  OBVIOUS
<1> HIDE DEF m
<1>3. /\ t \in Seq(Pieces)
      /\ Len(t) = IF m <= Len(s) THEN Len(s) - m + 1 ELSE 0
      /\ DOMAIN t = 1 .. Len(t)
      /\ \A i \in DOMAIN t : m + i - 1 \in DOMAIN s /\ t[i] = s[m + i - 1]
  BY <1>1, <1>2, SliceProperties
<1> HIDE DEF t
<1>4. Len(t) = Len(s) - n
  BY <1>1, <1>2, <1>3
<1>5. \A i \in 1 .. Len(s) - n : m + i - 1 = n + i
  BY <1>1, <1>2
<1>6. t = SubSeq(s, n + 1, Len(s))
  BY <1>2 DEF t
<1> QED
  BY <1>3, <1>4, <1>5, <1>6

LEMMA ExtendedProperties ==
    ASSUME NEW s \in Seq(Pieces), NEW p \in Pieces
    PROVE  /\ Append(s, p) \in Seq(Pieces)
           /\ DOMAIN s = 1 .. Len(s)
           /\ DOMAIN Append(s, p) = 1 .. Len(s) + 1
           /\ Len(Append(s, p)) = Len(s) + 1
           /\ Len(s) \in Nat
           /\ \A i \in DOMAIN s : Append(s, p)[i] = s[i] /\ s[i] \in Pieces
           /\ Append(s, p)[Len(s) + 1] = p
<1>1. /\ Append(s, p) \in Seq(Pieces)
      /\ Len(Append(s, p)) = Len(s) + 1
      /\ \A i \in 1 .. Len(s) : Append(s, p)[i] = s[i]
      /\ Append(s, p)[Len(s) + 1] = p
  BY AppendProperties
<1>2. DOMAIN s = 1 .. Len(s) /\ DOMAIN Append(s, p) = 1 .. Len(Append(s, p)) /\ Len(s) \in Nat
  BY <1>1, LenProperties
<1>3. \A i \in 1 .. Len(s) : s[i] \in Pieces
  BY ElementOfSeq
<1> QED
  BY <1>1, <1>2, <1>3

\* What stays of a file is sound when a new line is begun or its last one ended.
LEMMA ExtendedIsSound ==
    ASSUME NEW s \in Seq(Pieces), Sound(s), NEW p \in Pieces,
           \/ /\ p.part # "rest"
              /\ \A i \in DOMAIN s : s[i].line < p.line
              /\ s # <<>> => s[Len(s)].part # "first"
           \/ s # <<>> /\ s[Len(s)].part = "first" /\ p.line = s[Len(s)].line /\ p.part = "rest"
    PROVE  Sound(Append(s, p))
<1> DEFINE t == Append(s, p)
<1>1. /\ DOMAIN s = 1 .. Len(s)
      /\ DOMAIN t = 1 .. Len(s) + 1
      /\ Len(s) \in Nat
      /\ \A i \in DOMAIN s : t[i] = s[i] /\ s[i].line \in Nat
      /\ t[Len(s) + 1] = p
      /\ p.line \in Nat
  <2>1. /\ DOMAIN s = 1 .. Len(s) /\ DOMAIN t = 1 .. Len(s) + 1 /\ Len(s) \in Nat
        /\ \A i \in DOMAIN s : t[i] = s[i] /\ s[i] \in Pieces
        /\ t[Len(s) + 1] = p
    BY ExtendedProperties
  <2>2. \A q \in Pieces : q.line \in Nat
    BY TailerAssumption DEF Pieces, Lines
  <2> HIDE DEF t
  <2> QED
    BY <2>1, <2>2
<1>2. s # <<>> => Len(s) \in DOMAIN s
  BY <1>1, EmptySeq
<1>3. Len(s) \in DOMAIN s => s # <<>>
  BY EmptySeq, <1>1
<1>4. \A i \in DOMAIN s : s[i].line < p.line \/ (i = Len(s) /\ Precedes(s[i], p))
  <2>1. CASE \A i \in DOMAIN s : s[i].line < p.line
    BY <2>1
  <2>2. CASE s # <<>> /\ s[Len(s)].part = "first" /\ p.line = s[Len(s)].line /\ p.part = "rest"
    BY <2>2, <1>1, <1>2 DEF Sound, InOrder, Precedes
  <2> QED
    BY <2>1, <2>2
<1> HIDE DEF t
<1>5. InOrder(t)
  BY <1>1, <1>4 DEF Sound, InOrder, Precedes
<1>6. Paired(t)
  BY <1>1, <1>3 DEF Sound, Paired
<1>7. \A i \in DOMAIN t : t[i].part = "rest" => EndsItsLine(t, i)
  BY <1>1, <1>2 DEF Sound, EndsItsLine
<1> QED
  BY <1>5, <1>6, <1>7 DEF Sound, t
-----------------------------------------------------------------------------
(* Types. *)

USE TailerAssumption DEF NoFile

LEMMA PieceFields ==
    /\ \A p \in Pieces : p.line \in Nat \ {0} /\ p.line \in Lines /\ p.part \in {"whole", "first", "rest"}
    /\ Lines \subseteq Nat \ {0}
    /\ Files \subseteq Nat \ {0} /\ NoFile \notin Files
BY DEF Pieces, Lines, Files

LEMMA ContentIsTyped ==
    ASSUME TypeOK, NEW f \in Files
    PROVE  /\ content[f] \in Seq(Pieces) /\ Len(content[f]) \in Nat
           /\ DOMAIN content[f] = 1 .. Len(content[f])
           /\ \A i \in DOMAIN content[f] : content[f][i] \in Pieces
           /\ content[f] # <<>> => Len(content[f]) \in DOMAIN content[f]
<1>1. content[f] \in Seq(Pieces)
  BY DEF TypeOK
<1>2. Len(content[f]) \in Nat /\ DOMAIN content[f] = 1 .. Len(content[f])
  BY <1>1, LenProperties
<1>3. \A i \in DOMAIN content[f] : content[f][i] \in Pieces
  BY <1>1, <1>2, ElementOfSeq
<1>4. content[f] # <<>> => Len(content[f]) # 0
  BY <1>1, EmptySeq
<1> QED
  BY <1>1, <1>2, <1>3, <1>4

LEMMA BufferIsTyped ==
    ASSUME TypeOK
    PROVE  /\ pending \in Seq(Pieces) /\ Len(pending) \in Nat /\ DOMAIN pending = 1 .. Len(pending)
           /\ partial \in Seq(Pieces) /\ Len(partial) \in Nat /\ DOMAIN partial = 1 .. Len(partial)
           /\ \A i \in DOMAIN pending : pending[i] \in Pieces
           /\ \A i \in DOMAIN partial : partial[i] \in Pieces
           /\ partial # <<>> => Len(partial) # 0
           /\ pending # <<>> => Len(pending) # 0
<1>1. pending \in Seq(Pieces) /\ partial \in Seq(Pieces)
  BY DEF TypeOK
<1>2. Len(pending) \in Nat /\ DOMAIN pending = 1 .. Len(pending)
  BY <1>1, LenProperties
<1>3. Len(partial) \in Nat /\ DOMAIN partial = 1 .. Len(partial)
  BY <1>1, LenProperties
<1>4. (\A i \in DOMAIN pending : pending[i] \in Pieces) /\ \A i \in DOMAIN partial : partial[i] \in Pieces
  BY <1>1, <1>2, <1>3, ElementOfSeq
<1>5. (partial # <<>> => Len(partial) # 0) /\ (pending # <<>> => Len(pending) # 0)
  BY <1>1, EmptySeq
<1> QED
  BY <1>1, <1>2, <1>3, <1>4, <1>5

\* What a step appends to the file at the path.
LEMMA AppendIsTyped ==
    ASSUME TypeOK, path # NoFile, NEW k \in Lines, NEW part \in {"whole", "first", "rest"},
           AppendPiece(k, part)
    PROVE  /\ content' \in [Files -> Seq(Pieces)]
           /\ content'[path] = Append(content[path], [line |-> k, part |-> part])
           /\ [line |-> k, part |-> part] \in Pieces
           /\ \A f \in Files : f # path => content'[f] = content[f]
<1>1. [line |-> k, part |-> part] \in Pieces
  BY DEF Pieces
<1>2. path \in Files
  BY DEF TypeOK
<1>3. Append(content[path], [line |-> k, part |-> part]) \in Seq(Pieces)
  BY <1>1, <1>2, ExtendedProperties DEF TypeOK
<1> QED
  BY <1>1, <1>2, <1>3 DEF TypeOK, AppendPiece

\* Lines are only begun up to the bound.
LEMMA WriteLineAppends ==
    ASSUME TypeOK, WriteLine
    PROVE  /\ path \in Files /\ written + 1 \in Lines
           /\ \E part \in {"whole", "first"} : AppendPiece(written + 1, part)
BY DEF TypeOK, WriteLine, Lines

LEMMA FinishLineAppends ==
    ASSUME TypeOK, FinishLine
    PROVE  /\ path \in Files /\ content[path] # <<>>
           /\ content[path][Len(content[path])] \in Pieces
           /\ content[path][Len(content[path])].part = "first"
           /\ content[path][Len(content[path])].line \in Lines
           /\ AppendPiece(content[path][Len(content[path])].line, "rest")
<1>1. path \in Files /\ content[path] # <<>> /\ content[path][Len(content[path])].part = "first"
  BY DEF TypeOK, FinishLine, Unfinished, Newest
<1>2. content[path][Len(content[path])] \in Pieces
  BY <1>1, ContentIsTyped
<1> QED
  BY <1>1, <1>2, PieceFields DEF FinishLine, Newest

\* The lines a file holds are lines.
LEMMA LinesAreLines ==
    ASSUME NEW s \in Seq(Pieces)
    PROVE  LinesOf(s) \subseteq Lines
BY LenProperties, ElementOfSeq, PieceFields DEF LinesOf

LEMMA LoggerTypes ==
    ASSUME TypeOK, Logger
    PROVE  TypeOK'
<1>1. CASE WriteLine
  <2>1. path \in Files /\ written + 1 \in Lines /\ \E part \in {"whole", "first"} : AppendPiece(written + 1, part)
    BY <1>1, WriteLineAppends
  <2>2. content' \in [Files -> Seq(Pieces)]
    BY <2>1, AppendIsTyped, PieceFields
  <2>3. written' \in 0 .. MaxLines
    BY <1>1, <2>1 DEF WriteLine, Lines
  <2> QED
    BY <1>1, <2>2, <2>3 DEF WriteLine, TypeOK, cursor, thread, history
<1>2. CASE FinishLine
  <2>1. content' \in [Files -> Seq(Pieces)]
    BY <1>2, FinishLineAppends, AppendIsTyped, PieceFields
  <2> QED
    BY <1>2, <2>1 DEF FinishLine, TypeOK, cursor, thread, history
<1>3. CASE Create
  BY <1>3 DEF Create, TypeOK, cursor, thread, history, Files
<1>4. CASE Rotate
  <2>1. path \in Files
    BY <1>4 DEF Rotate, TypeOK
  <2>2. LinesOf(content[path]) \subseteq Lines
    BY <2>1, ContentIsTyped, LinesAreLines
  <2> QED
    BY <1>4, <2>2 DEF Rotate, TypeOK, cursor, thread
<1>5. CASE Truncate
  <2>1. path \in Files
    BY <1>5 DEF Truncate, TypeOK
  <2>2. LinesOf(content[path]) \subseteq Lines
    BY <2>1, ContentIsTyped, LinesAreLines
  <2>3. content' \in [Files -> Seq(Pieces)]
    BY <1>5, EmptySeq DEF Truncate, TypeOK
  <2> QED
    BY <1>5, <2>2, <2>3 DEF Truncate, TypeOK, cursor, thread
<1> QED
  BY <1>1, <1>2, <1>3, <1>4, <1>5 DEF Logger

\* What a chunk adds to the partial line: lines that end, and one that does not.
LEMMA ChunkIsTyped ==
    ASSUME TypeOK, NEW upto \in Nat, place = "reading", position < upto, upto <= Len(content[fd]),
           NEW n \in Nat, n <= Len(partial \o SubSeq(content[fd], position + 1, upto)),
           SplitsAt(partial \o SubSeq(content[fd], position + 1, upto), n)
    PROVE  LET data == partial \o SubSeq(content[fd], position + 1, upto)
           IN  /\ data \in Seq(Pieces)
               /\ Len(data) = Len(partial) + upto - position
               /\ \A i \in 1 .. Len(partial) : data[i] = partial[i]
               /\ \A i \in Len(partial) + 1 .. Len(data) : data[i] = content[fd][position + i - Len(partial)]
               /\ SubSeq(data, 1, n) \in Seq(Pieces) /\ SubSeq(data, n + 1, Len(data)) \in Seq(Pieces)
               /\ Len(SubSeq(data, 1, n)) = n /\ Len(SubSeq(data, n + 1, Len(data))) = Len(data) - n
               /\ \A i \in 1 .. n : SubSeq(data, 1, n)[i] = data[i]
               /\ \A i \in 1 .. Len(data) - n : SubSeq(data, n + 1, Len(data))[i] = data[n + i]
               /\ \A i \in 1 .. Len(data) : data[i] \in Pieces
               /\ n > 0 => IsEnd(data[n])
               /\ \A i \in n + 1 .. Len(data) : ~IsEnd(data[i])
<1> DEFINE slice == SubSeq(content[fd], position + 1, upto)
           data == partial \o slice
<1>1. fd \in Files /\ position \in Nat
  BY DEF TypeOK
<1>2. content[fd] \in Seq(Pieces)
  BY <1>1 DEF TypeOK
<1>3. /\ slice \in Seq(Pieces)
      /\ Len(slice) = upto - position
      /\ DOMAIN slice = 1 .. Len(slice)
      /\ \A i \in DOMAIN slice : slice[i] = content[fd][position + 1 + i - 1]
  BY <1>1, <1>2, SliceProperties
<1>4. partial \in Seq(Pieces) /\ Len(partial) \in Nat
  BY BufferIsTyped
<1>5. SplitsAt(data, n) /\ n <= Len(data)
  OBVIOUS
<1> HIDE DEF slice
<1>6. /\ data \in Seq(Pieces)
      /\ Len(data) = Len(partial) + Len(slice)
      /\ \A i \in 1 .. Len(partial) + Len(slice) : data[i] = IF i <= Len(partial) THEN partial[i] ELSE slice[i - Len(partial)]
  <2>1. partial \in Seq(Pieces) /\ slice \in Seq(Pieces)
    BY <1>3, <1>4
  <2> QED
    BY <2>1, ConcatProperties
<1> HIDE DEF data
<1>7. \A i \in Len(partial) + 1 .. Len(data) : data[i] = content[fd][position + i - Len(partial)]
  <2> SUFFICES ASSUME NEW i \in Len(partial) + 1 .. Len(data)
               PROVE  data[i] = content[fd][position + i - Len(partial)]
    OBVIOUS
  <2>1. i - Len(partial) \in DOMAIN slice /\ i \in 1 .. Len(partial) + Len(slice) /\ ~(i <= Len(partial))
    BY <1>1, <1>3, <1>4, <1>6
  <2>2. data[i] = slice[i - Len(partial)]
    BY <2>1, <1>6
  <2>3. slice[i - Len(partial)] = content[fd][position + 1 + (i - Len(partial)) - 1]
    BY <2>1, <1>3
  <2>4. position + 1 + (i - Len(partial)) - 1 = position + i - Len(partial)
    BY <1>1, <1>4
  <2> QED
    BY <2>2, <2>3, <2>4
<1>8. /\ SubSeq(data, 1, n) \in Seq(Pieces)
      /\ Len(SubSeq(data, 1, n)) = n
      /\ DOMAIN SubSeq(data, 1, n) = 1 .. Len(SubSeq(data, 1, n))
      /\ \A i \in DOMAIN SubSeq(data, 1, n) : SubSeq(data, 1, n)[i] = data[1 + i - 1]
  BY <1>5, <1>6, SliceProperties
<1>9. /\ SubSeq(data, n + 1, Len(data)) \in Seq(Pieces)
      /\ Len(SubSeq(data, n + 1, Len(data))) = Len(data) - n
      /\ \A i \in 1 .. Len(data) - n : SubSeq(data, n + 1, Len(data))[i] = data[n + i]
  BY <1>5, <1>6, SuffixProperties
<1>10. \A i \in 1 .. Len(data) : data[i] \in Pieces
  BY <1>6, ElementOfSeq
<1>11. /\ n > 0 => IsEnd(data[n])
       /\ \A i \in n + 1 .. Len(data) : ~IsEnd(data[i])
  BY <1>5 DEF SplitsAt
<1>12. Len(data) = Len(partial) + upto - position
  BY <1>3, <1>6, <1>1, <1>4
<1>13. \A i \in 1 .. Len(partial) : data[i] = partial[i]
  BY <1>1, <1>3, <1>4, <1>6
<1>14. \A i \in 1 .. n : SubSeq(data, 1, n)[i] = data[i]
  BY <1>8
<1> QED
  BY <1>6, <1>7, <1>8, <1>9, <1>10, <1>11, <1>12, <1>13, <1>14 DEF data, slice

\* What a line that is yielded leaves in the buffer.
LEMMA RestOfPending ==
    ASSUME TypeOK, NEW n \in DOMAIN pending
    PROVE  LET rest == SubSeq(pending, n + 1, Len(pending))
           IN  /\ rest \in Seq(Pieces)
               /\ Len(rest) = Len(pending) - n
               /\ DOMAIN rest = 1 .. Len(pending) - n
               /\ \A i \in DOMAIN rest : n + i \in DOMAIN pending /\ rest[i] = pending[n + i]
<1>1. pending \in Seq(Pieces) /\ Len(pending) \in Nat /\ n \in Nat /\ n <= Len(pending)
  BY BufferIsTyped
<1> QED
  BY <1>1, SuffixProperties

LEMMA PollTypes ==
    ASSUME TypeOK, Poll
    PROVE  TypeOK'
<1>1. CASE Yield
  <2>1. PICK n \in DOMAIN pending :
          /\ emitted' = Append(emitted, [line |-> pending[n].line, whole |-> IsWhole(SubSeq(pending, 1, n))])
          /\ pending' = SubSeq(pending, n + 1, Len(pending))
    BY <1>1 DEF Yield
  <2>2. pending[n].line \in Lines /\ Len(pending) \in Nat /\ DOMAIN pending = 1 .. Len(pending)
    BY BufferIsTyped, PieceFields
  <2>3. IsWhole(SubSeq(pending, 1, n)) \in BOOLEAN
    BY DEF IsWhole
  <2>4. emitted' \in Seq([line : Lines, whole : BOOLEAN])
    BY <2>1, <2>2, <2>3, AppendProperties DEF TypeOK
  <2>5. /\ pending' \in Seq(Pieces)
        /\ Len(pending') = Len(pending) - n
        /\ \A i \in 1 .. Len(pending) - n : pending'[i] = pending[n + i]
    BY <2>1, RestOfPending
  <2>6. pending' # <<>> => IsEnd(pending'[Len(pending')])
    <3> SUFFICES ASSUME pending' # <<>> PROVE IsEnd(pending'[Len(pending')])
      OBVIOUS
    <3>1. Len(pending') # 0
      BY <2>5, EmptySeq
    <3>2. pending'[Len(pending')] = pending[Len(pending)] /\ pending # <<>>
      BY <2>2, <2>5, <3>1, EmptySeq
    <3> QED
      BY <3>2 DEF TypeOK
  <2> QED
    BY <1>1, <2>4, <2>5, <2>6 DEF Yield, TypeOK, files, thread
<1>2. CASE Missing
  <2>1. partial' \in Seq(Pieces) /\ \A i \in DOMAIN partial' : ~IsEnd(partial'[i])
    BY <1>2, EmptySeq DEF Missing
  <2> QED
    BY <1>2, <2>1 DEF Missing, TypeOK, files
<1>3. CASE Stat
  <2> DEFINE size == Len(content[path])
             reopened == path # fingerprint \/ size < position
  <2>1. path \in Files
    BY <1>3 DEF Stat, TypeOK
  <2>2. content[path] \in Seq(Pieces) /\ size \in Nat
    BY <2>1, ContentIsTyped
  <2>3. position' = (IF reopened THEN StartPosition ELSE position) /\ position' \in Nat /\ (fingerprint = NoFile => position' <= size)
    BY <1>3, <2>1, <2>2 DEF Stat, StartPosition, TypeOK, Files
  <2>4. fingerprint = NoFile => LinesOf(SubSeq(content[path], 1, position')) \subseteq Lines
    <3>1. \A q \in Nat : q <= size => LinesOf(SubSeq(content[path], 1, q)) \subseteq Lines
      <4> SUFFICES ASSUME NEW q \in Nat, q <= size PROVE LinesOf(SubSeq(content[path], 1, q)) \subseteq Lines
        OBVIOUS
      <4>1. SubSeq(content[path], 1, q) \in Seq(Pieces)
        BY <2>2, SliceProperties
      <4> QED
        BY <4>1, LinesAreLines
    <3> QED
      BY <2>3, <3>1
  <2>5. /\ fingerprint' = path /\ partial' = (IF reopened THEN <<>> ELSE partial)
        /\ cut' = (cut /\ ~reopened)
        /\ excused' = excused \cup (IF fingerprint = NoFile THEN LinesOf(SubSeq(content[path], 1, position')) ELSE {})
        /\ place' \in {"resting", "opening"} /\ place # "reading"
        /\ UNCHANGED <<files, pending, stop_event, fd, restarts, emitted, torn>>
    BY <1>3 DEF Stat
  <2>6. excused' \subseteq Lines
    BY <2>4, <2>5 DEF TypeOK
  <2>7. partial' \in Seq(Pieces) /\ \A i \in DOMAIN partial' : ~IsEnd(partial'[i])
    BY <2>5, EmptySeq DEF TypeOK
  <2> HIDE DEF reopened
  <2> QED
    BY <2>1, <2>3, <2>5, <2>6, <2>7 DEF TypeOK, files
<1>4. CASE Open
  BY <1>4 DEF Open, TypeOK, files, cursor, history
<1>5. CASE ReadChunk
  <2>1. PICK upto \in (position + 1) .. Len(content[fd]) :
          LET data == partial \o SubSeq(content[fd], position + 1, upto)
          IN  \E n \in 0 .. Len(data) :
                 /\ SplitsAt(data, n)
                 /\ pending' = SubSeq(data, 1, n)
                 /\ partial' = SubSeq(data, n + 1, Len(data))
                 /\ position' = upto
    BY <1>5 DEF ReadChunk, PartialOf
  <2> DEFINE data == partial \o SubSeq(content[fd], position + 1, upto)
  <2>2. PICK n \in 0 .. Len(data) :
          SplitsAt(data, n) /\ pending' = SubSeq(data, 1, n) /\ partial' = SubSeq(data, n + 1, Len(data)) /\ position' = upto
    BY <2>1
  <2>3. place = "reading" /\ fd \in Files /\ position \in Nat
    BY <1>5 DEF ReadChunk, TypeOK
  <2>4. Len(content[fd]) \in Nat /\ upto \in Nat /\ position < upto /\ upto <= Len(content[fd])
    BY <2>3, ContentIsTyped
  <2>5. /\ pending' \in Seq(Pieces) /\ partial' \in Seq(Pieces)
        /\ Len(pending') = n /\ Len(partial') = Len(data) - n
        /\ \A i \in 1 .. n : pending'[i] = data[i]
        /\ \A i \in 1 .. Len(data) - n : partial'[i] = data[n + i]
        /\ n > 0 => IsEnd(data[n])
        /\ \A i \in n + 1 .. Len(data) : ~IsEnd(data[i])
        /\ Len(data) \in Nat /\ n \in Nat
    <3>1. Len(data) = Len(partial) + upto - position /\ n \in Nat /\ n <= Len(data)
      BY <2>2, <2>3, <2>4, ChunkIsTyped
    <3>2. /\ SubSeq(data, 1, n) \in Seq(Pieces) /\ SubSeq(data, n + 1, Len(data)) \in Seq(Pieces)
          /\ Len(SubSeq(data, 1, n)) = n /\ Len(SubSeq(data, n + 1, Len(data))) = Len(data) - n
          /\ \A i \in 1 .. n : SubSeq(data, 1, n)[i] = data[i]
          /\ \A i \in 1 .. Len(data) - n : SubSeq(data, n + 1, Len(data))[i] = data[n + i]
          /\ n > 0 => IsEnd(data[n])
          /\ \A i \in n + 1 .. Len(data) : ~IsEnd(data[i])
      BY <2>2, <2>3, <2>4, <3>1, ChunkIsTyped
    <3> HIDE DEF data
    <3>3. Len(data) \in Nat
      BY <2>3, <2>4, <3>1, BufferIsTyped
    <3> QED
      BY <2>2, <3>1, <3>2, <3>3
  <2> HIDE DEF data
  <2>6. pending' # <<>> => IsEnd(pending'[Len(pending')])
    <3> SUFFICES ASSUME pending' # <<>> PROVE IsEnd(pending'[Len(pending')])
      OBVIOUS
    <3>1. Len(pending') # 0
      BY <2>5, EmptySeq
    <3> QED
      BY <2>5, <3>1
  <2>7. \A i \in DOMAIN partial' : ~IsEnd(partial'[i])
    <3>1. DOMAIN partial' = 1 .. Len(data) - n
      BY <2>5, LenProperties
    <3> SUFFICES ASSUME NEW i \in DOMAIN partial' PROVE ~IsEnd(partial'[i])
      OBVIOUS
    <3>2. i \in 1 .. Len(data) - n /\ n + i \in n + 1 .. Len(data)
      BY <2>5, <3>1
    <3>3. partial'[i] = data[n + i] /\ ~IsEnd(data[n + i])
      BY <2>5, <3>2
    <3> QED
      BY <3>3
  <2>8. position' \in Nat
    BY <2>2, <2>4
  <2>9. torn' \in BOOLEAN
    BY <1>5 DEF ReadChunk, TypeOK
  <2> QED
    BY <1>5, <2>5, <2>6, <2>7, <2>8, <2>9 DEF ReadChunk, TypeOK, files, thread
<1>6. CASE EndOfFile
  BY <1>6 DEF EndOfFile, TypeOK, files, cursor, history
<1>7. CASE Rest
  BY <1>7 DEF Rest, TypeOK, files, cursor, history
<1> QED
  BY <1>1, <1>2, <1>3, <1>4, <1>5, <1>6, <1>7 DEF Poll

LEMMA TypeStep == TypeOK /\ [Next]_vars => TypeOK'
<1> SUFFICES ASSUME TypeOK, [Next]_vars PROVE TypeOK'
  OBVIOUS
<1>1. CASE Logger
  BY <1>1, LoggerTypes
<1>2. CASE Poll
  BY <1>2, PollTypes
<1>3. CASE Crash
  BY <1>3 DEF Crash, TypeOK, files, cursor, history
<1>4. CASE Stop
  BY <1>4 DEF Stop, TypeOK, files, cursor, history
<1>5. CASE Start
  <2>1. restarts' \in 0 .. MaxRestarts /\ place' = "draining" /\ place # "reading"
    BY <1>5 DEF Start, TypeOK
  <2> QED
    BY <1>5, <2>1 DEF Start, TypeOK, files, cursor, history
<1>6. CASE UNCHANGED vars
  BY <1>6 DEF vars, files, cursor, thread, history, TypeOK
<1> QED
  BY <1>1, <1>2, <1>3, <1>4, <1>5, <1>6 DEF Next

LEMMA TypeInit == Init => TypeOK
<1> SUFFICES ASSUME Init PROVE TypeOK
  OBVIOUS
<1>1. content \in [Files -> Seq(Pieces)]
  BY EmptySeq DEF Init
<1>2. partial \in Seq(Pieces) /\ \A i \in DOMAIN partial : ~IsEnd(partial[i])
  BY EmptySeq DEF Init
<1>3. pending \in Seq(Pieces) /\ emitted \in Seq([line : Lines, whole : BOOLEAN]) /\ pending = <<>>
  BY EmptySeq DEF Init
<1>4. created \in 0 .. MaxFiles /\ written \in 0 .. MaxLines /\ position \in Nat /\ restarts \in 0 .. MaxRestarts
  BY DEF Init
<1>5. /\ stop_event \in BOOLEAN /\ excused \subseteq Lines /\ cut \in BOOLEAN /\ torn \in BOOLEAN
      /\ place \in {"draining", "opening", "reading", "resting", "ended", "crashed"}
      /\ path \in Files \cup {NoFile} /\ fingerprint \in Files \cup {NoFile} /\ fd \in Files \cup {NoFile}
  BY Zenon DEF Init
<1>6. (fd # NoFile) = (place = "reading")
  BY DEF Init
<1> QED
  BY <1>1, <1>2, <1>3, <1>4, <1>5, <1>6 DEF TypeOK

\* Every variable has its type, the buffered lines end and the partial one does not
\* (tailer.py:180-194).
THEOREM TypeCorrect == Spec => []TypeOK
BY TypeInit, TypeStep, PTL DEF Spec
-----------------------------------------------------------------------------
(* The two steps that move pieces, in terms of the pieces. *)

LEMMA YieldStep ==
    ASSUME TypeOK, Yield
    PROVE  \E n \in DOMAIN pending :
              /\ n \in Nat /\ n > 0 /\ n <= Len(pending)
              /\ IsEnd(pending[n]) /\ \A i \in 1 .. n - 1 : ~IsEnd(pending[i])
              /\ emitted' = Append(emitted, [line |-> pending[n].line, whole |-> IsWhole(SubSeq(pending, 1, n))])
              /\ Stream!Newest' = pending[n].line
              /\ DOMAIN pending' = 1 .. Len(pending) - n
              /\ \A i \in DOMAIN pending' : n + i \in DOMAIN pending /\ pending'[i] = pending[n + i]
<1>1. PICK n \in DOMAIN pending :
          /\ IsEnd(pending[n]) /\ \A i \in 1 .. n - 1 : ~IsEnd(pending[i])
          /\ emitted' = Append(emitted, [line |-> pending[n].line, whole |-> IsWhole(SubSeq(pending, 1, n))])
          /\ pending' = SubSeq(pending, n + 1, Len(pending))
  BY DEF Yield
<1> DEFINE r == [line |-> pending[n].line, whole |-> IsWhole(SubSeq(pending, 1, n))]
<1>2. r \in [line : Lines, whole : BOOLEAN]
  <2>1. pending[n].line \in Lines
    BY BufferIsTyped, PieceFields
  <2>2. IsWhole(SubSeq(pending, 1, n)) \in BOOLEAN
    BY DEF IsWhole
  <2> QED
    BY <2>1, <2>2
<1>3. r.line = pending[n].line
  OBVIOUS
<1>4. emitted' = Append(emitted, r)
  BY <1>1
<1> HIDE DEF r
<1>5. emitted \in Seq([line : Lines, whole : BOOLEAN])
  BY DEF TypeOK
<1>6. emitted' # <<>> /\ emitted'[Len(emitted')] = r
  BY <1>2, <1>4, <1>5, AppendProperties
<1>7. Stream!Newest' = pending[n].line
  BY <1>3, <1>6 DEF Stream!Newest
<1>8. DOMAIN pending' = 1 .. Len(pending) - n /\ \A i \in DOMAIN pending' : n + i \in DOMAIN pending /\ pending'[i] = pending[n + i]
  BY <1>1, RestOfPending
<1>9. n \in Nat /\ n > 0 /\ n <= Len(pending)
  BY BufferIsTyped
<1> QED
  BY <1>1, <1>4, <1>7, <1>8, <1>9 DEF r

\* The data up to upto, whose first n pieces are complete lines.
Chunk(upto, n, data) ==
    /\ position < upto /\ upto <= Len(content[fd]) /\ position' = upto
    /\ Len(data) = Len(partial) + upto - position /\ n <= Len(data)
    /\ \A i \in 1 .. Len(data) : data[i] \in Pieces
    /\ \A i \in 1 .. Len(partial) : data[i] = partial[i]
    /\ \A i \in Len(partial) + 1 .. Len(data) : data[i] = content[fd][position + i - Len(partial)]
    /\ DOMAIN pending' = 1 .. n /\ Len(pending') = n
    /\ \A i \in 1 .. n : pending'[i] = data[i]
    /\ DOMAIN partial' = 1 .. Len(data) - n /\ Len(partial') = Len(data) - n
    /\ \A i \in 1 .. Len(data) - n : partial'[i] = data[n + i]
    /\ n > 0 => IsEnd(data[n])
    /\ \A i \in n + 1 .. Len(data) : ~IsEnd(data[i])

LEMMA ReadStep ==
    ASSUME TypeOK, ReadChunk
    PROVE  /\ fd \in Files /\ place = "reading" /\ pending = <<>> /\ position \in Nat
           /\ Len(content[fd]) \in Nat /\ DOMAIN content[fd] = 1 .. Len(content[fd])
           /\ Len(partial) \in Nat /\ DOMAIN partial = 1 .. Len(partial)
           /\ \E upto, n \in Nat, data \in Seq(Pieces) : Chunk(upto, n, data)
<1>1. fd \in Files /\ place = "reading" /\ pending = <<>> /\ position \in Nat
  BY DEF ReadChunk, TypeOK
<1>2. /\ Len(content[fd]) \in Nat /\ DOMAIN content[fd] = 1 .. Len(content[fd])
      /\ Len(partial) \in Nat /\ DOMAIN partial = 1 .. Len(partial)
  BY <1>1, ContentIsTyped, BufferIsTyped
<1>3. PICK upto \in (position + 1) .. Len(content[fd]) :
          LET data == partial \o SubSeq(content[fd], position + 1, upto)
          IN  \E n \in 0 .. Len(data) :
                 /\ SplitsAt(data, n)
                 /\ pending' = SubSeq(data, 1, n)
                 /\ partial' = SubSeq(data, n + 1, Len(data))
                 /\ position' = upto
  BY DEF ReadChunk, PartialOf
<1> DEFINE data == partial \o SubSeq(content[fd], position + 1, upto)
<1>4. PICK n \in 0 .. Len(data) :
         SplitsAt(data, n) /\ pending' = SubSeq(data, 1, n) /\ partial' = SubSeq(data, n + 1, Len(data)) /\ position' = upto
  BY <1>3
<1>5. upto \in Nat /\ position < upto /\ upto <= Len(content[fd])
  BY <1>1, <1>2
<1>6. n \in Nat /\ n <= Len(data)
  BY <1>1, <1>2, <1>4, <1>5
<1>7. /\ data \in Seq(Pieces)
      /\ Len(data) = Len(partial) + upto - position
      /\ \A i \in 1 .. Len(partial) : data[i] = partial[i]
      /\ \A i \in Len(partial) + 1 .. Len(data) : data[i] = content[fd][position + i - Len(partial)]
      /\ SubSeq(data, 1, n) \in Seq(Pieces) /\ SubSeq(data, n + 1, Len(data)) \in Seq(Pieces)
      /\ Len(SubSeq(data, 1, n)) = n /\ Len(SubSeq(data, n + 1, Len(data))) = Len(data) - n
      /\ \A i \in 1 .. n : SubSeq(data, 1, n)[i] = data[i]
      /\ \A i \in 1 .. Len(data) - n : SubSeq(data, n + 1, Len(data))[i] = data[n + i]
      /\ \A i \in 1 .. Len(data) : data[i] \in Pieces
      /\ n > 0 => IsEnd(data[n])
      /\ \A i \in n + 1 .. Len(data) : ~IsEnd(data[i])
  BY <1>1, <1>4, <1>5, <1>6, ChunkIsTyped
<1> HIDE DEF data
<1>8. DOMAIN pending' = 1 .. Len(pending') /\ DOMAIN partial' = 1 .. Len(partial')
  BY <1>4, <1>7, LenProperties
<1>9. /\ Len(pending') = n /\ DOMAIN pending' = 1 .. n /\ \A i \in 1 .. n : pending'[i] = data[i]
      /\ Len(partial') = Len(data) - n /\ DOMAIN partial' = 1 .. Len(data) - n
      /\ \A i \in 1 .. Len(data) - n : partial'[i] = data[n + i]
  BY <1>4, <1>7, <1>8
<1> QED
  BY <1>1, <1>2, <1>4, <1>5, <1>6, <1>7, <1>9 DEF Chunk
-----------------------------------------------------------------------------
(* The log is in order, and what is not excused stays in it. *)

LEMMA AppendKeepsLog ==
    ASSUME TypeOK, LogIsInOrder, path \in Files, NEW p \in Pieces,
           content' \in [Files -> Seq(Pieces)], content'[path] = Append(content[path], p),
           \A f \in Files : f # path => content'[f] = content[f],
           Sound(content'[path]), path' = path, created' = created,
           written' \in Nat, written <= written', p.line <= written',
           \A f \in Files : f < path => \A i \in DOMAIN content[f] : content[f][i].line < p.line
    PROVE  LogIsInOrder'
<1>1. /\ content[path] \in Seq(Pieces)
      /\ \A f \in Files : \A i \in DOMAIN content[f] : content[f][i].line \in Nat
      /\ p.line \in Nat /\ written \in Nat /\ created \in Nat
  BY ContentIsTyped, PieceFields DEF TypeOK
<1>2. /\ DOMAIN content[path] = 1 .. Len(content[path]) /\ Len(content[path]) \in Nat
      /\ DOMAIN content'[path] = 1 .. Len(content[path]) + 1
      /\ \A i \in DOMAIN content[path] : content'[path][i] = content[path][i]
      /\ content'[path][Len(content[path]) + 1] = p
  BY <1>1, ExtendedProperties
<1>3. \A f \in Files : \A i \in DOMAIN content'[f] :
          \/ i \in DOMAIN content[f] /\ content'[f][i] = content[f][i]
          \/ f = path /\ content'[f][i] = p
  BY <1>2
<1>4. path = created /\ \A f \in Files : f > path => content'[f] = <<>>
  BY <1>1, PieceFields DEF LogIsInOrder
<1>5. (path \in {NoFile, created})'
  BY <1>4
<1>6. \A f \in Files : f > created' => content'[f] = <<>>
  BY <1>4
<1>7. \A f \in Files : Sound(content'[f])
  BY DEF LogIsInOrder
<1>8. ASSUME NEW f \in Files, NEW g \in Files, f < g, NEW i \in DOMAIN content'[f], NEW j \in DOMAIN content'[g]
      PROVE  content'[f][i].line < content'[g][j].line
  <2>1. f # path
    <3> SUFFICES ASSUME f = path PROVE FALSE
      OBVIOUS
    <3>1. content'[g] = <<>>
      BY <1>4, <1>8
    <3> QED
      BY <1>8, <3>1
  <2>2. i \in DOMAIN content[f] /\ content'[f][i] = content[f][i]
    BY <1>8, <2>1
  <2>3. CASE j \in DOMAIN content[g] /\ content'[g][j] = content[g][j]
    BY <1>8, <2>2, <2>3 DEF LogIsInOrder
  <2>4. CASE g = path /\ content'[g][j] = p
    BY <1>8, <2>2, <2>4
  <2> QED
    BY <1>3, <2>3, <2>4
<1>9. \A f \in Files : \A i \in DOMAIN content'[f] : content'[f][i].line <= written'
  BY <1>1, <1>3 DEF LogIsInOrder
<1> QED
  BY <1>5, <1>6, <1>7, <1>8, <1>9 DEF LogIsInOrder

LEMMA LogStep == TypeOK /\ LogIsInOrder /\ [Next]_vars => LogIsInOrder'
<1> SUFFICES ASSUME TypeOK, LogIsInOrder, [Next]_vars PROVE LogIsInOrder'
  OBVIOUS
<1>0. /\ \A f \in Files : \A i \in DOMAIN content[f] : content[f][i] \in Pieces /\ content[f][i].line \in Nat
      /\ created \in Nat /\ written \in Nat /\ Files \subseteq Nat /\ NoFile \notin Files
  BY ContentIsTyped, PieceFields DEF TypeOK
<1>1. CASE WriteLine
  <2>1. PICK part \in {"whole", "first"} : AppendPiece(written + 1, part)
    BY <1>1, WriteLineAppends
  <2> DEFINE p == [line |-> written + 1, part |-> part]
  <2>2. path \in Files /\ path # NoFile /\ written + 1 \in Lines /\ p.line = written + 1 /\ p.part # "rest"
    BY <1>1, WriteLineAppends, PieceFields
  <2>3. /\ content' \in [Files -> Seq(Pieces)] /\ content'[path] = Append(content[path], p)
        /\ p \in Pieces /\ \A f \in Files : f # path => content'[f] = content[f]
    BY <2>1, <2>2, AppendIsTyped
  <2> HIDE DEF p
  <2>4. \A f \in Files : \A i \in DOMAIN content[f] : content[f][i].line < p.line
    BY <1>0, <2>2 DEF LogIsInOrder
  <2>5. content[path] # <<>> => content[path][Len(content[path])].part # "first"
    BY <1>1, <2>2 DEF WriteLine, Unfinished, Newest
  <2>6. Sound(content'[path])
    <3>1. content[path] \in Seq(Pieces) /\ Sound(content[path])
      BY <2>2 DEF TypeOK, LogIsInOrder
    <3>2. Sound(Append(content[path], p))
      BY <2>2, <2>3, <2>4, <2>5, <3>1, ExtendedIsSound
    <3> QED
      BY <2>3, <3>2
  <2>7. path' = path /\ created' = created /\ written' = written + 1 /\ written' \in Nat /\ written <= written' /\ p.line <= written'
    BY <1>0, <1>1, <2>2 DEF WriteLine
  <2> QED
    BY <2>2, <2>3, <2>4, <2>6, <2>7, AppendKeepsLog
<1>2. CASE FinishLine
  <2> DEFINE last == content[path][Len(content[path])]
             p == [line |-> last.line, part |-> "rest"]
  <2>1. path \in Files /\ path # NoFile /\ content[path] # <<>> /\ last \in Pieces /\ last.part = "first" /\ last.line \in Lines
        /\ AppendPiece(last.line, "rest") /\ Len(content[path]) \in DOMAIN content[path]
    BY <1>2, FinishLineAppends, ContentIsTyped, PieceFields
  <2>2. p.line = last.line /\ p.part = "rest"
    OBVIOUS
  <2>3. /\ content' \in [Files -> Seq(Pieces)] /\ content'[path] = Append(content[path], p)
        /\ p \in Pieces /\ \A f \in Files : f # path => content'[f] = content[f]
    BY <2>1, AppendIsTyped
  <2> HIDE DEF p
  <2>4. Sound(content'[path])
    <3>1. content[path] \in Seq(Pieces) /\ Sound(content[path])
      BY <2>1 DEF TypeOK, LogIsInOrder
    <3>2. Sound(Append(content[path], p))
      BY <2>1, <2>2, <2>3, <3>1, ExtendedIsSound
    <3> QED
      BY <2>3, <3>2
  <2>5. path' = path /\ created' = created /\ written' = written
    BY <1>2 DEF FinishLine
  <2>6. p.line <= written /\ \A f \in Files : f < path => \A i \in DOMAIN content[f] : content[f][i].line < p.line
    BY <2>1, <2>2 DEF LogIsInOrder
  <2> QED
    BY <1>0, <2>1, <2>3, <2>4, <2>5, <2>6, AppendKeepsLog
<1>3. CASE Create
  <2>1. /\ path' = created' /\ created' = created + 1 /\ content' = content /\ written' = written
    BY <1>0, <1>3 DEF Create
  <2> QED
    BY <1>0, <2>1 DEF LogIsInOrder
<1>4. CASE Rotate
  BY <1>4 DEF Rotate, LogIsInOrder
<1>5. CASE Truncate
  <2>1. path \in Files /\ content' = [content EXCEPT ![path] = <<>>] /\ UNCHANGED <<path, created, written>>
    BY <1>5 DEF Truncate, TypeOK
  <2>2. content'[path] = <<>> /\ \A f \in Files : f # path => content'[f] = content[f]
    BY <2>1 DEF TypeOK
  <2>3. DOMAIN content'[path] = {} /\ Sound(content'[path])
    BY <2>2, EmptySeq DEF Sound, InOrder, Paired
  <2> QED
    BY <1>0, <2>1, <2>2, <2>3 DEF LogIsInOrder
<1>6. CASE Poll \/ Crash \/ Stop \/ Start \/ UNCHANGED vars
  <2>1. UNCHANGED files
    BY <1>6 DEF Poll, Yield, Missing, Stat, Open, ReadChunk, EndOfFile, Rest, Crash, Stop, Start, vars
  <2> QED
    BY <2>1 DEF files, LogIsInOrder
<1> QED
  BY <1>1, <1>2, <1>3, <1>4, <1>5, <1>6 DEF Next, Logger
LEMMA NumbersAreTyped ==
    ASSUME TypeOK
    PROVE  /\ \A f \in Files : \A i \in DOMAIN content[f] : content[f][i] \in Pieces /\ content[f][i].line \in Nat \ {0}
           /\ \A i \in DOMAIN pending : pending[i].line \in Nat \ {0}
           /\ \A i \in DOMAIN partial : partial[i].line \in Nat \ {0}
           /\ created \in Nat /\ written \in Nat /\ position \in Nat /\ Files \subseteq Nat \ {0}
           /\ fingerprint \in Nat /\ path \in Nat
           /\ path # NoFile => path \in Files
           /\ fingerprint # NoFile => fingerprint \in Files
<1>1. created \in Nat /\ written \in Nat /\ position \in Nat /\ Files \subseteq Nat \ {0} /\ fingerprint \in Nat /\ path \in Nat
  BY PieceFields DEF TypeOK
<1>2. (path # NoFile => path \in Files) /\ (fingerprint # NoFile => fingerprint \in Files)
  BY DEF TypeOK
<1> QED
  BY <1>1, <1>2, ContentIsTyped, BufferIsTyped, PieceFields

LEMMA UnexcusedStep == TypeOK /\ LogIsInOrder /\ UnexcusedStays /\ [Next]_vars => UnexcusedStays'
<1> SUFFICES ASSUME TypeOK, LogIsInOrder, UnexcusedStays, [Next]_vars PROVE UnexcusedStays'
  OBVIOUS
<1>0. /\ \A f \in Files : \A i \in DOMAIN content[f] : content[f][i].line \in 1 .. written
      /\ written \in Nat /\ (path # NoFile => path \in Files)
  BY NumbersAreTyped DEF LogIsInOrder
<1>1. ASSUME NEW p \in Pieces, path \in Files, content'[path] = Append(content[path], p),
             path' = path, excused' = excused, written' \in Nat, written <= written',
             \A k \in 1 .. written' : k \in 1 .. written \/ k = p.line
      PROVE  UnexcusedStays'
  <2>1. /\ DOMAIN content'[path] = 1 .. Len(content[path]) + 1 /\ DOMAIN content[path] = 1 .. Len(content[path])
        /\ Len(content[path]) \in Nat
        /\ \A i \in DOMAIN content[path] : content'[path][i] = content[path][i]
        /\ content'[path][Len(content[path]) + 1] = p
    BY <1>1, ContentIsTyped, ExtendedProperties
  <2>2. LinesOf(content[path]) \cup {p.line} \subseteq LinesOf(content'[path])
    BY <2>1 DEF LinesOf
  <2>3. excused' \subseteq 1 .. written'
    BY <1>0, <1>1 DEF UnexcusedStays
  <2>4. path # NoFile
    BY <1>1, PieceFields
  <2> QED
    BY <1>1, <2>2, <2>3, <2>4 DEF UnexcusedStays
<1>2. CASE WriteLine
  <2>1. PICK part \in {"whole", "first"} : AppendPiece(written + 1, part)
    BY <1>2, WriteLineAppends
  <2> DEFINE p == [line |-> written + 1, part |-> part]
  <2>2. path \in Files /\ path # NoFile /\ written + 1 \in Lines /\ p.line = written + 1
    BY <1>2, WriteLineAppends, PieceFields
  <2>3. p \in Pieces /\ content'[path] = Append(content[path], p)
    BY <2>1, <2>2, AppendIsTyped
  <2> HIDE DEF p
  <2>4. path' = path /\ excused' = excused /\ written' = written + 1
    BY <1>2 DEF WriteLine, history
  <2> QED
    BY <1>0, <1>1, <2>2, <2>3, <2>4
<1>3. CASE FinishLine
  <2> DEFINE p == [line |-> content[path][Len(content[path])].line, part |-> "rest"]
  <2>1. path \in Files /\ path # NoFile /\ p \in Pieces /\ content'[path] = Append(content[path], p)
    BY <1>3, FinishLineAppends, AppendIsTyped, PieceFields
  <2> HIDE DEF p
  <2>2. path' = path /\ excused' = excused /\ written' = written
    BY <1>3 DEF FinishLine, history
  <2> QED
    BY <1>0, <1>1, <2>1, <2>2
<1>4. CASE Create
  BY <1>4 DEF Create, history, UnexcusedStays
<1>5. CASE Rotate
  <2>1. path \in Files /\ LinesOf(content[path]) \subseteq 1 .. written
    BY <1>0, <1>5 DEF Rotate, LinesOf
  <2> QED
    BY <1>5, <2>1 DEF Rotate, UnexcusedStays
<1>6. CASE Truncate
  <2>1. path \in Files /\ LinesOf(content[path]) \subseteq 1 .. written
    BY <1>0, <1>6 DEF Truncate, LinesOf
  <2>2. excused' = excused \cup LinesOf(content[path]) /\ written' = written
    BY <1>6 DEF Truncate
  <2>3. (1 .. written) \ excused' = {}
    BY <2>2 DEF UnexcusedStays
  <2> QED
    BY <2>1, <2>2, <2>3 DEF UnexcusedStays
<1>7. CASE Stat
  <2>1. path \in Files /\ UNCHANGED files
        /\ \E n \in Nat : excused' = excused \cup LinesOf(SubSeq(content[path], 1, n)) /\ n <= Len(content[path])
    <3>1. path \in Files /\ UNCHANGED files /\ content[path] \in Seq(Pieces) /\ Len(content[path]) \in Nat
      BY <1>0, <1>7, ContentIsTyped DEF Stat
    <3>2. CASE fingerprint = NoFile
      <4>1. path # fingerprint
        BY <1>7, <3>2 DEF Stat
      <4>2. position' = StartPosition /\ StartPosition \in {0, Len(content[path])}
        BY <1>7, <4>1 DEF Stat, StartPosition
      <4>3. excused' = excused \cup LinesOf(SubSeq(content[path], 1, position'))
        BY <1>7, <3>2 DEF Stat
      <4>4. position' \in Nat /\ position' <= Len(content[path])
        BY <3>1, <4>2
      <4> QED
        BY <3>1, <4>3, <4>4
    <3>3. CASE fingerprint # NoFile
      <4>1. excused' = excused
        BY <1>7, <3>3 DEF Stat
      <4>2. 0 \in Nat /\ SubSeq(content[path], 1, 0) = <<>>
        BY SubSeqEmpty
      <4>3. LinesOf(SubSeq(content[path], 1, 0)) = {}
        BY <4>2 DEF LinesOf
      <4>4. excused' = excused \cup LinesOf(SubSeq(content[path], 1, 0)) /\ 0 <= Len(content[path])
        BY <3>1, <4>1, <4>3
      <4> QED
        BY <3>1, <4>4
    <3> QED
      BY <3>2, <3>3
  <2>2. PICK n \in Nat : excused' = excused \cup LinesOf(SubSeq(content[path], 1, n)) /\ n <= Len(content[path])
    BY <2>1
  <2>3. LinesOf(SubSeq(content[path], 1, n)) \subseteq 1 .. written
    <3>1. content[path] \in Seq(Pieces)
      BY <2>1, ContentIsTyped
    <3>2. \A i \in DOMAIN SubSeq(content[path], 1, n) :
             1 + i - 1 \in DOMAIN content[path] /\ SubSeq(content[path], 1, n)[i] = content[path][1 + i - 1]
      BY <2>2, <3>1, SliceProperties
    <3> QED
      BY <1>0, <2>1, <3>2 DEF LinesOf
  <2> QED
    BY <2>1, <2>2, <2>3 DEF UnexcusedStays, files
<1>8. CASE Yield \/ Missing \/ Open \/ ReadChunk \/ EndOfFile \/ Rest \/ Crash \/ Stop \/ Start \/ UNCHANGED vars
  <2>1. UNCHANGED files /\ excused' = excused
    BY <1>8 DEF Yield, Missing, Open, ReadChunk, EndOfFile, Rest, Crash, Stop, Start, vars, history
  <2> QED
    BY <2>1 DEF files, UnexcusedStays
<1> QED
  BY <1>2, <1>3, <1>4, <1>5, <1>6, <1>7, <1>8 DEF Next, Logger, Poll

LEMMA BufferStep == TypeOK /\ LogIsInOrder /\ BufferIsWritten /\ [Next]_vars => BufferIsWritten'
<1> SUFFICES ASSUME TypeOK, LogIsInOrder, BufferIsWritten, [Next]_vars PROVE BufferIsWritten'
  OBVIOUS
<1>0. /\ \A f \in Files : \A i \in DOMAIN content[f] : content[f][i].line \in 1 .. written
      /\ written \in Nat
      /\ \A i \in DOMAIN pending : pending[i].line \in Nat \ {0}
      /\ \A i \in DOMAIN partial : partial[i].line \in Nat \ {0}
  BY NumbersAreTyped DEF LogIsInOrder
<1>1. CASE Yield
  <2>1. PICK n \in DOMAIN pending :
          /\ Stream!Newest' = pending[n].line
          /\ \A i \in DOMAIN pending' : n + i \in DOMAIN pending /\ pending'[i] = pending[n + i]
    BY <1>1, YieldStep
  <2>2. partial' = partial /\ written' = written
    BY <1>1 DEF Yield, files
  <2> QED
    BY <1>0, <2>1, <2>2 DEF BufferIsWritten
<1>2. CASE ReadChunk
  <2>0. PICK upto, n \in Nat, data \in Seq(Pieces) : Chunk(upto, n, data)
    BY <1>2, ReadStep
  <2>1. /\ position < upto /\ upto <= Len(content[fd])
        /\ Len(data) = Len(partial) + upto - position /\ n <= Len(data)
        /\ \A i \in 1 .. Len(partial) : data[i] = partial[i]
        /\ \A i \in Len(partial) + 1 .. Len(data) : data[i] = content[fd][position + i - Len(partial)]
        /\ DOMAIN pending' = 1 .. n
        /\ \A i \in 1 .. n : pending'[i] = data[i]
        /\ DOMAIN partial' = 1 .. Len(data) - n
        /\ \A i \in 1 .. Len(data) - n : partial'[i] = data[n + i]
    BY <2>0 DEF Chunk
  <2>2. fd \in Files /\ position \in Nat /\ Len(content[fd]) \in Nat /\ DOMAIN content[fd] = 1 .. Len(content[fd])
        /\ Len(partial) \in Nat /\ DOMAIN partial = 1 .. Len(partial)
    BY <1>2, ReadStep
  <2>3. ASSUME NEW i \in 1 .. Len(data) PROVE data[i].line <= written
    <3>1. CASE i <= Len(partial)
      <4>1. i \in DOMAIN partial /\ i \in 1 .. Len(partial)
        BY <2>1, <2>2, <2>3, <3>1
      <4>2. partial[i].line <= written
        BY <4>1 DEF BufferIsWritten
      <4> QED
        BY <2>1, <4>1, <4>2
    <3>2. CASE i > Len(partial)
      <4>1. position + i - Len(partial) \in DOMAIN content[fd] /\ i \in Len(partial) + 1 .. Len(data)
        BY <2>1, <2>2, <2>3, <3>2
      <4>2. data[i] = content[fd][position + i - Len(partial)]
        BY <2>1, <4>1
      <4>3. content[fd][position + i - Len(partial)].line <= written
        BY <1>0, <2>2, <4>1
      <4> QED
        BY <4>2, <4>3
    <3> QED
      BY <2>1, <2>2, <2>3, <3>1, <3>2
  <2>4. written' = written /\ emitted' = emitted
    BY <1>2 DEF ReadChunk, files
  <2>5. \A i \in DOMAIN pending' : pending'[i].line <= written'
    BY <2>1, <2>2, <2>3, <2>4
  <2>6. ASSUME NEW i \in DOMAIN partial' PROVE partial'[i].line <= written'
    <3>1. i \in 1 .. Len(data) - n /\ n + i \in 1 .. Len(data)
      BY <2>1, <2>2, <2>6
    <3> QED
      BY <2>1, <2>3, <2>4, <3>1
  <2>7. Stream!Newest' = Stream!Newest
    BY <2>4 DEF Stream!Newest
  <2> QED
    BY <2>4, <2>5, <2>6, <2>7 DEF BufferIsWritten
<1>3. CASE Logger
  <2>1. pending' = pending /\ partial' = partial /\ emitted' = emitted /\ written' \in Nat /\ written <= written'
    BY <1>0, <1>3 DEF Logger, WriteLine, FinishLine, Create, Rotate, Truncate, cursor, history
  <2>2. Stream!Newest' = Stream!Newest
    BY <2>1 DEF Stream!Newest
  <2> QED
    BY <1>0, <2>1, <2>2 DEF BufferIsWritten
<1>4. CASE Missing \/ Stat \/ Open \/ EndOfFile \/ Rest \/ Crash \/ Stop \/ Start \/ UNCHANGED vars
  <2>1. pending' = pending /\ partial' \in {partial, <<>>} /\ emitted' = emitted /\ written' = written
    BY <1>4 DEF Missing, Stat, Open, EndOfFile, Rest, Crash, Stop, Start, vars, history, cursor, files
  <2>2. Stream!Newest' = Stream!Newest
    BY <2>1 DEF Stream!Newest
  <2> QED
    BY <2>1, <2>2 DEF BufferIsWritten
<1> QED
  BY <1>1, <1>2, <1>3, <1>4 DEF Next, Poll

LEMMA CursorStep == TypeOK /\ LogIsInOrder /\ CursorIsKnown /\ [Next]_vars => CursorIsKnown'
<1> SUFFICES ASSUME TypeOK, LogIsInOrder, CursorIsKnown, [Next]_vars PROVE CursorIsKnown'
  OBVIOUS
<1>0. created \in Nat /\ fingerprint \in Nat /\ path \in Nat /\ (path # NoFile => path = created)
  BY NumbersAreTyped DEF LogIsInOrder
<1>1. CASE WriteLine \/ FinishLine \/ Rotate
  BY <1>1 DEF WriteLine, FinishLine, Rotate, cursor, thread, history, CursorIsKnown
<1>2. CASE Create
  <2>1. created' = created + 1 /\ UNCHANGED <<fingerprint, position, partial, place, cut>>
    BY <1>2 DEF Create, cursor, thread, history
  <2> QED
    BY <1>0, <2>1 DEF CursorIsKnown
<1>3. CASE Truncate
  <2>1. cut' = (cut \/ fingerprint = path) /\ path # NoFile /\ UNCHANGED <<created, fingerprint, position, partial, place>>
    BY <1>3 DEF Truncate, cursor, thread
  <2> QED
    BY <2>1 DEF CursorIsKnown
<1>4. CASE Yield
  BY <1>4 DEF Yield, files, thread, CursorIsKnown
<1>5. CASE Missing
  BY <1>0, <1>5 DEF Missing, files, CursorIsKnown
<1>6. CASE Stat
  <2>1. fingerprint' = path /\ path # NoFile /\ created' = created
    BY <1>6 DEF Stat, files
  <2> QED
    BY <1>0, <2>1 DEF CursorIsKnown
<1>7. CASE Open
  BY <1>7 DEF Open, files, cursor, history, CursorIsKnown
<1>8. CASE ReadChunk
  <2>1. fingerprint' = fingerprint /\ place' = place /\ place = "reading" /\ created' = created
    BY <1>8 DEF ReadChunk, files, thread
  <2> QED
    BY <2>1 DEF CursorIsKnown
<1>9. CASE EndOfFile
  BY <1>9 DEF EndOfFile, files, cursor, history, CursorIsKnown
<1>10. CASE Rest
  BY <1>10 DEF Rest, files, cursor, history, CursorIsKnown
<1>11. CASE Crash
  BY <1>11 DEF Crash, files, cursor, history, CursorIsKnown
<1>12. CASE Stop \/ Start
  BY <1>12 DEF Stop, Start, files, cursor, history, CursorIsKnown
<1>13. CASE UNCHANGED vars
  BY <1>13 DEF vars, files, cursor, thread, history, CursorIsKnown
<1> QED
  BY <1>1, <1>2, <1>3, <1>4, <1>5, <1>6, <1>7, <1>8, <1>9, <1>10, <1>11, <1>12, <1>13 DEF Next, Logger, Poll
-----------------------------------------------------------------------------
(* What the buffer, the position and the file say of each other. *)

\* Whether a line is ahead depends on what came out and what is to be yielded.
LEMMA AheadIsKept ==
    ASSUME UNCHANGED <<pending, emitted>>
    PROVE  Stream!Newest' = Stream!Newest /\ \A k : IsAhead(k)' = IsAhead(k)
BY DEF IsAhead, Stream!Newest

\* Excusing lines and leaving the buffer and what came out disturbs nothing there.
LEMMA BufferIsKept ==
    ASSUME BufferIsInOrder, UNCHANGED <<pending, partial, emitted>>, excused \subseteq excused'
    PROVE  BufferIsInOrder'
<1>1. Stream!Newest' = Stream!Newest
  BY AheadIsKept
<1> QED
  BY <1>1 DEF BufferIsInOrder

LEMMA CursorIsKept ==
    ASSUME TypeOK, CursorIsExact, UNCHANGED <<fingerprint, position, pending, partial, emitted, cut>>,
           excused \subseteq excused', fingerprint # NoFile => content'[fingerprint] = content[fingerprint]
    PROVE  CursorIsExact'
<1> SUFFICES ASSUME fingerprint # NoFile, ~cut PROVE CursorIsExact'
  BY DEF CursorIsExact
<1>1. Stream!Newest' = Stream!Newest /\ \A k : IsAhead(k)' = IsAhead(k)
  BY AheadIsKept
<1>2. \A k : Accounted(k) => Accounted(k)'
  BY <1>1 DEF Accounted
<1>3. content'[fingerprint'] = content[fingerprint] /\ fingerprint' = fingerprint /\ position' = position
      /\ partial' = partial
  OBVIOUS
<1> HIDE DEF Accounted, IsAhead
<1>4. /\ position <= Len(content[fingerprint])
      /\ partial # <<>> => position > 0 /\ content[fingerprint][position] = partial[1]
      /\ \A i \in position + 1 .. Len(content[fingerprint]) : IsAhead(content[fingerprint][i].line)
      /\ \A i \in 1 .. position : Accounted(content[fingerprint][i].line)
      /\ position > 0 /\ content[fingerprint][position].part = "first" =>
            /\ IsAhead(content[fingerprint][position].line)
            /\ partial # <<>> \/ content[fingerprint][position].line \in excused
  BY DEF CursorIsExact
<1> QED
  BY <1>1, <1>2, <1>3, <1>4 DEF CursorIsExact
LEMMA AppendExact ==
    ASSUME TypeOK, Tracked, Exact, path \in Files, NEW p \in Pieces,
           content'[path] = Append(content[path], p),
           \A f \in Files : f # path => content'[f] = content[f],
           UNCHANGED <<path, cursor, excused, emitted, cut>>,
           IsAhead(p.line),
           fingerprint # path \/ cut => \A i \in DOMAIN partial : p.line > partial[i].line
    PROVE  Exact'
<1> DEFINE c == content[path]
<1>1. /\ DOMAIN content'[path] = 1 .. Len(c) + 1 /\ DOMAIN c = 1 .. Len(c)
      /\ Len(c) \in Nat /\ Len(content'[path]) = Len(c) + 1
      /\ \A i \in DOMAIN c : content'[path][i] = c[i]
      /\ content'[path][Len(c) + 1] = p
  BY ContentIsTyped, ExtendedProperties
<1> HIDE DEF c
<1>2. Stream!Newest' = Stream!Newest /\ \A k : IsAhead(k)' = IsAhead(k)
  BY AheadIsKept DEF cursor
<1>3. BufferIsInOrder'
  BY BufferIsKept DEF cursor, Exact
<1>4. \A j \in DOMAIN content'[path] : (j \in DOMAIN c /\ content'[path][j] = c[j]) \/ content'[path][j] = p
  BY <1>1
<1>5. NewFileIsAhead'
  <2>1. path # NoFile
    BY PieceFields
  <2>2. /\ path' = path /\ fingerprint' = fingerprint /\ cut' = cut /\ partial' = partial /\ pending' = pending
        /\ Stream!Newest' = Stream!Newest
    BY <1>2 DEF cursor
  <2>3. ASSUME fingerprint # path \/ cut, NEW j \in DOMAIN content'[path]
        PROVE  /\ content'[path][j].line > Stream!Newest
               /\ \A i \in DOMAIN pending : content'[path][j].line > pending[i].line
               /\ \A i \in DOMAIN partial : content'[path][j].line > partial[i].line
    <3>1. \A i \in DOMAIN c : IsAhead(c[i].line) /\ \A m \in DOMAIN partial : c[i].line > partial[m].line
      BY <2>1, <2>3 DEF Exact, NewFileIsAhead, c
    <3>2. IsAhead(content'[path][j].line) /\ \A i \in DOMAIN partial : content'[path][j].line > partial[i].line
      BY <1>4, <2>3, <3>1
    <3> QED
      BY <3>2 DEF IsAhead
  <2>4. CASE fingerprint # path
    BY <2>2, <2>3, <2>4 DEF NewFileIsAhead, IsAhead
  <2>5. CASE cut
    BY <2>2, <2>3, <2>5 DEF NewFileIsAhead, IsAhead
  <2>6. CASE ~(fingerprint # path \/ cut)
    BY <2>2, <2>6 DEF NewFileIsAhead
  <2> QED
    BY <2>4, <2>5, <2>6
<1>6. CursorIsExact'
  <2>1. CASE fingerprint # path
    <3>1. fingerprint # NoFile => content'[fingerprint] = content[fingerprint]
      BY <2>1, NumbersAreTyped
    <3> QED
      BY <3>1, CursorIsKept DEF cursor, Exact
  <2>2. CASE fingerprint = path
    <3> SUFFICES ASSUME ~cut PROVE CursorIsExact'
      BY DEF CursorIsExact
    <3>1. /\ position <= Len(c)
          /\ partial # <<>> => position > 0 /\ c[position] = partial[1]
          /\ \A i \in position + 1 .. Len(c) : IsAhead(c[i].line)
          /\ \A i \in 1 .. position : Accounted(c[i].line)
          /\ position > 0 /\ c[position].part = "first" =>
                /\ IsAhead(c[position].line)
                /\ partial # <<>> \/ c[position].line \in excused
      BY <2>2, PieceFields DEF Exact, CursorIsExact, c
    <3>2. position \in Nat /\ fingerprint' = path /\ position' = position /\ partial' = partial /\ excused' = excused
      BY <2>2, NumbersAreTyped DEF cursor
    <3>3. \A k : Accounted(k)' = Accounted(k)
      BY <1>2 DEF Accounted, cursor
    <3> HIDE DEF Accounted, IsAhead
    <3>4. \A i \in 1 .. position : content'[path][i] = c[i]
      BY <1>1, <3>1, <3>2
    <3>5. ASSUME NEW i \in position + 1 .. Len(content'[path])
          PROVE  IsAhead(content'[path][i].line)
      BY <1>1, <3>1, <3>2, <3>5
    <3>6. position > 0 => content'[path][position] = c[position]
      <4>1. position > 0 => position \in 1 .. position
        BY <3>2
      <4> QED
        BY <3>4, <4>1
    <3>7. position <= Len(content'[path])
      BY <1>1, <3>1, <3>2
    <3> QED
      BY <1>2, <3>1, <3>2, <3>3, <3>4, <3>5, <3>6, <3>7 DEF CursorIsExact
  <2> QED
    BY <2>1, <2>2
<1> QED
  BY <1>3, <1>5, <1>6 DEF Exact

LEMMA LoggerExact ==
    ASSUME TypeOK, Tracked, Exact, Logger
    PROVE  Exact'
<1>0. /\ \A f \in Files : \A i \in DOMAIN content[f] : content[f][i] \in Pieces /\ content[f][i].line \in Nat \ {0}
      /\ \A i \in DOMAIN pending : pending[i].line \in Nat \ {0}
      /\ \A i \in DOMAIN partial : partial[i].line \in Nat \ {0}
      /\ created \in Nat /\ written \in Nat /\ position \in Nat /\ Files \subseteq Nat \ {0}
      /\ fingerprint \in Nat /\ path \in Nat
      /\ path # NoFile => path \in Files
      /\ fingerprint # NoFile => fingerprint \in Files
  BY NumbersAreTyped
<1>1. CASE WriteLine
  <2>1. PICK part \in {"whole", "first"} : AppendPiece(written + 1, part)
    BY <1>1, WriteLineAppends
  <2> DEFINE p == [line |-> written + 1, part |-> part]
  <2>2. path \in Files /\ path # NoFile /\ written + 1 \in Lines /\ p.line = written + 1
    BY <1>1, WriteLineAppends, PieceFields
  <2>3. p \in Pieces /\ content'[path] = Append(content[path], p) /\ \A f \in Files : f # path => content'[f] = content[f]
    BY <2>1, <2>2, AppendIsTyped
  <2> HIDE DEF p
  <2>4. UNCHANGED <<path, cursor, excused, emitted, cut>>
    BY <1>1 DEF WriteLine, history
  <2>5. IsAhead(p.line) /\ \A i \in DOMAIN partial : p.line > partial[i].line
    BY <1>0, <2>2 DEF Tracked, BufferIsWritten, IsAhead
  <2> QED
    BY <2>2, <2>3, <2>4, <2>5, AppendExact
<1>2. CASE FinishLine
  <2> DEFINE last == content[path][Len(content[path])]
             p == [line |-> last.line, part |-> "rest"]
  <2>1. /\ path \in Files /\ path # NoFile /\ last.part = "first" /\ Len(content[path]) \in Nat /\ content[path] # <<>>
        /\ Len(content[path]) \in DOMAIN content[path] /\ DOMAIN content[path] = 1 .. Len(content[path])
        /\ p \in Pieces /\ content'[path] = Append(content[path], p) /\ \A f \in Files : f # path => content'[f] = content[f]
    BY <1>2, FinishLineAppends, AppendIsTyped, ContentIsTyped, PieceFields
  <2>2. p.line = last.line
    OBVIOUS
  <2> HIDE DEF p
  <2>3. UNCHANGED <<path, cursor, excused, emitted, cut>>
    BY <1>2 DEF FinishLine, history
  <2>4. CASE fingerprint # path \/ cut
    <3>1. IsAhead(p.line) /\ \A i \in DOMAIN partial : p.line > partial[i].line
      BY <2>1, <2>2, <2>4 DEF Exact, NewFileIsAhead
    <3> QED
      BY <2>1, <2>3, <3>1, AppendExact
  <2>5. CASE fingerprint = path /\ ~cut
    <3>1. /\ position <= Len(content[path])
          /\ \A i \in position + 1 .. Len(content[path]) : IsAhead(content[path][i].line)
          /\ position > 0 /\ content[path][position].part = "first" => IsAhead(content[path][position].line)
      BY <2>1, <2>5 DEF Exact, CursorIsExact
    <3>2. IsAhead(last.line)
      <4>1. CASE position = Len(content[path])
        BY <2>1, <3>1, <4>1
      <4>2. CASE position < Len(content[path])
        <5>1. Len(content[path]) \in position + 1 .. Len(content[path])
          BY <1>0, <2>1, <4>2
        <5> QED
          BY <3>1, <5>1
      <4> QED
        BY <1>0, <2>1, <3>1, <4>1, <4>2
    <3> QED
      BY <2>1, <2>2, <2>3, <2>5, <3>2, AppendExact
  <2> QED
    BY <2>4, <2>5 DEF TypeOK
<1>3. CASE Create
  <2>1. path' = created + 1 /\ content' = content /\ created + 1 \in Files
        /\ UNCHANGED <<fingerprint, position, pending, partial, emitted, cut, excused>>
    BY <1>0, <1>3 DEF Create, cursor, history, TypeOK, Files
  <2>2. content'[path'] = <<>>
    BY <1>0, <2>1 DEF Tracked, LogIsInOrder
  <2>3. NewFileIsAhead'
    BY <2>2 DEF NewFileIsAhead
  <2>4. BufferIsInOrder' /\ CursorIsExact'
    BY <2>1, BufferIsKept, CursorIsKept DEF Exact
  <2> QED
    BY <2>3, <2>4 DEF Exact
<1>4. CASE Rotate
  <2>1. path' = NoFile /\ content' = content /\ excused \subseteq excused'
        /\ UNCHANGED <<fingerprint, position, pending, partial, emitted, cut>>
    BY <1>4 DEF Rotate, cursor
  <2>2. NewFileIsAhead'
    BY <2>1 DEF NewFileIsAhead
  <2>3. BufferIsInOrder' /\ CursorIsExact'
    BY <2>1, BufferIsKept, CursorIsKept DEF Exact
  <2> QED
    BY <2>2, <2>3 DEF Exact
<1>5. CASE Truncate
  <2>1. path \in Files /\ content'[path] = <<>> /\ path' = path
        /\ excused \subseteq excused'
        /\ cut' = (cut \/ fingerprint = path)
        /\ UNCHANGED <<fingerprint, position, pending, partial, emitted>>
        /\ \A f \in Files : f # path => content'[f] = content[f]
    BY <1>0, <1>5 DEF Truncate, cursor, TypeOK
  <2>2. NewFileIsAhead'
    BY <2>1 DEF NewFileIsAhead
  <2>3. BufferIsInOrder'
    BY <2>1, BufferIsKept DEF Exact
  <2>4. CursorIsExact'
    <3>1. CASE fingerprint = path
      BY <2>1, <3>1 DEF CursorIsExact
    <3>2. CASE fingerprint # path
      <4>1. fingerprint # NoFile => content'[fingerprint] = content[fingerprint]
        BY <1>0, <2>1, <3>2
      <4>2. cut' = cut
        BY <2>1, <3>2 DEF TypeOK
      <4> QED
        BY <2>1, <4>1, <4>2, CursorIsKept DEF Exact
    <3> QED
      BY <3>1, <3>2
  <2> QED
    BY <2>2, <2>3, <2>4 DEF Exact
<1> QED
  BY <1>1, <1>2, <1>3, <1>4, <1>5 DEF Logger
LEMMA YieldExact ==
    ASSUME TypeOK, Tracked, Exact, Yield
    PROVE  Exact'
<1>1. PICK n \in DOMAIN pending :
         /\ n \in Nat /\ n > 0 /\ n <= Len(pending)
         /\ IsEnd(pending[n])
         /\ Stream!Newest' = pending[n].line
         /\ DOMAIN pending' = 1 .. Len(pending) - n
         /\ \A i \in DOMAIN pending' : n + i \in DOMAIN pending /\ pending'[i] = pending[n + i]
  BY YieldStep
<1>2. UNCHANGED <<content, path, fingerprint, position, partial, excused, cut>>
  BY DEF Yield, files
<1>3. /\ \A f \in Files : \A i \in DOMAIN content[f] : content[f][i].line \in Nat
      /\ \A i \in DOMAIN pending : pending[i].line \in Nat
      /\ \A i \in DOMAIN partial : partial[i].line \in Nat
      /\ Len(pending) \in Nat /\ DOMAIN pending = 1 .. Len(pending)
      /\ position \in Nat
      /\ (path # NoFile => path \in Files) /\ (fingerprint # NoFile => fingerprint \in Files)
      /\ Stream!Newest \in Nat
  BY NumbersAreTyped, BufferIsTyped DEF Tracked, BufferIsWritten
<1>4. /\ InOrder(pending)
      /\ Paired(pending)
      /\ \A i \in DOMAIN pending :
            pending[i].part = "rest" => EndsItsLine(pending, i) \/ pending[i].line \in excused
      /\ Len(partial) <= 1
      /\ \A i \in DOMAIN pending : pending[i].line > Stream!Newest
      /\ \A i \in DOMAIN partial : partial[i].line > Stream!Newest
      /\ \A i \in DOMAIN pending, j \in DOMAIN partial : pending[i].line < partial[j].line
  BY DEF Exact, BufferIsInOrder
<1>5. \A i \in DOMAIN pending : i > n => pending[i].line > pending[n].line
  BY <1>1, <1>3, <1>4 DEF InOrder, Precedes, IsEnd
<1>6. \A i \in DOMAIN pending : i <= n => pending[i].line <= pending[n].line
  BY <1>1, <1>3, <1>4 DEF InOrder, Precedes
<1>7. \A i \in DOMAIN pending' : i \in Nat /\ i > 0 /\ n + i \in DOMAIN pending /\ pending'[i] = pending[n + i]
  BY <1>1, <1>3
<1>8. InOrder(pending')
  <2> SUFFICES ASSUME NEW i \in DOMAIN pending', NEW j \in DOMAIN pending', i < j
               PROVE  pending'[i].line < pending'[j].line \/ (j = i + 1 /\ Precedes(pending'[i], pending'[j]))
    BY DEF InOrder
  <2>1. n + i < n + j /\ (n + j = (n + i) + 1 => j = i + 1)
    BY <1>1, <1>7
  <2>2. pending[n + i].line < pending[n + j].line \/ (n + j = (n + i) + 1 /\ Precedes(pending[n + i], pending[n + j]))
    BY <1>4, <1>7, <2>1 DEF InOrder
  <2> QED
    BY <1>7, <2>1, <2>2
<1>9. Paired(pending')
  <2> SUFFICES ASSUME NEW i \in DOMAIN pending', pending'[i].part = "first", i + 1 \in DOMAIN pending'
               PROVE  pending'[i + 1].part = "rest" /\ pending'[i + 1].line = pending'[i].line
    BY DEF Paired
  <2>1. n + (i + 1) = (n + i) + 1
    BY <1>1, <1>7
  <2> QED
    BY <1>4, <1>7, <2>1 DEF Paired
<1>10. ASSUME NEW i \in DOMAIN pending', pending'[i].part = "rest"
       PROVE  EndsItsLine(pending', i) \/ pending'[i].line \in excused
  <2>1. CASE EndsItsLine(pending, n + i)
    <3>1. pending[(n + i) - 1].part = "first" /\ pending[(n + i) - 1].line = pending[n + i].line
      BY <2>1 DEF EndsItsLine
    <3>2. i # 1
      <4> SUFFICES ASSUME i = 1 PROVE FALSE
        OBVIOUS
      <4>1. (n + i) - 1 = n
        BY <1>1
      <4> QED
        BY <1>1, <3>1, <4>1 DEF IsEnd
    <3>3. i - 1 \in DOMAIN pending' /\ n + (i - 1) = (n + i) - 1
      BY <1>1, <1>3, <1>7, <1>10, <3>2
    <3>4. pending'[i - 1] = pending[(n + i) - 1] /\ pending'[i] = pending[n + i] /\ i > 1
      BY <1>7, <3>2, <3>3
    <3> QED
      BY <3>1, <3>4 DEF EndsItsLine
  <2> QED
    BY <1>4, <1>7, <1>10, <2>1
<1>11. BufferIsInOrder'
  <2>1. \A i \in DOMAIN pending' : pending'[i].line > pending[n].line
    BY <1>1, <1>5, <1>7
  <2>2. \A i \in DOMAIN pending', j \in DOMAIN partial : pending'[i].line < partial[j].line
    BY <1>4, <1>7
  <2>3. \A i \in DOMAIN partial : partial[i].line > pending[n].line
    BY <1>3, <1>4
  <2> HIDE DEF EndsItsLine
  <2> QED
    BY <1>1, <1>2, <1>4, <1>8, <1>9, <1>10, <2>1, <2>2, <2>3 DEF BufferIsInOrder
<1>12. ASSUME NEW k \in Nat, IsAhead(k)
       PROVE  k > Stream!Newest' /\ \A i \in DOMAIN pending' : k > pending'[i].line
  BY <1>1, <1>7, <1>12 DEF IsAhead
<1>13. ASSUME NEW k \in Nat, Accounted(k)
       PROVE  k \in excused \/ k <= Stream!Newest' \/ k \in LinesOf(pending') \/ k \in LinesOf(partial)
  <2>1. CASE k <= Stream!Newest
    <3>1. Stream!Newest < pending[n].line
      BY <1>3, <1>4
    <3> QED
      BY <1>1, <1>3, <2>1, <3>1
  <2>2. CASE k \in LinesOf(pending)
    <3>1. PICK i \in DOMAIN pending : k = pending[i].line
      BY <2>2 DEF LinesOf
    <3>2. CASE i <= n
      BY <1>1, <1>6, <3>1, <3>2
    <3>3. CASE i > n
      <4>1. i - n \in DOMAIN pending' /\ n + (i - n) = i
        BY <1>1, <1>3, <3>3
      <4>2. pending'[i - n] = pending[i]
        BY <1>7, <4>1
      <4>3. k \in LinesOf(pending')
        BY <3>1, <4>1, <4>2 DEF LinesOf
      <4> QED
        BY <4>3
    <3> QED
      BY <1>1, <1>3, <3>2, <3>3
  <2> QED
    BY <1>13, <2>1, <2>2 DEF Accounted
<1>14. NewFileIsAhead'
  <2>1. ASSUME path # NoFile, fingerprint # path \/ cut, NEW j \in DOMAIN content[path]
        PROVE  /\ content[path][j].line > Stream!Newest' /\ \A i \in DOMAIN pending' : content[path][j].line > pending'[i].line
               /\ \A i \in DOMAIN partial : content[path][j].line > partial[i].line
    <3>1. IsAhead(content[path][j].line) /\ \A i \in DOMAIN partial : content[path][j].line > partial[i].line
      BY <2>1 DEF Exact, NewFileIsAhead
    <3>2. content[path][j].line \in Nat
      BY <1>3, <2>1
    <3> QED
      BY <1>12, <3>1, <3>2
  <2> QED
    BY <1>2, <2>1 DEF NewFileIsAhead, IsAhead
<1>15. CursorIsExact'
  <2> SUFFICES ASSUME fingerprint # NoFile, ~cut PROVE CursorIsExact'
    BY <1>2 DEF CursorIsExact
  <2> DEFINE c == content[fingerprint]
  <2>1. /\ position <= Len(c)
        /\ partial # <<>> => position > 0 /\ c[position] = partial[1]
        /\ \A i \in position + 1 .. Len(c) : IsAhead(c[i].line)
        /\ \A i \in 1 .. position : Accounted(c[i].line)
        /\ position > 0 /\ c[position].part = "first" =>
              /\ IsAhead(c[position].line)
              /\ partial # <<>> \/ c[position].line \in excused
    BY DEF Exact, CursorIsExact
  <2>2. DOMAIN c = 1 .. Len(c) /\ Len(c) \in Nat /\ \A i \in 1 .. Len(c) : c[i].line \in Nat
    BY <1>3, ContentIsTyped
  <2>3. \A i \in position + 1 .. Len(c) : c[i].line > Stream!Newest' /\ \A m \in DOMAIN pending' : c[i].line > pending'[m].line
    BY <1>3, <1>12, <2>1, <2>2
  <2>4. ASSUME NEW i \in 1 .. position
        PROVE  c[i].line \in excused \/ c[i].line <= Stream!Newest' \/ c[i].line \in LinesOf(pending') \/ c[i].line \in LinesOf(partial)
    BY <1>3, <1>13, <2>1, <2>2
  <2>5. position > 0 /\ c[position].part = "first" =>
           c[position].line > Stream!Newest' /\ \A m \in DOMAIN pending' : c[position].line > pending'[m].line
    <3>1. position > 0 => position \in 1 .. Len(c)
      BY <1>3, <2>1, <2>2
    <3> QED
      BY <1>12, <2>1, <2>2, <3>1
  <2>6. content' = content /\ fingerprint' = fingerprint /\ position' = position /\ partial' = partial /\ excused' = excused
    BY <1>2
  <2> QED
    BY <2>1, <2>3, <2>4, <2>5, <2>6 DEF CursorIsExact, IsAhead, Accounted
<1> QED
  BY <1>11, <1>14, <1>15 DEF Exact

LEMMA MissingExact ==
    ASSUME TypeOK, Tracked, Exact, Missing
    PROVE  Exact'
<1>1. /\ path' = NoFile /\ fingerprint' = NoFile /\ partial' = <<>> /\ pending = <<>> /\ pending' = pending
  BY DEF Missing, files
<1>2. Len(<<>>) = 0 /\ DOMAIN <<>> = {}
  BY EmptySeq
<1>3. BufferIsInOrder'
  BY <1>1, <1>2 DEF BufferIsInOrder, InOrder, Paired
<1> QED
  BY <1>1, <1>3 DEF Exact, NewFileIsAhead, CursorIsExact

LEMMA StatExact ==
    ASSUME TypeOK, Tracked, Exact, Stat
    PROVE  Exact'
<1> DEFINE c == content[path]
           reopened == path # fingerprint \/ Len(c) < position
<1>1. /\ path \in Files /\ path # NoFile /\ pending = <<>>
      /\ fingerprint' = path /\ position' = (IF reopened THEN StartPosition ELSE position)
      /\ partial' = (IF reopened THEN <<>> ELSE partial)
      /\ cut' = (cut /\ ~reopened)
      /\ excused' = excused \cup (IF fingerprint = NoFile THEN LinesOf(SubSeq(c, 1, position')) ELSE {})
      /\ UNCHANGED <<content, path, pending, emitted>>
  BY DEF Stat, files, TypeOK
<1>2. c \in Seq(Pieces) /\ Len(c) \in Nat /\ DOMAIN c = 1 .. Len(c) /\ position \in Nat
  BY <1>1, ContentIsTyped, NumbersAreTyped
<1>3. Len(<<>>) = 0 /\ DOMAIN <<>> = {}
  BY EmptySeq
<1>4. CASE ~reopened
  <2>1. path = fingerprint /\ fingerprint' = fingerprint /\ position' = position /\ partial' = partial /\ excused' = excused
    BY <1>1, <1>4
  <2>2. cut' = cut
    BY <1>1, <1>4 DEF TypeOK
  <2>3. BufferIsInOrder'
    BY <1>1, <2>1, BufferIsKept DEF Exact
  <2>4. CursorIsExact'
    BY <1>1, <2>1, <2>2, CursorIsKept DEF Exact
  <2>5. Stream!Newest' = Stream!Newest
    BY <1>1, AheadIsKept
  <2>6. NewFileIsAhead'
    BY <1>1, <2>1, <2>2, <2>5 DEF Exact, NewFileIsAhead, IsAhead
  <2> QED
    BY <2>3, <2>4, <2>6 DEF Exact
<1>5. CASE reopened
  <2>1. position' = StartPosition /\ partial' = <<>> /\ cut' = FALSE
    BY <1>1, <1>5
  <2>2. BufferIsInOrder'
    BY <1>1, <1>3, <2>1 DEF BufferIsInOrder, InOrder, Paired
  <2>3. NewFileIsAhead'
    BY <1>1, <2>1 DEF NewFileIsAhead
  <2>4. fingerprint # path \/ cut
    <3> SUFFICES ASSUME fingerprint = path, ~cut PROVE FALSE
      OBVIOUS
    <3>1. position <= Len(c)
      BY <1>1 DEF Exact, CursorIsExact
    <3> QED
      BY <1>2, <1>5, <3>1
  <2>5. \A i \in 1 .. Len(c) : IsAhead(c[i].line)
    BY <1>1, <1>2, <2>4 DEF Exact, NewFileIsAhead
  <2>6. Stream!Newest' = Stream!Newest
    BY <1>1, AheadIsKept
  <2>7. content'[fingerprint'] = c
    BY <1>1
  <2>8. ASSUME fingerprint # NoFile \/ FromStart PROVE CursorIsExact'
    <3>1. position' = 0
      BY <2>1, <2>8 DEF StartPosition
    <3> HIDE DEF c
    <3> QED
      BY <1>1, <1>2, <2>1, <2>5, <2>6, <2>7, <3>1 DEF CursorIsExact, IsAhead, Accounted
  <2>9. ASSUME ~(fingerprint # NoFile \/ FromStart) PROVE CursorIsExact'
    <3>1. position' = Len(c) /\ fingerprint = NoFile
      BY <2>1, <2>9 DEF StartPosition
    <3>2. excused' = excused \cup LinesOf(SubSeq(c, 1, Len(c)))
      BY <1>1, <3>1
    <3>3. \A i \in 1 .. Len(c) : c[i].line \in excused'
      <4>1. /\ Len(SubSeq(c, 1, Len(c))) = IF 1 <= Len(c) THEN Len(c) - 1 + 1 ELSE 0
            /\ DOMAIN SubSeq(c, 1, Len(c)) = 1 .. Len(SubSeq(c, 1, Len(c)))
            /\ \A i \in DOMAIN SubSeq(c, 1, Len(c)) : SubSeq(c, 1, Len(c))[i] = c[1 + i - 1]
        BY <1>2, SliceProperties
      <4> HIDE DEF c
      <4>2. \A i \in 1 .. Len(c) : i \in DOMAIN SubSeq(c, 1, Len(c)) /\ SubSeq(c, 1, Len(c))[i] = c[i]
        BY <1>2, <4>1
      <4> QED
        BY <3>2, <4>2 DEF LinesOf
    <3> HIDE DEF c
    <3>4. position' > 0 => position' \in 1 .. Len(c)
      BY <1>2, <3>1
    <3>5. \A i \in position' + 1 .. Len(c) : FALSE
      BY <1>2, <3>1
    <3> QED
      BY <1>1, <1>2, <2>1, <2>5, <2>6, <2>7, <3>1, <3>3, <3>4, <3>5 DEF CursorIsExact, IsAhead, Accounted
  <2>10. CursorIsExact'
    BY <2>8, <2>9
  <2> QED
    BY <2>2, <2>3, <2>10 DEF Exact
<1> QED
  BY <1>4, <1>5
\* The slice of the file from after off up to upto, of which n pieces are complete
\* lines.
Slice(off, n, upto) ==
    /\ off = position \/ (off + 1 = position /\ Len(partial) = 1 /\ partial[1] = content[fd][position])
    /\ off = position <=> partial = <<>>
    /\ position < upto /\ upto <= Len(content[fd]) /\ position' = upto /\ off + n <= upto
    /\ DOMAIN pending' = 1 .. n /\ \A i \in 1 .. n : pending'[i] = content[fd][off + i]
    /\ Len(partial') = upto - off - n /\ DOMAIN partial' = 1 .. upto - off - n
    /\ \A i \in 1 .. upto - off - n : partial'[i] = content[fd][off + n + i]
    /\ n > 0 => IsEnd(content[fd][off + n])
    /\ \A i \in off + n + 1 .. upto : ~IsEnd(content[fd][i])

\* While position and file agree, the partial line and the chunk are one slice.
LEMMA ReadSlice ==
    ASSUME TypeOK, Tracked, Exact, ReadChunk, ~torn'
    PROVE  /\ fd = fingerprint /\ ~cut /\ fd \in Files /\ pending = <<>>
           /\ \E off, n, upto \in Nat : Slice(off, n, upto)
<1>1. /\ fd \in Files /\ pending = <<>> /\ position \in Nat
      /\ Len(content[fd]) \in Nat /\ DOMAIN content[fd] = 1 .. Len(content[fd])
      /\ Len(partial) \in Nat /\ DOMAIN partial = 1 .. Len(partial)
  BY ReadStep
<1>2. fd = fingerprint /\ ~cut /\ fingerprint # NoFile
  BY <1>1, PieceFields DEF ReadChunk
<1>3. PICK upto, n \in Nat, data \in Seq(Pieces) : Chunk(upto, n, data)
  BY ReadStep
<1>4. /\ position < upto /\ upto <= Len(content[fd]) /\ position' = upto
      /\ Len(data) = Len(partial) + upto - position /\ n <= Len(data)
      /\ \A i \in 1 .. Len(partial) : data[i] = partial[i]
      /\ \A i \in Len(partial) + 1 .. Len(data) : data[i] = content[fd][position + i - Len(partial)]
      /\ DOMAIN pending' = 1 .. n /\ Len(pending') = n
      /\ \A i \in 1 .. n : pending'[i] = data[i]
      /\ DOMAIN partial' = 1 .. Len(data) - n /\ Len(partial') = Len(data) - n
      /\ \A i \in 1 .. Len(data) - n : partial'[i] = data[n + i]
      /\ n > 0 => IsEnd(data[n])
      /\ \A i \in n + 1 .. Len(data) : ~IsEnd(data[i])
  BY <1>3 DEF Chunk
<1>5. /\ Len(partial) <= 1
      /\ partial # <<>> => position > 0 /\ content[fd][position] = partial[1]
  BY <1>2 DEF Exact, BufferIsInOrder, CursorIsExact
<1>6. (partial # <<>> => Len(partial) = 1) /\ (partial = <<>> => Len(partial) = 0)
  BY <1>1, <1>5, BufferIsTyped, EmptySeq
<1> DEFINE off == position - Len(partial)
<1>7. /\ off \in Nat
      /\ off = position \/ (off + 1 = position /\ Len(partial) = 1 /\ partial[1] = content[fd][position])
      /\ off = position <=> partial = <<>>
      /\ Len(data) = upto - off
  <2>1. CASE partial = <<>>
    BY <1>1, <1>4, <1>6, <2>1
  <2>2. CASE partial # <<>>
    <3>1. Len(partial) = 1 /\ off = position - 1 /\ position > 0 /\ content[fd][position] = partial[1]
      BY <1>5, <1>6, <2>2
    <3>2. off \in Nat /\ off + 1 = position /\ off # position /\ Len(data) = upto - off
      <4>1. position \in Nat /\ Len(data) = 1 + upto - position
        BY <1>1, <1>4, <3>1
      <4> QED
        BY <3>1, <4>1
    <3> QED
      BY <2>2, <3>1, <3>2
  <2> QED
    BY <2>1, <2>2
<1>8. ASSUME NEW i \in 1 .. Len(data) PROVE data[i] = content[fd][off + i]
  <2>1. CASE i <= Len(partial)
    <3>1. Len(partial) = 1 /\ i = 1 /\ off + i = position
      BY <1>1, <1>6, <1>7, <2>1
    <3> QED
      BY <1>4, <1>5, <1>6, <3>1
  <2>2. CASE i > Len(partial)
    <3>1. i \in Len(partial) + 1 .. Len(data) /\ position + i - Len(partial) = off + i
      BY <1>1, <1>4, <1>7, <2>2
    <3>2. data[i] = content[fd][position + i - Len(partial)]
      BY <1>4, <3>1
    <3> QED
      BY <3>1, <3>2
  <2> QED
    BY <1>1, <2>1, <2>2
<1> HIDE DEF off
<1>9. off \in Nat /\ off + n <= upto /\ upto - off = Len(data) /\ n <= Len(data)
  BY <1>4, <1>7
<1>10. ASSUME NEW i \in 1 .. n PROVE pending'[i] = content[fd][off + i]
  <2>1. i \in 1 .. Len(data)
    BY <1>9
  <2> QED
    BY <1>4, <1>8, <2>1
<1>11. ASSUME NEW i \in 1 .. upto - off - n PROVE partial'[i] = content[fd][off + n + i]
  <2>1. i \in 1 .. Len(data) - n /\ n + i \in 1 .. Len(data) /\ off + (n + i) = off + n + i
    BY <1>9
  <2>2. data[n + i] = content[fd][off + (n + i)]
    BY <1>8, <2>1
  <2> QED
    BY <1>4, <2>1, <2>2
<1>12. n > 0 => IsEnd(content[fd][off + n])
  <2>1. n > 0 => n \in 1 .. Len(data)
    BY <1>4, <1>7
  <2> QED
    BY <1>4, <1>8, <2>1
<1>13. ASSUME NEW i \in off + n + 1 .. upto PROVE ~IsEnd(content[fd][i])
  <2>1. i - off \in n + 1 .. Len(data) /\ i - off \in 1 .. Len(data) /\ off + (i - off) = i
    BY <1>4, <1>7
  <2>2. data[i - off] = content[fd][off + (i - off)]
    BY <1>8, <2>1
  <2> QED
    BY <1>4, <2>1, <2>2
<1>14. Len(partial') = upto - off - n /\ DOMAIN partial' = 1 .. upto - off - n
  BY <1>4, <1>9
<1>15. Slice(off, n, upto)
  BY <1>4, <1>7, <1>9, <1>10, <1>11, <1>12, <1>13, <1>14 DEF Slice
<1> QED
  BY <1>1, <1>2, <1>9, <1>15

LEMMA ReadExact ==
    ASSUME TypeOK, Tracked, Exact, ReadChunk, ~torn'
    PROVE  Exact'
<1> DEFINE c == content[fd]
<1>1. fd = fingerprint /\ ~cut /\ fd \in Files /\ pending = <<>> /\ fingerprint # NoFile
  BY ReadSlice, PieceFields
<1>0. PICK off, n, upto \in Nat : Slice(off, n, upto)
  BY ReadSlice
<1>2. /\ off = position \/ (off + 1 = position /\ Len(partial) = 1 /\ partial[1] = c[position])
      /\ off = position <=> partial = <<>>
      /\ position < upto /\ upto <= Len(c) /\ position' = upto /\ off + n <= upto
      /\ DOMAIN pending' = 1 .. n /\ \A i \in 1 .. n : pending'[i] = c[off + i]
      /\ Len(partial') = upto - off - n /\ DOMAIN partial' = 1 .. upto - off - n
      /\ \A i \in 1 .. upto - off - n : partial'[i] = c[off + n + i]
      /\ n > 0 => IsEnd(c[off + n])
      /\ \A i \in off + n + 1 .. upto : ~IsEnd(c[i])
  BY <1>0 DEF Slice
<1>3. UNCHANGED <<content, path, fingerprint, excused, emitted, cut>>
  BY DEF ReadChunk, files
<1>4. Stream!Newest' = Stream!Newest
  BY <1>3 DEF Stream!Newest
<1>5. /\ DOMAIN c = 1 .. Len(c) /\ Len(c) \in Nat /\ position \in Nat
      /\ \A i \in 1 .. Len(c) : c[i].line \in Nat /\ c[i].part \in {"whole", "first", "rest"}
      /\ DOMAIN partial = 1 .. Len(partial) /\ Stream!Newest \in Nat
  BY <1>1, NumbersAreTyped, ContentIsTyped, BufferIsTyped, PieceFields DEF Tracked, BufferIsWritten
<1>6. Sound(c)
  BY <1>1 DEF Tracked, LogIsInOrder
<1>7. /\ position <= Len(c)
      /\ \A i \in position + 1 .. Len(c) : c[i].line > Stream!Newest
      /\ \A i \in 1 .. position : Accounted(c[i].line)
      /\ position > 0 /\ c[position].part = "first" => partial # <<>> \/ c[position].line \in excused
      /\ \A i \in DOMAIN partial : partial[i].line > Stream!Newest /\ ~IsEnd(partial[i])
  BY <1>1 DEF Exact, CursorIsExact, BufferIsInOrder, IsAhead, TypeOK
<1> HIDE DEF c
<1>8. ASSUME NEW i \in off + 1 .. Len(c) PROVE c[i].line > Stream!Newest
  <2>1. CASE i >= position + 1
    BY <1>5, <1>7, <2>1
  <2>2. CASE i = position /\ Len(partial) = 1 /\ partial[1] = c[position]
    <3>1. 1 \in DOMAIN partial
      BY <1>5, <2>2
    <3> QED
      BY <1>7, <2>2, <3>1
  <2>3. off = position \/ (off + 1 = position /\ Len(partial) = 1 /\ partial[1] = c[position])
    BY <1>2
  <2>4. i >= off + 1 /\ i \in Nat
    BY <1>5
  <2> QED
    BY <1>5, <2>1, <2>2, <2>3, <2>4
<1>9. ASSUME NEW i \in 1 .. Len(c), NEW j \in 1 .. Len(c), i < j
      PROVE  c[i].line < c[j].line \/ (j = i + 1 /\ c[i].part = "first" /\ c[j].part = "rest" /\ c[i].line = c[j].line)
  BY <1>5, <1>6, <1>9 DEF Sound, InOrder, Precedes
<1>10. \A i \in 1 .. n : off + i \in 1 .. Len(c) /\ off + i <= upto
  BY <1>2
<1>11. \A i \in 1 .. upto - off - n : off + n + i \in 1 .. Len(c) /\ off + n + i <= upto /\ ~IsEnd(c[off + n + i])
  <2>1. \A i \in 1 .. upto - off - n : off + n + i \in off + n + 1 .. upto /\ off + n + i \in 1 .. Len(c)
    BY <1>2, <1>5
  <2> QED
    BY <1>2, <2>1
<1>12. upto - off - n <= 1
  <2> SUFFICES ASSUME upto - off - n >= 2 PROVE FALSE
    BY <1>2
  <2>1. 1 \in 1 .. upto - off - n /\ 2 \in 1 .. upto - off - n
    BY <1>2
  <2>2. /\ off + n + 1 \in DOMAIN c /\ (off + n + 1) + 1 \in DOMAIN c /\ (off + n + 1) + 1 = off + n + 2
        /\ ~IsEnd(c[off + n + 1]) /\ ~IsEnd(c[off + n + 2])
    BY <1>2, <1>5, <1>11, <2>1
  <2> QED
    BY <1>6, <2>2 DEF Sound, Paired, IsEnd
<1>13. BufferIsInOrder'
  <2>1. InOrder(pending')
    <3> SUFFICES ASSUME NEW i \in 1 .. n, NEW j \in 1 .. n, i < j
                 PROVE  pending'[i].line < pending'[j].line \/ (j = i + 1 /\ Precedes(pending'[i], pending'[j]))
      BY <1>2 DEF InOrder
    <3>1. off + i \in 1 .. Len(c) /\ off + j \in 1 .. Len(c) /\ off + i < off + j /\ (off + j = (off + i) + 1 => j = i + 1)
      BY <1>10
    <3>2. pending'[i] = c[off + i] /\ pending'[j] = c[off + j]
      BY <1>2
    <3> QED
      BY <1>9, <3>1, <3>2 DEF Precedes
  <2>2. Paired(pending')
    <3> SUFFICES ASSUME NEW i \in 1 .. n, i + 1 \in 1 .. n, pending'[i].part = "first"
                 PROVE  pending'[i + 1].part = "rest" /\ pending'[i + 1].line = pending'[i].line
      BY <1>2 DEF Paired
    <3>1. off + i \in DOMAIN c /\ (off + i) + 1 \in DOMAIN c /\ (off + i) + 1 = off + (i + 1)
      BY <1>5, <1>10
    <3>2. pending'[i] = c[off + i] /\ pending'[i + 1] = c[(off + i) + 1]
      BY <1>2, <3>1
    <3> QED
      BY <1>6, <3>1, <3>2 DEF Sound, Paired
  <2>3. ASSUME NEW i \in 1 .. n, pending'[i].part = "rest"
        PROVE  EndsItsLine(pending', i) \/ pending'[i].line \in excused
    <3>1. off + i \in DOMAIN c /\ c[off + i].part = "rest" /\ pending'[i] = c[off + i]
      BY <1>2, <1>5, <1>10, <2>3
    <3>2. off + i > 1 /\ c[(off + i) - 1].part = "first" /\ c[(off + i) - 1].line = c[off + i].line
      BY <1>6, <3>1 DEF Sound, EndsItsLine
    <3>3. CASE i = 1
      <4>1. (off + i) - 1 = off /\ off > 0
        BY <3>2, <3>3
      <4>2. partial = <<>>
        <5> SUFFICES ASSUME partial # <<>> PROVE FALSE
          OBVIOUS
        <5>1. off + 1 = position /\ Len(partial) = 1 /\ partial[1] = c[position]
          BY <1>2
        <5>2. 1 \in DOMAIN partial
          BY <1>5, <5>1
        <5> QED
          BY <1>7, <3>1, <3>3, <5>1, <5>2 DEF IsEnd
      <4>3. off = position
        BY <1>2, <4>2
      <4>4. c[off].line \in excused
        BY <1>7, <3>2, <4>1, <4>2, <4>3
      <4> QED
        BY <3>1, <3>2, <4>1, <4>4
    <3>4. CASE i # 1
      <4>1. i - 1 \in 1 .. n /\ i > 1 /\ off + (i - 1) = (off + i) - 1
        BY <3>4
      <4>2. pending'[i - 1] = c[(off + i) - 1]
        BY <1>2, <4>1
      <4> QED
        BY <3>1, <3>2, <4>1, <4>2 DEF EndsItsLine
    <3> QED
      BY <3>3, <3>4
  <2>4. ASSUME NEW i \in 1 .. n PROVE pending'[i].line > Stream!Newest
    <3>1. off + i \in off + 1 .. Len(c)
      BY <1>5, <1>10
    <3> QED
      BY <1>2, <1>8, <3>1
  <2>5. ASSUME NEW i \in 1 .. upto - off - n PROVE partial'[i].line > Stream!Newest
    <3>1. off + n + i \in off + 1 .. Len(c)
      BY <1>5, <1>11
    <3> QED
      BY <1>2, <1>8, <3>1
  <2>6. ASSUME NEW i \in 1 .. n, NEW j \in 1 .. upto - off - n PROVE pending'[i].line < partial'[j].line
    <3>1. off + i \in 1 .. Len(c) /\ off + n + j \in 1 .. Len(c) /\ off + i < off + n + j /\ ~IsEnd(c[off + n + j])
      BY <1>2, <1>10, <1>11
    <3>2. c[off + i].line < c[off + n + j].line
      BY <1>9, <3>1 DEF IsEnd
    <3> QED
      BY <1>2, <3>2
  <2> HIDE DEF EndsItsLine
  <2> QED
    BY <1>2, <1>3, <1>4, <1>12, <2>1, <2>2, <2>3, <2>4, <2>5, <2>6 DEF BufferIsInOrder
<1>14. NewFileIsAhead'
  <2> SUFFICES ASSUME path # NoFile, fingerprint # path, NEW j \in DOMAIN content[path]
               PROVE  /\ content[path][j].line > Stream!Newest
                      /\ \A i \in 1 .. n : content[path][j].line > pending'[i].line
                      /\ \A i \in 1 .. upto - off - n : content[path][j].line > partial'[i].line
    BY <1>1, <1>2, <1>3, <1>4 DEF NewFileIsAhead, IsAhead
  <2>1. path \in Files /\ fd < path
    BY <1>1, NumbersAreTyped DEF Tracked, LogIsInOrder, CursorIsKnown
  <2>2. \A i \in 1 .. Len(c) : c[i].line < content[path][j].line
    BY <1>1, <1>5, <2>1 DEF Tracked, LogIsInOrder, c
  <2>3. content[path][j].line > Stream!Newest
    BY DEF Exact, NewFileIsAhead, IsAhead
  <2>4. content[path][j].line \in Nat
    BY <2>1, NumbersAreTyped
  <2> QED
    BY <1>2, <1>5, <1>10, <1>11, <2>2, <2>3, <2>4
<1>15. ASSUME NEW i \in off + 1 .. upto
       PROVE  c[i].line \in LinesOf(pending') \/ c[i].line \in LinesOf(partial')
  <2>1. CASE i <= off + n
    <3>1. i - off \in 1 .. n /\ off + (i - off) = i
      BY <1>2, <2>1
    <3>2. pending'[i - off] = c[i]
      BY <1>2, <3>1
    <3> QED
      BY <1>2, <3>1, <3>2 DEF LinesOf
  <2>2. CASE i > off + n
    <3>1. i - off - n \in 1 .. upto - off - n /\ off + n + (i - off - n) = i
      BY <1>2, <2>2
    <3>2. partial'[i - off - n] = c[i]
      BY <1>2, <3>1
    <3> QED
      BY <1>2, <3>1, <3>2 DEF LinesOf
  <2> QED
    BY <1>2, <2>1, <2>2
<1>16. CursorIsExact'
  <2>1. partial' # <<>> => upto > 0 /\ c[upto] = partial'[1]
    <3> SUFFICES ASSUME partial' # <<>> PROVE upto > 0 /\ c[upto] = partial'[1]
      OBVIOUS
    <3>1. Len(partial') # 0
      <4>1. TypeOK'
        BY PollTypes DEF Poll
      <4>2. partial' \in Seq(Pieces)
        BY <4>1 DEF TypeOK
      <4> QED
        BY <4>2, EmptySeq
    <3>2. upto - off - n = 1 /\ off + n + 1 = upto
      BY <1>2, <1>12, <3>1
    <3> QED
      BY <1>2, <3>2
  <2>2. ASSUME NEW i \in upto + 1 .. Len(c)
        PROVE  c[i].line > Stream!Newest /\ \A m \in 1 .. n : c[i].line > pending'[m].line
    <3>1. c[i].line > Stream!Newest
      <4>1. i \in off + 1 .. Len(c)
        BY <1>2, <1>5
      <4> QED
        BY <1>8, <4>1
    <3>2. ASSUME NEW m \in 1 .. n PROVE c[i].line > pending'[m].line
      <4>1. off + m \in 1 .. Len(c) /\ i \in 1 .. Len(c) /\ off + m < i /\ pending'[m] = c[off + m]
        BY <1>2, <1>5, <1>10
      <4>2. ~(i = (off + m) + 1 /\ c[off + m].part = "first")
        <5> SUFFICES ASSUME i = (off + m) + 1, c[off + m].part = "first" PROVE FALSE
          OBVIOUS
        <5>1. m = n
          BY <1>2, <1>5
        <5> QED
          BY <1>2, <5>1 DEF IsEnd
      <4> QED
        BY <1>5, <1>9, <4>1, <4>2
    <3> QED
      BY <3>1, <3>2
  <2>3. ASSUME NEW i \in 1 .. upto
        PROVE  c[i].line \in excused \/ c[i].line <= Stream!Newest \/ c[i].line \in LinesOf(pending') \/ c[i].line \in LinesOf(partial')
    <3>1. CASE i > off
      BY <1>2, <1>15, <3>1
    <3>2. CASE i <= off
      <4>1. Accounted(c[i].line)
        BY <1>2, <1>5, <1>7, <3>2
      <4>2. LinesOf(pending) = {}
        BY <1>1 DEF LinesOf
      <4>3. CASE c[i].line \in LinesOf(partial)
        <5>1. PICK m \in DOMAIN partial : c[i].line = partial[m].line
          BY <4>3 DEF LinesOf
        <5>2. partial # <<>>
          <6>1. DOMAIN <<>> = {}
            BY EmptySeq
          <6> QED
            BY <5>1, <6>1
        <5>3. off + 1 = position /\ m = 1 /\ partial[1] = c[position] /\ position \in off + 1 .. upto
          BY <1>2, <1>5, <5>1, <5>2
        <5> QED
          BY <1>15, <5>1, <5>3
      <4> QED
        BY <4>1, <4>2, <4>3 DEF Accounted
    <3> QED
      BY <1>2, <3>1, <3>2
  <2>4. ASSUME c[upto].part = "first"
        PROVE  /\ c[upto].line > Stream!Newest /\ \A m \in 1 .. n : c[upto].line > pending'[m].line
               /\ partial' # <<>>
    <3>1. upto \in off + 1 .. Len(c) /\ upto \in 1 .. Len(c)
      BY <1>2, <1>5
    <3>2. off + n < upto
      <4> SUFFICES ASSUME off + n = upto PROVE FALSE
        BY <1>2
      <4>1. n > 0
        BY <3>1
      <4> QED
        BY <1>2, <2>4, <4>1 DEF IsEnd
    <3>3. \A m \in 1 .. n : c[upto].line > pending'[m].line
      <4> SUFFICES ASSUME NEW m \in 1 .. n PROVE c[upto].line > pending'[m].line
        OBVIOUS
      <4>1. off + m \in 1 .. Len(c) /\ off + m < upto /\ pending'[m] = c[off + m]
        BY <1>2, <1>10, <3>2
      <4> QED
        BY <1>5, <1>9, <2>4, <3>1, <4>1
    <3>4. partial' # <<>>
      <4>1. Len(partial') # 0
        BY <1>2, <3>2
      <4> QED
        BY <4>1, EmptySeq
    <3> QED
      BY <1>8, <3>1, <3>3, <3>4
  <2>5. content'[fingerprint'] = c /\ excused' = excused /\ position' = upto /\ upto <= Len(c)
    BY <1>1, <1>2, <1>3 DEF c
  <2> QED
    BY <1>2, <1>4, <2>1, <2>2, <2>3, <2>4, <2>5 DEF CursorIsExact, IsAhead, Accounted
<1> QED
  BY <1>13, <1>14, <1>16 DEF Exact
-----------------------------------------------------------------------------
(* The inductive invariant and the refinement. *)

LEMMA ExactStep ==
    ASSUME IInv, [Next]_vars, ~torn'
    PROVE  Exact'
<1>1. TypeOK /\ Tracked
  BY DEF IInv
<1>2. ~torn
  BY DEF Next, Logger, WriteLine, FinishLine, Create, Rotate, Truncate, Poll, Yield, Missing, Stat, Open,
         ReadChunk, EndOfFile, Rest, Crash, Stop, Start, vars, history
<1>3. Exact
  BY <1>2 DEF IInv
<1>4. CASE Logger
  BY <1>1, <1>3, <1>4, LoggerExact
<1>5. CASE Yield
  BY <1>1, <1>3, <1>5, YieldExact
<1>6. CASE Missing
  BY <1>1, <1>3, <1>6, MissingExact
<1>7. CASE Stat
  BY <1>1, <1>3, <1>7, StatExact
<1>8. CASE ReadChunk
  BY <1>1, <1>3, <1>8, ReadExact
<1>9. CASE Open \/ EndOfFile \/ Rest \/ Crash \/ Stop \/ Start \/ UNCHANGED vars
  <2>1. UNCHANGED <<content, path, fingerprint, position, partial, pending, excused, emitted, cut>>
    BY <1>9 DEF Open, EndOfFile, Rest, Crash, Stop, Start, vars, history, cursor, files
  <2>2. BufferIsInOrder' /\ CursorIsExact' /\ Stream!Newest' = Stream!Newest
    BY <1>1, <1>3, <2>1, BufferIsKept, CursorIsKept, AheadIsKept DEF Exact
  <2>3. NewFileIsAhead'
    BY <1>3, <2>1, <2>2 DEF Exact, NewFileIsAhead, IsAhead
  <2> QED
    BY <2>2, <2>3 DEF Exact
<1> QED
  BY <1>4, <1>5, <1>6, <1>7, <1>8, <1>9 DEF Next, Poll

LEMMA InitInvariant == Init => IInv
<1> SUFFICES ASSUME Init PROVE IInv
  OBVIOUS
<1>1. TypeOK
  BY TypeInit
<1>2. DOMAIN <<>> = {} /\ Len(<<>>) = 0
  BY EmptySeq
<1>3. /\ pending = <<>> /\ partial = <<>> /\ emitted = <<>> /\ path = NoFile /\ created = 0 /\ written = 0
      /\ fingerprint = NoFile /\ position = 0 /\ excused = {} /\ \A f \in Files : content[f] = <<>>
  BY DEF Init
<1>4. Stream!Newest = 0
  BY <1>3 DEF Stream!Newest
<1>5. \A f \in Files : Sound(content[f])
  BY <1>2, <1>3 DEF Sound, InOrder, Paired
<1>6. LogIsInOrder
  BY <1>2, <1>3, <1>5 DEF LogIsInOrder
<1>7. UnexcusedStays /\ BufferIsWritten
  BY <1>2, <1>3, <1>4 DEF UnexcusedStays, BufferIsWritten
<1>8. CursorIsKnown
  BY DEF Init, CursorIsKnown
<1>9. BufferIsInOrder
  BY <1>2, <1>3 DEF BufferIsInOrder, InOrder, Paired
<1>10. NewFileIsAhead /\ CursorIsExact
  BY <1>3 DEF NewFileIsAhead, CursorIsExact
<1> QED
  BY <1>1, <1>6, <1>7, <1>8, <1>9, <1>10 DEF IInv, Tracked, Exact

LEMMA NextInvariant == IInv /\ [Next]_vars => IInv'
<1> SUFFICES ASSUME IInv, [Next]_vars PROVE IInv'
  OBVIOUS
<1>1. TypeOK /\ Tracked
  BY DEF IInv
<1>2. TypeOK'
  BY <1>1, TypeStep
<1>3. LogIsInOrder' /\ UnexcusedStays' /\ BufferIsWritten' /\ CursorIsKnown'
  BY <1>1, LogStep, UnexcusedStep, BufferStep, CursorStep DEF Tracked
<1>4. torn' \/ Exact'
  BY ExactStep
<1> QED
  BY <1>2, <1>3, <1>4 DEF IInv, Tracked

\* A line comes out behind the others, none that is not excused is passed over, and
\* unless it is excused it is whole.
LEMMA YieldEmits ==
    ASSUME IInv, Yield
    PROVE  Stream!Emit
<1>1. PICK n \in DOMAIN pending :
         /\ n \in Nat /\ n > 0 /\ n <= Len(pending)
         /\ IsEnd(pending[n]) /\ \A i \in 1 .. n - 1 : ~IsEnd(pending[i])
         /\ emitted' = Append(emitted, [line |-> pending[n].line, whole |-> IsWhole(SubSeq(pending, 1, n))])
  BY YieldStep DEF IInv
<1>2. /\ \A i \in DOMAIN pending : pending[i] \in Pieces /\ pending[i].line \in Nat \ {0}
      /\ pending \in Seq(Pieces) /\ Len(pending) \in Nat /\ DOMAIN pending = 1 .. Len(pending)
      /\ \A f \in Files : \A i \in DOMAIN content[f] : content[f][i].line \in Nat
      /\ \A i \in DOMAIN partial : partial[i].line \in Nat
      /\ position \in Nat /\ written \in Nat /\ Stream!Newest \in Nat
      /\ path # NoFile => path \in Files
  BY BufferIsTyped, NumbersAreTyped DEF IInv, Tracked, BufferIsWritten
<1> DEFINE k == pending[n].line
           whole == IsWhole(SubSeq(pending, 1, n))
<1>3. k \in 1 .. written /\ whole \in BOOLEAN
  BY <1>2 DEF IInv, Tracked, BufferIsWritten, IsWhole
<1>4. UNCHANGED <<written, excused, torn>>
  BY DEF Yield, files
<1>5. ASSUME ~torn
      PROVE  /\ k > Stream!Newest
             /\ (Stream!Newest + 1) .. (k - 1) \subseteq excused
             /\ whole \/ k \in excused
  <2>1. Exact
    BY <1>5 DEF IInv
  <2>2. k > Stream!Newest
    BY <2>1 DEF Exact, BufferIsInOrder
  <2>3. ASSUME NEW j \in (Stream!Newest + 1) .. (k - 1), j \notin excused PROVE FALSE
    <3>1. j \in 1 .. written /\ j < k /\ j > Stream!Newest
      BY <1>2, <1>3
    <3>2. path \in Files /\ j \in LinesOf(content[path]) /\ path # NoFile
      BY <1>2, <2>3, <3>1 DEF IInv, Tracked, UnexcusedStays
    <3>3. PICK i \in DOMAIN content[path] : j = content[path][i].line
      BY <3>2 DEF LinesOf
    <3>4. CASE fingerprint # path \/ cut
      <4>1. IsAhead(j)
        BY <2>1, <3>2, <3>3, <3>4 DEF Exact, NewFileIsAhead
      <4> QED
        BY <1>2, <3>1, <4>1 DEF IsAhead
    <3>5. CASE fingerprint = path /\ ~cut
      <4>1. /\ \A m \in position + 1 .. Len(content[path]) : IsAhead(content[path][m].line)
            /\ \A m \in 1 .. position : Accounted(content[path][m].line)
        BY <2>1, <3>2, <3>5 DEF Exact, CursorIsExact
      <4>2. i \in 1 .. Len(content[path]) /\ Len(content[path]) \in Nat
        BY <3>2, ContentIsTyped DEF IInv
      <4>3. CASE i > position
        <5>1. IsAhead(j)
          BY <1>2, <3>3, <4>1, <4>2, <4>3
        <5> QED
          BY <1>2, <3>1, <5>1 DEF IsAhead
      <4>4. CASE i <= position
        <5>1. Accounted(j)
          BY <1>2, <3>3, <4>1, <4>2, <4>4
        <5>2. CASE j \in LinesOf(pending)
          <6>1. PICK m \in DOMAIN pending : j = pending[m].line
            BY <5>2 DEF LinesOf
          <6>2. m < n
            <7> SUFFICES ASSUME m > n PROVE FALSE
              BY <1>1, <1>2, <3>1, <6>1
            <7> QED
              BY <1>1, <1>2, <2>1, <3>1, <6>1 DEF Exact, BufferIsInOrder, InOrder, Precedes
          <6>3. pending[m].part = "first"
            BY <1>1, <1>2, <6>2 DEF IsEnd, Pieces
          <6>4. m + 1 \in DOMAIN pending /\ m + 1 <= n
            BY <1>1, <1>2, <6>2
          <6>5. pending[m + 1].part = "rest" /\ pending[m + 1].line = j
            BY <2>1, <6>1, <6>3, <6>4 DEF Exact, BufferIsInOrder, Paired
          <6>6. m + 1 = n
            <7> SUFFICES ASSUME m + 1 < n PROVE FALSE
              BY <1>1, <1>2, <6>4
            <7>1. m + 1 \in 1 .. n - 1
              BY <1>1, <1>2
            <7> QED
              BY <1>1, <6>5, <7>1 DEF IsEnd
          <6> QED
            BY <1>2, <3>1, <6>5, <6>6
        <5>3. CASE j \in LinesOf(partial)
          <6>1. PICK m \in DOMAIN partial : j = partial[m].line
            BY <5>3 DEF LinesOf
          <6>2. k < j
            BY <2>1, <6>1 DEF Exact, BufferIsInOrder
          <6> QED
            BY <1>2, <3>1, <6>2
        <5> QED
          BY <1>2, <2>3, <3>1, <5>1, <5>2, <5>3 DEF Accounted
      <4> QED
        BY <1>2, <4>2, <4>3, <4>4
    <3> QED
      BY <3>4, <3>5 DEF IInv, TypeOK
  <2>4. ASSUME ~whole PROVE k \in excused
    <3>1. /\ SubSeq(pending, 1, n) \in Seq(Pieces)
          /\ Len(SubSeq(pending, 1, n)) = IF 1 <= n THEN n - 1 + 1 ELSE 0
          /\ DOMAIN SubSeq(pending, 1, n) = 1 .. Len(SubSeq(pending, 1, n))
          /\ \A i \in DOMAIN SubSeq(pending, 1, n) : SubSeq(pending, 1, n)[i] = pending[1 + i - 1]
      BY <1>1, <1>2, SliceProperties
    <3>2. Len(SubSeq(pending, 1, n)) = n /\ \A i \in 1 .. n : SubSeq(pending, 1, n)[i] = pending[i]
      BY <1>1, <3>1
    <3>3. CASE n = 1
      <4>1. pending[1].part = "rest"
        BY <1>1, <1>2, <2>4, <3>2, <3>3 DEF IsWhole, IsEnd, Pieces
      <4>2. ~EndsItsLine(pending, 1)
        BY DEF EndsItsLine
      <4> QED
        BY <2>1, <3>3, <4>1, <4>2 DEF Exact, BufferIsInOrder
    <3>4. CASE n > 1
      <4>1. 1 \in DOMAIN pending /\ 1 + 1 \in DOMAIN pending /\ pending[1].part = "first"
        BY <1>1, <1>2, <3>4 DEF IsEnd, Pieces
      <4>2. pending[2].part = "rest" /\ pending[2].line = pending[1].line
        BY <2>1, <4>1 DEF Exact, BufferIsInOrder, Paired
      <4>3. n = 2
        <5> SUFFICES ASSUME n > 2 PROVE FALSE
          BY <1>1, <3>4
        <5>1. 2 \in 1 .. n - 1
          BY <1>1
        <5> QED
          BY <1>1, <4>2, <5>1 DEF IsEnd
      <4>4. whole
        BY <3>2, <4>1, <4>2, <4>3 DEF IsWhole
      <4> QED
        BY <2>4, <4>4
    <3> QED
      BY <1>1, <3>3, <3>4
  <2> QED
    BY <2>2, <2>3, <2>4
<1>6. emitted' = Append(emitted, [line |-> k, whole |-> whole])
  BY <1>1
<1> HIDE DEF k, whole
<1> QED
  BY <1>3, <1>4, <1>5, <1>6 DEF Stream!Emit

LEMMA StreamStep == IInv /\ [Next]_vars => [Stream!Next]_(Stream!vars)
<1> SUFFICES ASSUME IInv, [Next]_vars PROVE [Stream!Next]_(Stream!vars)
  OBVIOUS
<1>1. CASE WriteLine
  <2>1. Stream!Write
    BY <1>1 DEF WriteLine, history, Stream!Write
  <2> QED
    BY <2>1 DEF Stream!Next
<1>2. CASE Rotate \/ Truncate \/ Stat
  <2>1. excused \subseteq excused' /\ UNCHANGED <<written, emitted, torn>>
    BY <1>2 DEF Rotate, Truncate, Stat, files
  <2>2. excused' \subseteq 1 .. written
    <3>1. UnexcusedStays'
      BY UnexcusedStep DEF IInv, Tracked
    <3> QED
      BY <2>1, <3>1 DEF UnexcusedStays
  <2>3. Stream!Excuse
    BY <2>1, <2>2 DEF Stream!Excuse
  <2> QED
    BY <2>3 DEF Stream!Next
<1>3. CASE Yield
  BY <1>3, YieldEmits DEF Stream!Next
<1>4. CASE ReadChunk
  <2>1. UNCHANGED <<written, excused, emitted>> /\ torn' = (torn \/ cut \/ fd # fingerprint)
    BY <1>4 DEF ReadChunk, files
  <2>2. CASE torn'
    <3>1. torn' = TRUE
      BY <2>1, <2>2
    <3> QED
      BY <2>1, <3>1 DEF Stream!Next, Stream!Tear
  <2>3. CASE ~torn'
    <3>1. torn' = torn
      BY <2>1, <2>3 DEF IInv, TypeOK
    <3> QED
      BY <2>1, <3>1 DEF Stream!vars
  <2> QED
    BY <2>2, <2>3
<1>5. CASE FinishLine \/ Create \/ Missing \/ Open \/ EndOfFile \/ Rest \/ Crash \/ Stop \/ Start \/ UNCHANGED vars
  <2>1. UNCHANGED <<written, excused, emitted, torn>>
    BY <1>5 DEF FinishLine, Create, Missing, Open, EndOfFile, Rest, Crash, Stop, Start, vars, files, history
  <2> QED
    BY <2>1 DEF Stream!vars
<1> QED
  BY <1>1, <1>2, <1>3, <1>4, <1>5 DEF Next, Logger, Poll

\* tailer.py:1-15, "tail -F semantics": each line comes out once, in the order
\* written and whole; only lines of a file that was rotated, truncated or joined at
\* its end are passed over or cut, until the position of one file is applied to
\* another.
THEOREM FollowsTheLogTheorem == Spec => FollowsTheLog
<1>1. Init => Stream!Init
  BY DEF Init, Stream!Init
<1> QED
  BY <1>1, InitInvariant, NextInvariant, StreamStep, PTL DEF Spec, FollowsTheLog, Stream!Spec
=============================================================================

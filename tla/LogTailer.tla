----------------------------- MODULE LogTailer ------------------------------
(***************************************************************************)
(* FileTailer (app/hermes/tailer.py) on the polling thread of HermesAgent, *)
(* against a logger that writes, rotates by rename and truncates.          *)
(*                                                                         *)
(* A line is written in one piece or in two; a read takes any number of    *)
(* pieces, since chunks and lines have any length.  A line the logger had  *)
(* begun when the file was rotated or truncated is not finished.           *)
(***************************************************************************)
EXTENDS Naturals, Sequences

CONSTANTS
    MaxLines,     \* bound on the lines written
    MaxFiles,     \* bound on the files the logger creates
    MaxRestarts,  \* bound on the starts of the polling thread after the first
    FromStart     \* from_start

ASSUME TailerAssumption ==
    /\ MaxLines \in Nat \ {0} /\ MaxFiles \in Nat \ {0} /\ MaxRestarts \in Nat
    /\ FromStart \in BOOLEAN

Lines == 1 .. MaxLines
Files == 1 .. MaxFiles
NoFile == 0
Pieces == [line : Lines, part : {"whole", "first", "rest"}]

VARIABLES
    content,      \* the pieces in each file
    path,         \* the file the path names, or NoFile
    created,      \* how many files were created
    written,      \* how many lines were begun
    fingerprint,  \* _fingerprint, or NoFile
    position,     \* _position
    partial,      \* _partial
    pending,      \* _pending_lines, one after another
    stop_event,
    place,        \* where the polling thread is
    fd,           \* the file it has open, or NoFile
    restarts,
    excused,      \* history: see LineStream
    emitted,      \* history: what the thread took from the iterator
    cut,          \* history: the file it follows was truncated since it looked
    torn          \* history: it read at a position of other contents

files == <<content, path, created, written>>
cursor == <<fingerprint, position, partial, pending>>
thread == <<stop_event, place, fd, restarts>>
history == <<excused, emitted, cut, torn>>
vars == <<files, cursor, thread, history>>

Init ==
    /\ content = [f \in Files |-> <<>>]
    /\ path = NoFile /\ created = 0 /\ written = 0
    /\ fingerprint = NoFile /\ position = 0 /\ partial = <<>> /\ pending = <<>>
    /\ stop_event = FALSE /\ place = "draining" /\ fd = NoFile /\ restarts = 0
    /\ excused = {} /\ emitted = <<>> /\ cut = FALSE /\ torn = FALSE
-----------------------------------------------------------------------------
(* The logger and logrotate. *)

LinesOf(pieces) == {pieces[i].line : i \in DOMAIN pieces}
Newest(f) == content[f][Len(content[f])]
Unfinished == path # NoFile /\ content[path] # <<>> /\ Newest(path).part = "first"

AppendPiece(k, part) ==
    content' = [content EXCEPT ![path] = Append(@, [line |-> k, part |-> part])]

WriteLine ==
    /\ path # NoFile /\ ~Unfinished /\ written < MaxLines
    /\ written' = written + 1
    /\ \E part \in {"whole", "first"} : AppendPiece(written + 1, part)
    /\ UNCHANGED <<path, created, cursor, thread, history>>

FinishLine ==
    /\ Unfinished
    /\ AppendPiece(Newest(path).line, "rest")
    /\ UNCHANGED <<path, created, written, cursor, thread, history>>

Create ==
    /\ path = NoFile /\ created < MaxFiles
    /\ created' = created + 1
    /\ path' = created + 1
    /\ UNCHANGED <<content, written, cursor, thread, history>>

\* The file is renamed; the path names nothing until the next is created.
Rotate ==
    /\ path # NoFile
    /\ excused' = excused \cup LinesOf(content[path])
    /\ path' = NoFile
    /\ UNCHANGED <<content, created, written, cursor, thread, emitted, cut, torn>>

\* copytruncate.
Truncate ==
    /\ path # NoFile /\ content[path] # <<>>
    /\ excused' = excused \cup LinesOf(content[path])
    /\ content' = [content EXCEPT ![path] = <<>>]
    /\ cut' = (cut \/ fingerprint = path)
    /\ UNCHANGED <<path, created, written, cursor, thread, emitted, torn>>
-----------------------------------------------------------------------------
(* The polling thread. *)

IsEnd(piece) == piece.part # "first"
IsWhole(line) ==
    \/ Len(line) = 1 /\ line[1].part = "whole"
    \/ Len(line) = 2 /\ line[1].line = line[2].line /\ line[1].part = "first" /\ line[2].part = "rest"

\* Both loops over _pending_lines.
Yield ==
    /\ place \in {"draining", "reading"}
    /\ \E n \in DOMAIN pending :
          /\ IsEnd(pending[n]) /\ \A i \in 1 .. n - 1 : ~IsEnd(pending[i])
          /\ emitted' = Append(emitted, [line |-> pending[n].line, whole |-> IsWhole(SubSeq(pending, 1, n))])
          /\ pending' = SubSeq(pending, n + 1, Len(pending))
    /\ UNCHANGED <<files, fingerprint, position, partial, thread, excused, cut, torn>>

\* Mutant of StartPosition: a file that was rotated in is joined at its end, too.
AlwaysAtEnd == IF FromStart THEN 0 ELSE Len(content[path])

\* Where a file is joined: a new one is read from its start only if another was
\* followed without a break.
StartPosition == IF fingerprint # NoFile \/ FromStart THEN 0 ELSE Len(content[path])

\* The rest of _drain_once: the path names nothing ...
Missing ==
    /\ place = "draining" /\ pending = <<>> /\ path = NoFile
    /\ fingerprint' = NoFile /\ position' = 0 /\ partial' = <<>> /\ cut' = FALSE
    /\ place' = "resting"
    /\ UNCHANGED <<files, pending, stop_event, fd, restarts, excused, emitted, torn>>

\* ... or a file that is joined, followed, or found rotated or truncated.
Stat ==
    /\ place = "draining" /\ pending = <<>> /\ path # NoFile
    /\ LET size == Len(content[path])
           reopened == path # fingerprint \/ size < position
       IN  /\ fingerprint' = path
           /\ position' = IF reopened THEN StartPosition ELSE position
           /\ partial' = IF reopened THEN <<>> ELSE partial
           /\ cut' = (cut /\ ~reopened)
           /\ excused' = excused \cup (IF fingerprint = NoFile THEN LinesOf(SubSeq(content[path], 1, position')) ELSE {})
           /\ place' = IF size <= position' THEN "resting" ELSE "opening"
    /\ UNCHANGED <<files, pending, stop_event, fd, restarts, emitted, torn>>

\* open and seek: whatever the path names by now.
Open ==
    /\ place = "opening"
    /\ fd' = path
    /\ place' = IF path = NoFile THEN "resting" ELSE "reading"
    /\ UNCHANGED <<files, cursor, stop_event, restarts, history>>

\* splitlines: the data up to n are complete lines.
SplitsAt(data, n) ==
    /\ n > 0 => IsEnd(data[n])
    /\ \A i \in n + 1 .. Len(data) : ~IsEnd(data[i])

\* Mutant of PartialOf: what follows the last complete line is dropped.
DropsPartial(data, n) == <<>>

PartialOf(data, n) == SubSeq(data, n + 1, Len(data))

\* The position and the partial line are committed before the lines are yielded.
ReadChunk ==
    /\ place = "reading" /\ pending = <<>> /\ position < Len(content[fd])
    /\ \E upto \in (position + 1) .. Len(content[fd]) :
          LET data == partial \o SubSeq(content[fd], position + 1, upto)
          IN  \E n \in 0 .. Len(data) :
                 /\ SplitsAt(data, n)
                 /\ pending' = SubSeq(data, 1, n)
                 /\ partial' = PartialOf(data, n)
                 /\ position' = upto
    /\ torn' = (torn \/ cut \/ fd # fingerprint)
    /\ UNCHANGED <<files, fingerprint, thread, excused, emitted, cut>>

EndOfFile ==
    /\ place = "reading" /\ pending = <<>> /\ position >= Len(content[fd])
    /\ fd' = NoFile
    /\ place' = "resting"
    /\ UNCHANGED <<files, cursor, stop_event, restarts, history>>

\* Back in __iter__: the stop event is looked at between two drains.
Rest ==
    /\ place = "resting"
    /\ place' = IF stop_event /\ pending = <<>> THEN "ended" ELSE "draining"
    /\ UNCHANGED <<files, cursor, stop_event, fd, restarts, history>>

\* An exception out of the pipeline ends the thread with a line in its hands; the
\* generator is closed and the tailer keeps its state.
Crash ==
    /\ place \in {"draining", "reading"} /\ emitted # <<>> /\ restarts < MaxRestarts
    /\ place' = "crashed"
    /\ fd' = NoFile
    /\ UNCHANGED <<files, cursor, stop_event, restarts, history>>

Stop ==
    /\ ~stop_event /\ restarts < MaxRestarts
    /\ stop_event' = TRUE
    /\ UNCHANGED <<files, cursor, place, fd, restarts, history>>

\* HermesAgent.start, once the old thread is gone: the same tailer again.
Start ==
    /\ place \in {"ended", "crashed"} /\ restarts < MaxRestarts
    /\ restarts' = restarts + 1
    /\ stop_event' = FALSE
    /\ place' = "draining"
    /\ UNCHANGED <<files, cursor, fd, history>>

Poll == Yield \/ Missing \/ Stat \/ Open \/ ReadChunk \/ EndOfFile \/ Rest

Logger == WriteLine \/ FinishLine \/ Create \/ Rotate \/ Truncate

Next == Logger \/ Poll \/ Crash \/ Stop \/ Start

\* The thread is scheduled and its file reads return; nobody has to write, stop
\* or start.
Spec == Init /\ [][Next]_vars /\ WF_vars(Poll)
-----------------------------------------------------------------------------
\* Every variable has its type; a file is open exactly while it is read, and what
\* is buffered are ends of lines and one line's beginning.
TypeOK ==
    /\ content \in [Files -> Seq(Pieces)]
    /\ path \in Files \cup {NoFile} /\ created \in 0 .. MaxFiles /\ written \in 0 .. MaxLines
    /\ fingerprint \in Files \cup {NoFile} /\ position \in Nat
    /\ partial \in Seq(Pieces) /\ pending \in Seq(Pieces)
    /\ \A i \in DOMAIN partial : ~IsEnd(partial[i])
    /\ pending # <<>> => IsEnd(pending[Len(pending)])
    /\ stop_event \in BOOLEAN /\ restarts \in 0 .. MaxRestarts
    /\ place \in {"draining", "opening", "reading", "resting", "ended", "crashed"}
    /\ fd \in Files \cup {NoFile} /\ (fd # NoFile) = (place = "reading")
    /\ excused \subseteq Lines
    /\ emitted \in Seq([line : Lines, whole : BOOLEAN])
    /\ cut \in BOOLEAN /\ torn \in BOOLEAN

\* tailer.py:1-15: the tailer is a line stream, over rotations, truncations,
\* crashes of the thread and restarts.
Stream == INSTANCE LineStream

FollowsTheLog == Stream!Spec

Whole(k) == \E f \in Files : \E i \in DOMAIN content[f] :
                content[f][i].line = k /\ IsEnd(content[f][i])
CameOut(k) == \E i \in DOMAIN emitted : emitted[i].line = k

Buffered(k) == \E n \in DOMAIN pending : IsEnd(pending[n]) /\ pending[n].line = k

\* A complete line comes out, as long as the thread is not stopped and its file
\* stays: waiting for more input never holds one back.  A truncation that is not
\* noticed, because the file has grown back to the position, may hide it.  And
\* tailer.py:110-111: a line that was read comes out even if the thread is stopped
\* or the file goes; after an error, with the next start.
EveryLineComesOut ==
    \A k \in Lines :
        /\ [](Whole(k) => \/ <>(CameOut(k) \/ k \in excused \/ torn \/ stop_event \/ place = "crashed")
                          \/ <>[]cut)
        /\ [](Buffered(k) => <>(CameOut(k) \/ place = "crashed"))
=============================================================================

------------------------------ MODULE JsonlFile ------------------------------
(***************************************************************************)
(* The file under the JSONL tables of the agent fleet (_append, _rewrite   *)
(* and _load_from_disk of app/agents/coordination.py, the same in          *)
(* app/agents/registry.py): one line per record, appended to or rewritten  *)
(* through "<name>.tmp" and a rename.  Several processes use the same two  *)
(* names and there is no lock, so the model keeps what an open descriptor  *)
(* is attached to: the inode, whatever name it has by then.                *)
(***************************************************************************)
EXTENDS Naturals, Sequences, SequencesExt

CONSTANTS
    Processes,
    Inodes      \* enough of them: two names and a descriptor per process

NoInode == "none"

VARIABLES
    path,       \* the inode of the table's file, or NoInode
    tmp,        \* the inode of the ".tmp" file, or NoInode
    data,       \* the lines of each inode
    fd          \* the inode each process has open for its rewrite

fileVars == <<path, tmp, data, fd>>

Unused == {i \in Inodes : i \notin {path, tmp} /\ \A p \in Processes : fd[p] # i}
NewInode == CHOOSE i \in Unused : TRUE

Lines == IF path = NoInode THEN <<>> ELSE data[path]

FileInit ==
    /\ path = NoInode
    /\ tmp = NoInode
    /\ data = [i \in Inodes |-> <<>>]
    /\ fd = [p \in Processes |-> NoInode]

\* open("a"), one write, close.
AppendLine(line) ==
    /\ LET i == IF path = NoInode THEN NewInode ELSE path
       IN  path' = i /\ data' = [data EXCEPT ![i] = Append(Lines, line)]
    /\ UNCHANGED <<tmp, fd>>

\* Mutant of OpenTmp: the rewrite opens the table's file itself.
OpensTable(p) ==
    /\ LET i == IF path = NoInode THEN NewInode ELSE path
       IN  /\ path' = i
           /\ fd' = [fd EXCEPT ![p] = i]
           /\ data' = [data EXCEPT ![i] = <<>>]
    /\ UNCHANGED tmp

\* tmp.open("w") creates the file or empties the one that is there.
OpenTmp(p) ==
    /\ LET i == IF tmp = NoInode THEN NewInode ELSE tmp
       IN  /\ tmp' = i
           /\ fd' = [fd EXCEPT ![p] = i]
           /\ data' = [data EXCEPT ![i] = <<>>]
    /\ UNCHANGED path

\* The buffer is flushed to the start of the inode when the file is closed.  If
\* another process wrote more lines there, the rest of them stays, and the line
\* at the seam is whole or garbage that the loader skips.
CloseTmp(p, lines) ==
    /\ LET old  == data[fd[p]]
           rest == SubSeq(old, Len(lines) + 1, Len(old))
       IN  \E kept \in {rest, IF rest = <<>> THEN <<>> ELSE Tail(rest)} :
              data' = [data EXCEPT ![fd[p]] = lines \o kept]
    /\ fd' = [fd EXCEPT ![p] = NoInode]
    /\ UNCHANGED <<path, tmp>>

\* tmp.replace(path); when another process renamed it first this raises an
\* OSError that is only logged.
ReplaceTmp ==
    /\ path' = IF tmp = NoInode THEN path ELSE tmp
    /\ tmp' = NoInode
    /\ UNCHANGED <<data, fd>>

\* The process dies: its descriptor is closed with nothing flushed.
CloseUnwritten(p) ==
    /\ fd' = [fd EXCEPT ![p] = NoInode]
    /\ UNCHANGED <<path, tmp, data>>
=============================================================================

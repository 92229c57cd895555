----------------------------- MODULE BranchClaims -----------------------------
(***************************************************************************)
(* BranchClaims of app/agents/coordination.py as the shells use it: every  *)
(* /agents claim and /agents release loads the file into a fresh table,    *)
(* decides on that copy, and writes.  The steps of the commands of several *)
(* shells interleave, and a shell may be killed between any two of them.   *)
(***************************************************************************)
EXTENDS Naturals, Sequences, SequencesExt

CONSTANTS
    Shells,
    Branches,
    Agents,     \* an agent name with its pid
    NoAgent,
    Inodes

ASSUME NoAgentIsNoAgent == NoAgent \notin Agents


VARIABLES
    path, tmp, data, fd,  \* the file
    claims,               \* _claims of each shell's command, in insertion order
    at,                   \* where each shell's command is
    answer                \* history: what each shell's last command answered

file == <<path, tmp, data, fd>>
claimsVars == <<file, claims, at, answer>>

File == INSTANCE JsonlFile WITH Processes <- Shells

\* Two names and a descriptor for each shell.
ASSUME EnoughInodes ==
    /\ File!NoInode \notin Inodes
    /\ IsFiniteSet(Inodes) /\ IsFiniteSet(Shells)
    /\ Cardinality(Inodes) >= 2 + Cardinality(Shells)

Line(b, a) == [branch |-> b, agent |-> a]

Positions(table, b) == {i \in DOMAIN table : table[i].branch = b}

\* A dict in insertion order: setting a key that is there keeps its place.
Put(table, line) ==
    IF Positions(table, line.branch) = {}
    THEN Append(table, line)
    ELSE [i \in DOMAIN table |-> IF table[i].branch = line.branch THEN line ELSE table[i]]

\* Mutant of Pop: release reads the entry and leaves it in the dict.
KeepsLine(table, b) == table

Pop(table, b) == RemoveAt(table, Max(Positions(table, b)))

\* The agent of the last line of the branch; a dict has one.
Holder(table, b) ==
    IF Positions(table, b) = {} THEN NoAgent ELSE table[Max(Positions(table, b))].agent

\* _load_from_disk: each branch in the place of its first line, with its last.
Loaded(lines) ==
    LET firsts == {i \in DOMAIN lines : \A j \in 1 .. i - 1 : lines[j].branch # lines[i].branch}
        Nth(k) == CHOOSE i \in firsts : Cardinality({j \in firsts : j <= i}) = k
    IN  [k \in 1 .. Cardinality(firsts) |->
            Line(lines[Nth(k)].branch, Holder(lines, lines[Nth(k)].branch))]

NoAnswer == [command |-> "none", branch |-> NoAgent, agent |-> NoAgent]

ClaimsInit ==
    /\ File!FileInit
    /\ claims = [s \in Shells |-> <<>>]
    /\ at = [s \in Shells |-> "prompt"]
    /\ answer = [s \in Shells |-> NoAnswer]

MoveTo(s, place) == at' = [at EXCEPT ![s] = place]

\* BranchClaims() of a new command.
Load(s) ==
    /\ at[s] = "prompt"
    /\ claims' = [claims EXCEPT ![s] = Loaded(File!Lines)]
    /\ MoveTo(s, "loaded")
    /\ answer' = [answer EXCEPT ![s] = NoAnswer]
    /\ UNCHANGED file

\* claim() on a branch another agent holds.
Refuse(s, b, a) ==
    /\ at[s] = "loaded"
    /\ Holder(claims[s], b) \notin {NoAgent, a}
    /\ MoveTo(s, "prompt")
    /\ UNCHANGED <<file, claims, answer>>

Granted(s, b, a) ==
    /\ claims' = [claims EXCEPT ![s] = Put(claims[s], Line(b, a))]
    /\ answer' = [answer EXCEPT ![s] = [command |-> "claim", branch |-> b, agent |-> a]]

\* claim() on a free branch: one line is appended.
ClaimFree(s, b, a) ==
    /\ at[s] = "loaded"
    /\ Holder(claims[s], b) = NoAgent
    /\ Granted(s, b, a)
    /\ File!AppendLine(Line(b, a))
    /\ MoveTo(s, "prompt")

\* claim() by the holder: the whole table is rewritten.
ClaimAgain(s, b, a) ==
    /\ at[s] = "loaded"
    /\ Holder(claims[s], b) = a
    /\ Granted(s, b, a)
    /\ File!OpenTmp(s)
    /\ MoveTo(s, "opened")

\* release(), whoever asks; the command refused a branch nobody holds before.
Release(s, b) ==
    /\ at[s] = "loaded"
    /\ Holder(claims[s], b) # NoAgent
    /\ claims' = [claims EXCEPT ![s] = Pop(claims[s], b)]
    /\ answer' = [answer EXCEPT ![s] = [command |-> "release", branch |-> b,
                                        agent |-> Holder(claims[s], b)]]
    /\ File!OpenTmp(s)
    /\ MoveTo(s, "opened")

NotHeld(s, b) ==
    /\ at[s] = "loaded"
    /\ Holder(claims[s], b) = NoAgent
    /\ MoveTo(s, "prompt")
    /\ UNCHANGED <<file, claims, answer>>

WriteTable(s) ==
    /\ at[s] = "opened"
    /\ File!CloseTmp(s, claims[s])
    /\ MoveTo(s, "written")
    /\ UNCHANGED <<claims, answer>>

Replace(s) ==
    /\ at[s] = "written"
    /\ File!ReplaceTmp
    /\ MoveTo(s, "prompt")
    /\ UNCHANGED <<claims, answer>>

\* The shell dies inside a command and the user starts another.
Crash(s) ==
    /\ at[s] # "prompt"
    /\ File!CloseUnwritten(s)
    /\ MoveTo(s, "prompt")
    /\ claims' = [claims EXCEPT ![s] = <<>>]
    /\ answer' = [answer EXCEPT ![s] = NoAnswer]

Command(s) ==
    \/ Load(s)
    \/ \E b \in Branches :
          \/ \E a \in Agents : Refuse(s, b, a) \/ ClaimFree(s, b, a) \/ ClaimAgain(s, b, a)
          \/ Release(s, b)
          \/ NotHeld(s, b)
    \/ WriteTable(s)
    \/ Replace(s)
    \/ Crash(s)

ClaimsNext == \E s \in Shells : Command(s)

ClaimsSpec == ClaimsInit /\ [][ClaimsNext]_claimsVars
-------------------------------------------------------------------------------
\* The table a new command would load.
OnDisk == [b \in Branches |-> Holder(Loaded(File!Lines), b)]

\* The ownership table the docstring promises (coordination.py:3-5): what is on
\* disk changes by claims of free branches and by releases only.
Table == INSTANCE BranchTable WITH holder <- OnDisk
KeepsTable == Table!TableSpec

\* A finished command lasts: until another command starts, the disk says what
\* the shell answered, whatever crashes came before.
AnswerIsOnDisk ==
    \A s \in Shells :
        (/\ \A r \in Shells : at[r] = "prompt"
         /\ answer[s].command # "none") =>
            OnDisk[answer[s].branch] =
                IF answer[s].command = "claim" THEN answer[s].agent ELSE NoAgent
=============================================================================

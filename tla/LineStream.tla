----------------------------- MODULE LineStream -----------------------------
(***************************************************************************)
(* What a reader of app/hermes/tailer.py relies on, "tail -F semantics":   *)
(* each line once, in the order written and as it was written.  A line may *)
(* be passed over, or come out cut, only when it was excused: it stood in  *)
(* a file that was rotated away or truncated, or in one the tailer was     *)
(* told to join at its end.  Nothing is promised once the tailer has read  *)
(* at the position of one file from another (torn).                        *)
(***************************************************************************)
EXTENDS Naturals, Sequences

VARIABLES
    written,    \* how many lines were begun; line k is the k-th
    excused,
    emitted,    \* the lines that came out
    torn

vars == <<written, excused, emitted, torn>>

Newest == IF emitted = <<>> THEN 0 ELSE emitted[Len(emitted)].line

Init == written = 0 /\ excused = {} /\ emitted = <<>> /\ torn = FALSE

Write == written' = written + 1 /\ UNCHANGED <<excused, emitted, torn>>

Excuse ==
    /\ excused \subseteq excused' /\ excused' \subseteq 1 .. written
    /\ UNCHANGED <<written, emitted, torn>>

Emit ==
    /\ \E k \in 1 .. written, whole \in BOOLEAN :
          /\ emitted' = Append(emitted, [line |-> k, whole |-> whole])
          /\ ~torn => /\ k > Newest
                      /\ (Newest + 1) .. (k - 1) \subseteq excused
                      /\ whole \/ k \in excused
    /\ UNCHANGED <<written, excused, torn>>

Tear == torn' = TRUE /\ UNCHANGED <<written, excused, emitted>>

Next == Write \/ Excuse \/ Emit \/ Tear

Spec == Init /\ [][Next]_vars
=============================================================================

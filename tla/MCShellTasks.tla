---------------------------- MODULE MCShellTasks ----------------------------
EXTENDS ShellTasks

CONSTANTS s1, s2

\* Every way to wait; "synthetic" differs from "cli" in one verdict.
MCKinds == {"cli", "code"}

\* The watcher that the comment on CANCELLED is in.
MCSynthetic == {"synthetic"}
=============================================================================

--------------------------- MODULE MCHermesAgent ----------------------------
EXTENDS HermesAgent

CONSTANTS core, db
=============================================================================

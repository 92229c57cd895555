---------------------------- MODULE MCLogTailer -----------------------------
EXTENDS LogTailer
=============================================================================

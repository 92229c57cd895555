--------------------------- MODULE MCBranchClaims ---------------------------
EXTENDS BranchClaims
=============================================================================

--------------------------- MODULE MCResponseRun ---------------------------
EXTENDS ResponseRun, TLC
=============================================================================

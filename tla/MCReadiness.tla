---------------------------- MODULE MCReadiness ----------------------------
EXTENDS Readiness
=============================================================================

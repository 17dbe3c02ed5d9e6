---------------------------- MODULE MCComparison ----------------------------
EXTENDS Comparison, TLC
=============================================================================

----------------------------- MODULE MCExperiments -----------------------------
EXTENDS Experiments

=============================================================================

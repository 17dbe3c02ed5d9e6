---------------------- MODULE MCExperimentController ----------------------
EXTENDS ExperimentController, TLC

CONSTANTS x1, x2

AllStages == [x \in Experiments |-> StageIds]
NoMicrobench == [x \in Experiments |-> StageIds \ {"microbench"}]
Symmetry == Permutations(Runners)
=============================================================================

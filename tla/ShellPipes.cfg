\* Lines of up to three commands, one after another.
CONSTANTS
    N = 3
    MaxSigints = 2
SPECIFICATION FairSpec
INVARIANTS NothingLeft SigintReachesAll
PROPERTY PipelineEnds
\* The shell may exit.
CHECK_DEADLOCK FALSE

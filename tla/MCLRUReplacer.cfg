CONSTANTS
    Frames <- MCFrames
    MaxCalls <- MCMaxCalls
SPECIFICATION Spec
INVARIANT ReplacerConsistent
PROPERTY ImplementsReplacerPolicy
CHECK_DEADLOCK FALSE

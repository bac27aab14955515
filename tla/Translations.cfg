SPECIFICATION AllSpec
CONSTANTS
    Names <- MCNames
    Sources <- MCSources
INVARIANTS
    SameBehaviour
    CompilesUnlessLeavingTry
    FinallyRuns
    SameInShell
    ReachedMeansBound
    DocumentedCallsArrive
CHECK_DEADLOCK FALSE

CONSTANTS
    Trees <- MCTrees
    IgnoreFiles <- MCIgnoreFiles
SPECIFICATION Spec
INVARIANTS
    ExactlyTheUnignored
    
    RefusedChangesNothing
CHECK_DEADLOCK FALSE

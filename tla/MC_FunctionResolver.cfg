CONSTANTS
    N <- MCN
    Uses <- MCUses

SPECIFICATION Spec

INVARIANT TypeOK
INVARIANT AncestorsOnce

PROPERTY ContractRefinement

\* Resolution returns: the final state has no successor.
CHECK_DEADLOCK FALSE

CONSTANTS
    Values <- MCValues
    MaxSelectors = 2
    MaxBody = 1
    Null = Null
SPECIFICATION Spec
INVARIANT DumpIdentifiesCase
\* a test builds its two cases and stops once they are full
CHECK_DEADLOCK FALSE

SPECIFICATION AllocLiveSpec
CONSTANTS
    Width = 3
CHECK_DEADLOCK FALSE
INVARIANTS FirstFree FullMeansFull
PROPERTIES Ends

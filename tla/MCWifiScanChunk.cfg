SPECIFICATION ScanSpec
CONSTANTS
    MaxNetworks = 3
    MaxRequests = 1
INVARIANT ChunkIsJson
CHECK_DEADLOCK FALSE

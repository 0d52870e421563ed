CONSTANTS
    k1 = k1  h1 = h1  mk = mk  mv = mv
    Keys = {k1}
    Hosts = {h1}
    MetaKeys = {mk}
    MetaVals = {mv}
    SlotCounts = {2}
    Thresholds = {1}
    ACSWidths = {2}
    FailPoints = {"addShard", "addChunk"}
    MaxShards = 3
    MaxChunks = 2
    MaxBlobChunks = 1
SPECIFICATION Spec
INVARIANT ACSSuccessStored

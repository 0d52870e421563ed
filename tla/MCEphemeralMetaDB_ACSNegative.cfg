CONSTANTS
    c1 = c1  c2 = c2  h1 = h1  mk = mk  mv = mv
    Clients <- MCClients
    Keys <- MCKeys
    Hosts = {h1}
    MetaKeys = {mk}
    MetaVals = {mv}
    SlotCounts = {2}
    Thresholds = {1}
    ACSWidths = {2}
    UploadOps = {"AddChunkAndShards"}
    KeyReuse = TRUE
    MaxShards = 4
    MaxChunks = 1
    MaxBlobChunks = 1
SPECIFICATION Spec
SYMMETRY MCSymmetry
INVARIANTS RefsNeverNegative

\* Eviction to a cache ratio, recompute plans, forks, copies and swaps on the
\* worker's streams.
SPECIFICATION WorkerSpec
CONSTANTS
    r1 = r1
    r2 = r2
    s1 = s1
    s2 = s2
    s3 = s3
    s4 = s4
    b1 = b1
    b2 = b2
    b3 = b3
    b4 = b4
    c1 = c1
    c2 = c2
    c3 = c3
    c4 = c4
    Seqs <- MCSeqs
    Blocks <- MCBlocks4
    CpuBlocks <- MCCpuBlocks2
    Requests <- MCRequests
    SeqsOf <- MCSeqsOf
    Beam = {}
    PromptLengths = {3}
    PreemptionMode = "swap"
    PolicyLayers = {2, 4}
    MaxNumSeqs = 3
    NumGroups = 2
    BlockSize = 2
    MaxTokens = 6
    Watermark = 0
    NumLayers = 4
SYMMETRY Symmetry
CHECK_DEADLOCK FALSE
INVARIANTS
    TypeOK
    SidesAgree
    MapInOrder
    CpuBlocksAccounted
    RecordsMatch
    CheckedCallsSucceed
    NoSharedWriteSlot
    KVKept
PROPERTIES
    SwapRestores
    ReadsRight

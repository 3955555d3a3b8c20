\* A model of more layers than a new group's cache_layers.
SPECIFICATION Spec
CONSTANTS
    r1 = r1
    r2 = r2
    s1 = s1
    s2 = s2
    s3 = s3
    b1 = b1
    b2 = b2
    b3 = b3
    b4 = b4
    b5 = b5
    c1 = c1
    c2 = c2
    c3 = c3
    c4 = c4
    Seqs <- MCSeqs
    GpuBlocks <- MCGpuBlocks
    CpuBlocks <- MCCpuBlocks
    Requests <- MCOneRequest
    SeqsOf <- MCOneSeqsOf
    Beam = {r1}
    PromptLengths = {11}
    MaxTokens = 12
    BlockSize = 2
    Window = 0
    Watermark = 0
    NumLayers = 8
    FreshLayers = 4
SYMMETRY Symmetry
CHECK_DEADLOCK FALSE
INVARIANTS
    OkMeansNow

\* Beam search, copies on write, both preemptions, prompts that never fit.
SPECIFICATION Spec
CONSTANTS
    r1 = r1
    r2 = r2
    s1 = s1
    s2 = s2
    s3 = s3
    b1 = b1
    b2 = b2
    b3 = b3
    b4 = b4
    b5 = b5
    c1 = c1
    c2 = c2
    c3 = c3
    c4 = c4
    Seqs <- MCSeqs
    GpuBlocks <- MCGpuBlocks
    CpuBlocks <- MCCpuBlocks
    Requests <- MCRequests
    SeqsOf <- MCSeqsOf
    Beam = {r1}
    PromptLengths = {2, 3, 9}
    MaxTokens = 10
    BlockSize = 2
    Window = 0
    Watermark = 1
    NumLayers = 4
    FreshLayers = 4
SYMMETRY Symmetry
CHECK_DEADLOCK FALSE
INVARIANTS
    TypeOK
    RefsExact
    KVIntact
    CheckedCallsSucceed

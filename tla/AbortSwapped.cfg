\* An aborted request that was swapped out.
SPECIFICATION Spec
CONSTANTS
    r1 = r1
    r2 = r2
    s1 = s1
    s2 = s2
    s3 = s3
    s4 = s4
    b1 = b1
    b2 = b2
    b3 = b3
    b4 = b4
    c1 = c1
    c2 = c2
    c3 = c3
    c4 = c4
    Seqs <- MCSeqs
    Blocks <- MCBlocks
    CpuBlocks <- MCCpuBlocks
    Requests <- MCRequests
    SeqsOf <- MCSeqsOf
    Beam = {}
    PromptLengths = {2, 3}
    PreemptionMode = "None"
    PolicyLayers = {2}
    MaxNumSeqs = 3
    NumGroups = 2
    BlockSize = 2
    MaxTokens = 5
    Watermark = 0
    NumLayers = 4
SYMMETRY Symmetry
CHECK_DEADLOCK FALSE
INVARIANTS
    AbortFreesSequence

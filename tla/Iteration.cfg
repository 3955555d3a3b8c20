\* Beam search next to several samples of a prompt, memory pressure, both
\* preemptions, prompts that never fit, eviction, and progress; no
\* symmetry, which liveness forbids.
SPECIFICATION FairSpec
CONSTANTS
    r1 = r1
    r2 = r2
    s1 = s1
    s2 = s2
    s3 = s3
    s4 = s4
    b1 = b1
    b2 = b2
    b3 = b3
    b4 = b4
    c1 = c1
    c2 = c2
    c3 = c3
    c4 = c4
    Seqs <- MCWideSeqs
    Blocks <- MCBlocks
    CpuBlocks <- MCCpuBlocks4
    Requests <- MCRequests
    SeqsOf <- MCWideSeqsOf
    Beam = {r1}
    PromptLengths = {2, 5}
    PreemptionMode = "None"
    PolicyLayers = {2}
    MaxNumSeqs = 3
    NumGroups = 1
    BlockSize = 2
    MaxTokens = 6
    Watermark = 1
    NumLayers = 4
CHECK_DEADLOCK FALSE
INVARIANTS
    SidesAgree
    WithinLimit
PROPERTIES
    RequestsEnd

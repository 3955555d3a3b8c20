\* Two sequences over two layer groups of four blocks.
SPECIFICATION Spec
CONSTANTS
    s1 = s1
    s2 = s2
    b1 = b1
    b2 = b2
    b3 = b3
    b4 = b4
    Seqs <- MCSeqs
    Blocks <- MCBlocks
    NumGroups = 2
    BlockSize = 2
    MaxTokens = 5
    MaxLeases = 2
SYMMETRY Symmetry
INVARIANTS
    TypeOK
    RefsExact
    RetainedWindow
    GroupsInStep
    LeasesHold
    PlanSound
PROPERTIES
    RaisesUnchanged
    TailExclusive

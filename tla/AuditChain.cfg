SPECIFICATION FairSpec
CONSTANTS
    Writers = {w1, w2}
    EveryN = 2
    MaxTx = 5
    MaxFaults = 2
    LeafHashes = {h1, h2}
    MaxLeaves = 9
CHECK_DEADLOCK FALSE
INVARIANTS
    ChainIntact
    ReceiptsCoverHistory
    BaselineIsAnchored
    MerkleProofsExact
PROPERTIES
    AnchorsCatchUp

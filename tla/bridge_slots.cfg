SPECIFICATION BridgeSpec

CONSTANTS
    MaxSlots = 11
    Arena = 5
    CodeSizes = {1, 3, 4, 6}
    NameSize = 1
    MessageSize = 1
    BufferSize = 2
    MaxArgs = 2
    MaxDepth = 2

INVARIANTS
    SlotsAccounted
    ArenaIntact
    OverflowIsReported

\* One export per frame_complete (the wpe-fdo handshake), a re-attached view
\* with duplicated frameSwapped events and those of a window it has left, and
\* a web view that outlives the view.
SPECIFICATION Spec
CONSTANTS
    Image = {i1, i2, i3}
    None = None
    MaxUnacked = 1
    MaxSwapEvents = 4
    MaxConnections = 2
    MaxStray = 1
    MaxJsTasks = 2
SYMMETRY ImageSymmetry
INVARIANTS
    TypeOK
    SampledHeld
PROPERTIES
    NoBlankAfterFirstFrame
    CompleteOnlyPainted
    LeaseSpec

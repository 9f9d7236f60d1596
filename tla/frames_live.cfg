\* A producer that may run one frame ahead; the view stays in its window or
\* leaves it for good, so a completed frame can only come from the window
\* update that displayImage() posts.  A window it was in before goes on
\* swapping frames.
SPECIFICATION FairSpec
CONSTANTS
    Image = {i1, i2, i3}
    None = None
    MaxUnacked = 2
    MaxSwapEvents = 3
    MaxConnections = 1
    MaxStray = 1
    MaxJsTasks = 1
INVARIANTS
    HeldExactly
    DistinctSlots
PROPERTIES
    FramesCompleted

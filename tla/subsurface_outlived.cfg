\* A script is still running when its view is destroyed.
SPECIFICATION Spec
CONSTANTS
    Image = {i1, i2}
    None = None
    MaxUnacked = 1
    MaxSwapEvents = 2
    MaxConnections = 1
    MaxStray = 0
    MaxJsTasks = 1
SYMMETRY ImageSymmetry
PROPERTY PresentsToSubsurface

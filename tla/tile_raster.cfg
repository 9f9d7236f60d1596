\* Two tiles, so that a render can find one painted and one not; three textures
\* for them, so that the buffer a tile leaves is wanted again at once; all
\* settings of the four switches, with and without the compositor's run loop.
\* The system may stop: a render that was chosen before the commit it picks up
\* can wait for a raster on its own run loop.
SPECIFICATION FairSpec
CONSTANTS
    Texture = {x1, x2, x3}
    Tile = {t1, t2}
    Worker = {w1}
    Compositor = Compositor
    None = None
    MaxCommands = 2
INVARIANTS
    TypeOK
    NoGpuRace
PROPERTIES
    CommitsRendered
CHECK_DEADLOCK FALSE

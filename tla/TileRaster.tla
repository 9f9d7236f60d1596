------------------------------ MODULE TileRaster ------------------------------
(***************************************************************************)
(* Rasterising and compositing web page tiles under the four switches that *)
(* the WebKit patches read from the environment.  The actors:              *)
(*                                                                         *)
(*   main thread      records the tiles of a layer flush, posts one raster *)
(*                    task per tile, commits the scene and waits for the   *)
(*                    compositor to render it;                             *)
(*   compositor       a serial run loop: dispatched tasks and the render   *)
(*                    timer;                                               *)
(*   Worker           the threads of the GPU worker pool;                  *)
(*   GPU              executes each context's commands in order, and two   *)
(*                    contexts' commands in no order at all: the driver's  *)
(*                    fences are the ones the patches are written for,     *)
(*                    which order nothing across contexts.                 *)
(*                                                                         *)
(* What upstream WebKit does around the patched lines is taken from the    *)
(* lines themselves and from their comments: a render waits until every    *)
(* tile of the scene it picked up is painted.  The timer's priority orders *)
(* what is ready when the run loop chooses; the render picks the scene up  *)
(* later, and the main thread goes on in between.                          *)
(***************************************************************************)
EXTENDS Naturals, Sequences

CONSTANTS
    Texture,     \* GPU textures of the tile size
    Tile,        \* tiles of the layer
    Worker,      \* threads of the GPU worker pool
    Compositor,  \* the compositor thread, with its run loop and context
    None,        \* no texture
    MaxCommands  \* bound: commands a context has in flight

ASSUME RasterAssumption ==
    /\ None \notin Texture
    /\ Compositor \notin Worker
    /\ MaxCommands \in Nat \ {0}

VARIABLES
    setup,       \* the four environment switches, read once, and whether
                 \* the painting engine was given the compositor's run loop
    main,        \* main thread: flushing, or waiting for the compositor
    recorded,    \* main thread: the buffers of this flush
    timer,       \* compositor: m_renderTimer is armed
    loop,        \* compositor: what renderLayerTree() is doing
    shown,       \* compositor: the buffers of the scene
    dispatcher,  \* rasters dispatched to the compositor's run loop
    pool,        \* rasters posted to the worker pool
    painting,    \* the raster each context's thread is replaying
    stream       \* GPU commands each context has in flight

mainVars == <<setup, main, recorded>>
vars == <<mainVars, timer, loop, shown, dispatcher, pool, painting, stream>>

Context == Worker \union {Compositor}
MaybeTexture == Texture \union {None}

Setup == [rasterOnCompositor : BOOLEAN, fenceDisabled : BOOLEAN,
          poolDisabled : BOOLEAN, glFinish : BOOLEAN,
          compositorRunLoop : BOOLEAN]

Command == [op : {"paint", "sample"}, on : SUBSET Texture]

(* Type correctness. *)
TypeOK ==
    /\ setup \in Setup
    /\ main \in {"flushing", "committed", "rendering"}
    /\ recorded \in [Tile -> MaybeTexture]
    /\ timer \in BOOLEAN
    /\ loop \in {"idle", "chosen", "waiting", "drawn"}
    /\ shown \in [Tile -> MaybeTexture]
    /\ dispatcher \subseteq Texture
    /\ pool \subseteq Texture
    /\ painting \in [Context -> MaybeTexture]
    /\ stream \in [Context -> Seq(Command)]

Init ==
    /\ setup \in Setup
    /\ main = "flushing"
    /\ recorded = [t \in Tile |-> None]
    /\ timer = FALSE
    /\ loop = "idle"
    /\ shown = [t \in Tile |-> None]
    /\ dispatcher = {}
    /\ pool = {}
    /\ painting = [c \in Context |-> None]
    /\ stream = [c \in Context |-> <<>>]

-----------------------------------------------------------------------------
Textures(buffers) == {buffers[t] : t \in Tile} \ {None}

(* Buffers whose completePainting() has not run. *)
Unpainted ==
    dispatcher \union pool \union ({painting[c] : c \in Context} \ {None})

(* The textures that the commands of one kind in flight on a context use. *)
InFlight(c, op) ==
    UNION {stream[c][i].on : i \in {j \in DOMAIN stream[c] : stream[c][j].op = op}}

Submit(c, cmd) ==
    /\ Len(stream[c]) < MaxCommands
    /\ stream' = [stream EXCEPT ![c] = Append(@, cmd)]

(* glFinish() on the context returns. *)
Finished(c) == stream[c] = <<>>

(* BitmapTexturePool::acquireTexture(): a texture that only the pool refers
   to or, with reuse disabled, a new one, whose memory the driver takes back
   from a deleted texture when no command refers to it any more. *)
Acquirable(tex) ==
    /\ tex \notin Textures(recorded) \union Textures(shown)
    /\ setup.poolDisabled =>
           \A c \in Context, op \in {"paint", "sample"} : tex \notin InFlight(c, op)

-----------------------------------------------------------------------------
(***************************************************************************)
(* Main thread.                                                            *)
(***************************************************************************)

(* Where the raster tasks go: with the switch set to the compositor's run
   loop, once LayerTreeHost has handed it over. *)
OnCompositor == setup.rasterOnCompositor /\ setup.compositorRunLoop

(* Faulty variant: the task captured a buffer that was moved away. *)
PostRasterMoved(tex) ==
    /\ pool' = pool \union {None}
    /\ UNCHANGED dispatcher

PostRaster(tex) ==
    \/ /\ OnCompositor
       /\ dispatcher' = dispatcher \union {tex}
       /\ UNCHANGED pool
    \/ /\ ~OnCompositor
       /\ pool' = pool \union {tex}
       /\ UNCHANGED dispatcher

(* The flush creates a tile's buffer and posts its raster task. *)
RecordTile(t, tex) ==
    /\ main = "flushing"
    /\ recorded[t] = None
    /\ Acquirable(tex)
    /\ recorded' = [recorded EXCEPT ![t] = tex]
    /\ PostRaster(tex)
    /\ UNCHANGED <<setup, main, timer, loop, shown, painting, stream>>

(* The scene commit that follows the flush schedules the render; the main
   thread then waits for it. *)
CommitScene ==
    /\ main = "flushing"
    /\ Textures(recorded) # {}
    /\ main' = "committed"
    /\ timer' = TRUE
    /\ UNCHANGED <<setup, recorded, loop, shown, dispatcher, pool, painting,
                   stream>>

(* A scroll or an animation asks for a frame of the scene there is. *)
ScheduleRender ==
    /\ ~timer
    /\ timer' = TRUE
    /\ UNCHANGED <<mainVars, loop, shown, dispatcher, pool, painting, stream>>

-----------------------------------------------------------------------------
(***************************************************************************)
(* Raster tasks, on the compositor's run loop or on a worker.              *)
(***************************************************************************)
Replay(c, tex) ==
    /\ painting[c] = None
    /\ painting' = [painting EXCEPT ![c] = tex]
    /\ Submit(c, [op |-> "paint", on |-> {tex}])

DispatchedRaster ==
    /\ loop = "idle"
    /\ \E tex \in dispatcher :
          /\ Replay(Compositor, tex)
          /\ dispatcher' = dispatcher \ {tex}
    /\ UNCHANGED <<mainVars, timer, loop, shown, pool>>

WorkerRaster(w) ==
    /\ \E tex \in pool :
          /\ Replay(w, tex)
          /\ pool' = pool \ {tex}
    /\ UNCHANGED <<mainVars, timer, loop, shown, dispatcher>>

(* completePainting(): GLFence::create() makes a fence, or finishes the
   context's work when fences are disabled. *)
CompletePainting(c) ==
    /\ painting[c] # None
    /\ setup.fenceDisabled => Finished(c)
    /\ painting' = [painting EXCEPT ![c] = None]
    /\ UNCHANGED <<mainVars, timer, loop, shown, dispatcher, pool, stream>>

-----------------------------------------------------------------------------
(***************************************************************************)
(* Render timer of the compositor's run loop.                              *)
(***************************************************************************)

(* Faulty variant: the timer keeps the dispatcher's priority. *)
TimerMayFireTied ==
    /\ timer
    /\ loop = "idle"
    /\ painting[Compositor] = None

(* With the switch set the timer's priority is below the dispatcher's: the
   run loop chooses it when no dispatched task is ready. *)
TimerMayFire ==
    /\ timer
    /\ loop = "idle"
    /\ painting[Compositor] = None
    /\ setup.rasterOnCompositor => dispatcher = {}

(* The run loop has chosen the timer and calls renderLayerTree(). *)
TimerChosen ==
    /\ TimerMayFire
    /\ timer' = FALSE
    /\ loop' = "chosen"
    /\ UNCHANGED <<mainVars, shown, dispatcher, pool, painting, stream>>

(* renderLayerTree() comes to the scene: it takes the buffers over that are
   committed by now, dropping the references to the ones they replace. *)
PickUpScene ==
    /\ loop = "chosen"
    /\ loop' = "waiting"
    /\ \/ /\ main = "committed"
          /\ main' = "rendering"
          /\ shown' = [t \in Tile |->
                          IF recorded[t] # None THEN recorded[t] ELSE shown[t]]
          /\ recorded' = [t \in Tile |-> None]
       \/ /\ main # "committed"
          /\ UNCHANGED <<main, recorded, shown>>
    /\ UNCHANGED <<setup, timer, dispatcher, pool, painting, stream>>

(* waitUntilPaintingComplete() returned for every tile. *)
Draw ==
    /\ loop = "waiting"
    /\ Textures(shown) \intersect Unpainted = {}
    /\ loop' = "drawn"
    /\ Submit(Compositor, [op |-> "sample", on |-> Textures(shown)])
    /\ UNCHANGED <<mainVars, timer, shown, dispatcher, pool, painting>>

(* Faulty variant: the frame is handed on without glFinish(). *)
DidRenderFrameUnfinished ==
    /\ loop = "drawn"
    /\ loop' = "idle"
    /\ main' = IF main = "rendering" THEN "flushing" ELSE main
    /\ UNCHANGED <<setup, recorded, timer, shown, dispatcher, pool, painting,
                   stream>>

(* The end of the frame: glFinish() if asked for, swap, and the main thread
   is told that its scene was rendered. *)
DidRenderFrame ==
    /\ loop = "drawn"
    /\ setup.glFinish => Finished(Compositor)
    /\ loop' = "idle"
    /\ main' = IF main = "rendering" THEN "flushing" ELSE main
    /\ UNCHANGED <<setup, recorded, timer, shown, dispatcher, pool, painting,
                   stream>>

(* The GPU retires the oldest command of a context. *)
Retire(c) ==
    /\ stream[c] # <<>>
    /\ stream' = [stream EXCEPT ![c] = Tail(@)]
    /\ UNCHANGED <<mainVars, timer, loop, shown, dispatcher, pool, painting>>

-----------------------------------------------------------------------------
Next ==
    \/ \E t \in Tile, tex \in Texture : RecordTile(t, tex)
    \/ CommitScene
    \/ ScheduleRender
    \/ DispatchedRaster
    \/ \E w \in Worker : WorkerRaster(w)
    \/ \E c \in Context : CompletePainting(c)
    \/ TimerChosen
    \/ PickUpScene
    \/ Draw
    \/ DidRenderFrame
    \/ \E c \in Context : Retire(c)

Spec == Init /\ [][Next]_vars

(* The run loop, the workers and the GPU go on; nothing is assumed of the
   page and of whatever else asks for frames. *)
Fairness ==
    /\ WF_vars(DispatchedRaster)
    /\ \A w \in Worker : WF_vars(WorkerRaster(w))
    /\ \A c \in Context : WF_vars(CompletePainting(c))
    /\ WF_vars(TimerChosen)
    /\ WF_vars(PickUpScene)
    /\ WF_vars(Draw)
    /\ WF_vars(DidRenderFrame)
    /\ \A c \in Context : WF_vars(Retire(c))

FairSpec == Spec /\ Fairness

-----------------------------------------------------------------------------
(* The switch settings that need no fence: rasters on the compositor's own
   context, or finished paints with textures that are new, or finished
   frames. *)
FenceFree ==
    \/ OnCompositor
    \/ setup.fenceDisabled /\ (setup.poolDisabled \/ setup.glFinish)

(* Under those settings no context ever has a paint of a texture in flight
   while another context has a command on that texture in flight: the GPU
   may reorder the two, and the frame would show a stale or foreign tile. *)
NoGpuRace ==
    FenceFree =>
        \A c, d \in Context : c # d =>
            InFlight(c, "paint") \intersect
                (InFlight(d, "sample") \union InFlight(d, "paint")) = {}

(* The replays enqueued during a layer flush run before the render task that
   the subsequent commit schedules: that render finds every tile painted, or
   being painted by a worker, and the main thread, which waits for it, gets
   on.  A commit that comes between the run loop's choice of an earlier
   render and that render's pick-up is not covered: with the rasters on the
   compositor's run loop it may wait for ever (see NoSelfWait). *)
CommitsRendered ==
    (main = "committed" /\ ~(OnCompositor /\ loop = "chosen")) ~>
        main = "flushing"

(* A render never waits for a raster that is queued behind it on its own
   thread.  The priority of the timer alone does not ensure this: it holds
   as long as no scene is committed to a render already chosen. *)
NoSelfWait ==
    loop = "waiting" => Textures(shown) \intersect dispatcher = {}

-----------------------------------------------------------------------------
(***************************************************************************)
(* What makes NoGpuRace inductive.                                         *)
(***************************************************************************)

(* Every buffer still to be painted has a holder, so the pool keeps it. *)
UnpaintedInUse == Unpainted \subseteq Textures(recorded) \union Textures(shown)

(* Once a render has waited for them, the buffers of the scene are painted. *)
ShownPainted == loop # "waiting" => Textures(shown) \intersect Unpainted = {}

(* The switch sends all rasters to one side. *)
OneRoute ==
    /\ OnCompositor =>
           /\ pool = {}
           /\ \A w \in Worker : painting[w] = None /\ stream[w] = <<>>
    /\ ~OnCompositor =>
           dispatcher = {} /\ painting[Compositor] = None

(* One task per buffer: a texture is in one queue or on one thread. *)
PaintedOnce ==
    /\ \A c \in Context : painting[c] \notin dispatcher \union pool
    /\ \A c, d \in Context :
          c # d /\ painting[c] # None => painting[c] # painting[d]

(* Without fences a paint is in flight only while its task runs. *)
PaintsFinish ==
    setup.fenceDisabled =>
        \A c \in Context : InFlight(c, "paint") \subseteq {painting[c]} \ {None}

(* Only the compositor samples. *)
OnlyCompositorSamples == \A w \in Worker : InFlight(w, "sample") = {}

(* With glFinish() samples are in flight only at the end of a frame. *)
SamplesFinish ==
    setup.glFinish =>
        /\ InFlight(Compositor, "sample") \subseteq Textures(shown)
        /\ loop # "drawn" => InFlight(Compositor, "sample") = {}

(* A frame in flight samples no buffer that is to be painted. *)
SamplesPainted ==
    setup.poolDisabled \/ setup.glFinish =>
        InFlight(Compositor, "sample") \intersect Unpainted = {}

RasterInv ==
    /\ UnpaintedInUse
    /\ ShownPainted
    /\ OneRoute
    /\ PaintedOnce
    /\ PaintsFinish
    /\ OnlyCompositorSamples
    /\ SamplesFinish
    /\ SamplesPainted
=============================================================================

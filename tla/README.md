# WPE for Sailfish OS: a TLA+ verification development

This directory keeps the TLA+ specifications of wpe-sfos-build beside its code: models of the
Qt 5 view that shows WebKit pages, the TLC configurations that check them on small instances,
and proofs, checked by TLAPS, of what the models promise for every instance. All paths below are
relative to the root of the repository's sources (`src/` in `PROJECT.json`).

* [The system](#the-system) - components, their state, their interactions, what is hard
* [Modules](#modules) - which module models which code, and how they correspond
* [Runs](#runs) - what each TLC run asks, its bounds and its fairness
* [Proofs](#proofs) - what is proved, from which assumptions and how
* [Disagreements](#disagreements-between-code-and-documentation)
* [Not modelled](#not-modelled) and [Plan](#plan)


## The system

The repository builds WebKit (WPE port) for Sailfish OS and holds the code that it adds: a Qt 5
plugin, an ad-block extension with its engine, a queue of patches to WebKit, compatibility shims
and tools.

| Component | Code | State it keeps | Operations |
|---|---|---|---|
| Frame pipeline | `qt5-plugin/WPEQtViewBackend.cpp`, `WPEQtView::updatePaintNode` | `m_pendingImage` (exported, not yet on screen), `m_committedImage` (on screen), `m_frameUpdateRequested` (a `frame_complete` is owed), the image bound to the texture, the item's node in the scene graph | `displayImage`, `texture`, `didRenderFrame`, destructor |
| Load requests | `qt5-plugin/WPEQtView.cpp`, `WPEQtViewLoadRequest*` | `m_url`, `m_baseUrl`, `m_html`, `m_errorOccured` | `setUrl`, `loadHtml`, `goBack`, `reload`, `stop`; handlers of WebKit's `load-changed` and `load-failed` |
| View lifecycle | `qt5-plugin/WPEQtView.cpp`, `WPEQtViewBackend::create` | `m_backend`, `m_webView`, buffered user agent, device scale, size, visibility; the connections to windows | `configureWindow`, `createWebView`, setters, destructor |
| Direct-composite subsurface | `qt5-plugin/WPEWaylandSubsurface.cpp` | nine Wayland and EGL objects, size and place of the buffer | `ensureCreated`, `setGeometry`, `present`, `destroy` |
| Script callbacks | `WPEQtView::runJavaScript` | the callback's data, a reference on the web view | `runJavaScript`, its completion |
| Input dispatch | `WPEQtViewBackend.cpp:280-445` | pressed button, modifiers, fullscreen state | hover, mouse, wheel, key and touch handlers |
| Ad-block extension and engine | `web-extension/`, `adblock-engine/` | the engine, the enabled flag | the decision for each request, the toggle message, the C interface |
| Tile rasterisation | `patches/webkit/webkit-raster-on-compositor-thread-env.patch`, `webkit-glfence-disable-env.patch`, `webkit-texpool-compositor-sync-env.patch` | the compositor's run loop and its render timer, the worker pool, the texture pool, commands in flight per GPU context | recording and posting rasters, replay, `completePainting`, render, `acquireTexture` |
| Tile coverage | `patches/webkit/webkit-directional-tile-coverage-env.patch` | `m_visibleRect`, `m_lastScrollDirectionY`, `m_scrollAccumulatorY` | `createOrDestroyTiles`, cover and keep rectangle |
| Other WebKit patches | `patches/webkit/` | constants and switches | - |
| Inspector client | `scripts/devtools/wkinspector.py`, `atldbg/cdp.py`, `atldbg/device.py` | ssh tunnel, one websocket per tab, the inner request id | `tunnel`, `connect_session`, `_select`, `send_to_target`, `await_inner_reply`, `pump` |
| Build and deployment | `scripts/`, `deploy/`, `shims/`, `sailjail/` | the patch queue, caches | commands |

### How the parts interact

    WebKit (web process)                     GUI thread                         render thread
      renders into an EGLImage ---export---> displayImage()
                                             | m_pendingImage, post update ---> sync: updatePaintNode(), texture()
                                             |                                  draw, swap
                                             | didRenderFrame() <--- queued --- frameSwapped
      next frame <--- frame_complete ------- |
      load-changed, load-failed -----------> loadingChanged (QML) ---> setUrl(), loadHtml(), ...

* **Threads.** Qt's threaded render loop (`QSG_RENDER_LOOP=threaded`, `deploy/runtime-common.sh`)
  synchronises with the GUI thread blocked, then draws and swaps while the GUI thread goes on.
  `frameSwapped` reaches the backend as a queued event, so it may be handled after later steps of
  the render thread. `sceneGraphInitialized` is emitted during a synchronisation too, and
  `createWebView()` hangs from it as a queued slot.
* **Callbacks.** WebKit's signals run the view's handlers, which emit Qt signals, from which the
  application may call the view again (`setUrl()` inside the report of a failed load).
* **Tiles.** Inside the web process the main thread records tiles, posts one raster task for each (to
  workers or to the compositor's run loop), commits the scene and waits for its render. Each context's GPU
  commands run in order; between contexts the target's driver orders nothing, fences or not.
* **Inspector.** A debugging command reaches the browser through an ssh tunnel on a fixed local port, which
  other commands may open, use or take away meanwhile.
* **Compositor.** With direct composition the frames go to a Wayland subsurface. Its buffer is
  resized at once, but its position is state of the parent surface and waits for that surface's commit.

### What is hard, and what makes each part correct

* **Frame pipeline**: two threads and a producer share buffers that are handed over by pointer moves on
  one of the threads. Correct when no buffer is lost, none goes back twice, none goes back while
  the scene graph draws it or will draw it, no frame is acknowledged before it was painted, and
  every export is acknowledged some day.
* **Load requests**: one error flag serves all loads of a view, and WebKit closes a failed load with
  a FINISHED like that of a good one. Correct when every announced load is reported once and with
  what happened to it, and when a url that is set is loaded.
* **View lifecycle**: everything can be set before, inside or after the deferred creation, and the
  item may change windows at any time. Correct when one web view comes up, with the settings in
  force, and none of its handlers runs on a deleted item.
* **Direct composition**: the creation can fail at nine places. Correct when nothing is left after a
  failure, objects go before those they are made on, and the rectangle pushed last is what the
  buffer and, in the end, the screen have.
* **Tile rasterisation**: four environment switches replace an ordering that the driver does not give.
  Correct when the combinations meant to need no fence keep two contexts off the same texture, and every committed scene
  is rendered, though its render waits for rasters that may be queued on its own thread.
* **Tile coverage**: integer arithmetic and a hysteresis. Correct when what is painted is kept, a
  turn of the direction keeps what the old direction reaches, and only sustained motion turns it.
* **Inspector client**: replies are looked for among events, given up and may come late. Correct
  when a reply is taken for its own request only, the session is on the tab that is shown, the choice of the tab
  comes to an end, and sockets do not pile up.

The list of all hazards, each at its line, with the properties that cover it or the reason why none
does, is `"hazards"` in `PROJECT.json`.


## Modules

| Module | Models | Kind |
|---|---|---|
| `BufferLease` | what a producer may rely on: a buffer is its own or lent; one that is read does not come back | abstract specification |
| `FramePipeline` | `displayImage`, `texture`, `updatePaintNode`, `didRenderFrame`, destruction, windows | detailed, implements `BufferLease` |
| `FramePipelineProofs` | theorems on the above | proofs |
| `PageLoad` | `setUrl`, `loadHtml`, navigation, `stop`, `notifyLoadChanged/FailedCallback` | detailed |
| `PageLoadProofs` | theorems on the above | proofs |
| `ViewLifecycle` | `configureWindow`, `createWebView`, settings, visibility, destructor | detailed |
| `ViewLifecycleProofs` | theorems on the above | proofs |
| `DirectComposite` | `WPEWaylandSubsurface` and the view's calls to it | detailed |
| `DirectCompositeProofs` | theorems on the above | proofs |
| `TileRaster` | main thread, compositor run loop, workers and GPU contexts under the four switches | detailed |
| `TileRasterProofs` | theorems on the above | proofs |
| `TileCoverage` | cover and keep spans, scroll direction | operators and detailed |
| `TileCoverageProofs` | theorems on the above | proofs |
| `InspectorClient` | `tunnel()`, `connect_session()`, `_select()`, requests and their replies | detailed |
| `InspectorClientProofs` | theorems on the above | proofs |
| `MC*` | symmetry sets for TLC | instances |

`"map"` in `PROJECT.json` gives the lines behind every definition. The conventions are the same
everywhere: one action for one handler, with every call it makes in it; variables named after the
members they stand for; code outside the repository (WebKit, Qt, the compositor) is modelled from
how the code here uses it, and marked external.

### FramePipeline

`pendingImage`, `committedImage` and `frameUpdateRequested` are the members of the same names;
`held` is the set of images that the producer has handed out and not got back; `boundImage` is
the image behind the texture, `paintNode` the node in the scene, and `sampled` what the frame between
`Sync` and `Swap` draws; `swapEvents` counts the `frameSwapped` events in the GUI thread's queue.
`DisplayImage` has three disjuncts for the three ways through `displayImage()`: the subsurface,
the scene graph, and a view that is gone. `Sync` is atomic because the GUI thread is blocked in it.
The producer is bounded by `MaxUnacked`, the exports it makes without a `frame_complete`.

Points of the code that a reader might miss, and that the model keeps:

* `windowChanged` connects `frameSwapped` again each time, so one swap may post several events
  (`MaxConnections`).
* A stale event may acknowledge a frame after its synchronisation but before its swap. That is why
  `CompleteOnlyPainted` asks for a frame that was bound to the texture, not for one that is on screen.
* The item's own update requests no frame of the window; only the window update that
  `displayImage()` posts beside it does (the stall that the code comments on).
* An image exported while the item is in no window posts no update; `FramesCompleted` is therefore
  about views that stay in their window.
* After `~WPEQtView` a running script may keep the web view and with it the backend alive, which
  then holds a dangling `m_subsurface`. `present()` on it is undefined; the model takes the outcome
  in which it returns, so that the accounting around it can be looked at.

* A connection to a window that the item has left is never dropped: `strayConnections` of them post events
  at any time (`StraySwap`). A stray event completes a frame before its swap but never one that
  was not bound.

The render thread of the item's own window is modelled, that of the windows left only by their events.

### PageLoad

`m_url`, `m_html` and `m_errorOccured` are the members. WebKit's loader is external: it takes loads in the
order they were asked for (`content`), and each goes from requested through started and committed to
finished, failed or dropped (`phase`); a newer load and `stop()` put the older ones into `cancelled`.
`failing` is the load whose `load-failed` emission is under way: WebKit emits FINISHED at the end
of it, in the same call. `reports` and `wanted` are history variables: what the application was told of each load, and
the address it set last. `Reentrant` says whether the application may call the view from inside
its handler of `loadingChanged`, which is the only way anything comes between the two signals. The
view's `load-failed` handler returns nothing where the signal expects a value, so whether WebKit shows
its own error page is the build's choice, and `ShowErrorPage` may or may not happen. A report carries
its status; the url in it is left out (see [Disagreements](#disagreements-between-code-and-documentation)).

### ViewLifecycle

`window` is `window()`, `ready` the windows with a scene graph, `waiting` the connections to
`sceneGraphInitialized`, and `createCalls` the queued calls of the slot. `phase` is *creating* while
`createWebView()` is inside the application's handlers: the first load emits `urlChanged`, so
everything before it is `CreateSucceeds`, everything after it `FinishCreate`, and any setter may
come between. An empty user agent is `StockAgent`, a scale of 1.0 is `UnitScale`. `dead` says
that the process has ended, by a null window or by `qFatal()`; because it may, the
configurations do not check for deadlock.

### DirectComposite

The nine resources of `ensureCreated()` are acquired one per step, in its order, since the
compositor and EGL see separate requests and any may fail; `destroy()` releases them in its own
order, and the objects of the EGL context go with the context. `itemRect` is where the item is,
`m_geometry` and `m_appliedGeometry` are the members, `bufferSize` the size of the `wl_egl_window`, and
`position` becomes `onScreen` at a commit of the parent. Moves of an ancestor and changes while the item is
in no window reach none of these, as in the code.

### TileRaster

`setup` holds the four switches, read once and in every combination: `WEBKIT_RASTER_ON_COMPOSITOR_THREAD`,
`WPE_GL_FENCE_DISABLED`, `WEBKIT_BITMAP_TEXTURE_POOL_DISABLED`, `WEBKIT_COMPOSITOR_GL_FINISH`; and whether the painting
engine was given the compositor's run loop, without which it goes on using the pool (`OnCompositor`). `recorded` are the
buffers of the flush under way, `shown` those of the scene; `dispatcher` and `pool` are the two queues of raster
tasks, `painting` the task on each thread, and `stream` what each GPU context has in flight. Fences order
nothing here, because the patches exist for a driver on which they do not; `glFinish()` waits for
its own context's stream. A texture is free for the pool when no buffer refers to it, and with reuse
disabled its memory also has to be out of all streams. From lines that the patches only quote comes one assumption: a
render waits for every tile of the scene it picked up.

A render has three steps. `TimerChosen` is the run loop's choice: the switch lowers the timer's priority, so it is
chosen when no dispatched raster is ready. `PickUpScene` is where `renderLayerTree()` comes to the scene, some time
later, and `Draw` where the wait for its tiles is over. Nothing in the patches makes choice and pick-up one step, so in
between the main thread may dispatch rasters and commit their scene to the render that was chosen already
(`ScheduleRender` before the commit chooses one). With the rasters on the run loop that render waits for a task
behind it on its own thread, for ever. The priority does not exclude this, the models do not either, and the
properties are stated for what it does ensure: `CommitsRendered` is about commits that do not come in that window.
`NoSelfWait`, the sentence without that condition, is defined in the module and not claimed.

The switches are independent in the code; `FenceFree` names the combinations that the patch comments
describe as sound, and `NoGpuRace` is claimed for those. None of the deployment scripts sets any of them.

### TileCoverage

Vertical extents; the patch widens cover and keep rectangle horizontally by the same quarter viewport. The multiplier is
in tenths, so that the conversion of the product to an integer is an integer division; `directional` is the
switch, without which the upstream rectangles apply. `adjustForContentsRect()` is upstream code that the repository does
not hold. That the patch unites its result with the keep rectangle after asserting the containment says that it may move
the cover rectangle out again, for instance to make up on one axis for what the contents cut off on the other. `Adjusted` therefore
lets it be any span within the contents, and the properties hold for all of them. `Unite`, `Inflate` and `Clip` are the
patch's own steps after it. `travel` is a history variable: how far the page was scrolled since it last went the other way.

### InspectorClient

One command's session (`Self`) in full, and of the other commands the tunnels, since the local port is all
they share. `session.phase` follows `connect_session()`: the tunnel, the index, `_select()` with a
socket, a discovery and a question for each tab, then calls and the event pump. Each socket has its own
`inner` counter and its unread frames in `inbox`; `pending` is what the browser has yet to answer, in any order and
perhaps never. A frame may be an event (anything nobody waits for, the announcement of a target that is no page
included), a reply that was given up earlier, or the one that is
wanted; `tries` counts them all, as the code does. `Enable` is a request that nobody waits for: its
answer stays in the socket for a later wait to skip. `TargetFound` takes the announced page or, when the wait ends without
one, another target that a frame read before has announced. For `_select()` only a plain "no" counts as shown, so one
verdict, *hidden*, stands for all other replies, errors among them. ssh that finds the port taken goes on without
forwarding (`refused`) and is ended with the block like any other. A socket whose tunnel went and came back is taken to
work again, which only adds behaviours.


## Runs

| Run | Result | Question |
|---|---|---|
| `frames` | pass | Is any buffer given back while read, any unpainted frame acknowledged, and is the lease implemented, however `frameSwapped` is delayed, doubled or a stray? |
| `frames_live` | pass | Is any buffer lost or given back twice, and is every export acknowledged, also with a producer one frame ahead? |
| `subsurface_outlived` | violation | Are frames of the direct path presented to a subsurface that exists? |
| `page_load` | pass | Is every load reported once and as what it was? |
| `page_load_reentrant` | violation | ... also when the application loads from its error handler? |
| `page_load_same_url` | violation | Does setting the url load it? |
| `view_lifecycle` | pass | Does one web view come up, with what was asked in force, through any order of windows and setters? |
| `view_moved` | violation | Is the view created only when the scene graph is there? |
| `direct_composite` | pass | Is a subsurface taken down completely and in order, and is the last rectangle in force? |
| `tile_raster` | pass | Which switches keep two contexts off one texture, and are scenes rendered that are committed before their render is chosen? |
| `tile_coverage` | pass | Is all that is painted kept, is what the old direction reaches kept across a turn, and what turns the direction? |
| `inspector` | pass | Does a command come to choose a tab, the right one, with the right replies, and leave no sockets behind? |

### Properties

* `HeldExactly` - the images owed to the producer are those in the two slots: nothing is lost,
  nothing released twice. `DistinctSlots` - the slots never hold the same image. `SampledHeld` -
  what the scene graph draws or will draw is held. `NoBlankAfterFirstFrame` - a committed image is only
  replaced by another. `CompleteOnlyPainted` - on the scene-graph path `frame_complete` is only
  sent when the pending image was bound to the texture. `LeaseSpec` - refinement of `BufferLease`.
  `FramesCompleted` - each export is acknowledged while the view stays in its window.
  `PresentsToSubsurface` - see [Disagreements](#disagreements-between-code-and-documentation).
* `ErrorFlagScoped` - the flag is set only between the failure of a load and its FINISHED.
  `ReportsMatchOutcome` - reports say what happened. `LoadsSettle` - each announced load ends
  with a report. `NoSuccessAfterFailure`, `SetUrlTakesEffect` - see
  [Disagreements](#disagreements-between-code-and-documentation).
* `SettingsInForce`, `VisibilityInForce`, `FirstRequestCarriesAgent` - a created view has the
  settings, and the first request the agent. `OneWebView` - one is made. `NoHandlerOnDeadView` - a
  web view that outlives its item has no handler left. `ViewComesUp` - an item that stays in a
  window gets its web view. `CreatedWhenReady` - creation finds a scene graph.
* `NothingLeft` - after a failure or `destroy()` no resource is left. `BasesOutlive` - no resource
  outlives one it is made on. `PushedRectInForce`, `FrameFillsBuffer` - position and
  buffer are those of the rectangle pushed last, also after rectangles without a size, and frames
  fill the buffer. `PositionReachesScreen` - a new position is applied some day, which
  rests on the window update that the view posts.
* `NoGpuRace` - under `FenceFree` settings, no context has a paint of a texture in flight while another
  one has a command on it. `CommitsRendered` - the
  main thread, which waits for the render of its commit, gets on, unless the commit came after the run loop had chosen an
  earlier render and before that one picked the scene up.
* `KeepContainsCover` - the assertion of the patch, and that whatever the cover rectangle is adjusted to is kept.
  `TurnKeepsReach` - after a turn all is kept that the old direction reaches at that place, half a tile more on either
  side, whatever the cover rectangle is adjusted to. `TurnNeedsTravel` - a turn needs more than
  half a viewport scrolled that way without a turn back.
* `RepliesMatch` - a reply is taken for its own request. `ShownTabChosen` - the session is on a tab that said it is
  shown, or none did and it is the first that has a target. `SocketsBounded` - a session has its own socket and
  at most the fallback's, which `_select()` leaves open when it chooses a later tab (`cdp.py:160`); no line promises
  that it is closed. `SelectionEnds` - choosing a tab ends, also when the tunnel is another command's and goes.

Each of these is broken by at least one mutated definition (`"mutants"` in `PROJECT.json`): a dropped
release, a swapped order, a missing reset, a missing guard.

### Bounds, and why they are enough

* `frames`: 3 images, one more than the two slots, so that a released one can be exported again
  while two are held; 2 connections, which is the first count with duplicated events; 4 queued
  events, two swaps' worth, so that events of an old frame mix with those of a new one; one connection to a window left earlier; 2 scripts.
  `MaxUnacked = 1` is the handshake that WPE's exportable follows. Images are symmetric.
* `frames_live`: `MaxUnacked = 2`, so that an export supersedes another one, with up to 1 stray connection and 3
  queued events; no symmetry, as it is unsound for liveness. `subsurface_outlived`: the same module, one script.
* `page_load`: 2 urls and 3 loads: one that fails, one that supersedes it and one more that the stale
  flag could hit.
* `view_lifecycle`: 2 windows (one to leave, one to enter), 2 agents and 2 scales (given or not), one
  valid and one invalid size, 2 queued creations.
* `direct_composite`: 2 places, the 1x1 size of creation, two others and the empty one, so that a size
  may be equal to, or different from, the buffer's.
* `tile_raster`: 2 tiles, so that one is painted and one is not; 3 textures, so that the buffer that a tile gives up
  is wanted again at once; 1 worker, hence 2 contexts, enough for a race between two; 2 commands in flight per context; all
  16 switch settings, with and without the compositor's run loop. The run does not check for deadlock, since a commit
  to a render already chosen may wait for ever.
* `tile_coverage`: odd and even heights, one taller than the page, multipliers whose tenths round, positions above,
  inside and below the page.
* `inspector`: 2 tabs (a fallback and another one), 1 other command, 2 frames per wait in place of
  twenty, 3 requests per socket, so that the third may meet the late answers to both earlier ones. 1 frame waits in a
  socket; the rest waits in the browser, where it is sent in any order, which is the same to a client that reads one at a time.

Longer histories repeat these: no definition in the modules counts beyond the bounds,
and the proofs drop them.

### Fairness

* Frames: weak fairness of the GUI thread's handling of `frameSwapped`, of Qt's posted update, and of
  the render thread's sync and swap. Both event loops run as long as the window is shown. Nothing
  is assumed of the producer, the user or scripts.
* Loads: weak fairness of WebKit's loader: a load that started ends, by its network timeout if not
  otherwise. Nothing is assumed of the application; its calls are bounded by `MaxLoads`.
* Lifecycle: weak fairness of the queued slot and of the end of `createWebView()`: the GUI thread's
  event loop runs and the application's handlers return. Nothing is assumed of windows.
* Direct composition: weak fairness of the parent's commit once an update was posted (frames that
  nobody asked for are not promised), and of the creation and destruction going on.
* Tiles: weak fairness of the run loop's tasks and timer, of the render's steps, of the workers and of the GPU. Nothing is assumed of the
  page or of other requests for frames: the timer may be armed for ever, and rasters that outrank it come from
  a main thread that waits after each commit, so they cannot starve it.
* Inspector: weak fairness of the client's own steps in `_select()`: each wait ends by a frame or
  by its timeout. Nothing is assumed of the browser, ssh or other commands.


## Proofs

Every state invariant and every action property that a passing run checks is also a theorem, for every value of the
constants. What the runs leave to TLC alone is liveness; of it the theorems have the safety half (below).

**`FramePipelineProofs`**, for every set of images and every bound:

* `TypeCorrect`, `NoLeak` (`HeldExactly`) and `NoDoubleRelease` (`DistinctSlots`), for every
  producer, also one that ignores `frame_complete`;
* `NothingReleasedWhileSampled` (`SampledHeld`), `CommittedStays` (`NoBlankAfterFirstFrame`),
  `CompletionsAreOfPaintedFrames` (`CompleteOnlyPainted`) and `ImplementsLease` (`LeaseSpec`), under
  `MaxUnacked = 1`, which is a hypothesis of these theorems. It is needed: with two exports
  in flight the second supersedes an image that may be in the scene graph already, and
  `displayImage()` gives that one back at once (TLC shows it with `MaxUnacked = 2`). WPE's exportable
  waits for `frame_complete`, so the hypothesis is the protocol that the code relies on.

The accounting is inductive by itself. `SampledHeld` is not: a release could hit the drawn
image unless one knows how slots, texture and scene graph go together. The strengthening,
`HandshakeInv`, says in addition that a pending image is an unanswered export (so that none can replace it),
that a `frame_complete` is owed only for the pending image and only while it is bound, that
the texture shows one of the two slots, and that a frame in flight samples the texture. With it each action
is one step of the proof; the refinement maps each action to a step or a stutter of the lease.

**`PageLoadProofs`** proves `LoadTypeCorrect` and `FlagIsScoped` (`ErrorFlagScoped`) for every set of addresses, any number of loads and any application, and `ReportsAreTrue`
(`ReportsMatchOutcome`) under `~Reentrant`. That hypothesis is needed: `page_load_reentrant` is the counterexample
without it. What is left to a reentrant application is `OutcomesAreHeard`: each load's outcome still comes
once and right after its start, no good load's success is swallowed, and all that can follow a failure is the success
it should not have. The invariant has three parts: `FlagInv`, that the flag is set only while a failure is being reported and,
unless the application is reentrant, all that time; `ToldInv`, that the reports of a
load are those its phase calls for; and `EmissionInv`, that nothing follows the report of a failure before its FINISHED.

**`ViewLifecycleProofs`** proves `SettingsAlwaysInForce`, `VisibilityAlwaysInForce`, `DeadViewsAreQuiet`,
`FirstRequestAgent`, `OneWebViewMade` and `LifecycleTypeCorrect` for every set of windows, agents, scales and sizes, from
`LifecycleInv`: the state properties themselves, the range of the phase and of the connected signals,
and `PageInWindow`: the page keeps its `in_window` flag, which `VisibilityInForce` needs and no setter
touches. `OneWebViewMade` and `FirstRequestAgent` are properties of single steps. In `TypeOK` the one part that is
not plain typing is that `webViewCreated()` is emitted once at most: the phase never comes back (`AnnouncedOnce`).

**`DirectCompositeProofs`** proves `DestroyLeavesNothing` (`NothingLeft`), `BasesAlwaysOutlive` (`BasesOutlive`),
`PushedRectIsInForce` (`PushedRectInForce`), `FramesFillBuffers` (`FrameFillsBuffer`) and `DirectTypeCorrect`. While the
subsurface is made, the resources are an initial part of the order of `ensureCreated()` (`Stage`; after the
registry's two globals their number tells which comes next), and every initial part contains the bases of what is in it.
Once `destroy()` has begun `BasesOutlive` carries itself: what it releases next is the base of nothing still
there, because everything that needs it comes earlier in `destroy()`'s order or goes with the EGL context. That nothing is left follows from
`BasesOutlive` again: `destroy()` does not name the objects of the context, but they cannot be there
without it. The rectangle needs no strengthening except that what is in force follows the last push from the start,
not only once the object is valid.

**`TileRasterProofs`** proves `RasterTypeCorrect` and
`FenceFreeSettingsAreSafe` (`NoGpuRace`) for every set of textures, tiles and workers. The invariant, `RasterInv`,
says why no fence is needed: an unpainted buffer has a holder, so the pool does not hand it out; one route is used for all
rasters, each once; without fences a paint is in flight only while its task runs; only the compositor
samples, with `glFinish()` only the scene it shows; and what is sampled is painted. None of it depends on when the scene
is picked up. `OnlyALateCommitClosesTheWaits` does: under the hypothesis `NoLateCommit`, that no scene is committed between
choice and pick-up while the rasters go to the run loop, a render waits for no raster on its own thread
(`SelfWaitAlways`).

**`TileCoverageProofs`** proves `CoverageTypeCorrect`, `CoveredIsKept` (`KeepContainsCover`), `TurnsKeepReach`
(`TurnKeepsReach`) and `TurnsNeedTravel` (`TurnNeedsTravel`) for all integer positions and heights and all multipliers from 1 to 6. The first two
rest on facts about the integer divisions (`ReachWhateverDirection`: the keep span before the union is the same for both
directions) and on the order of containment of union, inflation and clip; the last on the invariant that ties the
accumulator to the travel. `TurnsKeepReach` has the hypothesis that no height is 0: a span without extent is taken for empty by
the union. The proof asks for nothing of `adjustForContentsRect()`.

**`InspectorClientProofs`** proves `RepliesAlwaysMatch` (`RepliesMatch`), `ShownTabIsChosen`
(`ShownTabChosen`), `SocketsStayBounded` (`SocketsBounded`) and `ClientTypeCorrect`
for any number of tabs, attempts, requests and other commands, and a browser that answers in any order, late or never. `ClientInv` has
two halves. `RequestInv` is about one socket: no frame or pending request carries an inner id that was not given out
(`IdsGivenOut`), and the only one with the id that is waited for is the request's own (`WantedIsAsked`); since ids
only grow, an answer that was given up can come late but never match. `SelectInv` is about the tabs: all tabs
before the one at hand were tried and none said it is shown, the fallback is the first of them that has a target
(`TabsTried`), and only the fallback's socket and the current one are open (`SocketsOpen`).

### The safety half of liveness

Liveness under fairness and ENABLED are out of the prover's reach. What can be proved is that nothing which the
liveness properties wait for is ever forgotten: whenever something is due, the event that will bring it about is
scheduled, or a measure has decreased. Fairness then only has to let scheduled events happen.

| Liveness property (TLC) | Theorem | What is never lost |
|---|---|---|
| `FramesCompleted` | `NoExportStranded` | an unanswered export has a paint with a frame of the window ahead of it, or a completion with a swap or a queued event |
| `ViewComesUp` | `NoCreationForgotten` | an item in a window without a web view is connected to it, and a slot is queued once it can draw |
| `PositionReachesScreen` | `NoMoveForgotten` | a position that is not on the screen has an update of the window posted |
| `CommitsRendered` | `OnlyALateCommitClosesTheWaits` | without a late commit the main thread waits for a scheduled or chosen render, a render only for rasters of the worker pool |
| `SelectionEnds` | `SelectionOnlyAdvances` | each step of `_select()` decides or decreases (tabs left, stage, frames to read); no other actor touches the session |

`LoadsSettle` has none: it rests on WebKit's loader, which is external.

### What delimits the disagreements

For each of the four runs that find a promise broken, a theorem says outside which scenario the promise does hold, so that the
counterexample is the whole story:

* `FailureIsFinal`: no load that failed is reported as succeeded (`NoSuccessAfterFailure`) to an application
  that does not act from inside its handler.
* `ChangedUrlTakesEffect`: `SetUrlTakesEffect` holds if the application only sets addresses other than the last one,
  whatever page, history and `loadHtml()` do; `SameUrlOfAStayingPage`: and for any application as long as
  WebKit stays on the address that `m_url` holds.
* `StayingItemIsCreatedWhenReady`: `CreatedWhenReady` holds for an item that stays in its first window, if
  that window does not lose its scene graph between queueing the slot and running it.
* `PresentsWhileViewLives`: `PresentsToSubsurface` holds if no script is running when the item is destroyed.

`OnlyALateCommitClosesTheWaits` does the same for the late commit of a scene (below).

The hypotheses are formulas on steps (`[][...]_vars`) beside `Spec`, each one what the scenario of the run
violates.

### Assumptions and limits

All seven modules rest only on the named assumptions on constants in the modules they extend; TLC evaluates
these in every run.
**Only model-checked** are the six liveness properties: `FramesCompleted`, `LoadsSettle`, `ViewComesUp`,
`PositionReachesScreen`, `CommitsRendered` and `SelectionEnds`. Induction over data and RECURSIVE operators are out of
the prover's reach as well; no module here uses the latter.


## Disagreements between code and documentation

1. `page_load_reentrant`: `setUrl()` and `loadHtml()` clear `m_errorOccured` at once
   (`qt5-plugin/WPEQtView.cpp:344`). An application that loads another page from its handler of a
   failed load makes the FINISHED of the failed load report `LoadSucceededStatus`, documented as
   "The page was loaded successfully" (`WPEQtViewLoadRequest.cpp:69`).
2. `page_load_same_url`: `url()` shows WebKit's address, `setUrl()` compares with the address last
   set (`:341`). After a link, setting the old address again loads nothing, though "Changing this
   will trigger loading new content" (`:331`).
3. `view_moved`: the slot stays connected to the window the item was in first, and looks at
   `window()` when it runs (`:121`). An item that has left dereferences a null window; in another window
   without a context it ends in `qFatal()`; the comment at `:638` promises a creation "deferred until
   the scene graph is initialised".
4. `subsurface_outlived`: `~WPEQtView` deletes the subsurface (`WPEQtView.cpp:64`) but not the backend's pointer to it.
   A running script keeps the web view, and with it the backend, whose next image is presented
   to the deleted object (`WPEQtViewBackend.cpp:247`); the header says that images are presented to the
   subsurface while the pointer is set (`WPEQtViewBackend.h:71`).

Three more show in the code itself, and no run is needed to find them:

* The `started` and `finished` reports of a load that a newer one has superseded carry `url()`, the newer load's address
  (`WPEQtView.cpp:261`, `:319-326`), where `WPEQtViewLoadRequest.cpp:53` and `WPEQtView.cpp:410` speak of the url of the request.
* The comment in the raster patch says that the lowered priority makes "every pending tile raster for a frame" run
  "before the render that samples it" (`webkit-raster-on-compositor-thread-env.patch:120-125`). It does so for a render that is
  chosen after the commit. A render chosen earlier, which picks the scene up after the commit, samples tiles whose rasters
  are queued behind it (see [TileRaster](#tileraster)); what in upstream WebKit may keep such a commit off is not in the patches.
* The comment in the coverage patch says that a turn "never evicts already-painted tiles"
  (`webkit-directional-tile-coverage-env.patch:96`). That holds for what the direction reaches; where
  `adjustForContentsRect()` takes the cover rectangle beyond that, the union at `:113` follows the direction and a turn may
  let the difference go.


## Not modelled

* **Input dispatch** (`WPEQtViewBackend.cpp:280-445`): each handler translates one event, with no
  concurrency and little state. That a second finger's landing is sent as a motion, or that a lost grab leaves a
  button set, is visible in the code; no line of the repository says what should be sent instead, so there
  is nothing to check it against.
* **Ad-block extension and engine**: one decision for one request from an address, a flag and a
  library. What is left once string matching is taken away is a sequence of guards.
* **Script callbacks**: only the reference that a running script holds. The values they get
  are conversions.
* **Shims**: `libegl-stubs.c`, `libglibc-compat.c`, `libglib_compat.c` and `libsigill_skip.c` are short
  sequential replacements of library functions.
* **Other WebKit patches** (kinetic scrolling, memory pressure, media buffers, sandbox): constants and switches inside
  code that is not in the repository.
* **Vendored Wayland headers, the QML plugin, deployment profiles, build scripts**: third-party
  declarations, type registration, static configuration, sequences of compiler and packaging calls.
  The headers are about three quarters of the repository's C and C++ lines, which bounds the share of those
  lines that the models can stand for; the patches and the Python tools are not C or C++ lines at all.

Inside the modelled parts, logging, GL state, titles, load progress and the conversion of
sizes are abstracted away, and so are the inspector's commands beyond their requests and replies.


## Plan

Done, in the order of what users see when it goes wrong: `BufferLease`, `FramePipeline`, `PageLoad`,
`ViewLifecycle`, `DirectComposite`, `TileRaster`, `TileCoverage`, `InspectorClient`, and the proofs about
all seven detailed modules.

Next, most important first:

1. A lost OpenGL context in `FramePipeline`: the texture that outlives it.
2. Script callbacks: the documentation of `runJavaScript()` promises that the callback "will be invoked";
   a script given before the web view exists, or one that throws, never gets it.

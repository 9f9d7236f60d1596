---------------------------- MODULE FramePipeline ----------------------------
(***************************************************************************)
(* The path of a web frame in the Qt 5 view: WPEQtViewBackend with the     *)
(* parts of WPEQtView that drive it.  Three actors run concurrently:       *)
(*                                                                         *)
(*   producer       wpe-fdo, which hands exported images to displayImage() *)
(*                  (external: modelled from how the backend uses it);     *)
(*   GUI thread     displayImage(), didRenderFrame(), window changes,      *)
(*                  the destructors;                                       *)
(*   render thread  Qt's scene-graph thread (QSG_RENDER_LOOP=threaded):    *)
(*                  it synchronises with the GUI thread blocked, which is  *)
(*                  when updatePaintNode() and texture() run, then draws   *)
(*                  and swaps on its own.                                  *)
(*                                                                         *)
(* frameSwapped is emitted on the render thread, so each connection of     *)
(* configureWindow() posts an event that the GUI thread runs later: it may *)
(* run after the next synchronisation.  The connection is made again on    *)
(* every windowChanged (Qt::UniqueConnection does nothing for a lambda),   *)
(* and none is dropped: a window that the item has left goes on posting.   *)
(*                                                                         *)
(* The model starts when createWebView() has returned.                     *)
(***************************************************************************)
EXTENDS Naturals, FiniteSets

CONSTANTS
    Image,           \* the buffers wpe-fdo can export
    None,            \* a null image pointer
    MaxUnacked,      \* exports the producer makes before a frame_complete
    MaxSwapEvents,   \* bound: frameSwapped events queued for the GUI thread
    MaxConnections,  \* bound: windowChanged signals with a window
    MaxStray,        \* bound: connections to windows left earlier
    MaxJsTasks       \* bound: scripts running at once

ASSUME PipelineAssumption ==
    /\ None \notin Image
    /\ MaxUnacked \in Nat \ {0}
    /\ MaxSwapEvents \in Nat
    /\ MaxConnections \in Nat \ {0}
    /\ MaxStray \in Nat
    /\ MaxJsTasks \in Nat

VARIABLES
    held,                  \* producer: images exported and not yet released
    unacked,               \* producer: exports not answered by frame_complete
    backendAlive,          \* the WPEQtViewBackend exists
    direct,                \* backend: m_subsurface is set (direct-composite)
    surfaceValid,          \* backend: hasValidSurface()
    pendingImage,          \* backend: m_pendingImage
    committedImage,        \* backend: m_committedImage
    frameUpdateRequested,  \* backend: m_frameUpdateRequested
    boundImage,            \* backend: the EGLImage behind m_textureId
    viewAlive,             \* the WPEQtView exists
    attached,              \* view: window() is not null
    connections,           \* view: frameSwapped connections to its window
    strayConnections,      \* view: those to windows it was in before
    jsTasks,               \* scripts whose GTask holds a web view reference
    itemDirty,             \* Qt: update() scheduled updatePaintNode()
    paintNode,             \* Qt: the item has a texture node in the scene
    updatePosted,          \* Qt: a queued QQuickWindow::update()
    frameRequested,        \* Qt: the window will render another frame
    rendering,             \* Qt: the render thread is between sync and swap
    sampled,               \* Qt: the image that frame draws
    swapEvents             \* Qt: queued frameSwapped events

producerVars == <<held, unacked>>
backendVars == <<backendAlive, direct, surfaceValid, pendingImage,
                 committedImage, frameUpdateRequested, boundImage>>
viewVars == <<viewAlive, attached, connections, strayConnections, jsTasks>>
qtVars == <<itemDirty, paintNode, updatePosted, frameRequested, rendering,
            sampled, swapEvents>>
vars == <<producerVars, backendVars, viewVars, qtVars>>

MaybeImage == Image \union {None}

ProducerTypeOK ==
    /\ held \subseteq Image
    /\ unacked \in 0..MaxUnacked

BackendTypeOK ==
    /\ backendAlive \in BOOLEAN
    /\ direct \in BOOLEAN
    /\ surfaceValid \in BOOLEAN
    /\ pendingImage \in MaybeImage
    /\ committedImage \in MaybeImage
    /\ frameUpdateRequested \in BOOLEAN
    /\ boundImage \in MaybeImage

ViewTypeOK ==
    /\ viewAlive \in BOOLEAN
    /\ attached \in BOOLEAN
    /\ connections \in 0..MaxConnections
    /\ strayConnections \in 0..MaxStray
    /\ jsTasks \in 0..MaxJsTasks

QtTypeOK ==
    /\ itemDirty \in BOOLEAN
    /\ paintNode \in BOOLEAN
    /\ updatePosted \in BOOLEAN
    /\ frameRequested \in BOOLEAN
    /\ rendering \in BOOLEAN
    /\ sampled \in MaybeImage
    /\ swapEvents \in 0..MaxSwapEvents

(* Type correctness of every variable, in the groups above. *)
TypeOK == ProducerTypeOK /\ BackendTypeOK /\ ViewTypeOK /\ QtTypeOK

(* createWebView() has returned; direct and surfaceValid are the outcomes of
   ensureCreated() and of m_surface.create(), fixed from then on. *)
Init ==
    /\ held = {}
    /\ unacked = 0
    /\ backendAlive = TRUE
    /\ direct \in BOOLEAN
    /\ surfaceValid \in BOOLEAN
    /\ pendingImage = None
    /\ committedImage = None
    /\ frameUpdateRequested = FALSE
    /\ boundImage = None
    /\ viewAlive = TRUE
    /\ attached = TRUE
    /\ connections = 1
    /\ strayConnections \in 0..MaxStray
    /\ jsTasks = 0
    /\ itemDirty = TRUE
    /\ paintNode = FALSE
    /\ updatePosted = FALSE
    /\ frameRequested = TRUE
    /\ rendering = FALSE
    /\ sampled = None
    /\ swapEvents = 0

-----------------------------------------------------------------------------
(***************************************************************************)
(* Producer -> GUI thread: displayImage(image).                            *)
(***************************************************************************)
Exportable(img) ==
    /\ backendAlive
    /\ img \in Image \ held
    /\ unacked < MaxUnacked

(* Direct-composite: present, frame_complete and release of the previous
   image happen at once, away from Qt's render loop. *)
DisplayDirect(img) ==
    /\ Exportable(img)
    /\ direct
    /\ held' = (held \ {committedImage}) \union {img}
    /\ unacked' = 0
    /\ committedImage' = img
    /\ UNCHANGED <<backendAlive, direct, surfaceValid, pendingImage,
                   frameUpdateRequested, boundImage, viewVars, qtVars>>

(* Faulty variant: the superseded pending image is not released. *)
DisplayQueuedLeaking(img) ==
    /\ Exportable(img)
    /\ ~direct
    /\ viewAlive
    /\ held' = held \union {img}
    /\ unacked' = unacked + 1
    /\ pendingImage' = img
    /\ itemDirty' = TRUE
    /\ updatePosted' = (updatePosted \/ attached)
    /\ UNCHANGED <<backendAlive, direct, surfaceValid, committedImage,
                   frameUpdateRequested, boundImage, viewVars, paintNode,
                   frameRequested, rendering, sampled, swapEvents>>

(* Faulty variant: triggerUpdate() alone, without the window update. *)
DisplayQueuedItemUpdateOnly(img) ==
    /\ Exportable(img)
    /\ ~direct
    /\ viewAlive
    /\ held' = (held \ {pendingImage}) \union {img}
    /\ unacked' = unacked + 1
    /\ pendingImage' = img
    /\ itemDirty' = TRUE
    /\ UNCHANGED <<backendAlive, direct, surfaceValid, committedImage,
                   frameUpdateRequested, boundImage, viewVars, paintNode,
                   updatePosted, frameRequested, rendering, sampled,
                   swapEvents>>

(* Scene-graph path: an image that was never committed is dropped for the
   new one, the item is marked dirty and a window update is posted.  The
   item update alone requests no frame (the stall the code comments on). *)
DisplayQueued(img) ==
    /\ Exportable(img)
    /\ ~direct
    /\ viewAlive
    /\ held' = (held \ {pendingImage}) \union {img}
    /\ unacked' = unacked + 1
    /\ pendingImage' = img
    /\ itemDirty' = TRUE
    /\ updatePosted' = (updatePosted \/ attached)
    /\ UNCHANGED <<backendAlive, direct, surfaceValid, committedImage,
                   frameUpdateRequested, boundImage, viewVars, paintNode,
                   frameRequested, rendering, sampled, swapEvents>>

(* The view is gone but a script still holds the web view: the image goes
   straight back, and no frame_complete follows. *)
DisplayOrphan(img) ==
    /\ Exportable(img)
    /\ ~direct
    /\ ~viewAlive
    /\ held' = held \ {pendingImage}
    /\ unacked' = unacked + 1
    /\ pendingImage' = None
    /\ UNCHANGED <<backendAlive, direct, surfaceValid, committedImage,
                   frameUpdateRequested, boundImage, viewVars, qtVars>>

DisplayImage(img) ==
    \/ DisplayDirect(img)
    \/ DisplayQueued(img)
    \/ DisplayOrphan(img)

-----------------------------------------------------------------------------
(***************************************************************************)
(* GUI thread: the queued frameSwapped event runs didRenderFrame().        *)
(***************************************************************************)

(* Faulty variant: m_pendingImage keeps its value after the commit. *)
DidRenderFrameKeepingPending ==
    /\ swapEvents > 0
    /\ swapEvents' = swapEvents - 1
    /\ \/ /\ ~frameUpdateRequested
          /\ UNCHANGED <<producerVars, backendVars>>
       \/ /\ frameUpdateRequested
          /\ frameUpdateRequested' = FALSE
          /\ unacked' = 0
          /\ held' = held \ {committedImage}
          /\ committedImage' = pendingImage
          /\ UNCHANGED pendingImage
          /\ UNCHANGED <<backendAlive, direct, surfaceValid, boundImage>>
    /\ UNCHANGED <<viewVars, itemDirty, paintNode, updatePosted,
                   frameRequested, rendering, sampled>>

(* Faulty variant: the release comes after the two pointers have moved. *)
DidRenderFrameLateRelease ==
    /\ swapEvents > 0
    /\ swapEvents' = swapEvents - 1
    /\ \/ /\ ~frameUpdateRequested
          /\ UNCHANGED <<producerVars, backendVars>>
       \/ /\ frameUpdateRequested
          /\ frameUpdateRequested' = FALSE
          /\ unacked' = 0
          /\ held' = held \ {pendingImage}
          /\ committedImage' = pendingImage
          /\ pendingImage' = None
          /\ UNCHANGED <<backendAlive, direct, surfaceValid, boundImage>>
    /\ UNCHANGED <<viewVars, itemDirty, paintNode, updatePosted,
                   frameRequested, rendering, sampled>>

DidRenderFrame ==
    /\ swapEvents > 0
    /\ swapEvents' = swapEvents - 1
    /\ \/ /\ ~frameUpdateRequested
          /\ UNCHANGED <<producerVars, backendVars>>
       \/ /\ frameUpdateRequested
          /\ frameUpdateRequested' = FALSE
          /\ unacked' = 0
          /\ held' = held \ {committedImage}
          /\ committedImage' = pendingImage
          /\ pendingImage' = None
          /\ UNCHANGED <<backendAlive, direct, surfaceValid, boundImage>>
    /\ UNCHANGED <<viewVars, itemDirty, paintNode, updatePosted,
                   frameRequested, rendering, sampled>>

(* GUI thread: the queued QQuickWindow::update() runs. *)
WindowUpdate ==
    /\ updatePosted
    /\ updatePosted' = FALSE
    /\ frameRequested' = TRUE
    /\ UNCHANGED <<producerVars, backendVars, viewVars, itemDirty, paintNode,
                   rendering, sampled, swapEvents>>

(* Something else in the window (a touch, an animation of the chrome) asks
   for a frame. *)
OtherFrameRequest ==
    /\ ~frameRequested
    /\ frameRequested' = TRUE
    /\ UNCHANGED <<producerVars, backendVars, viewVars, itemDirty, paintNode,
                   updatePosted, rendering, sampled, swapEvents>>

-----------------------------------------------------------------------------
(***************************************************************************)
(* Render thread.                                                          *)
(***************************************************************************)

(* Faulty variant: the committed image is preferred to the new one. *)
PaintedImageCommittedFirst ==
    IF committedImage # None THEN committedImage ELSE pendingImage

(* The image texture() binds. *)
PaintedImage == IF pendingImage # None THEN pendingImage ELSE committedImage

(* updatePaintNode() when nothing can be drawn returns its argument. *)
NothingToPaint == PaintedImage = None \/ ~surfaceValid

(* Faulty variant: every paint owes a frame_complete. *)
BindTextureAlwaysOwing ==
    /\ boundImage' = PaintedImage
    /\ frameUpdateRequested' = TRUE

(* texture(): the bound image, and the frame_complete owed after the swap. *)
BindTexture ==
    /\ boundImage' = PaintedImage
    /\ frameUpdateRequested' = (pendingImage # None)

(* updatePaintNode(), run for a dirty item during the synchronisation. *)
UpdatePaintNode ==
    \/ /\ direct
       /\ paintNode' = FALSE
       /\ UNCHANGED <<boundImage, frameUpdateRequested>>
    \/ /\ ~direct
       /\ NothingToPaint
       /\ UNCHANGED <<paintNode, boundImage, frameUpdateRequested>>
    \/ /\ ~direct
       /\ ~NothingToPaint
       /\ BindTexture
       /\ paintNode' = TRUE

(* The GUI thread is blocked: the step is atomic with respect to it. *)
Sync ==
    /\ frameRequested
    /\ ~rendering
    /\ frameRequested' = FALSE
    /\ rendering' = TRUE
    /\ \/ /\ attached
          /\ itemDirty
          /\ itemDirty' = FALSE
          /\ UpdatePaintNode
       \/ /\ ~(attached /\ itemDirty)
          /\ UNCHANGED <<itemDirty, paintNode, boundImage,
                         frameUpdateRequested>>
    /\ sampled' = IF attached /\ paintNode' THEN boundImage' ELSE None
    /\ UNCHANGED <<producerVars, backendAlive, direct, surfaceValid,
                   pendingImage, committedImage, viewVars, updatePosted,
                   swapEvents>>

(* eglSwapBuffers returned; each connection posts one event to the view. *)
Swap ==
    /\ rendering
    /\ swapEvents + connections <= MaxSwapEvents
    /\ rendering' = FALSE
    /\ sampled' = None
    /\ swapEvents' = swapEvents + connections
    /\ UNCHANGED <<producerVars, backendVars, viewVars, itemDirty, paintNode,
                   updatePosted, frameRequested>>

(* The render thread of a window that the item has left swaps a frame; the
   bound leaves room for the events of the item's own window. *)
StraySwap ==
    /\ strayConnections > 0
    /\ swapEvents + strayConnections + connections <= MaxSwapEvents
    /\ swapEvents' = swapEvents + strayConnections
    /\ UNCHANGED <<producerVars, backendVars, viewVars, itemDirty, paintNode,
                   updatePosted, frameRequested, rendering, sampled>>

-----------------------------------------------------------------------------
(***************************************************************************)
(* The view's life on the GUI thread.                                      *)
(***************************************************************************)

(* windowChanged with a null window: configureWindow() returns at once. *)
Detach ==
    /\ viewAlive
    /\ attached
    /\ attached' = FALSE
    /\ paintNode' = FALSE
    /\ UNCHANGED <<producerVars, backendVars, viewAlive, connections,
                   strayConnections, jsTasks, itemDirty, updatePosted,
                   frameRequested, rendering, sampled, swapEvents>>

(* windowChanged with the window: configureWindow() connects frameSwapped
   once more; createWebView() returns because m_backend is set. *)
ConfigureWindow ==
    /\ viewAlive
    /\ ~attached
    /\ connections < MaxConnections
    /\ attached' = TRUE
    /\ connections' = connections + 1
    /\ itemDirty' = TRUE
    /\ UNCHANGED <<producerVars, backendVars, viewAlive, strayConnections,
                   jsTasks, paintNode, updatePosted, frameRequested,
                   rendering, sampled, swapEvents>>

(* Faulty variant: the destructor forgets the pending image. *)
DestroyBackendLeaking ==
    /\ backendAlive' = FALSE
    /\ held' = held \ {committedImage}
    /\ pendingImage' = None
    /\ committedImage' = None
    /\ UNCHANGED <<unacked, direct, surfaceValid, frameUpdateRequested,
                   boundImage>>

(* ~WPEQtViewBackend(): both images go back, then the exportable. *)
DestroyBackend ==
    /\ backendAlive' = FALSE
    /\ held' = held \ {pendingImage, committedImage}
    /\ pendingImage' = None
    /\ committedImage' = None
    /\ UNCHANGED <<unacked, direct, surfaceValid, frameUpdateRequested,
                   boundImage>>

(* ~WPEQtView(): Qt drops the connections and the events queued for the
   view; the backend goes with the last web view reference. *)
DestroyView ==
    /\ viewAlive
    /\ viewAlive' = FALSE
    /\ attached' = FALSE
    /\ connections' = 0
    /\ strayConnections' = 0
    /\ swapEvents' = 0
    /\ paintNode' = FALSE
    /\ \/ jsTasks = 0 /\ DestroyBackend
       \/ jsTasks > 0 /\ UNCHANGED <<producerVars, backendVars>>
    /\ UNCHANGED <<jsTasks, itemDirty, updatePosted, frameRequested,
                   rendering, sampled>>

(* runJavaScript(): the task keeps the web view alive until it ends. *)
RunJavaScript ==
    /\ viewAlive
    /\ jsTasks < MaxJsTasks
    /\ jsTasks' = jsTasks + 1
    /\ UNCHANGED <<producerVars, backendVars, viewAlive, attached,
                   connections, strayConnections, qtVars>>

(* Faulty variant: the callback drops the task's reference a second time. *)
JavaScriptDoneUnrefTwice ==
    /\ jsTasks > 0
    /\ jsTasks' = jsTasks - 2
    /\ \/ ~viewAlive /\ jsTasks = 1 /\ DestroyBackend
       \/ ~(~viewAlive /\ jsTasks = 1) /\ UNCHANGED <<producerVars, backendVars>>
    /\ UNCHANGED <<viewAlive, attached, connections, strayConnections, qtVars>>

(* jsAsyncReadyCallback() returned and the task is freed. *)
JavaScriptDone ==
    /\ jsTasks > 0
    /\ jsTasks' = jsTasks - 1
    /\ \/ ~viewAlive /\ jsTasks = 1 /\ DestroyBackend
       \/ ~(~viewAlive /\ jsTasks = 1) /\ UNCHANGED <<producerVars, backendVars>>
    /\ UNCHANGED <<viewAlive, attached, connections, strayConnections, qtVars>>

-----------------------------------------------------------------------------
Next ==
    \/ \E img \in Image : DisplayImage(img)
    \/ DidRenderFrame
    \/ WindowUpdate
    \/ OtherFrameRequest
    \/ Sync
    \/ Swap
    \/ StraySwap
    \/ Detach
    \/ ConfigureWindow
    \/ DestroyView
    \/ RunJavaScript
    \/ JavaScriptDone

Spec == Init /\ [][Next]_vars

(* Both event loops run: the GUI thread gets to every queued event, and the
   render thread to every requested frame and to the end of it.  Nothing is
   assumed of the producer, of the user or of the chrome. *)
Fairness ==
    /\ WF_vars(DidRenderFrame)
    /\ WF_vars(WindowUpdate)
    /\ WF_vars(Sync)
    /\ WF_vars(Swap)

FairSpec == Spec /\ Fairness

-----------------------------------------------------------------------------
(***************************************************************************)
(* Safety.                                                                 *)
(***************************************************************************)

(* The images owed to the producer are exactly the ones the backend still
   points to: displayImage(), didRenderFrame() and the destructor lose none
   (a leak stops the producer once its buffers are used up) and release
   none twice. *)
HeldExactly == held = {pendingImage, committedImage} \ {None}

(* One image is never pending and committed at once, so the destructor's
   two releases, and didRenderFrame()'s, never release the same image. *)
DistinctSlots == pendingImage # None => pendingImage # committedImage

(* A frame that Qt is drawing, and every frame it will draw from the node
   already in the scene, samples an image the producer may not write to,
   however the frameSwapped events are delayed or duplicated
   (texture() against the releases of didRenderFrame() and displayImage()). *)
SampledHeld ==
    backendAlive =>
        /\ sampled # None => sampled \in held
        /\ paintNode => boundImage \in held

(* Once a frame has been committed texture() always has an image to bind: a
   stray didRenderFrame() never commits a null image and blanks the view. *)
NoBlankAfterFirstFrame ==
    [][committedImage # None /\ backendAlive' => committedImage' # None]_vars

(* The scene-graph path tells WebKit that a frame is complete only when that
   very frame was bound to the texture; an event left over from an earlier
   swap never completes a frame nothing has painted. *)
CompleteOnlyPainted ==
    [][~direct /\ unacked' < unacked =>
          boundImage = pendingImage /\ pendingImage # None]_vars

(* WPEQtViewBackend.h on the direct-composite path: while m_subsurface is set,
   exported images are presented to that wl_subsurface.  It belongs to the
   view, which deletes it in its destructor; an image is only presented while
   it is there. *)
PresentsToSubsurface == [][direct /\ ~(held' \subseteq held) => viewAlive]_vars

(* BufferLease, with the frame in flight as the reader. *)
Lease == INSTANCE BufferLease WITH
    lent <- held,
    reading <- IF backendAlive THEN {sampled} \ {None} ELSE {}

(* The backend with Qt's two threads implements the producer's lease: no
   buffer goes back while a frame reads it. *)
LeaseSpec == Lease!LeaseSpec

-----------------------------------------------------------------------------
(***************************************************************************)
(* What makes SampledHeld inductive when the producer waits for            *)
(* frame_complete (MaxUnacked = 1).                                        *)
(***************************************************************************)

(* A pending image is an unanswered export, so none can replace it. *)
PendingUnacked == pendingImage # None => unacked = 1

(* The direct-composite path never uses the texture. *)
DirectQuiet ==
    direct => /\ pendingImage = None
              /\ boundImage = None
              /\ ~frameUpdateRequested

(* A frame_complete is owed for the image that the texture shows. *)
OwedIsBound ==
    frameUpdateRequested /\ viewAlive =>
        boundImage = pendingImage /\ pendingImage # None

(* The texture shows one of the two images the backend holds. *)
BoundIsCurrent ==
    backendAlive /\ boundImage # None =>
        boundImage \in {pendingImage, committedImage}

(* Only a frame in flight samples, and it samples the texture. *)
SampledIsBound ==
    /\ sampled # None => rendering /\ sampled = boundImage
    /\ paintNode => boundImage # None

(* Nothing queued for a view outlives it, and the backend outlives its view. *)
Lifetimes ==
    /\ viewAlive => backendAlive
    /\ ~viewAlive => /\ swapEvents = 0
                     /\ connections = 0
                     /\ strayConnections = 0
                     /\ ~attached

HandshakeInv ==
    /\ HeldExactly
    /\ DistinctSlots
    /\ PendingUnacked
    /\ DirectQuiet
    /\ OwedIsBound
    /\ BoundIsCurrent
    /\ SampledIsBound
    /\ Lifetimes

-----------------------------------------------------------------------------
(***************************************************************************)
(* Liveness.                                                               *)
(***************************************************************************)

(* A view that was put in its window once, and stays there, answers every
   export with a frame_complete, without waiting for the user to wake the
   render loop. *)
FramesCompleted ==
    (unacked > 0 /\ attached /\ connections = 1 /\ surfaceValid) ~>
        (unacked = 0 \/ ~attached)
=============================================================================

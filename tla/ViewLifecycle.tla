---------------------------- MODULE ViewLifecycle ----------------------------
(***************************************************************************)
(* How a WPEQtView comes to life and goes away: the window it is put in,   *)
(* the deferred createWebView(), and the settings that the application     *)
(* may give before, during and after the creation.                         *)
(*                                                                         *)
(* createWebView() runs on the GUI thread, either from configureWindow()   *)
(* when the window's scene graph is ready, or as the queued slot of        *)
(* sceneGraphInitialized, which the render thread emits with the GUI       *)
(* thread blocked.  The slot looks at window() when it runs, not when it   *)
(* was connected.  Inside createWebView() the first load emits urlChanged, *)
(* so the application's handlers can act in the middle of it.              *)
(***************************************************************************)
EXTENDS Naturals, FiniteSets

CONSTANTS
    Window,          \* the windows that the item can be put in
    NoWindow,        \* window() is null
    ValidSize,       \* item sizes with QSizeF::isValid()
    BadSize,         \* a negative size, and the QSizeF() of a new view
    Agent,           \* user agents
    StockAgent,      \* the agent WebKit uses for an empty string
    NoRequest,       \* no load was asked for yet
    Scale,           \* device scale factors
    UnitScale,       \* 1.0, also WebKit's default zoom level
    MaxConnections,  \* bound: connections made to sceneGraphInitialized
    MaxCreateCalls   \* bound: queued createWebView() calls

ASSUME LifecycleAssumption ==
    /\ NoWindow \notin Window
    /\ BadSize \notin ValidSize
    /\ StockAgent \in Agent
    /\ NoRequest \notin Agent
    /\ UnitScale \in Scale
    /\ MaxConnections \in Nat
    /\ MaxCreateCalls \in Nat

VARIABLES
    viewAlive,
    window,                      \* QQuickItem::window()
    ready,                       \* Qt: windows with a valid scene graph
    waiting,                     \* connections to sceneGraphInitialized
    createCalls,                 \* createWebView() slots queued
    phase,                       \* "none", "creating", "created"
    dead,                        \* qFatal() or a null dereference
    m_size,
    m_pendingUserAgent,
    m_pendingDeviceScaleFactor,
    m_webKitVisible,
    hasContent,                  \* m_url or m_html is not empty
    backendSize,                 \* WebKit: the size last dispatched
    userAgent,                   \* WebKit: settings
    zoomLevel,                   \* WebKit: zoom level
    activity,                    \* WebKit: activity state of the page
    handlers,                    \* WebKit signals connected to the view
    firstRequest,                \* the agent of the first load asked for
    announced                    \* webViewCreated() signals

qtVars == <<window, ready, waiting, createCalls>>
settingVars == <<m_size, m_pendingUserAgent, m_pendingDeviceScaleFactor,
                 m_webKitVisible, hasContent>>
webKitVars == <<backendSize, userAgent, zoomLevel, activity, handlers,
                firstRequest>>
vars == <<viewAlive, qtVars, phase, dead, settingVars, webKitVars, announced>>

MaybeSize == ValidSize \union {BadSize}
Signal == {"uri", "title", "progress", "load-changed", "load-failed"}
Foreground == {"visible", "focused"}

(* Type correctness. *)
TypeOK ==
    /\ viewAlive \in BOOLEAN
    /\ window \in Window \union {NoWindow}
    /\ ready \subseteq Window
    /\ waiting \in [Window -> 0..MaxConnections]
    /\ createCalls \in 0..MaxCreateCalls
    /\ phase \in {"none", "creating", "created"}
    /\ dead \in BOOLEAN
    /\ m_size \in MaybeSize
    /\ m_pendingUserAgent \in Agent
    /\ m_pendingDeviceScaleFactor \in Scale
    /\ m_webKitVisible \in BOOLEAN
    /\ hasContent \in BOOLEAN
    /\ backendSize \in MaybeSize
    /\ userAgent \in Agent
    /\ zoomLevel \in Scale
    /\ activity \subseteq Foreground \union {"in_window"}
    /\ handlers \subseteq Signal
    /\ firstRequest \in Agent \union {NoRequest}
    /\ announced \in {0, 1}

Init ==
    /\ viewAlive = TRUE
    /\ window = NoWindow
    /\ ready \in SUBSET Window
    /\ waiting = [w \in Window |-> 0]
    /\ createCalls = 0
    /\ phase = "none"
    /\ dead = FALSE
    /\ m_size = BadSize
    /\ m_pendingUserAgent = StockAgent
    /\ m_pendingDeviceScaleFactor = UnitScale
    /\ m_webKitVisible = TRUE
    /\ hasContent = FALSE
    /\ backendSize = BadSize
    /\ userAgent = StockAgent
    /\ zoomLevel = UnitScale
    /\ activity = {}
    /\ handlers = {}
    /\ firstRequest = NoRequest
    /\ announced = 0

(* m_webView is set as soon as the creation has started to load. *)
webView == phase # "none"

(* The GUI thread is in the application: between events, or in the handler
   of the urlChanged() that the first load emits. *)
AppRuns == viewAlive /\ ~dead /\ (phase = "creating" => hasContent)

(* The GUI thread takes its next event. *)
EventLoopRuns == ~dead /\ phase # "creating"

-----------------------------------------------------------------------------
(***************************************************************************)
(* createWebView().                                                        *)
(***************************************************************************)

(* No window, a window without an OpenGL context, or EGL refusing: the null
   dereference and the qFatal() both end the process. *)
CreateFails ==
    /\ dead' = TRUE
    /\ UNCHANGED <<phase, webKitVars>>

(* WPEQtViewBackend's constructor: the size the view has by then, and a page
   in the foreground. *)
ConstructBackend ==
    /\ backendSize' = m_size
    /\ activity' = Foreground \union {"in_window"}

(* Faulty variant: the settings come after the first load. *)
CreateSucceedsLoadingFirst(w) ==
    /\ w \in ready
    /\ phase' = "creating"
    /\ ConstructBackend
    /\ userAgent' = m_pendingUserAgent
    /\ zoomLevel' = m_pendingDeviceScaleFactor
    /\ handlers' = Signal
    /\ firstRequest' = IF hasContent THEN userAgent ELSE firstRequest
    /\ UNCHANGED dead

(* Faulty variant: the buffered scale is not looked at. *)
CreateSucceedsUnscaled(w) ==
    /\ w \in ready
    /\ phase' = "creating"
    /\ ConstructBackend
    /\ userAgent' = m_pendingUserAgent
    /\ handlers' = Signal
    /\ firstRequest' = IF hasContent THEN userAgent' ELSE firstRequest
    /\ UNCHANGED <<dead, zoomLevel>>

(* Up to and including the first load: the backend, the web view, its
   signals, the buffered settings, and the content that was set. *)
CreateSucceeds(w) ==
    /\ w \in ready
    /\ phase' = "creating"
    /\ ConstructBackend
    /\ userAgent' = m_pendingUserAgent
    /\ zoomLevel' = m_pendingDeviceScaleFactor
    /\ handlers' = Signal
    /\ firstRequest' = IF hasContent THEN userAgent' ELSE firstRequest
    /\ UNCHANGED dead

(* Faulty variant: createWebView() does not look at m_backend. *)
CreateWebViewAgain(w) == CreateFails \/ CreateSucceeds(w)

(* createWebView() with window() = w; it returns once m_backend is set. *)
CreateWebView(w) ==
    \/ /\ webView
       /\ UNCHANGED <<phase, dead, webKitVars>>
    \/ /\ ~webView
       /\ CreateFails \/ CreateSucceeds(w)

(* applyWebKitVisibility() on a page in state flags. *)
ApplyVisibility(flags, visible) ==
    IF visible THEN flags \union Foreground ELSE flags \ Foreground

(* Faulty variant: the creation ends without reconciling the visibility. *)
FinishCreateWithoutVisibility ==
    /\ viewAlive
    /\ ~dead
    /\ phase = "creating"
    /\ phase' = "created"
    /\ announced' = announced + 1
    /\ UNCHANGED <<viewAlive, qtVars, dead, settingVars, backendSize,
                   userAgent, zoomLevel, activity, handlers, firstRequest>>

(* The rest of createWebView(), after the load and its handlers. *)
FinishCreate ==
    /\ viewAlive
    /\ ~dead
    /\ phase = "creating"
    /\ phase' = "created"
    /\ activity' = ApplyVisibility(activity, m_webKitVisible)
    /\ announced' = announced + 1
    /\ UNCHANGED <<viewAlive, qtVars, dead, settingVars, backendSize,
                   userAgent, zoomLevel, handlers, firstRequest>>

-----------------------------------------------------------------------------
(***************************************************************************)
(* Windows.                                                                *)
(***************************************************************************)

(* The item leaves its window: configureWindow() returns. *)
LeaveWindow ==
    /\ AppRuns
    /\ window # NoWindow
    /\ window' = NoWindow
    /\ UNCHANGED <<viewAlive, ready, waiting, createCalls, phase, dead,
                   settingVars, webKitVars, announced>>

(* configureWindow() for an item that enters a window, perhaps straight from
   another one, without waiting for the scene graph. *)
EnterWindowUnconnected(w) ==
    /\ AppRuns
    /\ window # w
    /\ window' = w
    /\ \/ w \in ready /\ CreateWebView(w)
       \/ w \notin ready /\ UNCHANGED <<phase, dead, webKitVars>>
    /\ UNCHANGED <<viewAlive, ready, waiting, createCalls, settingVars,
                   announced>>

(* configureWindow() for an item that enters a window, perhaps straight from
   another one. *)
EnterWindow(w) ==
    /\ AppRuns
    /\ window # w
    /\ window' = w
    /\ \/ /\ w \in ready
          /\ CreateWebView(w)
          /\ UNCHANGED waiting
       \/ /\ w \notin ready
          /\ waiting[w] < MaxConnections
          /\ waiting' = [waiting EXCEPT ![w] = @ + 1]
          /\ UNCHANGED <<phase, dead, webKitVars>>
    /\ UNCHANGED <<viewAlive, ready, createCalls, settingVars, announced>>

(* Render thread: the scene graph of a window comes up, and each connection
   queues one call of the slot. *)
SceneGraphInitialized(w) ==
    /\ EventLoopRuns
    /\ w \notin ready
    /\ createCalls + waiting[w] <= MaxCreateCalls
    /\ ready' = ready \union {w}
    /\ createCalls' = createCalls + waiting[w]
    /\ UNCHANGED <<viewAlive, window, waiting, phase, dead, settingVars,
                   webKitVars, announced>>

(* A hidden window lets go of its OpenGL context. *)
SceneGraphInvalidated(w) ==
    /\ EventLoopRuns
    /\ w \in ready
    /\ ready' = ready \ {w}
    /\ UNCHANGED <<viewAlive, window, waiting, createCalls, phase, dead,
                   settingVars, webKitVars, announced>>

(* The slot connected to sceneGraphInitialized runs, wherever the item is by
   now. *)
CreateSlot ==
    /\ viewAlive
    /\ EventLoopRuns
    /\ createCalls > 0
    /\ createCalls' = createCalls - 1
    /\ CreateWebView(window)
    /\ UNCHANGED <<viewAlive, window, ready, waiting, settingVars, announced>>

-----------------------------------------------------------------------------
(***************************************************************************)
(* The application's settings.                                             *)
(***************************************************************************)

(* resize() ignores an invalid size. *)
Resize(size) == IF size \in ValidSize THEN size ELSE backendSize

GeometryChanged(size) ==
    /\ AppRuns
    /\ size # m_size
    /\ m_size' = size
    /\ backendSize' = IF webView THEN Resize(size) ELSE backendSize
    /\ UNCHANGED <<viewAlive, qtVars, phase, dead, m_pendingUserAgent,
                   m_pendingDeviceScaleFactor, m_webKitVisible, hasContent,
                   userAgent, zoomLevel, activity, handlers, firstRequest,
                   announced>>

SetUserAgent(agent) ==
    /\ AppRuns
    /\ m_pendingUserAgent' = agent
    /\ userAgent' = IF webView THEN agent ELSE userAgent
    /\ UNCHANGED <<viewAlive, qtVars, phase, dead, m_size,
                   m_pendingDeviceScaleFactor, m_webKitVisible, hasContent,
                   backendSize, zoomLevel, activity, handlers, firstRequest,
                   announced>>

SetDeviceScaleFactor(scale) ==
    /\ AppRuns
    /\ m_pendingDeviceScaleFactor' = scale
    /\ zoomLevel' = IF webView THEN scale ELSE zoomLevel
    /\ UNCHANGED <<viewAlive, qtVars, phase, dead, m_size,
                   m_pendingUserAgent, m_webKitVisible, hasContent,
                   backendSize, userAgent, activity, handlers, firstRequest,
                   announced>>

(* setWebKitVisible() with the value that is already set returns at once. *)
SetWebKitVisible(visible) ==
    /\ AppRuns
    /\ visible # m_webKitVisible
    /\ m_webKitVisible' = visible
    /\ activity' = IF webView THEN ApplyVisibility(activity, visible) ELSE activity
    /\ UNCHANGED <<viewAlive, qtVars, phase, dead, m_size,
                   m_pendingUserAgent, m_pendingDeviceScaleFactor, hasContent,
                   backendSize, userAgent, zoomLevel, handlers, firstRequest,
                   announced>>

(* The first setUrl() or loadHtml(). *)
SetContent ==
    /\ AppRuns
    /\ ~hasContent
    /\ hasContent' = TRUE
    /\ firstRequest' = IF webView THEN userAgent ELSE firstRequest
    /\ UNCHANGED <<viewAlive, qtVars, phase, dead, m_size,
                   m_pendingUserAgent, m_pendingDeviceScaleFactor,
                   m_webKitVisible, backendSize, userAgent, zoomLevel,
                   activity, handlers, announced>>

-----------------------------------------------------------------------------
(* Faulty variant: load-failed is left connected. *)
DestroyViewLeavingHandler ==
    /\ viewAlive
    /\ EventLoopRuns
    /\ viewAlive' = FALSE
    /\ window' = NoWindow
    /\ waiting' = [w \in Window |-> 0]
    /\ createCalls' = 0
    /\ handlers' = handlers \ {"uri", "title", "load-changed", "progress"}
    /\ UNCHANGED <<ready, phase, dead, settingVars, backendSize, userAgent,
                   zoomLevel, activity, firstRequest, announced>>

(* ~WPEQtView(): the web view may live on, for a script that still runs. *)
DestroyView ==
    /\ viewAlive
    /\ EventLoopRuns
    /\ viewAlive' = FALSE
    /\ window' = NoWindow
    /\ waiting' = [w \in Window |-> 0]
    /\ createCalls' = 0
    /\ handlers' = handlers \ {"uri", "title", "load-changed", "load-failed",
                               "progress"}
    /\ UNCHANGED <<ready, phase, dead, settingVars, backendSize, userAgent,
                   zoomLevel, activity, firstRequest, announced>>

-----------------------------------------------------------------------------
Next ==
    \/ LeaveWindow
    \/ \E w \in Window :
          \/ EnterWindow(w)
          \/ SceneGraphInitialized(w)
          \/ SceneGraphInvalidated(w)
    \/ CreateSlot
    \/ FinishCreate
    \/ \E size \in MaybeSize : GeometryChanged(size)
    \/ \E agent \in Agent : SetUserAgent(agent)
    \/ \E scale \in Scale : SetDeviceScaleFactor(scale)
    \/ \E visible \in BOOLEAN : SetWebKitVisible(visible)
    \/ SetContent
    \/ DestroyView

Spec == Init /\ [][Next]_vars

(* The GUI thread gets to its queued slots, and out of its handlers. *)
FairSpec == Spec /\ WF_vars(CreateSlot) /\ WF_vars(FinishCreate)

-----------------------------------------------------------------------------
(***************************************************************************)
(* Properties.                                                             *)
(***************************************************************************)

(* However often the item changes windows, and however many slots that has
   queued, one web view is made and announced once: none replaces another
   (createWebView() against the connections of configureWindow()). *)
OneWebView ==
    [][/\ phase # "none" => phase' # "none" /\ (phase' = "creating" => phase = "creating")
       /\ announced' # announced => phase = "creating" /\ phase' = "created"]_vars

(* The agent, the scale and the size asked for are in force, whether they
   were set before, inside or after createWebView(). *)
SettingsInForce ==
    webView =>
        /\ userAgent = m_pendingUserAgent
        /\ zoomLevel = m_pendingDeviceScaleFactor
        /\ m_size \in ValidSize => backendSize = m_size

(* The first load already carries the agent that the application has set:
   sites never see the stock one for a start (the comment of
   setUserAgent()). *)
FirstRequestCarriesAgent ==
    [][firstRequest' # firstRequest => firstRequest' = m_pendingUserAgent]_vars

(* A created page is in the foreground exactly when the application wants it
   there, also when it changed its mind while createWebView() ran; the page
   stays in its window. *)
VisibilityInForce ==
    phase = "created" =>
        activity = {"in_window"} \union (IF m_webKitVisible THEN Foreground ELSE {})

(* A web view that outlives its item calls no handler of it. *)
NoHandlerOnDeadView == ~viewAlive => handlers = {}

(* What makes the state properties above inductive: the three phases, the
   signals the destructor knows of, and activity flags that only the view's
   two calls have touched. *)
PhaseOK ==
    /\ phase \in {"none", "creating", "created"}
    /\ handlers \subseteq Signal

PageInWindow == webView => activity \ Foreground = {"in_window"}

LifecycleInv ==
    /\ PhaseOK
    /\ PageInWindow
    /\ SettingsInForce
    /\ VisibilityInForce
    /\ NoHandlerOnDeadView

(* WPEQtView.cpp on setUserAgent(): the creation is deferred until the scene
   graph is initialised.  It is never tried without one. *)
CreatedWhenReady ==
    [][phase = "none" /\ (phase' = "creating" \/ dead' # dead) => window' \in ready]_vars

(* A view in a window that can draw gets its web view, unless it is moved
   away or the process ends first. *)
ViewComesUp ==
    (viewAlive /\ window \in ready /\ ~dead) ~>
        (phase = "created" \/ window \notin ready \/ ~viewAlive \/ dead)
=============================================================================

------------------------- MODULE ViewLifecycleProofs -------------------------
(***************************************************************************)
(* Proofs about ViewLifecycle for every set of windows, sizes, agents and  *)
(* scales, and every bound: what the application asks of a view is in      *)
(* force whenever it asks, and one web view is made.                       *)
(***************************************************************************)
EXTENDS ViewLifecycle, TLAPS

LEMMA LifecycleInit == Init => LifecycleInv
  BY DEF Init, LifecycleInv, PhaseOK, PageInWindow, SettingsInForce,
         VisibilityInForce, NoHandlerOnDeadView, webView

(* A step that leaves the view, its settings and its page alone. *)
LEMMA LifecycleFrame ==
  ASSUME LifecycleInv,
         UNCHANGED <<viewAlive, phase, settingVars, webKitVars>>
  PROVE  LifecycleInv'
  BY DEF LifecycleInv, PhaseOK, PageInWindow, SettingsInForce,
         VisibilityInForce, NoHandlerOnDeadView, webView, settingVars,
         webKitVars

(* createWebView(), from whichever caller. *)
LEMMA LifecycleCreate ==
  ASSUME LifecycleInv, viewAlive, NEW w,
         CreateWebView(w), UNCHANGED <<viewAlive, settingVars>>
  PROVE  LifecycleInv'
<1>1. CASE webView \/ CreateFails
  BY <1>1, LifecycleFrame DEF CreateWebView, CreateFails
<1>2. CASE ~webView /\ CreateSucceeds(w)
  <2>1. /\ phase' = "creating"
        /\ PageInWindow'
        /\ SettingsInForce'
    BY <1>2 DEF CreateSucceeds, ConstructBackend, PageInWindow,
                SettingsInForce, settingVars, Foreground
  <2> QED
    BY <1>2, <2>1
    DEF CreateSucceeds, LifecycleInv, PhaseOK, VisibilityInForce,
        NoHandlerOnDeadView
<1> QED BY <1>1, <1>2 DEF CreateWebView

LEMMA LifecycleStep == LifecycleInv /\ [Next]_vars => LifecycleInv'
<1> SUFFICES ASSUME LifecycleInv, [Next]_vars PROVE LifecycleInv'
  OBVIOUS
<1>1. ASSUME NEW w \in Window, EnterWindow(w) PROVE LifecycleInv'
  <2>1. viewAlive /\ UNCHANGED <<viewAlive, settingVars>>
    BY <1>1 DEF EnterWindow, AppRuns
  <2>2. CASE CreateWebView(w)
    BY <2>1, <2>2, LifecycleCreate
  <2>3. CASE UNCHANGED <<phase, dead, webKitVars>>
    BY <2>1, <2>3, LifecycleFrame
  <2> QED BY <1>1, <2>2, <2>3 DEF EnterWindow
<1>2. CASE CreateSlot
  BY <1>2, LifecycleCreate DEF CreateSlot
<1>3. CASE FinishCreate
  <2>1. /\ PageInWindow'
        /\ VisibilityInForce'
    BY <1>3 DEF FinishCreate, ApplyVisibility, LifecycleInv, PageInWindow,
                VisibilityInForce, Foreground, webView, settingVars
  <2>2. SettingsInForce'
    BY <1>3 DEF FinishCreate, LifecycleInv, SettingsInForce, webView, settingVars
  <2> QED
    BY <1>3, <2>1, <2>2
    DEF FinishCreate, LifecycleInv, PhaseOK, NoHandlerOnDeadView
<1>4. ASSUME NEW visible \in BOOLEAN, SetWebKitVisible(visible)
      PROVE  LifecycleInv'
  <2>1. UNCHANGED <<viewAlive, phase, m_size, m_pendingUserAgent,
                    m_pendingDeviceScaleFactor, backendSize, userAgent,
                    zoomLevel, handlers>>
    BY <1>4 DEF SetWebKitVisible
  <2>2. PhaseOK' /\ SettingsInForce' /\ NoHandlerOnDeadView'
    BY <2>1 DEF LifecycleInv, PhaseOK, SettingsInForce, NoHandlerOnDeadView,
                webView
  <2>3. PageInWindow' /\ VisibilityInForce'
    BY <1>4 DEF SetWebKitVisible, ApplyVisibility, LifecycleInv, PhaseOK,
                PageInWindow, VisibilityInForce, Foreground, webView
  <2> QED BY <2>2, <2>3 DEF LifecycleInv
<1>5. ASSUME NEW size \in MaybeSize, GeometryChanged(size)
      PROVE  LifecycleInv'
  BY <1>5 DEF GeometryChanged, Resize, LifecycleInv, PhaseOK, PageInWindow,
              SettingsInForce, VisibilityInForce, NoHandlerOnDeadView, webView
<1>6. ASSUME NEW agent \in Agent, SetUserAgent(agent) PROVE LifecycleInv'
  BY <1>6 DEF SetUserAgent, LifecycleInv, PhaseOK, PageInWindow,
              SettingsInForce, VisibilityInForce, NoHandlerOnDeadView, webView
<1>7. ASSUME NEW scale \in Scale, SetDeviceScaleFactor(scale)
      PROVE  LifecycleInv'
  BY <1>7 DEF SetDeviceScaleFactor, LifecycleInv, PhaseOK, PageInWindow,
              SettingsInForce, VisibilityInForce, NoHandlerOnDeadView, webView
<1>8. CASE SetContent
  BY <1>8 DEF SetContent, LifecycleInv, PhaseOK, PageInWindow,
              SettingsInForce, VisibilityInForce, NoHandlerOnDeadView, webView
<1>9. CASE DestroyView
  <2>1. handlers' = {}
    BY <1>9 DEF DestroyView, LifecycleInv, PhaseOK, Signal
  <2> QED
    BY <1>9, <2>1
    DEF DestroyView, LifecycleInv, PhaseOK, PageInWindow, SettingsInForce,
        VisibilityInForce, NoHandlerOnDeadView, webView, settingVars
<1>10. CASE LeaveWindow
  BY <1>10, LifecycleFrame DEF LeaveWindow
<1>11. ASSUME NEW w \in Window,
              SceneGraphInitialized(w) \/ SceneGraphInvalidated(w)
       PROVE  LifecycleInv'
  BY <1>11, LifecycleFrame DEF SceneGraphInitialized, SceneGraphInvalidated
<1>12. CASE UNCHANGED vars
  BY <1>12, LifecycleFrame DEF vars
<1> QED
  BY <1>1, <1>2, <1>3, <1>4, <1>5, <1>6, <1>7, <1>8, <1>9, <1>10, <1>11, <1>12
  DEF Next

LEMMA LifecycleAlways == Spec => []LifecycleInv
  BY LifecycleInit, LifecycleStep, PTL DEF Spec

(* setUserAgent(), setDeviceScaleFactor() and geometryChanged() are in force
   in every web view, called before createWebView(), inside it or after. *)
THEOREM SettingsAlwaysInForce == Spec => []SettingsInForce
  BY LifecycleAlways, PTL DEF LifecycleInv

(* setWebKitVisible() decides the activity state of every created page. *)
THEOREM VisibilityAlwaysInForce == Spec => []VisibilityInForce
  BY LifecycleAlways, PTL DEF LifecycleInv

(* No web view calls a handler of a destroyed item. *)
THEOREM DeadViewsAreQuiet == Spec => []NoHandlerOnDeadView
  BY LifecycleAlways, PTL DEF LifecycleInv

-----------------------------------------------------------------------------
(* The two action properties follow from single steps. *)

LEMMA RequestStep ==
  LifecycleInv /\ [Next]_vars =>
    (firstRequest' # firstRequest => firstRequest' = m_pendingUserAgent)
<1> SUFFICES ASSUME LifecycleInv, Next, firstRequest' # firstRequest
             PROVE  firstRequest' = m_pendingUserAgent
  BY DEF vars, webKitVars
<1>1. ASSUME NEW w, CreateWebView(w) PROVE firstRequest' = m_pendingUserAgent
  BY <1>1 DEF CreateWebView, CreateFails, CreateSucceeds, webKitVars
<1>2. CASE SetContent
  BY <1>2 DEF SetContent, LifecycleInv, SettingsInForce
<1>3. CASE \E w \in Window : EnterWindow(w)
  BY <1>1, <1>3 DEF EnterWindow, webKitVars
<1>4. CASE CreateSlot
  BY <1>1, <1>4 DEF CreateSlot
<1> QED
  BY <1>2, <1>3, <1>4
  DEF Next, LeaveWindow, SceneGraphInitialized, SceneGraphInvalidated,
      FinishCreate, GeometryChanged, SetUserAgent, SetDeviceScaleFactor,
      SetWebKitVisible, DestroyView, webKitVars

(* The first load carries the agent the application had set by then. *)
THEOREM FirstRequestAgent == Spec => FirstRequestCarriesAgent
  BY LifecycleAlways, RequestStep, PTL DEF Spec, FirstRequestCarriesAgent

LEMMA OneWebViewStep ==
  [Next]_vars =>
    /\ phase # "none" => phase' # "none" /\ (phase' = "creating" => phase = "creating")
    /\ announced' # announced => phase = "creating" /\ phase' = "created"
<1> SUFFICES ASSUME [Next]_vars
             PROVE  /\ phase # "none" =>
                         phase' # "none" /\ (phase' = "creating" => phase = "creating")
                    /\ announced' # announced =>
                         phase = "creating" /\ phase' = "created"
  OBVIOUS
<1>1. ASSUME NEW w, CreateWebView(w), phase # "none" PROVE phase' = phase
  BY <1>1 DEF CreateWebView, webView
<1>2. CASE \E w \in Window : EnterWindow(w)
  BY <1>1, <1>2 DEF EnterWindow
<1>3. CASE CreateSlot
  BY <1>1, <1>3 DEF CreateSlot
<1>4. CASE FinishCreate
  BY <1>4 DEF FinishCreate
<1> QED
  BY <1>2, <1>3, <1>4
  DEF Next, LeaveWindow, SceneGraphInitialized, SceneGraphInvalidated,
      GeometryChanged, SetUserAgent, SetDeviceScaleFactor, SetWebKitVisible,
      SetContent, DestroyView, vars

(* createWebView() makes one web view and announces it once, whatever
   windows the item passes through. *)
THEOREM OneWebViewMade == Spec => OneWebView
  BY OneWebViewStep, PTL DEF Spec, OneWebView

-----------------------------------------------------------------------------
(***************************************************************************)
(* Type correctness, in three parts of the state.  The view is announced   *)
(* once only because its phase never comes back.                           *)
(***************************************************************************)
QtOK ==
    /\ viewAlive \in BOOLEAN
    /\ window \in Window \union {NoWindow}
    /\ ready \subseteq Window
    /\ waiting \in [Window -> 0..MaxConnections]
    /\ createCalls \in 0..MaxCreateCalls
    /\ dead \in BOOLEAN

SettingsOK ==
    /\ m_size \in MaybeSize
    /\ m_pendingUserAgent \in Agent
    /\ m_pendingDeviceScaleFactor \in Scale
    /\ m_webKitVisible \in BOOLEAN
    /\ hasContent \in BOOLEAN
    /\ backendSize \in MaybeSize
    /\ userAgent \in Agent
    /\ zoomLevel \in Scale
    /\ activity \subseteq Foreground \union {"in_window"}
    /\ firstRequest \in Agent \union {NoRequest}

AnnouncedOnce ==
    /\ phase # "created" => announced = 0
    /\ announced \in {0, 1}

(* What createWebView() leaves of the types. *)
LEMMA CreateTypes ==
  ASSUME QtOK, SettingsOK, AnnouncedOnce, PhaseOK, NEW w, CreateWebView(w)
  PROVE  /\ dead' \in BOOLEAN
         /\ UNCHANGED settingVars => SettingsOK'
         /\ announced' = announced => AnnouncedOnce'
<1>1. CASE webView
  BY <1>1 DEF CreateWebView, QtOK, SettingsOK, AnnouncedOnce, settingVars,
              webKitVars
<1>2. CASE CreateFails
  BY <1>2 DEF CreateFails, SettingsOK, AnnouncedOnce, settingVars, webKitVars
<1>3. CASE ~webView /\ CreateSucceeds(w)
  BY <1>3 DEF CreateSucceeds, ConstructBackend, webView, QtOK, SettingsOK,
              AnnouncedOnce, settingVars, Foreground
<1> QED BY <1>1, <1>2, <1>3 DEF CreateWebView

LEMMA LifecycleTypeStep ==
  ASSUME QtOK, SettingsOK, AnnouncedOnce, PhaseOK, [Next]_vars
  PROVE  QtOK' /\ SettingsOK' /\ AnnouncedOnce'
<1> USE LifecycleAssumption
<1>1. ASSUME NEW w \in Window, EnterWindow(w)
      PROVE  QtOK' /\ SettingsOK' /\ AnnouncedOnce'
  <2>1. UNCHANGED <<viewAlive, ready, createCalls, settingVars, announced>>
    BY <1>1 DEF EnterWindow
  <2>2. dead' \in BOOLEAN /\ SettingsOK' /\ AnnouncedOnce'
    <3>1. CASE CreateWebView(w)
      BY <2>1, <3>1, CreateTypes
    <3>2. CASE UNCHANGED <<phase, dead, webKitVars>>
      BY <2>1, <3>2 DEF QtOK, SettingsOK, AnnouncedOnce, settingVars, webKitVars
    <3> QED BY <1>1, <3>1, <3>2 DEF EnterWindow
  <2>3. waiting' \in [Window -> 0..MaxConnections]
    BY <1>1 DEF EnterWindow, QtOK
  <2>4. window' = w
    BY <1>1 DEF EnterWindow
  <2> QED BY <2>1, <2>2, <2>3, <2>4 DEF QtOK
<1>2. CASE CreateSlot
  <2>1. UNCHANGED <<viewAlive, window, ready, waiting, settingVars, announced>>
    BY <1>2 DEF CreateSlot
  <2>2. dead' \in BOOLEAN /\ SettingsOK' /\ AnnouncedOnce'
    BY <1>2, <2>1, CreateTypes DEF CreateSlot
  <2>3. createCalls' \in 0..MaxCreateCalls
    BY <1>2 DEF CreateSlot, QtOK
  <2> QED BY <2>1, <2>2, <2>3 DEF QtOK
<1>3. CASE FinishCreate
  BY <1>3 DEF FinishCreate, ApplyVisibility, Foreground, QtOK, SettingsOK,
              AnnouncedOnce, qtVars, settingVars
<1>4. CASE LeaveWindow
  BY <1>4 DEF LeaveWindow, QtOK, SettingsOK, AnnouncedOnce, settingVars, webKitVars
<1>5. ASSUME NEW w \in Window,
             SceneGraphInitialized(w) \/ SceneGraphInvalidated(w)
      PROVE  QtOK' /\ SettingsOK' /\ AnnouncedOnce'
  <2>1. UNCHANGED <<viewAlive, window, waiting, phase, dead, settingVars,
                    webKitVars, announced>>
    BY <1>5 DEF SceneGraphInitialized, SceneGraphInvalidated
  <2>2. ready' \subseteq Window /\ createCalls' \in 0..MaxCreateCalls
    BY <1>5 DEF SceneGraphInitialized, SceneGraphInvalidated, QtOK
  <2> QED
    BY <2>1, <2>2 DEF QtOK, SettingsOK, AnnouncedOnce, settingVars, webKitVars
<1>6. ASSUME NEW size \in MaybeSize, GeometryChanged(size)
      PROVE  QtOK' /\ SettingsOK' /\ AnnouncedOnce'
  BY <1>6 DEF GeometryChanged, Resize, MaybeSize, QtOK, SettingsOK,
              AnnouncedOnce, qtVars
<1>7. ASSUME NEW agent \in Agent, SetUserAgent(agent)
      PROVE  QtOK' /\ SettingsOK' /\ AnnouncedOnce'
  BY <1>7 DEF SetUserAgent, QtOK, SettingsOK, AnnouncedOnce, qtVars
<1>8. ASSUME NEW scale \in Scale, SetDeviceScaleFactor(scale)
      PROVE  QtOK' /\ SettingsOK' /\ AnnouncedOnce'
  BY <1>8 DEF SetDeviceScaleFactor, QtOK, SettingsOK, AnnouncedOnce, qtVars
<1>9. ASSUME NEW visible \in BOOLEAN, SetWebKitVisible(visible)
      PROVE  QtOK' /\ SettingsOK' /\ AnnouncedOnce'
  <2>1. activity' \subseteq Foreground \union {"in_window"}
    BY <1>9 DEF SetWebKitVisible, ApplyVisibility, SettingsOK
  <2> QED
    BY <1>9, <2>1 DEF SetWebKitVisible, QtOK, SettingsOK, AnnouncedOnce, qtVars
<1>10. CASE SetContent
  BY <1>10 DEF SetContent, QtOK, SettingsOK, AnnouncedOnce, qtVars
<1>11. CASE DestroyView
  <2>1. waiting' \in [Window -> 0..MaxConnections] /\ createCalls' \in 0..MaxCreateCalls
    BY <1>11 DEF DestroyView
  <2>2. QtOK'
    BY <1>11, <2>1 DEF DestroyView, QtOK
  <2> QED BY <1>11, <2>2 DEF DestroyView, SettingsOK, AnnouncedOnce, settingVars
<1>12. CASE UNCHANGED vars
  BY <1>12 DEF vars, qtVars, settingVars, webKitVars, QtOK, SettingsOK,
               AnnouncedOnce
<1> QED
  BY <1>1, <1>2, <1>3, <1>4, <1>5, <1>6, <1>7, <1>8, <1>9, <1>10, <1>11, <1>12
  DEF Next

(* Type correctness of the view, its settings and its page; in particular
   webViewCreated() is emitted once at most. *)
THEOREM LifecycleTypeCorrect == Spec => []TypeOK
<1>1. Init => QtOK /\ SettingsOK /\ AnnouncedOnce
  <2> SUFFICES ASSUME Init PROVE QtOK /\ SettingsOK /\ AnnouncedOnce
    OBVIOUS
  <2> USE LifecycleAssumption DEF Init
  <2>1. waiting \in [Window -> 0..MaxConnections] /\ createCalls \in 0..MaxCreateCalls
    OBVIOUS
  <2>2. QtOK
    BY <2>1 DEF QtOK
  <2>3. SettingsOK /\ AnnouncedOnce
    BY DEF SettingsOK, AnnouncedOnce, MaybeSize
  <2> QED BY <2>2, <2>3
<1>2. QtOK /\ SettingsOK /\ AnnouncedOnce /\ LifecycleInv /\ [Next]_vars
        => QtOK' /\ SettingsOK' /\ AnnouncedOnce'
  BY LifecycleTypeStep DEF LifecycleInv
<1>3. QtOK /\ SettingsOK /\ AnnouncedOnce /\ LifecycleInv => TypeOK
  BY DEF QtOK, SettingsOK, AnnouncedOnce, LifecycleInv, PhaseOK, TypeOK
<1> QED BY <1>1, <1>2, <1>3, LifecycleAlways, PTL DEF Spec

-----------------------------------------------------------------------------
(***************************************************************************)
(* The promise of the lazy creation holds for an item that stays where it  *)
(* was first put.                                                          *)
(***************************************************************************)

(* An item once in a window stays there as long as it lives, and its window
   does not lose its scene graph while a slot is queued. *)
StaysPut ==
    /\ window # NoWindow /\ viewAlive' => window' = window
    /\ createCalls > 0 /\ window \in ready => window \in ready'

(* The connections and the queued slots are those of the item's window. *)
WaitsAtHome ==
    /\ \A w \in Window : waiting[w] > 0 => window = w
    /\ createCalls > 0 => window \in ready

LEMMA WaitsAtHomeStep ==
  ASSUME TypeOK, WaitsAtHome, [Next]_vars, [StaysPut]_vars
  PROVE  WaitsAtHome'
<1> USE DEF TypeOK, WaitsAtHome
<1>1. CASE UNCHANGED vars
  BY <1>1 DEF vars, qtVars
<1> SUFFICES ASSUME Next, StaysPut PROVE WaitsAtHome'
  BY <1>1
<1>2. ASSUME NEW w \in Window, EnterWindow(w) PROVE WaitsAtHome'
  <2>1. window = NoWindow
    BY <1>2 DEF EnterWindow, AppRuns, StaysPut
  <2>2. /\ \A v \in Window : waiting[v] = 0
        /\ createCalls = 0
    BY <2>1, LifecycleAssumption
  <2>3. window' = w /\ createCalls' = 0
    BY <1>2, <2>2 DEF EnterWindow
  <2>4. \A v \in Window : v # w => waiting'[v] = 0
    BY <1>2, <2>2 DEF EnterWindow
  <2> QED BY <2>3, <2>4
<1>3. ASSUME NEW w \in Window, SceneGraphInitialized(w) PROVE WaitsAtHome'
  <2>1. /\ window' = window /\ waiting' = waiting
        /\ ready' = ready \union {w}
        /\ createCalls' = createCalls + waiting[w]
        /\ createCalls \in Nat /\ waiting[w] \in Nat
    BY <1>3, LifecycleAssumption DEF SceneGraphInitialized
  <2>2. CASE waiting[w] = 0
    BY <2>1, <2>2
  <2>3. CASE waiting[w] > 0
    BY <2>1, <2>3
  <2> QED BY <2>1, <2>2, <2>3
<1>4. ASSUME NEW w \in Window, SceneGraphInvalidated(w) PROVE WaitsAtHome'
  BY <1>4 DEF SceneGraphInvalidated, StaysPut
<1>5. CASE CreateSlot
  BY <1>5 DEF CreateSlot
<1>6. CASE LeaveWindow
  BY <1>6 DEF LeaveWindow, AppRuns, StaysPut
<1>7. CASE DestroyView
  BY <1>7 DEF DestroyView
<1>8. ASSUME UNCHANGED qtVars PROVE WaitsAtHome'
  BY <1>8 DEF qtVars
<1> QED
  BY <1>2, <1>3, <1>4, <1>5, <1>6, <1>7, <1>8
  DEF Next, FinishCreate, GeometryChanged, SetUserAgent, SetDeviceScaleFactor,
      SetWebKitVisible, SetContent

(* An item that stays in its first window, which keeps its scene graph while
   the slot is on its way, is never created without one: configureWindow()
   and the slot of sceneGraphInitialized both find the window ready. *)
THEOREM StayingItemIsCreatedWhenReady ==
  Spec /\ [][StaysPut]_vars => CreatedWhenReady
<1>1. Init => WaitsAtHome
  BY DEF Init, WaitsAtHome
<1>2. TypeOK /\ WaitsAtHome /\ [Next]_vars /\ [StaysPut]_vars => WaitsAtHome'
  BY WaitsAtHomeStep
<1>3. TypeOK /\ WaitsAtHome /\ [Next]_vars =>
        [phase = "none" /\ (phase' = "creating" \/ dead' # dead) =>
            window' \in ready]_vars
  <2> SUFFICES ASSUME WaitsAtHome, Next, phase = "none",
                      phase' = "creating" \/ dead' # dead
               PROVE  window' \in ready
    OBVIOUS
  <2>1. ASSUME NEW w \in Window, EnterWindow(w) PROVE window' \in ready
    BY <2>1 DEF EnterWindow
  <2>2. CASE CreateSlot
    BY <2>2 DEF CreateSlot, WaitsAtHome
  <2> QED
    BY <2>1, <2>2
    DEF Next, LeaveWindow, SceneGraphInitialized, SceneGraphInvalidated,
        FinishCreate, GeometryChanged, SetUserAgent, SetDeviceScaleFactor,
        SetWebKitVisible, SetContent, DestroyView
<1> QED
  BY <1>1, <1>2, <1>3, LifecycleTypeCorrect, PTL DEF Spec, CreatedWhenReady

-----------------------------------------------------------------------------
(***************************************************************************)
(* No creation is forgotten: the safety half of ViewComesUp.               *)
(***************************************************************************)

(* An item in a window and without a web view is still connected to that
   window, and once the window can draw a slot is queued that creates it,
   whatever windows the item has been in and however often the window has
   lost its scene graph. *)
CreationQueued ==
    viewAlive /\ ~dead /\ phase = "none" /\ window \in Window =>
        /\ waiting[window] > 0
        /\ window \in ready => createCalls > 0

LEMMA CreationQueuedStep ==
  ASSUME TypeOK, CreationQueued, [Next]_vars
  PROVE  CreationQueued'
<1> USE LifecycleAssumption DEF TypeOK, CreationQueued
<1>1. ASSUME NEW w, CreateWebView(w), phase = "none"
      PROVE  phase' = "creating" \/ dead'
  BY <1>1 DEF CreateWebView, webView, CreateFails, CreateSucceeds
<1>2. ASSUME NEW w \in Window, EnterWindow(w) PROVE CreationQueued'
  <2>1. CASE CreateWebView(w)
    <3>1. CASE phase = "none"
      BY <1>1, <2>1, <3>1
    <3>2. CASE phase # "none"
      BY <2>1, <3>2 DEF CreateWebView, webView
    <3> QED BY <3>1, <3>2
  <2>2. CASE ~CreateWebView(w)
    <3>1. /\ w \notin ready /\ ready' = ready
          /\ window' = w
          /\ waiting' = [waiting EXCEPT ![w] = @ + 1]
      BY <1>2, <2>2 DEF EnterWindow
    <3>2. waiting'[w] = waiting[w] + 1 /\ waiting[w] \in Nat
      BY <3>1
    <3> QED BY <3>1, <3>2
  <2> QED BY <2>1, <2>2
<1>3. ASSUME NEW w \in Window, SceneGraphInitialized(w) PROVE CreationQueued'
  <2>1. /\ UNCHANGED <<viewAlive, window, waiting, phase, dead>>
        /\ ready' = ready \union {w}
        /\ createCalls' = createCalls + waiting[w]
        /\ createCalls \in Nat /\ waiting[w] \in Nat
    BY <1>3 DEF SceneGraphInitialized
  <2> QED BY <2>1
<1>4. ASSUME NEW w \in Window, SceneGraphInvalidated(w) PROVE CreationQueued'
  BY <1>4 DEF SceneGraphInvalidated
<1>5. CASE CreateSlot
  <2>1. CreateWebView(window)
    BY <1>5 DEF CreateSlot
  <2>2. CASE phase = "none"
    BY <1>1, <2>1, <2>2
  <2>3. CASE phase # "none"
    BY <2>1, <2>3 DEF CreateWebView, webView
  <2> QED BY <2>2, <2>3
<1>6. CASE LeaveWindow
  BY <1>6 DEF LeaveWindow
<1>7. CASE DestroyView
  BY <1>7 DEF DestroyView
<1>8. CASE FinishCreate
  BY <1>8 DEF FinishCreate
<1>9. ASSUME UNCHANGED <<viewAlive, qtVars, phase, dead>> PROVE CreationQueued'
  BY <1>9 DEF qtVars
<1> QED
  BY <1>2, <1>3, <1>4, <1>5, <1>6, <1>7, <1>8, <1>9
  DEF Next, GeometryChanged, SetUserAgent, SetDeviceScaleFactor,
      SetWebKitVisible, SetContent, vars

(* configureWindow() and its connections forget no item: the slot that makes
   its web view is queued as soon as its window can draw. *)
THEOREM NoCreationForgotten == Spec => []CreationQueued
<1>1. Init => CreationQueued
  BY LifecycleAssumption DEF Init, CreationQueued
<1>2. TypeOK /\ CreationQueued /\ [Next]_vars => CreationQueued'
  BY CreationQueuedStep
<1> QED BY <1>1, <1>2, LifecycleTypeCorrect, PTL DEF Spec
=============================================================================

--------------------------- MODULE DirectComposite ---------------------------
(***************************************************************************)
(* The optional direct-composite path: WPEWaylandSubsurface and the parts  *)
(* of WPEQtView that create it, tell it where the item is and delete it.   *)
(*                                                                         *)
(* The Wayland compositor sees each object made and destroyed as a request *)
(* of its own, and Qt's render thread commits the parent surface between   *)
(* any two of them, so the creation and destroy() go one resource at a     *)
(* time.  The GUI thread handles nothing else meanwhile.                   *)
(***************************************************************************)
EXTENDS Naturals, Sequences, FiniteSets

CONSTANTS
    Place,       \* positions in the window, in device pixels
    Origin,      \* the position of a subsurface that was never moved
    Size,        \* sizes with a positive width and height
    EmptySize,   \* any other size
    UnitSize,    \* 1x1
    None         \* nothing drawn yet

ASSUME DirectAssumption ==
    /\ Origin \in Place
    /\ UnitSize \in Size
    /\ EmptySize \notin Size

(* What ensureCreated() makes, in its order; program and texture are objects
   of the EGL context. *)
AcquireOrder == <<"compositor", "subcompositor", "surface", "subsurface",
                  "eglContext", "eglWindow", "eglSurface", "program",
                  "texture">>

ContextObjects == {"program", "texture"}

(* Faulty variant: the sub-compositor is forgotten. *)
DestroyOrderLeaking == <<"eglSurface", "eglContext", "eglWindow", "subsurface",
                         "surface", "compositor">>

(* Faulty variant: the native window goes before the surface made on it. *)
DestroyOrderWindowFirst == <<"eglWindow", "eglSurface", "eglContext",
                             "subsurface", "surface", "subcompositor",
                             "compositor">>

(* What destroy() releases, in its order.  No context is current by then, so
   its glDelete calls do nothing and the context takes its objects along. *)
DestroyOrder == <<"eglSurface", "eglContext", "eglWindow", "subsurface",
                  "surface", "subcompositor", "compositor">>

Resource == {AcquireOrder[i] : i \in 1..Len(AcquireOrder)}

(* What must still exist while r does. *)
Needs == [r \in Resource |->
            CASE r = "surface" -> {"compositor"}
              [] r = "subsurface" -> {"surface", "subcompositor"}
              [] r = "eglWindow" -> {"surface"}
              [] r = "eglSurface" -> {"eglWindow"}
              [] r \in ContextObjects -> {"eglContext"}
              [] OTHER -> {}]

Rect == [place : Place, size : Size \union {EmptySize}]
NullRect == [place |-> Origin, size |-> EmptySize]

VARIABLES
    mode,               \* "acquiring", "active", "destroying", "gone"
    live,               \* resources made and not released
    attached,           \* the view's window() is not null
    itemRect,           \* the item's rectangle on the screen
    m_geometry,
    m_appliedGeometry,
    position,           \* compositor: the pending position
    onScreen,           \* compositor: the position in force
    bufferSize,         \* the size of the wl_egl_window
    drawn,              \* the last frame: its viewport and its buffer
    updatePosted        \* Qt: a queued QQuickWindow::update()

rectVars == <<m_geometry, m_appliedGeometry, position, bufferSize>>
vars == <<mode, live, attached, itemRect, rectVars, onScreen, drawn,
          updatePosted>>

(* Type correctness. *)
TypeOK ==
    /\ mode \in {"acquiring", "active", "destroying", "gone"}
    /\ live \subseteq Resource
    /\ attached \in BOOLEAN
    /\ itemRect \in Rect
    /\ m_geometry \in Rect
    /\ m_appliedGeometry \in Rect
    /\ position \in Place
    /\ onScreen \in Place
    /\ bufferSize \in Size
    /\ drawn \in [viewport : Size, buffer : Size] \union {None}
    /\ updatePosted \in BOOLEAN

(* createWebView() has just made the object, for an item in a window. *)
Init ==
    /\ mode = "acquiring"
    /\ live = {}
    /\ attached = TRUE
    /\ itemRect \in Rect
    /\ m_geometry = NullRect
    /\ m_appliedGeometry = NullRect
    /\ position = Origin
    /\ onScreen = Origin
    /\ bufferSize = UnitSize
    /\ drawn = None
    /\ updatePosted = FALSE

-----------------------------------------------------------------------------
(* Faulty variant: an empty rectangle is not recorded as applied. *)
SetGeometryUnrecorded(rect) ==
    /\ m_geometry' = rect
    /\ \/ /\ rect = m_appliedGeometry
          /\ UNCHANGED <<m_appliedGeometry, position, bufferSize>>
       \/ /\ rect # m_appliedGeometry
          /\ position' = rect.place
          /\ bufferSize' = IF rect.size \in Size THEN rect.size ELSE bufferSize
          /\ m_appliedGeometry' =
                IF rect.size \in Size THEN rect ELSE m_appliedGeometry

(* Faulty variant: the buffer keeps its first size. *)
SetGeometryWithoutResize(rect) ==
    /\ m_geometry' = rect
    /\ \/ /\ rect = m_appliedGeometry
          /\ UNCHANGED <<m_appliedGeometry, position>>
       \/ /\ rect # m_appliedGeometry
          /\ position' = rect.place
          /\ m_appliedGeometry' = rect
    /\ UNCHANGED bufferSize

(* setGeometry() of a valid subsurface. *)
SetGeometry(rect) ==
    /\ m_geometry' = rect
    /\ \/ /\ rect = m_appliedGeometry
          /\ UNCHANGED <<m_appliedGeometry, position, bufferSize>>
       \/ /\ rect # m_appliedGeometry
          /\ position' = rect.place
          /\ bufferSize' = IF rect.size \in Size THEN rect.size ELSE bufferSize
          /\ m_appliedGeometry' = rect

(* Faulty variant: the window is not nudged. *)
UpdateSubsurfaceGeometryQuietly(rect) ==
    /\ SetGeometry(rect)
    /\ UNCHANGED updatePosted

(* updateSubsurfaceGeometry() of a view in a window. *)
UpdateSubsurfaceGeometry(rect) ==
    /\ SetGeometry(rect)
    /\ updatePosted' = TRUE

Globals == {"compositor", "subcompositor"}

(* The next resource of ensureCreated(); the registry announces the two
   globals in either order. *)
NextToAcquire ==
    IF Globals \subseteq live THEN {AcquireOrder[Cardinality(live) + 1]}
                              ELSE Globals \ live

(* One step of ensureCreated(); the last one makes the object valid, and
   createWebView() goes on to place it. *)
Acquire ==
    /\ mode = "acquiring"
    /\ \E r \in NextToAcquire : live' = live \union {r}
    /\ \/ /\ live' # Resource
          /\ UNCHANGED <<mode, rectVars, updatePosted>>
       \/ /\ live' = Resource
          /\ mode' = "active"
          /\ UpdateSubsurfaceGeometry(itemRect)
    /\ UNCHANGED <<attached, itemRect, onScreen, drawn>>

(* A step of it fails: setupEgl()'s caller or createWebView()'s delete runs
   destroy() on what there is. *)
AcquireFails ==
    /\ mode = "acquiring"
    /\ mode' = "destroying"
    /\ UNCHANGED <<live, attached, itemRect, rectVars, onScreen, drawn,
                   updatePosted>>

(* ~WPEQtView() deletes the object. *)
DestroyView ==
    /\ mode = "active"
    /\ mode' = "destroying"
    /\ attached' = FALSE
    /\ UNCHANGED <<live, itemRect, rectVars, onScreen, drawn, updatePosted>>

(* destroy() releases the first of DestroyOrder that was made. *)
ReleaseNext ==
    /\ mode = "destroying"
    /\ \E i \in 1..Len(DestroyOrder) :
          /\ DestroyOrder[i] \in live
          /\ \A j \in 1..(i - 1) : DestroyOrder[j] \notin live
          /\ live' = live \ ({DestroyOrder[i]} \union
                (IF DestroyOrder[i] = "eglContext" THEN ContextObjects ELSE {}))
    /\ UNCHANGED <<mode, attached, itemRect, rectVars, onScreen, drawn,
                   updatePosted>>

Destroyed ==
    /\ mode = "destroying"
    /\ \A i \in 1..Len(DestroyOrder) : DestroyOrder[i] \notin live
    /\ mode' = "gone"
    /\ UNCHANGED <<live, attached, itemRect, rectVars, onScreen, drawn,
                   updatePosted>>

-----------------------------------------------------------------------------
(* geometryChanged(): without a window nothing is pushed, and nothing is
   pushed later either. *)
GeometryChanged(rect) ==
    /\ mode = "active"
    /\ rect # itemRect
    /\ itemRect' = rect
    /\ \/ attached /\ UpdateSubsurfaceGeometry(rect)
       \/ ~attached /\ UNCHANGED <<rectVars, updatePosted>>
    /\ UNCHANGED <<mode, live, attached, onScreen, drawn>>

(* An item further up moves: no call of the view. *)
AncestorMoved(place) ==
    /\ mode = "active"
    /\ itemRect' = [itemRect EXCEPT !.place = place]
    /\ UNCHANGED <<mode, live, attached, rectVars, onScreen, drawn,
                   updatePosted>>

(* windowChanged: configureWindow() does not look at the subsurface. *)
ChangeWindow ==
    /\ mode = "active"
    /\ attached' = ~attached
    /\ UNCHANGED <<mode, live, itemRect, rectVars, onScreen, drawn,
                   updatePosted>>

(* Faulty variant: an item without a size gives an empty viewport. *)
PresentUnclamped ==
    /\ mode = "active"
    /\ drawn' = [viewport |-> m_appliedGeometry.size, buffer |-> bufferSize]
    /\ UNCHANGED <<mode, live, attached, itemRect, rectVars, onScreen,
                   updatePosted>>

(* displayImage() presents a frame, or eglMakeCurrent() fails and nothing is
   drawn. *)
Present ==
    /\ mode = "active"
    /\ drawn' = [viewport |-> IF m_appliedGeometry.size \in Size
                              THEN m_appliedGeometry.size ELSE UnitSize,
                 buffer |-> bufferSize]
    /\ UNCHANGED <<mode, live, attached, itemRect, rectVars, onScreen,
                   updatePosted>>

(* The window's frame, asked for or not, commits the parent surface, which
   puts the pending position in force. *)
ParentCommit ==
    /\ onScreen' = position
    /\ updatePosted' = FALSE
    /\ UNCHANGED <<mode, live, attached, itemRect, rectVars, drawn>>

-----------------------------------------------------------------------------
Next ==
    \/ Acquire
    \/ AcquireFails
    \/ DestroyView
    \/ ReleaseNext
    \/ Destroyed
    \/ \E rect \in Rect : GeometryChanged(rect)
    \/ \E place \in Place : AncestorMoved(place)
    \/ ChangeWindow
    \/ Present
    \/ ParentCommit

Spec == Init /\ [][Next]_vars

(* A posted update gets its frame; the GUI thread gets through ensureCreated()
   and destroy().  Frames nobody asked for are not promised. *)
FairSpec ==
    /\ Spec
    /\ WF_vars(updatePosted /\ ParentCommit)
    /\ WF_vars(Acquire)
    /\ WF_vars(ReleaseNext \/ Destroyed)

-----------------------------------------------------------------------------
(* Wherever ensureCreated() failed and whenever the view goes, destroy()
   leaves none of the nine resources behind. *)
NothingLeft == mode = "gone" => live = {}

(* At no moment, in the making or in destroy(), does the compositor or EGL
   hold an object whose base is gone. *)
BasesOutlive == \A r \in live : Needs[r] \subseteq live

(* The rectangle last pushed is the one in force for the compositor and the
   buffer, through pushes that change nothing and rectangles of no size. *)
PushedRectInForce ==
    mode = "active" =>
        /\ m_appliedGeometry = m_geometry
        /\ position = m_geometry.place
        /\ m_geometry.size \in Size => bufferSize = m_geometry.size

(* A frame drawn for an item of some size fills its buffer. *)
FrameFillsBuffer ==
    [][drawn' # drawn /\ m_appliedGeometry.size \in Size =>
          drawn'.viewport = drawn'.buffer]_vars

(* A new position is on the screen before long, although set_position waits
   for a commit of the window that web frames do not cause. *)
PositionReachesScreen == onScreen # position ~> onScreen = position
=============================================================================

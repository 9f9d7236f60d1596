------------------------ MODULE DirectCompositeProofs ------------------------
(***************************************************************************)
(* Proofs about DirectComposite for every set of places and sizes: the     *)
(* nine resources are made and released in a sound order wherever the      *)
(* creation fails, and the rectangle last pushed is the one in force.      *)
(***************************************************************************)
EXTENDS DirectComposite, FiniteSetTheorems, TLAPS

-----------------------------------------------------------------------------
(* The first k resources in the order of ensureCreated(). *)
Stage(k) == {AcquireOrder[i] : i \in 1..k}

LEMMA Orders ==
  /\ Resource = {"compositor", "subcompositor", "surface", "subsurface",
                 "eglContext", "eglWindow", "eglSurface", "program", "texture"}
  /\ {DestroyOrder[i] : i \in 1..7} = Resource \ ContextObjects
  /\ Len(AcquireOrder) = 9
  /\ Len(DestroyOrder) = 7
  BY DEF Resource, AcquireOrder, DestroyOrder, ContextObjects

LEMMA Stages ==
  /\ Stage(0) = {}
  /\ Stage(9) = Resource
  /\ \A k \in 0..8 : /\ Stage(k + 1) = Stage(k) \union {AcquireOrder[k + 1]}
                     /\ AcquireOrder[k + 1] \notin Stage(k)
<1>1. Stage(0) = {} /\ Stage(9) = Resource
  BY DEF Stage, Resource, AcquireOrder
<1>2. ASSUME NEW k \in 0..8
      PROVE  /\ Stage(k + 1) = Stage(k) \union {AcquireOrder[k + 1]}
             /\ AcquireOrder[k + 1] \notin Stage(k)
  <2>1. 1..k + 1 = (1..k) \union {k + 1}
    OBVIOUS
  <2>2. \A i \in 1..k : AcquireOrder[i] # AcquireOrder[k + 1]
    BY DEF AcquireOrder
  <2> QED BY <2>1, <2>2 DEF Stage
<1> QED BY <1>1, <1>2

(* How many resources there are tells ensureCreated() which one is next. *)
LEMMA StageSize ==
  \A k \in 0..9 : IsFiniteSet(Stage(k)) /\ Cardinality(Stage(k)) = k
<1> DEFINE P(k) == IsFiniteSet(Stage(k)) /\ Cardinality(Stage(k)) = k
<1>1. P(0)
  BY Stages, FS_EmptySet
<1>2. ASSUME NEW k \in 0..8, P(k) PROVE P(k + 1)
  <2>1. /\ Stage(k + 1) = Stage(k) \union {AcquireOrder[k + 1]}
        /\ AcquireOrder[k + 1] \notin Stage(k)
    BY Stages
  <2>2. IsFiniteSet(Stage(k)) /\ Cardinality(Stage(k)) = k
    BY <1>2
  <2> HIDE DEF P
  <2>3. IsFiniteSet(Stage(k + 1)) /\ Cardinality(Stage(k + 1)) = k + 1
    BY <2>1, <2>2, FS_AddElement
  <2> QED BY <2>3 DEF P
<1> HIDE DEF P
<1>3. P(1) /\ P(2) /\ P(3)
  BY <1>1, <1>2
<1>4. P(4) /\ P(5) /\ P(6)
  BY <1>2, <1>3
<1>5. P(7) /\ P(8) /\ P(9)
  BY <1>2, <1>4
<1>6. \A k \in 0..9 : k \in {0, 1, 2, 3, 4, 5, 6, 7, 8, 9}
  OBVIOUS
<1>7. \A k \in 0..9 : P(k)
  BY <1>1, <1>3, <1>4, <1>5, <1>6
<1> QED BY <1>7 DEF P

(* What one step of ensureCreated() makes of the resources there are. *)
Making == live = {"subcompositor"} \/ \E k \in 0..8 : live = Stage(k)

LEMMA SmallStages ==
  /\ Stage(1) = {"compositor"}
  /\ Stage(2) = {"compositor", "subcompositor"}
  /\ \A k \in 2..9 : Globals \subseteq Stage(k)
<1>1. Stage(1) = {"compositor"} /\ Stage(2) = {"compositor", "subcompositor"}
  BY DEF Stage, AcquireOrder
<1>2. ASSUME NEW k \in 2..9 PROVE Globals \subseteq Stage(k)
  <2>1. AcquireOrder[1] \in Stage(k) /\ AcquireOrder[2] \in Stage(k)
    BY DEF Stage
  <2> QED BY <2>1 DEF AcquireOrder, Globals
<1> QED BY <1>1, <1>2

LEMMA NextStage ==
  ASSUME Making, NEW r \in NextToAcquire
  PROVE  \/ live \union {r} = {"subcompositor"}
         \/ \E k \in 1..9 : live \union {r} = Stage(k)
<1>1. CASE live = {"subcompositor"}
  <2>1. r = "compositor"
    BY <1>1 DEF NextToAcquire, Globals
  <2>2. live \union {r} = Stage(2)
    BY <1>1, <2>1, SmallStages
  <2> QED BY <2>2
<1>2. CASE live = Stage(0)
  <2>1. live = {}
    BY <1>2, Stages
  <2>2. r \in {"compositor", "subcompositor"}
    BY <2>1 DEF NextToAcquire, Globals
  <2>3. live \union {r} = {r}
    BY <2>1
  <2>4. live \union {r} = {"subcompositor"} \/ live \union {r} = Stage(1)
    BY <2>2, <2>3, SmallStages
  <2> QED BY <2>4
<1>3. CASE live = Stage(1)
  <2>1. r = "subcompositor"
    BY <1>3, SmallStages DEF NextToAcquire, Globals
  <2>2. live \union {r} = Stage(2)
    BY <1>3, <2>1, SmallStages
  <2> QED BY <2>2
<1>4. ASSUME NEW k \in 2..8, live = Stage(k)
      PROVE  \E n \in 1..9 : live \union {r} = Stage(n)
  <2>1. Globals \subseteq live /\ Cardinality(live) = k
    BY <1>4, SmallStages, StageSize
  <2>2. r = AcquireOrder[k + 1]
    BY <2>1 DEF NextToAcquire
  <2>3. live \union {r} = Stage(k + 1)
    BY <1>4, <2>2, Stages
  <2> QED BY <2>3
<1>5. \A k \in 0..8 : k = 0 \/ k = 1 \/ k \in 2..8
  OBVIOUS
<1> QED BY <1>1, <1>2, <1>3, <1>4, <1>5 DEF Making

(* The order of ensureCreated() is sound: nothing comes before its base. *)
LEMMA StageHasBases ==
  \A k \in 0..9 : \A r \in Stage(k) : Needs[r] \subseteq Stage(k)
<1> SUFFICES ASSUME NEW k \in 0..9, NEW i \in 1..k
             PROVE  Needs[AcquireOrder[i]] \subseteq Stage(k)
  BY DEF Stage
<1>1. AcquireOrder[i] \in Resource
  BY Orders DEF Resource
<1>2. ASSUME NEW b \in Needs[AcquireOrder[i]]
      PROVE  \E j \in 1..i : b = AcquireOrder[j]
  <2>1. i \in {1, 2, 3, 4, 5, 6, 7, 8, 9}
    OBVIOUS
  <2> USE <1>1, <1>2 DEF Needs, AcquireOrder, ContextObjects
  <2>2. CASE i \in {1, 2, 3}
    BY <2>2
  <2>3. CASE i \in {4, 5, 6}
    BY <2>3
  <2>4. CASE i \in {7, 8, 9}
    BY <2>4
  <2> QED BY <2>1, <2>2, <2>3, <2>4
<1> QED BY <1>2 DEF Stage

-----------------------------------------------------------------------------
(***************************************************************************)
(* The resources.  The count tells where ensureCreated() is only as long   *)
(* as it has made nothing out of order, which MakingInv says; once         *)
(* destroy() has begun, BasesOutlive carries itself.                       *)
(***************************************************************************)
MakingInv == mode = "acquiring" => Making

ResourceInv ==
    /\ live \subseteq Resource
    /\ MakingInv
    /\ BasesOutlive
    /\ NothingLeft

LEMMA ResourceInit == Init => ResourceInv
<1> SUFFICES ASSUME Init PROVE ResourceInv
  OBVIOUS
<1>1. Making
  BY Stages DEF Init, Making
<1> QED BY <1>1 DEF Init, ResourceInv, MakingInv, BasesOutlive, NothingLeft

(* A step that makes or releases nothing and does not start or end a
   destroy(). *)
LEMMA ResourceFrame ==
  ASSUME ResourceInv, live' = live, mode' = mode \/ mode' = "destroying"
  PROVE  ResourceInv'
  BY DEF ResourceInv, MakingInv, Making, BasesOutlive, NothingLeft

LEMMA ResourceAcquire ==
  ASSUME ResourceInv, Acquire
  PROVE  ResourceInv'
<1>1. PICK r \in NextToAcquire : live' = live \union {r}
  BY DEF Acquire
<1>2. Making /\ mode = "acquiring"
  BY DEF Acquire, ResourceInv, MakingInv
<1>3. live' = {"subcompositor"} \/ \E k \in 1..9 : live' = Stage(k)
  BY <1>1, <1>2, NextStage
<1>4. /\ mode' = "acquiring" => live' # Resource
      /\ mode' \in {"acquiring", "active"}
  BY <1>2 DEF Acquire
<1>5. CASE live' = {"subcompositor"}
  <2>1. live' \subseteq Resource /\ Needs["subcompositor"] = {}
    BY <1>5, Orders DEF Needs, ContextObjects
  <2> QED
    BY <1>4, <1>5, <2>1
    DEF ResourceInv, MakingInv, Making, BasesOutlive, NothingLeft
<1>6. ASSUME NEW k \in 1..9, live' = Stage(k)
      PROVE  ResourceInv'
  <2>1. live' \subseteq Resource
    <3>1. \A i \in 1..k : AcquireOrder[i] \in Resource
      BY Orders DEF Resource
    <3> QED BY <1>6, <3>1 DEF Stage
  <2>2. BasesOutlive'
    BY <1>6, StageHasBases DEF BasesOutlive
  <2>3. mode' = "acquiring" => k \in 0..8
    BY <1>4, <1>6, Stages
  <2>4. MakingInv'
    BY <1>6, <2>3 DEF MakingInv, Making
  <2> QED BY <1>4, <2>1, <2>2, <2>4 DEF ResourceInv, NothingLeft
<1> QED BY <1>3, <1>5, <1>6

(* What destroy() releases is the base of nothing that is left: everything
   it releases earlier is gone by then. *)
LEMMA ReleasedIsFree ==
  ASSUME NEW i \in 1..7, \A j \in 1..(i - 1) : DestroyOrder[j] \notin live,
         live \subseteq Resource, NEW r \in live,
         DestroyOrder[i] \in Needs[r]
  PROVE  DestroyOrder[i] = "eglContext" /\ r \in ContextObjects
<1>1. i \in {1, 2, 3, 4, 5, 6, 7} /\ r \in Resource
  OBVIOUS
<1>2. /\ i > 1 => "eglSurface" \notin live
      /\ i > 4 => "eglWindow" \notin live /\ "subsurface" \notin live
      /\ i > 5 => "surface" \notin live
  <2>1. /\ i > 1 => DestroyOrder[1] \notin live
        /\ i > 4 => DestroyOrder[3] \notin live /\ DestroyOrder[4] \notin live
        /\ i > 5 => DestroyOrder[5] \notin live
    OBVIOUS
  <2> QED BY <2>1 DEF DestroyOrder
<1>3. r \in {"surface", "subsurface", "eglWindow", "eglSurface"} \union ContextObjects
  BY <1>1 DEF Needs
<1> USE DEF Needs, DestroyOrder
<1>4. CASE r = "surface"
  BY <1>1, <1>2, <1>4
<1>5. CASE r = "subsurface"
  BY <1>1, <1>2, <1>5
<1>6. CASE r = "eglWindow"
  BY <1>1, <1>2, <1>6
<1>7. CASE r = "eglSurface"
  BY <1>1, <1>2, <1>7
<1>8. CASE r \in ContextObjects
  BY <1>1, <1>8 DEF ContextObjects
<1> QED BY <1>3, <1>4, <1>5, <1>6, <1>7, <1>8

LEMMA ResourceRelease ==
  ASSUME ResourceInv, ReleaseNext
  PROVE  ResourceInv'
<1>1. PICK i \in 1..7 :
         /\ \A j \in 1..(i - 1) : DestroyOrder[j] \notin live
         /\ live' = live \ ({DestroyOrder[i]} \union
                (IF DestroyOrder[i] = "eglContext" THEN ContextObjects ELSE {}))
  BY Orders DEF ReleaseNext
<1>2. /\ live' \subseteq live
      /\ mode' = "destroying"
  BY <1>1 DEF ReleaseNext
<1>3. ASSUME NEW r \in live', NEW b \in Needs[r] PROVE b \in live'
  <2>1. r \in live /\ b \in live /\ live \subseteq Resource
    BY <1>2, <1>3 DEF ResourceInv, BasesOutlive
  <2>2. r \in Resource /\ b \notin ContextObjects
    BY <2>1 DEF Needs, ContextObjects
  <2>3. b # DestroyOrder[i]
    BY <1>1, <1>3, <2>1, ReleasedIsFree
  <2> QED BY <1>1, <2>1, <2>2, <2>3
<1> QED
  BY <1>2, <1>3 DEF ResourceInv, MakingInv, BasesOutlive, NothingLeft

(* The end of destroy(): only objects of the context could be left, and the
   context has taken them along. *)
LEMMA ResourceDestroyed ==
  ASSUME ResourceInv, Destroyed
  PROVE  ResourceInv'
<1>1. \A i \in 1..7 : DestroyOrder[i] \notin live
  BY Orders DEF Destroyed
<1>2. live \subseteq ContextObjects
  BY <1>1, Orders DEF ResourceInv
<1>3. "eglContext" \notin live
  <2>1. DestroyOrder[2] = "eglContext"
    BY DEF DestroyOrder
  <2> QED BY <1>1, <2>1
<1>4. ASSUME NEW r \in live PROVE FALSE
  <2>1. r \in Resource /\ r \in ContextObjects
    BY <1>2, <1>4 DEF ResourceInv
  <2>2. Needs[r] = {"eglContext"}
    BY <2>1 DEF Needs, ContextObjects
  <2> QED BY <1>3, <1>4, <2>2 DEF ResourceInv, BasesOutlive
<1> QED
  BY <1>4 DEF Destroyed, ResourceInv, MakingInv, BasesOutlive, NothingLeft

LEMMA ResourceStep == ResourceInv /\ [Next]_vars => ResourceInv'
<1> SUFFICES ASSUME ResourceInv, [Next]_vars PROVE ResourceInv'
  OBVIOUS
<1>1. CASE AcquireFails \/ DestroyView \/ ChangeWindow \/ Present \/ ParentCommit
  BY <1>1, ResourceFrame
  DEF AcquireFails, DestroyView, ChangeWindow, Present, ParentCommit
<1>2. ASSUME NEW rect \in Rect, GeometryChanged(rect) PROVE ResourceInv'
  BY <1>2, ResourceFrame DEF GeometryChanged
<1>3. ASSUME NEW place \in Place, AncestorMoved(place) PROVE ResourceInv'
  BY <1>3, ResourceFrame DEF AncestorMoved
<1>4. CASE UNCHANGED vars
  BY <1>4, ResourceFrame DEF vars
<1> QED
  BY <1>1, <1>2, <1>3, <1>4, ResourceAcquire, ResourceRelease, ResourceDestroyed
  DEF Next

LEMMA ResourceAlways == Spec => []ResourceInv
  BY ResourceInit, ResourceStep, PTL DEF Spec

(* Wherever ensureCreated() fails and whenever the view is deleted, destroy()
   releases every resource that was made. *)
THEOREM DestroyLeavesNothing == Spec => []NothingLeft
  BY ResourceAlways, PTL DEF ResourceInv

(* ensureCreated() and destroy() never leave the compositor or EGL with an
   object whose base is gone, also between two of their calls. *)
THEOREM BasesAlwaysOutlive == Spec => []BasesOutlive
  BY ResourceAlways, PTL DEF ResourceInv

-----------------------------------------------------------------------------
(***************************************************************************)
(* The rectangle.  What is in force follows the last push from the start,  *)
(* before the object is valid as well.                                     *)
(***************************************************************************)
RectOK ==
    /\ itemRect \in Rect
    /\ m_geometry \in Rect
    /\ m_appliedGeometry \in Rect
    /\ position \in Place
    /\ bufferSize \in Size

RectInForce ==
    /\ m_appliedGeometry = m_geometry
    /\ position = m_geometry.place
    /\ m_geometry.size \in Size => bufferSize = m_geometry.size

(* A push, whatever was in force before it. *)
LEMMA Pushing ==
  ASSUME RectOK, RectInForce, NEW rect \in Rect, SetGeometry(rect)
  PROVE  /\ m_geometry' \in Rect
         /\ m_appliedGeometry' \in Rect
         /\ position' \in Place
         /\ bufferSize' \in Size
         /\ RectInForce'
<1>1. rect.place \in Place /\ rect.size \in Size \union {EmptySize}
  BY DEF Rect
<1>2. CASE rect = m_appliedGeometry
  BY <1>2 DEF SetGeometry, RectOK, RectInForce
<1>3. CASE rect # m_appliedGeometry
  BY <1>1, <1>3 DEF SetGeometry, RectOK, RectInForce
<1> QED BY <1>2, <1>3

LEMMA RectStep == RectOK /\ RectInForce /\ [Next]_vars => RectOK' /\ RectInForce'
<1> SUFFICES ASSUME RectOK, RectInForce, [Next]_vars
             PROVE  RectOK' /\ RectInForce'
  OBVIOUS
<1>1. ASSUME UNCHANGED rectVars, itemRect' \in Rect
      PROVE  RectOK' /\ RectInForce'
  BY <1>1 DEF rectVars, RectOK, RectInForce
<1>2. ASSUME NEW rect \in Rect, UpdateSubsurfaceGeometry(rect), itemRect' \in Rect
      PROVE  RectOK' /\ RectInForce'
  BY <1>2, Pushing DEF UpdateSubsurfaceGeometry, RectOK
<1>3. itemRect \in Rect
  BY DEF RectOK
<1>4. CASE Acquire
  BY <1>1, <1>2, <1>3, <1>4 DEF Acquire
<1>5. ASSUME NEW rect \in Rect, GeometryChanged(rect)
      PROVE  RectOK' /\ RectInForce'
  BY <1>1, <1>2, <1>5 DEF GeometryChanged
<1>6. ASSUME NEW place \in Place, AncestorMoved(place)
      PROVE  RectOK' /\ RectInForce'
  <2>1. itemRect' \in Rect
    BY <1>3, <1>6 DEF AncestorMoved, Rect
  <2> QED BY <1>1, <1>6, <2>1 DEF AncestorMoved
<1>7. CASE AcquireFails \/ DestroyView \/ ReleaseNext \/ Destroyed
  BY <1>1, <1>3, <1>7 DEF AcquireFails, DestroyView, ReleaseNext, Destroyed
<1>8. CASE ChangeWindow \/ Present
  BY <1>1, <1>3, <1>8 DEF ChangeWindow, Present
<1>9. CASE ParentCommit
  BY <1>1, <1>3, <1>9 DEF ParentCommit
<1>10. CASE UNCHANGED vars
  BY <1>1, <1>3, <1>10 DEF vars
<1> QED
  BY <1>4, <1>5, <1>6, <1>7, <1>8, <1>9, <1>10 DEF Next

LEMMA RectAlways == Spec => [](RectOK /\ RectInForce)
<1>1. Init => RectOK /\ RectInForce
  BY DirectAssumption DEF Init, RectOK, RectInForce, NullRect, Rect
<1> QED BY <1>1, RectStep, PTL DEF Spec

(* setGeometry() puts in force what updateSubsurfaceGeometry() pushes, through
   the early return for an equal rectangle and through empty ones. *)
THEOREM PushedRectIsInForce == Spec => []PushedRectInForce
<1>1. RectOK /\ RectInForce => PushedRectInForce
  BY DEF RectInForce, PushedRectInForce
<1> QED BY <1>1, RectAlways, PTL

(* present() draws over the whole buffer for every rectangle of some
   size. *)
THEOREM FramesFillBuffers == Spec => FrameFillsBuffer
<1>1. RectOK /\ RectInForce /\ [Next]_vars
        => [drawn' # drawn /\ m_appliedGeometry.size \in Size =>
               drawn'.viewport = drawn'.buffer]_vars
  <2> SUFFICES ASSUME RectInForce, Next, drawn' # drawn,
                      m_appliedGeometry.size \in Size
               PROVE  drawn'.viewport = drawn'.buffer
    BY DEF vars
  <2>1. Present
    BY DEF Next, Acquire, AcquireFails, DestroyView, ReleaseNext, Destroyed,
           GeometryChanged, AncestorMoved, ChangeWindow, ParentCommit
  <2> QED BY <2>1 DEF Present, RectInForce
<1> QED BY <1>1, RectAlways, PTL DEF Spec, FrameFillsBuffer

-----------------------------------------------------------------------------
(* Type correctness of the subsurface, for every set of places and sizes. *)
THEOREM DirectTypeCorrect == Spec => []TypeOK
<1> DEFINE Rest == /\ mode \in {"acquiring", "active", "destroying", "gone"}
                   /\ attached \in BOOLEAN
                   /\ onScreen \in Place
                   /\ drawn \in [viewport : Size, buffer : Size] \union {None}
                   /\ updatePosted \in BOOLEAN
<1>1. Init => Rest
  BY DirectAssumption DEF Init
<1>2. RectOK /\ Rest /\ [Next]_vars => Rest'
  <2> SUFFICES ASSUME RectOK, Rest, [Next]_vars PROVE Rest'
    OBVIOUS
  <2>1. CASE Acquire
    BY <2>1 DEF Acquire, UpdateSubsurfaceGeometry
  <2>2. ASSUME NEW rect \in Rect, GeometryChanged(rect) PROVE Rest'
    BY <2>2 DEF GeometryChanged, UpdateSubsurfaceGeometry
  <2>3. ASSUME NEW place \in Place, AncestorMoved(place) PROVE Rest'
    BY <2>3 DEF AncestorMoved
  <2>4. CASE Present
    <3>1. drawn' \in [viewport : Size, buffer : Size]
      BY <2>4, DirectAssumption DEF Present, RectOK
    <3> QED BY <2>4, <3>1 DEF Present
  <2>5. CASE AcquireFails \/ DestroyView \/ ReleaseNext \/ Destroyed
    BY <2>5 DEF AcquireFails, DestroyView, ReleaseNext, Destroyed
  <2>6. CASE ChangeWindow
    BY <2>6 DEF ChangeWindow
  <2>7. CASE ParentCommit
    BY <2>7 DEF ParentCommit, RectOK
  <2>8. CASE UNCHANGED vars
    BY <2>8 DEF vars
  <2> QED BY <2>1, <2>2, <2>3, <2>4, <2>5, <2>6, <2>7, <2>8 DEF Next
<1>3. ResourceInv /\ RectOK /\ Rest => TypeOK
  BY DEF ResourceInv, RectOK, TypeOK
<1> HIDE DEF Rest
<1> QED BY <1>1, <1>2, <1>3, ResourceAlways, RectAlways, PTL DEF Spec

-----------------------------------------------------------------------------
(* A position that waits for a commit of the window has asked for one. *)
MoveAnnounced == onScreen # position => updatePosted

(* No move is forgotten, the safety half of PositionReachesScreen: whenever
   the position on the screen is not the one set, an update of the window is
   on its way, also after the view has been taken down. *)
THEOREM NoMoveForgotten == Spec => []MoveAnnounced
<1>1. Init => MoveAnnounced
  BY DEF Init, MoveAnnounced
<1>2. MoveAnnounced /\ [Next]_vars => MoveAnnounced'
  BY DEF MoveAnnounced, Next, Acquire, AcquireFails, DestroyView, ReleaseNext,
         Destroyed, GeometryChanged, AncestorMoved, ChangeWindow, Present,
         ParentCommit, UpdateSubsurfaceGeometry, SetGeometry, rectVars, vars
<1> QED BY <1>1, <1>2, PTL DEF Spec
=============================================================================

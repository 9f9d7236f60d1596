------------------------- MODULE FramePipelineProofs -------------------------
(***************************************************************************)
(* Proofs about FramePipeline for every set of images and every bound.     *)
(*                                                                         *)
(* Accounting needs nothing of the producer.  That no image is released    *)
(* while Qt samples it rests on the handshake, MaxUnacked = 1: a producer  *)
(* that waits for frame_complete never makes displayImage() drop a pending *)
(* image, and the only other release in a running view is of an image that *)
(* is not bound to the texture any more.                                   *)
(***************************************************************************)
EXTENDS FramePipeline, TLAPS

LEMMA Bounds ==
    /\ MaxUnacked \in Nat /\ MaxUnacked >= 1
    /\ MaxSwapEvents \in Nat
    /\ MaxConnections \in Nat /\ MaxConnections >= 1
    /\ MaxStray \in Nat
    /\ MaxJsTasks \in Nat
  BY PipelineAssumption

-----------------------------------------------------------------------------
LEMMA TypeInit == Init => TypeOK
<1>1. Init => ProducerTypeOK
  BY Bounds DEF Init, ProducerTypeOK
<1>2. Init => BackendTypeOK
  BY Zenon DEF Init, BackendTypeOK, MaybeImage
<1>3. Init => connections \in 0..MaxConnections /\ jsTasks \in 0..MaxJsTasks
  BY Bounds DEF Init
<1>4. Init => ViewTypeOK
  BY <1>3, Zenon DEF Init, ViewTypeOK
<1>5. Init => swapEvents \in 0..MaxSwapEvents
  BY Bounds DEF Init
<1>6. Init => QtTypeOK
  BY <1>5, Zenon DEF Init, QtTypeOK, MaybeImage
<1> QED BY <1>1, <1>2, <1>4, <1>6 DEF TypeOK

(* A group of variables that a step leaves alone keeps its type. *)
LEMMA TypeFrame ==
  ASSUME TypeOK
  PROVE  /\ UNCHANGED producerVars => ProducerTypeOK'
         /\ UNCHANGED backendVars => BackendTypeOK'
         /\ UNCHANGED viewVars => ViewTypeOK'
         /\ UNCHANGED qtVars => QtTypeOK'
<1>1. UNCHANGED producerVars => ProducerTypeOK'
  BY DEF TypeOK, ProducerTypeOK, producerVars
<1>2. UNCHANGED backendVars => BackendTypeOK'
  BY DEF TypeOK, BackendTypeOK, backendVars, MaybeImage
<1>3. UNCHANGED viewVars => ViewTypeOK'
  BY DEF TypeOK, ViewTypeOK, viewVars
<1>4. UNCHANGED qtVars => QtTypeOK'
  BY DEF TypeOK, QtTypeOK, qtVars, MaybeImage
<1> QED BY <1>1, <1>2, <1>3, <1>4

LEMMA TypeStep == TypeOK /\ [Next]_vars => TypeOK'
<1> SUFFICES ASSUME TypeOK, [Next]_vars PROVE TypeOK'
  OBVIOUS
<1> USE Bounds DEF TypeOK
<1>1. ASSUME NEW img \in Image, DisplayDirect(img) PROVE TypeOK'
  <2>1. ProducerTypeOK'
    BY <1>1 DEF DisplayDirect, ProducerTypeOK
  <2>2. BackendTypeOK'
    BY <1>1, Zenon DEF DisplayDirect, BackendTypeOK, MaybeImage
  <2> QED BY <1>1, <2>1, <2>2, TypeFrame DEF DisplayDirect
<1>2. ASSUME NEW img \in Image, DisplayQueued(img) PROVE TypeOK'
  <2>1. ProducerTypeOK'
    BY <1>2 DEF DisplayQueued, Exportable, ProducerTypeOK
  <2>2. BackendTypeOK'
    BY <1>2, Zenon DEF DisplayQueued, BackendTypeOK, MaybeImage
  <2>3. updatePosted' \in BOOLEAN
    BY <1>2, Zenon DEF DisplayQueued
  <2>4. QtTypeOK'
    BY <1>2, <2>3, Zenon DEF DisplayQueued, QtTypeOK
  <2> QED BY <1>2, <2>1, <2>2, <2>4, TypeFrame DEF DisplayQueued
<1>3. ASSUME NEW img \in Image, DisplayOrphan(img) PROVE TypeOK'
  <2>1. ProducerTypeOK'
    BY <1>3 DEF DisplayOrphan, Exportable, ProducerTypeOK
  <2>2. BackendTypeOK'
    BY <1>3, Zenon DEF DisplayOrphan, BackendTypeOK, MaybeImage
  <2> QED BY <1>3, <2>1, <2>2, TypeFrame DEF DisplayOrphan
<1>4. CASE DidRenderFrame
  <2>1. swapEvents' \in 0..MaxSwapEvents
    BY <1>4 DEF DidRenderFrame, QtTypeOK
  <2>2. QtTypeOK'
    BY <1>4, <2>1, Zenon DEF DidRenderFrame, QtTypeOK
  <2>3. CASE ~frameUpdateRequested
    BY <1>4, <2>2, <2>3, TypeFrame DEF DidRenderFrame
  <2>4. CASE frameUpdateRequested
    <3>1. ProducerTypeOK'
      BY <1>4, <2>4 DEF DidRenderFrame, ProducerTypeOK
    <3>2. BackendTypeOK'
      BY <1>4, <2>4, Zenon DEF DidRenderFrame, BackendTypeOK, MaybeImage
    <3> QED BY <1>4, <2>2, <3>1, <3>2, TypeFrame DEF DidRenderFrame
  <2> QED BY <2>3, <2>4
<1>5. CASE WindowUpdate
  <2>1. QtTypeOK'
    BY <1>5, Zenon DEF WindowUpdate, QtTypeOK
  <2> QED BY <1>5, <2>1, TypeFrame DEF WindowUpdate
<1>6. CASE OtherFrameRequest
  <2>1. QtTypeOK'
    BY <1>6, Zenon DEF OtherFrameRequest, QtTypeOK
  <2> QED BY <1>6, <2>1, TypeFrame DEF OtherFrameRequest
<1>7. CASE Sync
  <2>1. boundImage' \in MaybeImage
    BY <1>7 DEF Sync, UpdatePaintNode, BindTexture, PaintedImage, BackendTypeOK
  <2>2. frameUpdateRequested' \in BOOLEAN
    BY <1>7, Zenon DEF Sync, UpdatePaintNode, BindTexture, BackendTypeOK
  <2>3. paintNode' \in BOOLEAN /\ itemDirty' \in BOOLEAN
    BY <1>7, Zenon DEF Sync, UpdatePaintNode, QtTypeOK
  <2>4. sampled' \in MaybeImage
    BY <1>7, <2>1 DEF Sync, MaybeImage
  <2>5. BackendTypeOK'
    BY <1>7, <2>1, <2>2, Zenon DEF Sync, BackendTypeOK
  <2>6. QtTypeOK'
    BY <1>7, <2>3, <2>4, Zenon DEF Sync, QtTypeOK
  <2> QED BY <1>7, <2>5, <2>6, TypeFrame DEF Sync
<1>8. CASE Swap
  <2>1. swapEvents' \in 0..MaxSwapEvents
    BY <1>8 DEF Swap, QtTypeOK, ViewTypeOK
  <2>2. QtTypeOK'
    BY <1>8, <2>1, Zenon DEF Swap, QtTypeOK, MaybeImage
  <2> QED BY <1>8, <2>2, TypeFrame DEF Swap
<1>16. CASE StraySwap
  <2>1. swapEvents' \in 0..MaxSwapEvents
    BY <1>16 DEF StraySwap, QtTypeOK, ViewTypeOK
  <2>2. QtTypeOK'
    BY <1>16, <2>1, Zenon DEF StraySwap, QtTypeOK, MaybeImage
  <2> QED BY <1>16, <2>2, TypeFrame DEF StraySwap
<1>9. CASE Detach
  <2>1. ViewTypeOK' /\ QtTypeOK'
    BY <1>9, Zenon DEF Detach, ViewTypeOK, QtTypeOK
  <2> QED BY <1>9, <2>1, TypeFrame DEF Detach
<1>10. CASE ConfigureWindow
  <2>1. connections' \in 0..MaxConnections
    BY <1>10 DEF ConfigureWindow, ViewTypeOK
  <2>2. ViewTypeOK' /\ QtTypeOK'
    BY <1>10, <2>1, Zenon DEF ConfigureWindow, ViewTypeOK, QtTypeOK
  <2> QED BY <1>10, <2>2, TypeFrame DEF ConfigureWindow
<1>11. ASSUME DestroyBackend PROVE ProducerTypeOK' /\ BackendTypeOK'
  <2>1. ProducerTypeOK'
    BY <1>11 DEF DestroyBackend, ProducerTypeOK
  <2>2. BackendTypeOK'
    BY <1>11, Zenon DEF DestroyBackend, BackendTypeOK, MaybeImage
  <2> QED BY <2>1, <2>2
<1>12. CASE DestroyView
  <2>1. /\ connections' \in 0..MaxConnections
        /\ strayConnections' \in 0..MaxStray
        /\ swapEvents' \in 0..MaxSwapEvents
    BY <1>12 DEF DestroyView
  <2>2. ViewTypeOK' /\ QtTypeOK'
    BY <1>12, <2>1, Zenon DEF DestroyView, ViewTypeOK, QtTypeOK
  <2> QED BY <1>11, <1>12, <2>2, TypeFrame DEF DestroyView
<1>13. CASE RunJavaScript
  <2>1. jsTasks' \in 0..MaxJsTasks
    BY <1>13 DEF RunJavaScript, ViewTypeOK
  <2>2. ViewTypeOK'
    BY <1>13, <2>1, Zenon DEF RunJavaScript, ViewTypeOK
  <2> QED BY <1>13, <2>2, TypeFrame DEF RunJavaScript
<1>14. CASE JavaScriptDone
  <2>1. jsTasks' \in 0..MaxJsTasks
    BY <1>14 DEF JavaScriptDone, ViewTypeOK
  <2>2. ViewTypeOK'
    BY <1>14, <2>1, Zenon DEF JavaScriptDone, ViewTypeOK
  <2> QED BY <1>11, <1>14, <2>2, TypeFrame DEF JavaScriptDone
<1>15. CASE UNCHANGED vars
  BY <1>15, TypeFrame DEF vars
<1> QED
  BY <1>1, <1>2, <1>3, <1>4, <1>5, <1>6, <1>7, <1>8, <1>9, <1>10, <1>12,
     <1>13, <1>14, <1>15, <1>16 DEF Next, DisplayImage

-----------------------------------------------------------------------------
(* The two slots account for every image the backend was given. *)
Accounting == HeldExactly /\ DistinctSlots

LEMMA AccountingInit == Init => Accounting
  BY DEF Init, Accounting, HeldExactly, DistinctSlots

(* A step that changes neither slot changes nothing that Accounting sees. *)
LEMMA AccountingFrame ==
  ASSUME Accounting, UNCHANGED <<held, pendingImage, committedImage>>
  PROVE  Accounting'
  BY DEF Accounting, HeldExactly, DistinctSlots

(* A step preserves the accounting whatever MaxUnacked is. *)
LEMMA AccountingStep == Accounting /\ [Next]_vars => Accounting'
<1> SUFFICES ASSUME Accounting, [Next]_vars PROVE Accounting'
  OBVIOUS
<1> USE PipelineAssumption
<1>1. ASSUME NEW img \in Image, DisplayDirect(img) PROVE Accounting'
  BY <1>1 DEF DisplayDirect, Exportable, Accounting, HeldExactly, DistinctSlots
<1>2. ASSUME NEW img \in Image, DisplayQueued(img) PROVE Accounting'
  BY <1>2 DEF DisplayQueued, Exportable, Accounting, HeldExactly, DistinctSlots
<1>3. ASSUME NEW img \in Image, DisplayOrphan(img) PROVE Accounting'
  BY <1>3 DEF DisplayOrphan, Accounting, HeldExactly, DistinctSlots
<1>4. CASE DidRenderFrame
  <2>1. CASE ~frameUpdateRequested
    BY <1>4, <2>1, AccountingFrame DEF DidRenderFrame, producerVars, backendVars
  <2>2. CASE frameUpdateRequested
    <3>1. /\ held' = held \ {committedImage}
          /\ committedImage' = pendingImage
          /\ pendingImage' = None
      BY <1>4, <2>2 DEF DidRenderFrame
    <3> QED BY <3>1 DEF Accounting, HeldExactly, DistinctSlots
  <2> QED BY <2>1, <2>2
<1>5. ASSUME DestroyBackend PROVE Accounting'
  BY <1>5 DEF DestroyBackend, Accounting, HeldExactly, DistinctSlots
<1>6. CASE WindowUpdate
  BY <1>6, AccountingFrame DEF WindowUpdate, producerVars, backendVars
<1>7. CASE OtherFrameRequest
  BY <1>7, AccountingFrame DEF OtherFrameRequest, producerVars, backendVars
<1>8. CASE Sync
  BY <1>8, AccountingFrame DEF Sync, producerVars
<1>9. CASE Swap
  BY <1>9, AccountingFrame DEF Swap, producerVars, backendVars
<1>16. CASE StraySwap
  BY <1>16, AccountingFrame DEF StraySwap, producerVars, backendVars
<1>10. CASE Detach
  BY <1>10, AccountingFrame DEF Detach, producerVars, backendVars
<1>11. CASE ConfigureWindow
  BY <1>11, AccountingFrame DEF ConfigureWindow, producerVars, backendVars
<1>12. CASE DestroyView
  BY <1>12, <1>5, AccountingFrame DEF DestroyView, producerVars, backendVars
<1>13. CASE RunJavaScript
  BY <1>13, AccountingFrame DEF RunJavaScript, producerVars, backendVars
<1>14. CASE JavaScriptDone
  BY <1>14, <1>5, AccountingFrame DEF JavaScriptDone, producerVars, backendVars
<1>15. CASE UNCHANGED vars
  BY <1>15, AccountingFrame DEF vars, producerVars, backendVars
<1> QED
  BY <1>1, <1>2, <1>3, <1>4, <1>6, <1>7, <1>8, <1>9, <1>10, <1>11, <1>12,
     <1>13, <1>14, <1>15, <1>16 DEF Next, DisplayImage

-----------------------------------------------------------------------------
(* Every variable keeps its type in every reachable state. *)
THEOREM TypeCorrect == Spec => []TypeOK
  BY TypeInit, TypeStep, PTL DEF Spec

(* The backend owes the producer exactly the images it points to: no path of
   displayImage(), didRenderFrame() or the destructors leaks one, even with
   a producer that does not wait for frame_complete. *)
THEOREM NoLeak == Spec => []HeldExactly
<1>1. Accounting => HeldExactly
  BY DEF Accounting
<1> QED BY <1>1, AccountingInit, AccountingStep, PTL DEF Spec

(* No image is released twice: pending and committed never coincide. *)
THEOREM NoDoubleRelease == Spec => []DistinctSlots
<1>1. Accounting => DistinctSlots
  BY DEF Accounting
<1> QED BY <1>1, AccountingInit, AccountingStep, PTL DEF Spec
-----------------------------------------------------------------------------
(***************************************************************************)
(* The handshake: from here on the producer waits for frame_complete.      *)
(***************************************************************************)
LEMMA HandshakeInit == Init => HandshakeInv
<1>1. Init => Accounting
  BY AccountingInit
<1> QED
  BY <1>1 DEF Init, Accounting, HandshakeInv, PendingUnacked, DirectQuiet,
              OwedIsBound, BoundIsCurrent, SampledIsBound, Lifetimes

(* A step that leaves the backend alone, starts no paint and neither revives
   a view nor queues anything for a dead one disturbs no part of it. *)
LEMMA HandshakeFrame ==
  ASSUME HandshakeInv,
         UNCHANGED <<producerVars, backendVars, viewAlive>>,
         sampled' # None => UNCHANGED <<sampled, rendering>>,
         paintNode' => paintNode,
         ~viewAlive => /\ swapEvents' = 0
                       /\ connections' = 0
                       /\ strayConnections' = 0
                       /\ ~attached'
  PROVE  HandshakeInv'
  BY DEF HandshakeInv, HeldExactly, DistinctSlots, PendingUnacked, DirectQuiet,
         OwedIsBound, BoundIsCurrent, SampledIsBound, Lifetimes, producerVars,
         backendVars

LEMMA HandshakeStep ==
  ASSUME MaxUnacked = 1, TypeOK, HandshakeInv, [Next]_vars
  PROVE  HandshakeInv'
<1>0. Accounting'
  BY AccountingStep DEF HandshakeInv, Accounting
<1>a. HeldExactly' /\ DistinctSlots'
  BY <1>0 DEF Accounting
<1>u. unacked \in 0..1
  BY DEF TypeOK, ProducerTypeOK
<1>1. ASSUME NEW img \in Image, DisplayDirect(img) PROVE HandshakeInv'
  BY <1>1, <1>a DEF DisplayDirect, Exportable, viewVars, qtVars, HandshakeInv,
     PendingUnacked, DirectQuiet, OwedIsBound, BoundIsCurrent, SampledIsBound,
     Lifetimes
<1>2. ASSUME NEW img \in Image, DisplayQueued(img) PROVE HandshakeInv'
  <2>1. unacked = 0 /\ pendingImage = None
    BY <1>2, <1>u DEF DisplayQueued, Exportable, HandshakeInv, PendingUnacked
  <2>2. ~frameUpdateRequested
    BY <1>2, <2>1 DEF DisplayQueued, HandshakeInv, OwedIsBound
  <2>3. PendingUnacked' /\ DirectQuiet'
    BY <1>2, <2>1 DEF DisplayQueued, PendingUnacked, DirectQuiet
  <2>4. OwedIsBound' /\ BoundIsCurrent'
    BY <1>2, <2>1, <2>2
    DEF DisplayQueued, HandshakeInv, OwedIsBound, BoundIsCurrent
  <2>5. SampledIsBound' /\ Lifetimes'
    BY <1>2 DEF DisplayQueued, viewVars, HandshakeInv, SampledIsBound, Lifetimes
  <2> QED BY <1>a, <2>3, <2>4, <2>5 DEF HandshakeInv
<1>3. ASSUME NEW img \in Image, DisplayOrphan(img) PROVE HandshakeInv'
  <2>1. pendingImage = None
    BY <1>3, <1>u DEF DisplayOrphan, Exportable, HandshakeInv, PendingUnacked
  <2> QED
    BY <1>3, <1>a, <2>1
    DEF DisplayOrphan, viewVars, qtVars, HandshakeInv, PendingUnacked,
        DirectQuiet, OwedIsBound, BoundIsCurrent, SampledIsBound, Lifetimes
<1>4. CASE DidRenderFrame
  <2>1. viewAlive
    BY <1>4 DEF DidRenderFrame, HandshakeInv, Lifetimes
  <2>2. CASE ~frameUpdateRequested
    BY <1>4, <2>1, <2>2, HandshakeFrame DEF DidRenderFrame, viewVars
  <2>3. CASE frameUpdateRequested
    <3>1. boundImage = pendingImage /\ pendingImage # None /\ ~direct
      BY <2>1, <2>3 DEF HandshakeInv, OwedIsBound, DirectQuiet
    <3>2. PendingUnacked' /\ DirectQuiet' /\ OwedIsBound' /\ BoundIsCurrent'
      BY <1>4, <2>3, <3>1
      DEF DidRenderFrame, PendingUnacked, DirectQuiet, OwedIsBound,
          BoundIsCurrent
    <3>3. SampledIsBound' /\ Lifetimes'
      BY <1>4, <2>1, <2>3
      DEF DidRenderFrame, viewVars, HandshakeInv, SampledIsBound, Lifetimes
    <3> QED BY <1>a, <3>2, <3>3 DEF HandshakeInv
  <2> QED BY <2>2, <2>3
<1>5. CASE WindowUpdate
  BY <1>5, HandshakeFrame DEF WindowUpdate, viewVars, HandshakeInv, Lifetimes
<1>6. CASE OtherFrameRequest
  BY <1>6, HandshakeFrame DEF OtherFrameRequest, viewVars, HandshakeInv, Lifetimes
<1>7. CASE Sync
  <2>1. sampled = None
    BY <1>7 DEF Sync, HandshakeInv, SampledIsBound
  <2>2. /\ UNCHANGED <<held, unacked, backendAlive, direct, pendingImage,
                       committedImage, viewAlive, attached, connections,
                       strayConnections, swapEvents>>
        /\ rendering'
        /\ sampled' # None => paintNode' /\ sampled' = boundImage'
    BY <1>7 DEF Sync, producerVars, viewVars
  <2>3. PendingUnacked' /\ Lifetimes'
    BY <2>2 DEF HandshakeInv, PendingUnacked, Lifetimes
  <2>4. ASSUME UNCHANGED <<boundImage, frameUpdateRequested>>
        PROVE  DirectQuiet' /\ OwedIsBound' /\ BoundIsCurrent'
    <3>1. DirectQuiet'
      BY <2>2, <2>4, Zenon DEF HandshakeInv, DirectQuiet
    <3>2. OwedIsBound'
      BY <2>2, <2>4, Zenon DEF HandshakeInv, OwedIsBound
    <3>3. BoundIsCurrent'
      BY <2>2, <2>4, Zenon DEF HandshakeInv, BoundIsCurrent
    <3> QED BY <3>1, <3>2, <3>3
  <2>5. ASSUME UNCHANGED boundImage, paintNode' => paintNode
        PROVE  SampledIsBound'
    BY <2>2, <2>5 DEF HandshakeInv, SampledIsBound
  <2>6. CASE /\ UNCHANGED <<boundImage, frameUpdateRequested>>
             /\ paintNode' => paintNode
    BY <1>a, <2>3, <2>4, <2>5, <2>6 DEF HandshakeInv
  <2>7. CASE ~direct /\ ~NothingToPaint /\ BindTexture /\ paintNode' = TRUE
    <3>1. /\ boundImage' \in {pendingImage, committedImage}
          /\ boundImage' # None
      BY <2>7 DEF NothingToPaint, BindTexture, PaintedImage
    <3>2. frameUpdateRequested' =>
              boundImage' = pendingImage /\ pendingImage # None
      BY <2>7 DEF BindTexture, PaintedImage
    <3>3. DirectQuiet'
      BY <2>2, <2>7 DEF DirectQuiet
    <3>4. OwedIsBound' /\ BoundIsCurrent'
      BY <2>2, <3>1, <3>2 DEF OwedIsBound, BoundIsCurrent
    <3>5. SampledIsBound'
      BY <2>2, <3>1 DEF SampledIsBound
    <3> QED BY <1>a, <2>3, <3>3, <3>4, <3>5 DEF HandshakeInv
  <2>8. \/ UNCHANGED <<paintNode, boundImage, frameUpdateRequested>>
        \/ ~paintNode' /\ UNCHANGED <<boundImage, frameUpdateRequested>>
        \/ ~direct /\ ~NothingToPaint /\ BindTexture /\ paintNode' = TRUE
    BY <1>7, Zenon DEF Sync, UpdatePaintNode
  <2> QED BY <2>6, <2>7, <2>8
<1>8. CASE Swap
  BY <1>8, HandshakeFrame DEF Swap, viewVars, HandshakeInv, Lifetimes
<1>16. CASE StraySwap
  BY <1>16, HandshakeFrame DEF StraySwap, viewVars, HandshakeInv, Lifetimes
<1>9. CASE Detach
  BY <1>9, HandshakeFrame DEF Detach, HandshakeInv, Lifetimes
<1>10. CASE ConfigureWindow
  BY <1>10, HandshakeFrame DEF ConfigureWindow
<1>11. ASSUME DestroyBackend, UNCHANGED <<rendering, sampled>>,
              paintNode' => paintNode, ~viewAlive',
              swapEvents' = 0 /\ connections' = 0 /\ strayConnections' = 0,
              ~attached'
       PROVE  HandshakeInv'
  BY <1>11, <1>a DEF DestroyBackend, HandshakeInv, PendingUnacked, DirectQuiet,
     OwedIsBound, BoundIsCurrent, SampledIsBound, Lifetimes
<1>12. CASE DestroyView
  <2>1. CASE DestroyBackend
    BY <1>11, <1>12, <2>1 DEF DestroyView
  <2>2. CASE UNCHANGED <<producerVars, backendVars>>
    BY <1>12, <2>2, <1>a
    DEF DestroyView, producerVars, backendVars, HandshakeInv, PendingUnacked,
        DirectQuiet, OwedIsBound, BoundIsCurrent, SampledIsBound, Lifetimes
  <2> QED BY <1>12, <2>1, <2>2 DEF DestroyView
<1>13. CASE RunJavaScript
  BY <1>13, HandshakeFrame DEF RunJavaScript, qtVars, HandshakeInv, Lifetimes
<1>14. CASE JavaScriptDone
  <2>1. CASE ~viewAlive /\ DestroyBackend
    BY <1>11, <1>14, <2>1 DEF JavaScriptDone, qtVars, HandshakeInv, Lifetimes
  <2>2. CASE UNCHANGED <<producerVars, backendVars>>
    BY <1>14, <2>2, HandshakeFrame
    DEF JavaScriptDone, qtVars, HandshakeInv, Lifetimes
  <2> QED BY <1>14, <2>1, <2>2 DEF JavaScriptDone
<1>15. CASE UNCHANGED vars
  BY <1>15, HandshakeFrame DEF vars, viewVars, qtVars, HandshakeInv, Lifetimes
<1> QED
  BY <1>1, <1>2, <1>3, <1>4, <1>5, <1>6, <1>7, <1>8, <1>9, <1>10, <1>12,
     <1>13, <1>14, <1>15, <1>16 DEF Next, DisplayImage

(* With a producer that waits for frame_complete, HandshakeInv holds in every
   reachable state of the backend and Qt's two threads. *)
LEMMA HandshakeAlways ==
  ASSUME MaxUnacked = 1
  PROVE  Spec => [](TypeOK /\ HandshakeInv)
<1>1. Init => TypeOK /\ HandshakeInv
  BY TypeInit, HandshakeInit
<1>2. TypeOK /\ HandshakeInv /\ [Next]_vars => (TypeOK /\ HandshakeInv)'
  BY TypeStep, HandshakeStep
<1> QED BY <1>1, <1>2, PTL DEF Spec

LEMMA HandshakeSampled == HandshakeInv => SampledHeld
  BY DEF HandshakeInv, SampledHeld, HeldExactly, BoundIsCurrent, SampledIsBound

(* No image is given back while a frame in flight samples it or while the
   scene still shows it: texture(), didRenderFrame() and displayImage() keep
   the lease however late or often the frameSwapped events arrive. *)
THEOREM NothingReleasedWhileSampled ==
  ASSUME MaxUnacked = 1
  PROVE  Spec => []SampledHeld
BY HandshakeAlways, HandshakeSampled, PTL

-----------------------------------------------------------------------------
(* What a completing didRenderFrame() finds. *)
LEMMA CompletionFindsItsFrame ==
  ASSUME HandshakeInv, swapEvents > 0, frameUpdateRequested
  PROVE  boundImage = pendingImage /\ pendingImage # None
<1>1. viewAlive
  BY DEF HandshakeInv, Lifetimes
<1> QED BY <1>1 DEF HandshakeInv, OwedIsBound

(* Only an export and a completing didRenderFrame() move the producer's or
   the backend's state in a running view. *)
LEMMA QuietSteps ==
  ASSUME Next
  PROVE  \/ \E img \in Image : DisplayImage(img)
         \/ DidRenderFrame
         \/ UNCHANGED <<producerVars, committedImage>>
         \/ DestroyBackend
<1>1. CASE WindowUpdate \/ OtherFrameRequest \/ Swap \/ StraySwap \/ Detach
           \/ ConfigureWindow \/ RunJavaScript
  BY <1>1 DEF WindowUpdate, OtherFrameRequest, Swap, StraySwap, Detach,
              ConfigureWindow, RunJavaScript, backendVars
<1>2. CASE Sync
  BY <1>2 DEF Sync
<1>3. CASE DestroyView \/ JavaScriptDone
  BY <1>3 DEF DestroyView, JavaScriptDone, backendVars
<1> QED BY <1>1, <1>2, <1>3 DEF Next

(* Once texture() has a committed image to fall back on it never loses it. *)
THEOREM CommittedStays ==
  ASSUME MaxUnacked = 1
  PROVE  Spec => NoBlankAfterFirstFrame
<1>1. ASSUME HandshakeInv, Next, committedImage # None, backendAlive'
      PROVE  committedImage' # None
  <2>1. ASSUME NEW img \in Image, DisplayImage(img) PROVE committedImage' # None
    BY <1>1, <2>1, PipelineAssumption
    DEF DisplayImage, DisplayDirect, DisplayQueued, DisplayOrphan
  <2>2. CASE DidRenderFrame /\ ~frameUpdateRequested
    BY <1>1, <2>2 DEF DidRenderFrame, backendVars
  <2>3. CASE DidRenderFrame /\ frameUpdateRequested
    BY <1>1, <2>3, CompletionFindsItsFrame DEF DidRenderFrame
  <2>4. ~DestroyBackend
    BY <1>1 DEF DestroyBackend
  <2> QED BY <1>1, <2>1, <2>2, <2>3, <2>4, QuietSteps
<1>2. TypeOK /\ HandshakeInv /\ [Next]_vars =>
        [committedImage # None /\ backendAlive' => committedImage' # None]_vars
  BY <1>1
<1> QED BY <1>2, HandshakeAlways, PTL DEF Spec, NoBlankAfterFirstFrame

(* On the scene-graph path frame_complete always answers the frame that was
   bound to the texture, never one that nothing has painted. *)
THEOREM CompletionsAreOfPaintedFrames ==
  ASSUME MaxUnacked = 1
  PROVE  Spec => CompleteOnlyPainted
<1>1. ASSUME TypeOK, HandshakeInv, Next, ~direct, unacked' < unacked
      PROVE  boundImage = pendingImage /\ pendingImage # None
  <2>0. unacked \in Nat
    BY <1>1, Bounds DEF TypeOK, ProducerTypeOK
  <2>1. ASSUME NEW img \in Image, DisplayImage(img) PROVE FALSE
    BY <1>1, <2>0, <2>1
    DEF DisplayImage, DisplayDirect, DisplayQueued, DisplayOrphan
  <2>2. unacked' # unacked
    BY <1>1, <2>0
  <2>3. CASE DidRenderFrame /\ ~frameUpdateRequested
    BY <2>2, <2>3 DEF DidRenderFrame, producerVars
  <2>4. CASE DidRenderFrame /\ frameUpdateRequested
    BY <2>4, <1>1, CompletionFindsItsFrame DEF DidRenderFrame
  <2>5. ~DestroyBackend /\ ~UNCHANGED producerVars
    BY <2>2 DEF DestroyBackend, producerVars
  <2> QED BY <1>1, <2>1, <2>3, <2>4, <2>5, QuietSteps
<1>2. TypeOK /\ HandshakeInv /\ [Next]_vars =>
        [~direct /\ unacked' < unacked =>
            boundImage = pendingImage /\ pendingImage # None]_vars
  BY <1>1
<1> QED BY <1>2, HandshakeAlways, PTL DEF Spec, CompleteOnlyPainted

-----------------------------------------------------------------------------
(***************************************************************************)
(* Refinement: the pipeline implements BufferLease.                        *)
(***************************************************************************)
LEMMA LeaseInitHolds == Init => Lease!LeaseInit
  BY DEF Init, Lease!LeaseInit

(* A step that neither moves a buffer nor changes what is read stutters. *)
LEMMA LeaseStutter ==
  ASSUME UNCHANGED <<held, sampled, backendAlive>>
  PROVE  UNCHANGED Lease!leaseVars
  BY DEF Lease!leaseVars

LEMMA LeaseStep ==
  ASSUME MaxUnacked = 1, TypeOK, TypeOK', HandshakeInv, HandshakeInv',
         [Next]_vars
  PROVE  [Lease!LeaseNext]_(Lease!leaseVars)
<1>h. held \subseteq Image /\ held' \subseteq Image
  BY DEF TypeOK, ProducerTypeOK
<1>1. ASSUME NEW img \in Image, DisplayDirect(img)
      PROVE  Lease!Lend(img, {committedImage} \ {None})
  <2>1. sampled = None
    BY <1>1 DEF DisplayDirect, HandshakeInv, DirectQuiet, SampledIsBound
  <2> QED
    BY <1>1, <2>1, PipelineAssumption
    DEF DisplayDirect, Exportable, qtVars, Lease!Lend, HandshakeInv, HeldExactly
<1>2. ASSUME NEW img \in Image, DisplayQueued(img) PROVE Lease!Lend(img, {})
  <2>1. pendingImage = None
    BY <1>2 DEF DisplayQueued, Exportable, HandshakeInv, PendingUnacked, TypeOK,
                ProducerTypeOK
  <2> QED BY <1>2, <1>h, <2>1, PipelineAssumption
          DEF DisplayQueued, Exportable, Lease!Lend
<1>3. ASSUME NEW img \in Image, DisplayOrphan(img) PROVE Lease!GiveBack({})
  <2>1. pendingImage = None
    BY <1>3 DEF DisplayOrphan, Exportable, HandshakeInv, PendingUnacked, TypeOK,
                ProducerTypeOK
  <2> QED BY <1>3, <1>h, <2>1, PipelineAssumption
          DEF DisplayOrphan, qtVars, Lease!GiveBack
<1>4. CASE DidRenderFrame /\ frameUpdateRequested
  <2>1. boundImage = pendingImage /\ pendingImage # None
    BY <1>4, CompletionFindsItsFrame DEF DidRenderFrame
  <2>2. sampled # committedImage \/ sampled = None
    BY <2>1 DEF HandshakeInv, SampledIsBound, DistinctSlots
  <2>3. Lease!GiveBack({committedImage} \ {None})
    BY <1>4, <2>2, <1>h, PipelineAssumption
    DEF DidRenderFrame, Lease!GiveBack, HandshakeInv, HeldExactly
  <2>4. {committedImage} \ {None} \in SUBSET Image
    BY DEF TypeOK, BackendTypeOK, MaybeImage
  <2> QED BY <2>3, <2>4 DEF Lease!LeaseNext
<1>5. CASE DidRenderFrame /\ ~frameUpdateRequested
  BY <1>5, LeaseStutter DEF DidRenderFrame, producerVars, backendVars
<1>6. CASE Sync
  <2>1. /\ UNCHANGED <<held, backendAlive>>
        /\ sampled = None
    BY <1>6 DEF Sync, producerVars, HandshakeInv, SampledIsBound
  <2>2. backendAlive /\ sampled' # None => sampled' \in held
    BY <2>1 DEF HandshakeInv, HeldExactly, BoundIsCurrent, SampledIsBound
  <2>3. CASE backendAlive
    <3>1. Lease!StartReading({sampled'} \ {None})
      BY <2>1, <2>2, <2>3 DEF Lease!StartReading
    <3>2. {sampled'} \ {None} \in SUBSET Image
      BY DEF TypeOK, QtTypeOK, MaybeImage
    <3> QED BY <3>1, <3>2 DEF Lease!LeaseNext
  <2>4. CASE ~backendAlive
    BY <2>1, <2>4 DEF Lease!leaseVars
  <2> QED BY <2>3, <2>4
<1>7. CASE Swap
  <2>1. Lease!StopReading
    BY <1>7 DEF Swap, producerVars, Lease!StopReading
  <2> QED BY <2>1 DEF Lease!LeaseNext
<1>8. ASSUME DestroyBackend PROVE Lease!Close
  BY <1>8 DEF DestroyBackend, Lease!Close, HandshakeInv, HeldExactly
<1>9. CASE WindowUpdate \/ OtherFrameRequest \/ StraySwap \/ Detach
           \/ ConfigureWindow \/ RunJavaScript
  <2>1. UNCHANGED <<held, sampled, backendAlive>>
    BY <1>9 DEF WindowUpdate, OtherFrameRequest, StraySwap, Detach,
                ConfigureWindow, RunJavaScript, producerVars, backendVars,
                qtVars
  <2> QED BY <2>1, LeaseStutter
<1>10. CASE DestroyView \/ JavaScriptDone
  <2>1. CASE DestroyBackend
    BY <2>1, <1>8 DEF Lease!LeaseNext
  <2>2. CASE UNCHANGED <<producerVars, backendVars>>
    <3>1. UNCHANGED <<held, sampled, backendAlive>>
      BY <1>10, <2>2
      DEF DestroyView, JavaScriptDone, producerVars, backendVars, qtVars
    <3> QED BY <3>1, LeaseStutter
  <2> QED BY <1>10, <2>1, <2>2 DEF DestroyView, JavaScriptDone
<1>11. CASE UNCHANGED vars
  BY <1>11, LeaseStutter DEF vars, producerVars, backendVars, qtVars
<1>12. ASSUME NEW img \in Image, DisplayImage(img) PROVE Lease!LeaseNext
  <2>1. {committedImage} \ {None} \in SUBSET Image
    BY DEF TypeOK, BackendTypeOK, MaybeImage
  <2> QED BY <1>12, <1>1, <1>2, <1>3, <2>1 DEF DisplayImage, Lease!LeaseNext
<1> QED
  BY <1>4, <1>5, <1>6, <1>7, <1>9, <1>10, <1>11, <1>12 DEF Next

(* The backend with Qt's two threads implements the lease that the producer
   is promised: every step of it lends, gives back or reads as allowed. *)
THEOREM ImplementsLease ==
  ASSUME MaxUnacked = 1
  PROVE  Spec => LeaseSpec
<1>1. TypeOK /\ HandshakeInv /\ (TypeOK /\ HandshakeInv)' /\ [Next]_vars =>
        [Lease!LeaseNext]_(Lease!leaseVars)
  BY LeaseStep
<1> QED
  BY <1>1, LeaseInitHolds, HandshakeAlways, PTL
  DEF Spec, LeaseSpec, Lease!LeaseSpec

-----------------------------------------------------------------------------
(* No script is running when the item is destroyed. *)
ScriptsEndFirst == [][viewAlive /\ ~viewAlive' => jsTasks = 0]_vars

(* The backend then goes with its view, so displayImage() never presents to
   the subsurface that ~WPEQtView() has deleted: only the reference that a
   running script holds keeps a backend beyond it. *)
THEOREM PresentsWhileViewLives ==
  Spec /\ ScriptsEndFirst => PresentsToSubsurface
<1> DEFINE EndTogether == backendAlive => viewAlive
<1>1. Init => EndTogether
  BY DEF Init
<1>2. ASSUME NEW img \in Image, DisplayImage(img)
      PROVE  backendAlive /\ UNCHANGED <<viewAlive, backendAlive>>
  BY <1>2 DEF DisplayImage, DisplayDirect, DisplayQueued, DisplayOrphan,
              Exportable, viewVars
<1>3. EndTogether /\ [Next]_vars
      /\ [viewAlive /\ ~viewAlive' => jsTasks = 0]_vars => EndTogether'
  <2>1. SUFFICES ASSUME EndTogether, [Next]_vars,
                        [viewAlive /\ ~viewAlive' => jsTasks = 0]_vars
                 PROVE  EndTogether'
    OBVIOUS
  <2>2. CASE DestroyView
    <3>1. viewAlive /\ ~viewAlive'
      BY <2>2 DEF DestroyView
    <3>2. jsTasks = 0
      BY <2>1, <3>1 DEF vars, viewVars
    <3>3. DestroyBackend
      BY <2>2, <3>2, PipelineAssumption DEF DestroyView
    <3> QED BY <3>3 DEF DestroyBackend
  <2>3. CASE JavaScriptDone
    BY <2>1, <2>3 DEF JavaScriptDone, DestroyBackend, backendVars
  <2>4. CASE UNCHANGED <<viewAlive, backendAlive>>
    BY <2>1, <2>4
  <2>5. CASE UNCHANGED vars
    BY <2>1, <2>5 DEF vars, viewVars, backendVars
  <2> QED
    BY <2>1, <1>2, <2>2, <2>3, <2>4, <2>5
    DEF Next, DidRenderFrame, WindowUpdate, OtherFrameRequest, Sync, Swap,
        StraySwap, Detach, ConfigureWindow, RunJavaScript, backendVars,
        viewVars
<1>4. EndTogether /\ [Next]_vars =>
        [direct /\ ~(held' \subseteq held) => viewAlive]_vars
  <2>1. SUFFICES ASSUME EndTogether, Next, ~(held' \subseteq held)
                 PROVE  viewAlive
    OBVIOUS
  <2>2. CASE \E img \in Image : DisplayImage(img)
    BY <2>1, <2>2, <1>2
  <2>3. ~DidRenderFrame /\ ~UNCHANGED producerVars /\ ~DestroyBackend
    BY <2>1 DEF DidRenderFrame, DestroyBackend, producerVars
  <2> QED
    BY <2>2, <2>3, <2>1, QuietSteps DEF producerVars
<1> QED BY <1>1, <1>3, <1>4, PTL DEF Spec, ScriptsEndFirst, PresentsToSubsurface

-----------------------------------------------------------------------------
(***************************************************************************)
(* No wake-up is lost: the safety half of FramesCompleted, for every       *)
(* producer, one that ignores frame_complete included.                     *)
(***************************************************************************)

(* An export that waits for its frame_complete, in a view that was put in its
   window once and stays there, is on its way to the screen: either the item
   is to be painted and the window will render, or it is painted and the
   frameSwapped event that completes it is queued or will be. *)
ExportAnswered ==
    unacked > 0 /\ ~direct /\ viewAlive /\ attached /\ connections = 1 /\ surfaceValid =>
        \/ itemDirty /\ (updatePosted \/ frameRequested)
        \/ frameUpdateRequested /\ (rendering \/ swapEvents > 0)

(* What that rests on: an unanswered export is still pending, and a living
   view never has fewer connections than when it was created. *)
ExportPending ==
    viewAlive =>
        /\ connections >= 1
        /\ ~direct /\ unacked > 0 => pendingImage # None

LEMMA ExportAnsweredStep ==
  ASSUME TypeOK, ExportAnswered, ExportPending, [Next]_vars
  PROVE  ExportAnswered' /\ ExportPending'
<1> USE DEF ExportAnswered, ExportPending
<1>0. /\ connections \in Nat /\ strayConnections \in Nat
      /\ swapEvents \in Nat /\ unacked \in Nat
  BY Bounds DEF TypeOK, ViewTypeOK, QtTypeOK, ProducerTypeOK
<1>1. CASE UNCHANGED vars
  BY <1>1 DEF vars, producerVars, backendVars, viewVars, qtVars
<1>2. ASSUME NEW img \in Image, DisplayImage(img)
      PROVE  ExportAnswered' /\ ExportPending'
  <2>1. CASE DisplayDirect(img) \/ DisplayOrphan(img)
    BY <1>0, <2>1 DEF DisplayDirect, DisplayOrphan, viewVars, qtVars
  <2>2. CASE DisplayQueued(img)
    <3>1. img # None
      BY PipelineAssumption
    <3> QED BY <1>0, <2>2, <3>1 DEF DisplayQueued, viewVars
  <2> QED BY <1>2, <2>1, <2>2 DEF DisplayImage
<1>3. CASE DidRenderFrame
  <2>1. CASE frameUpdateRequested
    <3>1. unacked' = 0 /\ UNCHANGED viewVars
      BY <1>3, <2>1 DEF DidRenderFrame
    <3> QED BY <1>0, <3>1 DEF viewVars
  <2>2. CASE ~frameUpdateRequested
    BY <1>0, <1>3, <2>2 DEF DidRenderFrame, producerVars, backendVars, viewVars
  <2> QED BY <2>1, <2>2
<1>4. CASE WindowUpdate \/ OtherFrameRequest
  BY <1>4 DEF WindowUpdate, OtherFrameRequest, producerVars, backendVars, viewVars
<1>5. CASE Sync
  <2>1. /\ rendering'
        /\ UNCHANGED <<producerVars, direct, surfaceValid, pendingImage, viewVars>>
    BY <1>5 DEF Sync
  <2>2. CASE attached /\ itemDirty
    <3>1. UpdatePaintNode
      BY <1>5, <2>2 DEF Sync
    <3>2. ~direct /\ pendingImage # None /\ surfaceValid => frameUpdateRequested'
      BY <3>1 DEF UpdatePaintNode, NothingToPaint, PaintedImage, BindTexture
    <3> QED BY <2>1, <3>2 DEF producerVars, viewVars
  <2>3. CASE ~(attached /\ itemDirty)
    <3>1. UNCHANGED frameUpdateRequested
      BY <1>5, <2>3 DEF Sync
    <3> QED BY <2>1, <2>3, <3>1 DEF producerVars, viewVars
  <2> QED BY <2>2, <2>3
<1>6. CASE Swap \/ StraySwap
  BY <1>0, <1>6 DEF Swap, StraySwap, producerVars, backendVars, viewVars
<1>7. CASE Detach \/ DestroyView
  BY <1>7 DEF Detach, DestroyView, producerVars, backendVars
<1>8. CASE ConfigureWindow
  BY <1>0, <1>8 DEF ConfigureWindow, producerVars, backendVars
<1>9. CASE RunJavaScript
  BY <1>9 DEF RunJavaScript, producerVars, backendVars, qtVars
<1>10. CASE JavaScriptDone
  <2>1. CASE UNCHANGED <<producerVars, backendVars>>
    BY <1>10, <2>1 DEF JavaScriptDone, producerVars, backendVars, qtVars
  <2>2. CASE ~viewAlive
    BY <1>10, <2>2 DEF JavaScriptDone
  <2> QED BY <1>10, <2>1, <2>2 DEF JavaScriptDone
<1> QED
  BY <1>1, <1>2, <1>3, <1>4, <1>5, <1>6, <1>7, <1>8, <1>9, <1>10 DEF Next

(* However the threads interleave and whatever frames the window renders for
   other reasons, displayImage()'s window update, the synchronisation and
   didRenderFrame() leave no export stranded. *)
THEOREM NoExportStranded == Spec => []ExportAnswered
<1>1. Init => ExportAnswered /\ ExportPending
  BY DEF Init, ExportAnswered, ExportPending
<1>2. TypeOK /\ ExportAnswered /\ ExportPending /\ [Next]_vars =>
        ExportAnswered' /\ ExportPending'
  BY ExportAnsweredStep
<1> QED BY <1>1, <1>2, TypeCorrect, PTL DEF Spec
=============================================================================

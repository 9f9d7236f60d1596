--------------------------- MODULE TileRasterProofs ---------------------------
(***************************************************************************)
(* Proofs about TileRaster for every set of textures, tiles and workers    *)
(* and every setting of the switches.                                      *)
(***************************************************************************)
EXTENDS TileRaster, TLAPS

-----------------------------------------------------------------------------
(* What submitting and retiring a command do to the commands in flight. *)
LEMMA SubmitInFlight ==
  ASSUME NEW c \in Context, NEW cmd \in Command, Submit(c, cmd),
         stream \in [Context -> Seq(Command)]
  PROVE  /\ stream' \in [Context -> Seq(Command)]
         /\ \A d \in Context, op \in {"paint", "sample"} :
               InFlight(d, op)' = InFlight(d, op) \union
                   (IF d = c /\ cmd.op = op THEN cmd.on ELSE {})
<1>1. stream' = [stream EXCEPT ![c] = Append(stream[c], cmd)]
  BY DEF Submit
<1>2. stream' \in [Context -> Seq(Command)]
  BY <1>1
<1>3. ASSUME NEW d \in Context, NEW op \in {"paint", "sample"}
      PROVE  InFlight(d, op)' = InFlight(d, op) \union
                   (IF d = c /\ cmd.op = op THEN cmd.on ELSE {})
  <2>1. CASE d # c
    <3>1. stream'[d] = stream[d]
      BY <1>1, <2>1
    <3> QED BY <2>1, <3>1 DEF InFlight
  <2>2. CASE d = c
    <3> DEFINE s == stream[c]
    <3>1. s \in Seq(Command) /\ stream'[c] = Append(s, cmd)
      BY <1>1
    <3>2. /\ DOMAIN Append(s, cmd) = DOMAIN s \union {Len(s) + 1}
          /\ \A i \in DOMAIN s : Append(s, cmd)[i] = s[i]
          /\ Append(s, cmd)[Len(s) + 1] = cmd
      BY <3>1
    <3> HIDE DEF s
    <3>3. UNION {Append(s, cmd)[i].on :
                    i \in {j \in DOMAIN Append(s, cmd) : Append(s, cmd)[j].op = op}}
          = (UNION {s[i].on : i \in {j \in DOMAIN s : s[j].op = op}})
            \union (IF cmd.op = op THEN cmd.on ELSE {})
      BY <3>2
    <3> QED BY <2>2, <3>1, <3>3 DEF InFlight, s
  <2> QED BY <2>1, <2>2
<1> QED BY <1>2, <1>3

LEMMA RetireInFlight ==
  ASSUME NEW c \in Context, Retire(c), stream \in [Context -> Seq(Command)]
  PROVE  /\ stream' \in [Context -> Seq(Command)]
         /\ \A d \in Context, op \in {"paint", "sample"} :
               InFlight(d, op)' \subseteq InFlight(d, op)
         /\ \A d \in Context : stream[d] = <<>> => stream'[d] = <<>>
<1>1. /\ stream[c] # <<>>
      /\ stream' = [stream EXCEPT ![c] = Tail(stream[c])]
  BY DEF Retire
<1>2. stream' \in [Context -> Seq(Command)]
  BY <1>1
<1>3. ASSUME NEW d \in Context, NEW op \in {"paint", "sample"}
      PROVE  InFlight(d, op)' \subseteq InFlight(d, op)
  <2>1. CASE d # c
    <3>1. stream'[d] = stream[d]
      BY <1>1, <2>1
    <3> QED BY <3>1 DEF InFlight
  <2>2. CASE d = c
    <3> DEFINE s == stream[c]
    <3>1. s \in Seq(Command) /\ s # <<>> /\ stream'[c] = Tail(s)
      BY <1>1
    <3>2. \A i \in DOMAIN Tail(s) : i + 1 \in DOMAIN s /\ Tail(s)[i] = s[i + 1]
      BY <3>1
    <3> HIDE DEF s
    <3>3. UNION {Tail(s)[i].on : i \in {j \in DOMAIN Tail(s) : Tail(s)[j].op = op}}
          \subseteq UNION {s[i].on : i \in {j \in DOMAIN s : s[j].op = op}}
      BY <3>2
    <3> QED BY <2>2, <3>1, <3>3 DEF InFlight, s
  <2> QED BY <2>1, <2>2
<1>4. \A d \in Context : stream[d] = <<>> => stream'[d] = <<>>
  BY <1>1
<1> QED BY <1>2, <1>3, <1>4

-----------------------------------------------------------------------------
LEMMA TypeInit == Init => TypeOK
<1> SUFFICES ASSUME Init PROVE TypeOK
  OBVIOUS
<1>1. <<>> \in Seq(Command)
  OBVIOUS
<1>2. stream \in [Context -> Seq(Command)]
  BY <1>1 DEF Init
<1> QED BY <1>2 DEF Init, TypeOK, MaybeTexture

LEMMA TypeStep == TypeOK /\ [Next]_vars => TypeOK'
<1> SUFFICES ASSUME TypeOK, [Next]_vars PROVE TypeOK'
  OBVIOUS
<1> USE DEF TypeOK
<1>c. /\ Compositor \in Context
      /\ Worker \subseteq Context
      /\ Texture \subseteq MaybeTexture
      /\ None \in MaybeTexture
  BY DEF Context, MaybeTexture
<1>1. ASSUME NEW t \in Tile, NEW tex \in Texture, RecordTile(t, tex) PROVE TypeOK'
  BY <1>1, <1>c DEF RecordTile, PostRaster
<1>2. CASE CommitScene
  BY <1>2 DEF CommitScene
<1>3. CASE ScheduleRender
  BY <1>3 DEF ScheduleRender, mainVars
<1>4. ASSUME NEW c \in Context, NEW tex \in Texture, Replay(c, tex)
      PROVE  painting' \in [Context -> MaybeTexture] /\ stream' \in [Context -> Seq(Command)]
  <2>1. [op |-> "paint", on |-> {tex}] \in Command
    BY DEF Command
  <2>2. stream' \in [Context -> Seq(Command)]
    BY <1>4, <2>1, SubmitInFlight DEF Replay
  <2> QED BY <1>4, <1>c, <2>2 DEF Replay
<1>5. CASE DispatchedRaster
  <2>1. PICK tex \in dispatcher :
          Replay(Compositor, tex) /\ dispatcher' = dispatcher \ {tex}
    BY <1>5 DEF DispatchedRaster
  <2>2. tex \in Texture
    OBVIOUS
  <2> QED BY <1>4, <1>5, <1>c, <2>1, <2>2 DEF DispatchedRaster, mainVars
<1>6. ASSUME NEW w \in Worker, WorkerRaster(w) PROVE TypeOK'
  <2>1. PICK tex \in pool : Replay(w, tex) /\ pool' = pool \ {tex}
    BY <1>6 DEF WorkerRaster
  <2>2. tex \in Texture
    OBVIOUS
  <2> QED BY <1>4, <1>6, <1>c, <2>1, <2>2 DEF WorkerRaster, mainVars
<1>7. ASSUME NEW c \in Context, CompletePainting(c) PROVE TypeOK'
  BY <1>7, <1>c DEF CompletePainting, mainVars
<1>8. CASE PickUpScene
  BY <1>8, <1>c DEF PickUpScene
<1>9. CASE Draw
  <2>1. [op |-> "sample", on |-> Textures(shown)] \in Command
    BY DEF Command, Textures, MaybeTexture
  <2>2. stream' \in [Context -> Seq(Command)]
    BY <1>9, <2>1, <1>c, SubmitInFlight DEF Draw
  <2> QED BY <1>9, <2>2 DEF Draw, mainVars
<1>10. CASE DidRenderFrame
  BY <1>10 DEF DidRenderFrame
<1>11. ASSUME NEW c \in Context, Retire(c) PROVE TypeOK'
  <2>1. stream' \in [Context -> Seq(Command)]
    BY <1>11, RetireInFlight
  <2> QED BY <1>11, <2>1 DEF Retire, mainVars
<1>12. CASE TimerChosen
  BY <1>12 DEF TimerChosen, mainVars
<1>13. CASE UNCHANGED vars
  BY <1>13 DEF vars, mainVars
<1> QED
  BY <1>1, <1>2, <1>3, <1>5, <1>6, <1>7, <1>8, <1>9, <1>10, <1>11, <1>12, <1>13
  DEF Next

(* Every variable keeps its type. *)
THEOREM RasterTypeCorrect == Spec => []TypeOK
  BY TypeInit, TypeStep, PTL DEF Spec

-----------------------------------------------------------------------------
LEMMA NothingInFlight ==
  ASSUME NEW c, NEW op, stream[c] = <<>>
  PROVE  InFlight(c, op) = {}
  BY DEF InFlight

LEMMA RasterInit == Init => RasterInv
<1> SUFFICES ASSUME Init PROVE RasterInv
  OBVIOUS
<1>1. \A c \in Context, op \in {"paint", "sample"} : InFlight(c, op) = {}
  BY NothingInFlight DEF Init
<1>2. Compositor \in Context /\ Worker \subseteq Context
  BY DEF Context
<1>3. Unpainted = {}
  BY DEF Init, Unpainted
<1>4. UnpaintedInUse /\ ShownPainted
  BY <1>3 DEF Init, UnpaintedInUse, ShownPainted
<1>5. OneRoute /\ PaintedOnce
  BY <1>2 DEF Init, OneRoute, PaintedOnce
<1>6. PaintsFinish /\ OnlyCompositorSamples /\ SamplesFinish /\ SamplesPainted
  BY <1>1, <1>2
  DEF PaintsFinish, OnlyCompositorSamples, SamplesFinish, SamplesPainted
<1> QED BY <1>4, <1>5, <1>6 DEF RasterInv

(* A paint that starts takes its texture off a queue and is in flight. *)
LEMMA ReplayStep ==
  ASSUME TypeOK, NEW c \in Context, NEW tex \in Texture, Replay(c, tex)
  PROVE  /\ painting[c] = None /\ painting' = [painting EXCEPT ![c] = tex]
         /\ \A d \in Context : InFlight(d, "sample")' = InFlight(d, "sample")
         /\ \A d \in Context : d # c => InFlight(d, "paint")' = InFlight(d, "paint")
         /\ InFlight(c, "paint")' = InFlight(c, "paint") \union {tex}
         /\ \A d \in Context : d # c => stream'[d] = stream[d]
<1>1. [op |-> "paint", on |-> {tex}] \in Command
  BY DEF Command
<1>2. \A d \in Context, op \in {"paint", "sample"} :
         InFlight(d, op)' = InFlight(d, op) \union
             (IF d = c /\ "paint" = op THEN {tex} ELSE {})
  BY <1>1, SubmitInFlight DEF Replay, TypeOK
<1>3. \A d \in Context : d # c => stream'[d] = stream[d]
  BY DEF Replay, Submit, TypeOK
<1> QED BY <1>2, <1>3 DEF Replay

LEMMA RasterStep ==
  ASSUME TypeOK, RasterInv, [Next]_vars
  PROVE  RasterInv'
<1> USE RasterAssumption
<1>c. /\ Compositor \in Context
      /\ Worker \subseteq Context
      /\ \A c \in Context : c = Compositor \/ c \in Worker
  BY DEF Context
<1>s. ASSUME UNCHANGED stream
      PROVE  \A c \in Context, op \in {"paint", "sample"} :
                InFlight(c, op)' = InFlight(c, op)
  BY <1>s DEF InFlight
<1>1. ASSUME NEW t \in Tile, NEW tex \in Texture, RecordTile(t, tex)
      PROVE  RasterInv'
  <2> USE <1>1 DEF RecordTile
  <2>1. /\ tex # None
        /\ tex \notin Textures(recorded) \union Textures(shown)
        /\ tex \notin Unpainted
    BY DEF Acquirable, RasterInv, UnpaintedInUse
  <2>2. Textures(recorded)' = Textures(recorded) \union {tex}
    BY <2>1 DEF Textures, TypeOK
  <2>3. Textures(shown)' = Textures(shown)
    BY DEF Textures
  <2>4. Unpainted' = Unpainted \union {tex}
    BY DEF Unpainted, PostRaster
  <2>5. UnpaintedInUse' /\ ShownPainted'
    BY <2>1, <2>2, <2>3, <2>4 DEF RasterInv, UnpaintedInUse, ShownPainted
  <2>6. OneRoute'
    BY DEF PostRaster, OnCompositor, RasterInv, OneRoute
  <2>7. PaintedOnce'
    <3>1. \A c \in Context : painting[c] # tex
      BY <2>1 DEF Unpainted
    <3> QED BY <3>1 DEF PostRaster, RasterInv, PaintedOnce
  <2>8. PaintsFinish' /\ OnlyCompositorSamples'
    BY <1>s, <1>c DEF RasterInv, PaintsFinish, OnlyCompositorSamples
  <2>9. SamplesFinish'
    BY <1>s, <1>c, <2>3 DEF RasterInv, SamplesFinish
  <2>10. SamplesPainted'
    <3>1. InFlight(Compositor, "sample")' = InFlight(Compositor, "sample")
      BY <1>s, <1>c
    <3>2. setup.poolDisabled \/ setup.glFinish =>
              tex \notin InFlight(Compositor, "sample")
      BY <2>1, <1>c DEF Acquirable, RasterInv, SamplesFinish
    <3> QED BY <3>1, <3>2, <2>4 DEF RasterInv, SamplesPainted
  <2> QED
    BY <2>5, <2>6, <2>7, <2>8, <2>9, <2>10 DEF RasterInv
<1>2. ASSUME UNCHANGED <<setup, recorded, loop, shown, dispatcher, pool, painting,
                         stream>>
      PROVE  RasterInv'
  <2>1. Unpainted' = Unpainted /\ Textures(recorded)' = Textures(recorded)
        /\ Textures(shown)' = Textures(shown)
    BY <1>2 DEF Unpainted, Textures
  <2> QED
    BY <1>2, <1>s, <1>c, <2>1
    DEF RasterInv, UnpaintedInUse, ShownPainted, OneRoute, OnCompositor, PaintedOnce,
        PaintsFinish, OnlyCompositorSamples, SamplesFinish, SamplesPainted
<1>3. ASSUME NEW c \in Context, NEW tex \in Texture, Replay(c, tex),
             UNCHANGED <<mainVars, loop, shown>>,
             \/ c = Compositor /\ tex \in dispatcher
                /\ dispatcher' = dispatcher \ {tex} /\ pool' = pool
             \/ c \in Worker /\ tex \in pool
                /\ pool' = pool \ {tex} /\ dispatcher' = dispatcher
      PROVE  RasterInv'
  <2> USE <1>3
  <2>1. /\ painting[c] = None
        /\ painting' = [painting EXCEPT ![c] = tex]
        /\ \A d \in Context : InFlight(d, "sample")' = InFlight(d, "sample")
        /\ \A d \in Context : d # c => InFlight(d, "paint")' = InFlight(d, "paint")
        /\ InFlight(c, "paint")' = InFlight(c, "paint") \union {tex}
        /\ \A d \in Context : d # c => stream'[d] = stream[d]
    BY ReplayStep
  <2>2. Unpainted' = Unpainted
    BY <2>1 DEF Unpainted, TypeOK
  <2>3. Textures(recorded)' = Textures(recorded) /\ Textures(shown)' = Textures(shown)
    BY DEF Textures, mainVars
  <2>4. UnpaintedInUse' /\ ShownPainted'
    BY <2>2, <2>3 DEF RasterInv, UnpaintedInUse, ShownPainted
  <2>5. OneRoute'
    BY <2>1, <1>c DEF RasterInv, OneRoute, OnCompositor, mainVars, TypeOK
  <2>6. PaintedOnce'
    <3>1. \A d \in Context : painting'[d] = IF d = c THEN tex ELSE painting[d]
      BY <2>1 DEF TypeOK
    <3>2. \A d \in Context : painting[d] # tex
      BY DEF RasterInv, PaintedOnce
    <3>3. tex \notin dispatcher' \union pool'
      BY DEF RasterInv, OneRoute, OnCompositor
    <3> QED BY <3>1, <3>2, <3>3 DEF RasterInv, PaintedOnce
  <2>7. PaintsFinish'
    <3>1. \A d \in Context : painting'[d] = IF d = c THEN tex ELSE painting[d]
      BY <2>1 DEF TypeOK
    <3> QED BY <3>1, <2>1 DEF RasterInv, PaintsFinish, mainVars
  <2>8. OnlyCompositorSamples' /\ SamplesFinish' /\ SamplesPainted'
    BY <2>1, <2>2, <2>3, <1>c
    DEF RasterInv, OnlyCompositorSamples, SamplesFinish, SamplesPainted, mainVars
  <2> QED BY <2>4, <2>5, <2>6, <2>7, <2>8 DEF RasterInv
<1>4. CASE DispatchedRaster
  <2>1. PICK tex \in dispatcher :
          Replay(Compositor, tex) /\ dispatcher' = dispatcher \ {tex}
    BY <1>4 DEF DispatchedRaster
  <2>2. tex \in Texture
    BY DEF TypeOK
  <2> QED BY <1>3, <1>4, <1>c, <2>1, <2>2 DEF DispatchedRaster
<1>5. ASSUME NEW w \in Worker, WorkerRaster(w) PROVE RasterInv'
  <2>1. PICK tex \in pool : Replay(w, tex) /\ pool' = pool \ {tex}
    BY <1>5 DEF WorkerRaster
  <2>2. tex \in Texture
    BY DEF TypeOK
  <2> QED BY <1>3, <1>5, <1>c, <2>1, <2>2 DEF WorkerRaster
<1>6. ASSUME NEW c \in Context, CompletePainting(c) PROVE RasterInv'
  <2> USE <1>6 DEF CompletePainting, mainVars
  <2>1. \A d \in Context : painting'[d] = IF d = c THEN None ELSE painting[d]
    BY DEF TypeOK
  <2>2. Unpainted' \subseteq Unpainted
    BY <2>1 DEF Unpainted
  <2>3. Textures(recorded)' = Textures(recorded) /\ Textures(shown)' = Textures(shown)
    BY DEF Textures
  <2>4. UnpaintedInUse' /\ ShownPainted'
    BY <2>2, <2>3 DEF RasterInv, UnpaintedInUse, ShownPainted
  <2>5. OneRoute'
    BY <2>1, <1>c DEF RasterInv, OneRoute, OnCompositor
  <2>6. PaintedOnce'
    <3>1. None \notin dispatcher \union pool
      BY DEF TypeOK
    <3> QED BY <2>1, <3>1 DEF RasterInv, PaintedOnce
  <2>7. PaintsFinish'
    <3>1. setup.fenceDisabled => InFlight(c, "paint")' = {}
      BY <1>s, NothingInFlight DEF Finished
    <3> QED BY <2>1, <3>1, <1>s DEF RasterInv, PaintsFinish
  <2>8. OnlyCompositorSamples' /\ SamplesFinish' /\ SamplesPainted'
    BY <1>s, <1>c, <2>2, <2>3
    DEF RasterInv, OnlyCompositorSamples, SamplesFinish, SamplesPainted
  <2> QED BY <2>4, <2>5, <2>6, <2>7, <2>8 DEF RasterInv
<1>7. CASE PickUpScene
  <2> USE <1>7 DEF PickUpScene
  <2>1. Unpainted' = Unpainted
    BY DEF Unpainted
  <2>2. UnpaintedInUse' /\ ShownPainted'
    <3>1. Unpainted \subseteq Textures(recorded)
      BY DEF RasterInv, UnpaintedInUse, ShownPainted
    <3>2. Textures(recorded) \subseteq Textures(recorded)' \union Textures(shown)'
      BY DEF Textures, TypeOK
    <3> QED BY <2>1, <3>1, <3>2 DEF UnpaintedInUse, ShownPainted
  <2>3. OneRoute' /\ PaintedOnce'
    BY DEF RasterInv, OneRoute, OnCompositor, PaintedOnce
  <2>4. PaintsFinish' /\ OnlyCompositorSamples'
    BY <1>s, <1>c DEF RasterInv, PaintsFinish, OnlyCompositorSamples
  <2>5. SamplesFinish' /\ SamplesPainted'
    BY <1>s, <1>c, <2>1 DEF RasterInv, SamplesFinish, SamplesPainted
  <2> QED BY <2>2, <2>3, <2>4, <2>5 DEF RasterInv
<1>8. CASE Draw
  <2> USE <1>8 DEF Draw, mainVars
  <2>1. [op |-> "sample", on |-> Textures(shown)] \in Command
    BY DEF Command, Textures, TypeOK, MaybeTexture
  <2>2. \A d \in Context, op \in {"paint", "sample"} :
          InFlight(d, op)' = InFlight(d, op) \union
              (IF d = Compositor /\ "sample" = op THEN Textures(shown) ELSE {})
    BY <2>1, <1>c, SubmitInFlight DEF TypeOK
  <2>3. Unpainted' = Unpainted /\ Textures(recorded)' = Textures(recorded)
        /\ Textures(shown)' = Textures(shown)
    BY DEF Unpainted, Textures
  <2>4. UnpaintedInUse' /\ ShownPainted' /\ PaintedOnce'
    BY <2>3 DEF RasterInv, UnpaintedInUse, ShownPainted, PaintedOnce
  <2>5. OneRoute'
    <3>1. \A w \in Worker : stream'[w] = stream[w]
      BY <1>c DEF Submit, TypeOK
    <3> QED BY <3>1 DEF RasterInv, OneRoute, OnCompositor
  <2>6. PaintsFinish' /\ OnlyCompositorSamples'
    BY <2>2, <1>c DEF RasterInv, PaintsFinish, OnlyCompositorSamples
  <2>7. SamplesFinish' /\ SamplesPainted'
    BY <2>2, <2>3, <1>c DEF RasterInv, SamplesFinish, SamplesPainted
  <2> QED BY <2>4, <2>5, <2>6, <2>7 DEF RasterInv
<1>9. CASE DidRenderFrame
  <2> USE <1>9 DEF DidRenderFrame
  <2>1. Unpainted' = Unpainted /\ Textures(recorded)' = Textures(recorded)
        /\ Textures(shown)' = Textures(shown)
    BY DEF Unpainted, Textures
  <2>2. UnpaintedInUse' /\ ShownPainted' /\ PaintedOnce' /\ OneRoute'
    BY <2>1 DEF RasterInv, UnpaintedInUse, ShownPainted, PaintedOnce, OneRoute,
        OnCompositor
  <2>3. PaintsFinish' /\ OnlyCompositorSamples'
    BY <1>s, <1>c DEF RasterInv, PaintsFinish, OnlyCompositorSamples
  <2>4. setup.glFinish => InFlight(Compositor, "sample")' = {}
    BY <1>s, <1>c, NothingInFlight DEF Finished
  <2>5. SamplesFinish' /\ SamplesPainted'
    BY <1>s, <1>c, <2>1, <2>4 DEF RasterInv, SamplesFinish, SamplesPainted
  <2> QED BY <2>2, <2>3, <2>5 DEF RasterInv
<1>10. ASSUME NEW c \in Context, Retire(c) PROVE RasterInv'
  <2> USE <1>10 DEF Retire, mainVars
  <2>1. /\ \A d \in Context, op \in {"paint", "sample"} :
              InFlight(d, op)' \subseteq InFlight(d, op)
        /\ \A d \in Context : stream[d] = <<>> => stream'[d] = <<>>
    BY RetireInFlight DEF TypeOK
  <2>2. Unpainted' = Unpainted /\ Textures(recorded)' = Textures(recorded)
        /\ Textures(shown)' = Textures(shown)
    BY DEF Unpainted, Textures
  <2>3. UnpaintedInUse' /\ ShownPainted' /\ PaintedOnce'
    BY <2>2 DEF RasterInv, UnpaintedInUse, ShownPainted, PaintedOnce
  <2>4. OneRoute'
    BY <2>1, <1>c DEF RasterInv, OneRoute, OnCompositor
  <2>5. PaintsFinish' /\ OnlyCompositorSamples'
    BY <2>1, <1>c DEF RasterInv, PaintsFinish, OnlyCompositorSamples
  <2>6. SamplesFinish' /\ SamplesPainted'
    BY <2>1, <2>2, <1>c DEF RasterInv, SamplesFinish, SamplesPainted
  <2> QED BY <2>3, <2>4, <2>5, <2>6 DEF RasterInv
<1>11. CASE CommitScene \/ ScheduleRender \/ UNCHANGED vars
  BY <1>2, <1>11 DEF CommitScene, ScheduleRender, vars, mainVars
<1>12. CASE TimerChosen
  <2> USE <1>12 DEF TimerChosen, TimerMayFire, mainVars
  <2>1. Unpainted' = Unpainted /\ Textures(recorded)' = Textures(recorded)
        /\ Textures(shown)' = Textures(shown)
    BY DEF Unpainted, Textures
  <2>2. UnpaintedInUse' /\ ShownPainted' /\ PaintedOnce' /\ OneRoute'
    BY <2>1
    DEF RasterInv, UnpaintedInUse, ShownPainted, PaintedOnce, OneRoute, OnCompositor
  <2>3. PaintsFinish' /\ OnlyCompositorSamples' /\ SamplesFinish' /\ SamplesPainted'
    BY <1>s, <1>c, <2>1
    DEF RasterInv, PaintsFinish, OnlyCompositorSamples, SamplesFinish, SamplesPainted
  <2> QED BY <2>2, <2>3 DEF RasterInv
<1> QED
  BY <1>1, <1>4, <1>5, <1>6, <1>7, <1>8, <1>9, <1>10, <1>11, <1>12 DEF Next

LEMMA RasterAlways == Spec => [](TypeOK /\ RasterInv)
<1>1. Init => TypeOK /\ RasterInv
  BY TypeInit, RasterInit
<1>2. TypeOK /\ RasterInv /\ [Next]_vars => (TypeOK /\ RasterInv)'
  BY TypeStep, RasterStep
<1> QED BY <1>1, <1>2, PTL DEF Spec

LEMMA RasterInvNoRace == TypeOK /\ RasterInv => NoGpuRace
<1> SUFFICES ASSUME TypeOK, RasterInv, FenceFree,
                    NEW c \in Context, NEW d \in Context, c # d
             PROVE  InFlight(c, "paint") \intersect
                      (InFlight(d, "sample") \union InFlight(d, "paint")) = {}
  BY DEF NoGpuRace
<1>c. \A e \in Context : e = Compositor \/ e \in Worker
  BY DEF Context
<1>1. CASE OnCompositor
  <2>1. c \in Worker \/ d \in Worker
    BY <1>c
  <2>2. \A w \in Worker : InFlight(w, "paint") = {} /\ InFlight(w, "sample") = {}
    BY <1>1, NothingInFlight DEF RasterInv, OneRoute, OnCompositor
  <2> QED BY <2>1, <2>2
<1>2. CASE setup.fenceDisabled /\ (setup.poolDisabled \/ setup.glFinish)
  <2>1. /\ InFlight(c, "paint") \subseteq {painting[c]} \ {None}
        /\ InFlight(d, "paint") \subseteq {painting[d]} \ {None}
    BY <1>2 DEF RasterInv, PaintsFinish
  <2>2. painting[c] # None => painting[c] # painting[d]
    BY DEF RasterInv, PaintedOnce
  <2>3. {painting[c]} \ {None} \subseteq Unpainted
    BY DEF Unpainted
  <2>4. InFlight(d, "sample") \intersect Unpainted = {}
    BY <1>2, <1>c DEF RasterInv, OnlyCompositorSamples, SamplesPainted
  <2> QED BY <2>1, <2>2, <2>3, <2>4
<1> QED BY <1>1, <1>2 DEF FenceFree

(* Under the settings that need no fence the GPU never has a paint and
   another context's command on the same texture in flight at once: the
   paint either shares the compositor's stream or has finished, and the pool
   hands out no texture that a frame in flight samples. *)
THEOREM FenceFreeSettingsAreSafe == Spec => []NoGpuRace
  BY RasterAlways, RasterInvNoRace, PTL

-----------------------------------------------------------------------------
(***************************************************************************)
(* The safety half of CommitsRendered, and where its exception comes from. *)
(***************************************************************************)

(* No scene is committed between the run loop's choice of a render and that
   render's pick-up, if its rasters go to the same run loop.  With the rasters
   on the worker pool this asks nothing. *)
NoLateCommit == [][CommitScene /\ OnCompositor => loop # "chosen"]_vars

(* A render that was chosen after a commit has no raster behind it: the
   timer's priority has let them all run, and the main thread, which waits,
   records no more. *)
ChosenAfterCommit == loop = "chosen" /\ main = "committed" => dispatcher = {}

LEMMA SelfWaitStep ==
  ASSUME TypeOK, RasterInv, NoSelfWait, ChosenAfterCommit, [Next]_vars,
         [CommitScene /\ OnCompositor => loop # "chosen"]_vars
  PROVE  NoSelfWait' /\ ChosenAfterCommit'
<1> USE DEF NoSelfWait, ChosenAfterCommit, mainVars
<1>1. ASSUME UNCHANGED <<main, loop, shown>>, dispatcher' \subseteq dispatcher
      PROVE  NoSelfWait' /\ ChosenAfterCommit'
  BY <1>1 DEF Textures
<1>2. ASSUME NEW t \in Tile, NEW tex \in Texture, RecordTile(t, tex)
      PROVE  NoSelfWait' /\ ChosenAfterCommit'
  <2>1. /\ tex \notin Textures(shown) /\ Textures(shown)' = Textures(shown)
        /\ main' = "flushing" /\ loop' = loop
        /\ dispatcher' \subseteq dispatcher \union {tex}
    BY <1>2 DEF RecordTile, Acquirable, PostRaster, Textures
  <2> QED BY <2>1
<1>3. CASE CommitScene
  <2>1. OnCompositor => loop # "chosen"
    BY <1>3 DEF vars, CommitScene
  <2>2. ~OnCompositor => dispatcher = {}
    BY DEF RasterInv, OneRoute
  <2>3. UNCHANGED <<loop, shown, dispatcher>>
    BY <1>3 DEF CommitScene
  <2> QED BY <2>1, <2>2, <2>3 DEF Textures
<1>4. CASE TimerChosen
  <2>1. ~OnCompositor => dispatcher = {}
    BY DEF RasterInv, OneRoute
  <2>2. dispatcher = {} /\ dispatcher' = dispatcher /\ loop' = "chosen"
    BY <1>4, <2>1 DEF TimerChosen, TimerMayFire, OnCompositor
  <2> QED BY <2>2
<1>5. CASE PickUpScene
  <2>1. CASE main = "committed"
    BY <1>5, <2>1 DEF PickUpScene
  <2>2. CASE main # "committed"
    <3>1. Textures(shown) \intersect dispatcher = {}
      BY <1>5 DEF PickUpScene, RasterInv, ShownPainted, Unpainted
    <3> QED BY <1>5, <2>2, <3>1 DEF PickUpScene, Textures
  <2> QED BY <2>1, <2>2
<1>6. CASE Draw \/ DidRenderFrame
  BY <1>6 DEF Draw, DidRenderFrame
<1>7. CASE ScheduleRender \/ UNCHANGED vars
  BY <1>1, <1>7 DEF ScheduleRender, vars
<1>8. CASE DispatchedRaster
  BY <1>1, <1>8 DEF DispatchedRaster
<1>9. ASSUME NEW w \in Worker, WorkerRaster(w)
      PROVE  NoSelfWait' /\ ChosenAfterCommit'
  BY <1>1, <1>9 DEF WorkerRaster
<1>10. ASSUME NEW c \in Context, CompletePainting(c) \/ Retire(c)
       PROVE  NoSelfWait' /\ ChosenAfterCommit'
  BY <1>1, <1>10 DEF CompletePainting, Retire
<1> QED
  BY <1>2, <1>3, <1>4, <1>5, <1>6, <1>7, <1>8, <1>9, <1>10 DEF Next

LEMMA SelfWaitAlways == Spec /\ NoLateCommit => []NoSelfWait
<1>1. Init => NoSelfWait /\ ChosenAfterCommit
  BY DEF Init, NoSelfWait, ChosenAfterCommit
<1>2. /\ TypeOK /\ RasterInv
      /\ NoSelfWait /\ ChosenAfterCommit
      /\ [Next]_vars
      /\ [CommitScene /\ OnCompositor => loop # "chosen"]_vars
      => NoSelfWait' /\ ChosenAfterCommit'
  <2> SUFFICES ASSUME TypeOK, RasterInv, NoSelfWait, ChosenAfterCommit, [Next]_vars,
                      [CommitScene /\ OnCompositor => loop # "chosen"]_vars
               PROVE  NoSelfWait' /\ ChosenAfterCommit'
    OBVIOUS
  <2> QED BY SelfWaitStep
<1> QED BY <1>1, <1>2, RasterAlways, PTL DEF Spec, NoLateCommit

(* The main thread waits only for a render that is scheduled or under way,
   and a render waits only for rasters that other threads have: those of the
   worker pool, with the compositor's thread itself idle. *)
WaitsAreServed ==
    /\ main = "committed" => timer \/ loop = "chosen"
    /\ main = "rendering" => loop # "idle"
    /\ loop # "idle" => painting[Compositor] = None
    /\ loop = "waiting" =>
           Textures(shown) \intersect Unpainted \subseteq
               pool \union {painting[w] : w \in Worker}

LEMMA WaitsAreServedStep ==
  ASSUME TypeOK, NoSelfWait', WaitsAreServed, [Next]_vars
  PROVE  WaitsAreServed'
<1>1. /\ main' = "committed" => timer' \/ loop' = "chosen"
      /\ main' = "rendering" => loop' # "idle"
  BY DEF TypeOK, WaitsAreServed, Next, RecordTile, PostRaster, CommitScene,
         ScheduleRender, DispatchedRaster, WorkerRaster, CompletePainting,
         TimerChosen, TimerMayFire, PickUpScene, Draw, DidRenderFrame, Retire,
         vars, mainVars
<1>2. loop' # "idle" => painting'[Compositor] = None
  <2>1. ASSUME NEW w \in Worker, WorkerRaster(w)
        PROVE  painting'[Compositor] = painting[Compositor] /\ loop' = loop
    <3>1. w # Compositor
      BY RasterAssumption
    <3> QED BY <2>1, <3>1 DEF WorkerRaster, Replay, TypeOK, Context
  <2>2. ASSUME NEW c \in Context, CompletePainting(c)
        PROVE  /\ painting[Compositor] = None => painting'[Compositor] = None
               /\ loop' = loop
    BY <2>2 DEF CompletePainting, TypeOK, Context
  <2>3. CASE DispatchedRaster
    BY <2>3 DEF DispatchedRaster
  <2>4. CASE TimerChosen \/ PickUpScene
    BY <2>4 DEF TimerChosen, TimerMayFire, PickUpScene, WaitsAreServed
  <2> QED
    BY <2>1, <2>2, <2>3, <2>4
    DEF WaitsAreServed, Next, RecordTile, CommitScene, ScheduleRender, Draw,
        DidRenderFrame, Retire, vars
<1>3. loop' = "waiting" =>
        Textures(shown') \intersect Unpainted' \subseteq
            pool' \union {painting'[w] : w \in Worker}
  <2>1. SUFFICES ASSUME loop' = "waiting",
                        NEW x \in Textures(shown') \intersect Unpainted'
                 PROVE  x \in pool' \union {painting'[w] : w \in Worker}
    OBVIOUS
  <2>2. x \notin dispatcher'
    BY <2>1 DEF NoSelfWait, Textures
  <2>3. x # None
    BY <2>1 DEF Textures
  <2>4. x # painting'[Compositor]
    BY <1>2, <2>1, <2>3
  <2>5. x \in pool' \union {painting'[c] : c \in Context}
    BY <2>1, <2>2 DEF Unpainted
  <2> QED BY <2>4, <2>5 DEF Context
<1>4. Textures(shown)' = Textures(shown')
  BY DEF Textures
<1> QED BY <1>1, <1>2, <1>3, <1>4 DEF WaitsAreServed

(* Whatever the switches, the three waits in a row (the main thread for the
   render, the render for its rasters, a raster for its thread) can only
   close to a circle through a scene committed to a render already chosen,
   with its rasters on the compositor's run loop. *)
THEOREM OnlyALateCommitClosesTheWaits == Spec /\ NoLateCommit => []WaitsAreServed
<1>1. Init => WaitsAreServed
  BY RasterAssumption DEF Init, WaitsAreServed, Context
<1>2. TypeOK /\ NoSelfWait' /\ WaitsAreServed /\ [Next]_vars => WaitsAreServed'
  BY WaitsAreServedStep
<1> QED BY <1>1, <1>2, RasterAlways, SelfWaitAlways, PTL DEF Spec
=============================================================================

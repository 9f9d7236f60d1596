----------------------------- MODULE TileCoverage -----------------------------
(***************************************************************************)
(* Which part of a page CoordinatedBackingStoreProxy prepaints and keeps   *)
(* painted around the viewport, with the directional coverage patch.       *)
(* Vertical extents only: the patch widens cover and keep rectangle by the *)
(* same quarter viewport on either side.  What upstream's                  *)
(* adjustForContentsRect() makes of a cover rectangle is external: it may  *)
(* be any part of the contents, inside the keep rectangle or not.          *)
(***************************************************************************)
EXTENDS Integers

CONSTANTS
    Position,    \* vertical positions of the viewport
    Height,      \* heights of the viewport and of the contents
    Multiplier,  \* cover area multipliers, in tenths
    TileHeight,
    MaxTravel    \* bound: how far a sum of moves in one direction gets

ASSUME CoverageAssumption ==
    /\ Position \subseteq Int
    /\ Height \subseteq Nat
    /\ Multiplier \subseteq {m \in Nat : 10 <= m /\ m <= 60}
    /\ TileHeight \in Nat
    /\ MaxTravel \in Nat

VARIABLES
    directional,          \* WEBKIT_DIRECTIONAL_TILE_COVERAGE, read once
    y,                    \* m_visibleRect.y()
    height,               \* m_visibleRect.height()
    contents,             \* m_contentsRect.height()
    multiplier,           \* m_coverAreaMultiplier, in tenths
    lastScrollDirection,  \* m_lastScrollDirectionY
    scrollAccumulator,    \* m_scrollAccumulatorY
    travel                \* history: the scrolling since the last turn

vars == <<directional, y, height, contents, multiplier, lastScrollDirection,
          scrollAccumulator, travel>>

(* Type correctness. *)
TypeOK ==
    /\ directional \in BOOLEAN
    /\ y \in Position
    /\ height \in Height
    /\ contents \in Height
    /\ multiplier \in Multiplier
    /\ lastScrollDirection \in {-1, 0, 1}
    /\ scrollAccumulator \in -MaxTravel..MaxTravel
    /\ travel \in -MaxTravel..MaxTravel

Abs(n) == IF n < 0 THEN -n ELSE n
Larger(a, b) == IF a > b THEN a ELSE b
Smaller(a, b) == IF a < b THEN a ELSE b

-----------------------------------------------------------------------------
(***************************************************************************)
(* Spans [lo, hi] of the page for a viewport at p of height h.             *)
(***************************************************************************)
Empty(s) == s.hi <= s.lo

Contains(outer, inner) ==
    Empty(inner) \/ (outer.lo <= inner.lo /\ inner.hi <= outer.hi)

(* IntRect::unite(). *)
Unite(a, b) ==
    IF Empty(b) THEN a
    ELSE IF Empty(a) THEN b
    ELSE [lo |-> Smaller(a.lo, b.lo), hi |-> Larger(a.hi, b.hi)]

(* intersect(m_contentsRect), for contents of height c. *)
Clip(s, c) == [lo |-> Larger(s.lo, 0), hi |-> Smaller(s.hi, c)]

(* What adjustForContentsRect() may leave of a cover span. *)
Adjusted(c) == {s \in [lo : 0..c, hi : 0..c] : s.lo <= s.hi}

(* The prepainted height beyond the viewport. *)
Extra(h, m) == (h * (m - 10)) \div 10

(* How far the cover span reaches below the viewport: seven tenths ahead of
   the motion, the rest behind, halves before any motion was seen. *)
Ahead(h, m, dir) ==
    LET most == (Extra(h, m) * 7) \div 10
    IN  IF dir > 0 THEN most
        ELSE IF dir < 0 THEN Extra(h, m) - most
        ELSE Extra(h, m) \div 2

(* How far it reaches above the viewport. *)
Behind(h, m, dir) == Ahead(h, m, -dir)

(* The cover span before it is adjusted.  Without the switch it reaches the
   same distance either way; at a multiplier of one only the viewport is
   covered. *)
Cover(p, h, m, dir) ==
    IF m = 10 THEN [lo |-> p, hi |-> p + h]
    ELSE IF directional
    THEN [lo |-> p - Behind(h, m, dir), hi |-> p + h + Ahead(h, m, dir)]
    ELSE [lo |-> p - Extra(h, m) \div 2, hi |-> p + h + Extra(h, m) \div 2]

(* Faulty variant: what is kept follows the cover span. *)
ReachOfCover(h, m, dir) == Ahead(h, m, dir)

(* The keep span of the switch reaches the larger of the two either way. *)
Reach(h, m, dir) == Larger(Ahead(h, m, dir), Behind(h, m, dir))

(* The keep span before the adjusted cover span is joined to it. *)
KeepReach(p, h, m, dir) ==
    IF m > 10 /\ directional
    THEN [lo |-> p - Reach(h, m, dir), hi |-> p + h + Reach(h, m, dir)]
    ELSE Cover(p, h, m, dir)

(* Half a tile more on either side. *)
Inflate(s) == [lo |-> s.lo - TileHeight \div 2, hi |-> s.hi + TileHeight \div 2]

(* The keep span for a cover span that was adjusted to s. *)
Keep(p, h, c, m, dir, s) == Clip(Inflate(Unite(KeepReach(p, h, m, dir), s)), c)

-----------------------------------------------------------------------------
(* A layer that has just got its first geometry. *)
Init ==
    /\ directional \in BOOLEAN
    /\ y \in Position
    /\ height \in Height
    /\ contents \in Height
    /\ multiplier \in Multiplier
    /\ lastScrollDirection = 0
    /\ scrollAccumulator = 0
    /\ travel = 0

(* Faulty variant: a turn does not start the sum again. *)
AccumulateOnly(dy) == scrollAccumulator' = scrollAccumulator + dy

Accumulate(dy) ==
    scrollAccumulator' =
        IF (dy > 0) # (scrollAccumulator > 0) THEN dy ELSE scrollAccumulator + dy

(* The direction turns after more than half a viewport one way. *)
Turn ==
    lastScrollDirection' =
        IF Abs(scrollAccumulator') > height \div 2
        THEN IF scrollAccumulator' > 0 THEN 1 ELSE -1
        ELSE lastScrollDirection

(* createOrDestroyTiles() for a viewport that moved over unchanged contents
   and kept its height.  The multiplier follows memory pressure. *)
Scroll(p, m) ==
    /\ p # y
    /\ y' = p
    /\ multiplier' = m
    /\ Accumulate(p - y)
    /\ Turn
    /\ travel' = IF (p - y) * travel < 0 THEN p - y ELSE travel + (p - y)
    /\ Abs(travel') <= MaxTravel
    /\ UNCHANGED <<directional, height, contents>>

(* Any other change of the geometry: the motion does not count. *)
Relayout(p, h, c, m) ==
    /\ h # height \/ c # contents \/ p = y
    /\ y' = p
    /\ height' = h
    /\ contents' = c
    /\ multiplier' = m
    /\ UNCHANGED <<directional, lastScrollDirection, scrollAccumulator, travel>>

Next ==
    \/ \E p \in Position, m \in Multiplier : Scroll(p, m)
    \/ \E p \in Position, h, c \in Height, m \in Multiplier : Relayout(p, h, c, m)

Spec == Init /\ [][Next]_vars

-----------------------------------------------------------------------------
(* The patch's assertion: integer divisions of odd heights leave the cover
   rectangle inside the keep rectangle; and whatever adjustForContentsRect()
   makes of the cover rectangle is kept, so no tile is painted that is thrown
   away at once. *)
KeepContainsCover ==
    /\ Contains(KeepReach(y, height, multiplier, lastScrollDirection),
                Cover(y, height, multiplier, lastScrollDirection))
    /\ \A s \in Adjusted(contents) :
          Contains(Keep(y, height, contents, multiplier, lastScrollDirection, s), s)

(* The keep rectangle stays symmetric at the maximum extent: whatever the
   cover rectangle is adjusted to, a turn of the direction keeps all that the
   old direction reaches at the new place, with half a tile on either side.
   Only what an earlier adjustment has joined to the keep rectangle may go. *)
TurnKeepsReach ==
    [][lastScrollDirection' # lastScrollDirection =>
          \A s \in Adjusted(contents') :
              Contains(Keep(y', height', contents', multiplier',
                            lastScrollDirection', s),
                       Clip(Inflate(KeepReach(y', height', multiplier',
                                              lastScrollDirection)),
                            contents'))]_vars

(* The direction turns only to where the page has been scrolled, without a
   turn, by more than half a viewport: the small counter-movement when a
   finger lands for the next flick never turns it. *)
TurnNeedsTravel ==
    [][lastScrollDirection' # lastScrollDirection =>
          /\ 2 * Abs(travel') > height
          /\ lastScrollDirection' = IF travel' > 0 THEN 1 ELSE -1]_vars
=============================================================================

-------------------------- MODULE TileCoverageProofs --------------------------
(***************************************************************************)
(* Proofs about TileCoverage for every viewport, multiplier and tile size. *)
(***************************************************************************)
EXTENDS TileCoverage, TLAPS

LEMMA Domains ==
    /\ \A p \in Position : p \in Int
    /\ \A h \in Height : h \in Nat
    /\ \A m \in Multiplier : m \in Nat /\ 10 <= m /\ m <= 60
    /\ TileHeight \in Nat
    /\ MaxTravel \in Nat
  BY CoverageAssumption

-----------------------------------------------------------------------------
(* The extra height is a natural number. *)
LEMMA ExtraNat ==
  ASSUME NEW h \in Nat, NEW m \in Nat, 10 <= m
  PROVE  Extra(h, m) \in Nat
<1> DEFINE n == h * (m - 10)
<1>1. m - 10 \in Nat
  OBVIOUS
<1>2. n \in Nat
  BY <1>1
<1> HIDE DEF n
<1>3. n \div 10 \in Nat
  BY <1>2
<1> QED BY <1>3 DEF Extra, n

(* How far the cover and keep spans reach: never past the keep span, which
   is the same in both directions of motion and no shorter than before any
   motion was seen. *)
LEMMA Reaches ==
  ASSUME NEW h \in Nat, NEW m \in Nat, 10 <= m, NEW dir \in {-1, 0, 1}
  PROVE  /\ Ahead(h, m, dir) \in Nat /\ Behind(h, m, dir) \in Nat
         /\ Reach(h, m, dir) \in Nat
         /\ Ahead(h, m, dir) <= Reach(h, m, dir)
         /\ Behind(h, m, dir) <= Reach(h, m, dir)
         /\ Reach(h, m, 1) = Reach(h, m, -1)
         /\ Reach(h, m, dir) <= Reach(h, m, 1)
<1> DEFINE e == Extra(h, m)
<1>1. e \in Nat
  BY ExtraNat
<1> HIDE DEF e
<1>2. /\ (e * 7) \div 10 \in Nat
      /\ (e * 7) \div 10 <= e
      /\ e \div 2 \in Nat
      /\ e \div 2 <= (e * 7) \div 10 \/ e \div 2 <= e - (e * 7) \div 10
  BY <1>1
<1> QED BY <1>1, <1>2 DEF Ahead, Behind, Reach, Larger, e

IsSpan(s) == s.lo \in Int /\ s.hi \in Int

(* Clipping, widening and joining spans keep what one contains of another. *)
LEMMA Spans ==
  ASSUME NEW a, NEW b, IsSpan(a), IsSpan(b), NEW c \in Nat
  PROVE  /\ IsSpan(Clip(a, c)) /\ IsSpan(Unite(a, b)) /\ IsSpan(Inflate(a))
         /\ Contains(Unite(a, b), a) /\ Contains(Unite(a, b), b)
         /\ Contains(Inflate(a), a)
         /\ ~Empty(b) /\ Contains(a, b) => Contains(Inflate(a), Inflate(b))
         /\ Contains(a, b) => Contains(Clip(a, c), Clip(b, c))
<1>1. TileHeight \div 2 \in Nat
  BY Domains
<1>2. /\ IsSpan(Clip(a, c)) /\ IsSpan(Unite(a, b))
      /\ Contains(Unite(a, b), a) /\ Contains(Unite(a, b), b)
      /\ Contains(a, b) => Contains(Clip(a, c), Clip(b, c))
  BY DEF IsSpan, Clip, Unite, Contains, Empty, Larger, Smaller
<1>3. /\ IsSpan(Inflate(a)) /\ Contains(Inflate(a), a)
      /\ ~Empty(b) /\ Contains(a, b) => Contains(Inflate(a), Inflate(b))
  BY <1>1 DEF IsSpan, Inflate, Contains, Empty
<1> QED BY <1>2, <1>3

LEMMA ContainsItself ==
  ASSUME NEW a, IsSpan(a)
  PROVE  Contains(a, a)
  BY DEF IsSpan, Contains

LEMMA ContainsTransitive ==
  ASSUME NEW a, NEW b, NEW c, IsSpan(a), IsSpan(b), IsSpan(c),
         Contains(a, b), Contains(b, c)
  PROVE  Contains(a, c)
  BY DEF IsSpan, Contains, Empty

LEMMA SpanTypes ==
  ASSUME NEW p \in Int, NEW h \in Nat, NEW m \in Nat, 10 <= m,
         NEW dir \in {-1, 0, 1}
  PROVE  IsSpan(Cover(p, h, m, dir)) /\ IsSpan(KeepReach(p, h, m, dir))
<1>1. /\ Ahead(h, m, dir) \in Nat /\ Behind(h, m, dir) \in Nat
      /\ Reach(h, m, dir) \in Nat
  BY Reaches
<1>2. Extra(h, m) \div 2 \in Int
  BY ExtraNat
<1>3. IsSpan(Cover(p, h, m, dir))
  BY <1>1, <1>2 DEF IsSpan, Cover
<1>4. IsSpan(KeepReach(p, h, m, dir))
  BY <1>1, <1>3 DEF IsSpan, KeepReach
<1> QED BY <1>3, <1>4

(* The patch's assertion holds whatever the integer divisions round. *)
LEMMA CoverInKeep ==
  ASSUME NEW p \in Int, NEW h \in Nat, NEW m \in Nat, 10 <= m,
         NEW dir \in {-1, 0, 1}
  PROVE  Contains(KeepReach(p, h, m, dir), Cover(p, h, m, dir))
<1>1. /\ Ahead(h, m, dir) \in Nat /\ Behind(h, m, dir) \in Nat
      /\ Reach(h, m, dir) \in Nat
      /\ Ahead(h, m, dir) <= Reach(h, m, dir)
      /\ Behind(h, m, dir) <= Reach(h, m, dir)
  BY Reaches
<1>2. CASE m > 10 /\ directional
  BY <1>1, <1>2 DEF Contains, KeepReach, Cover
<1>3. CASE ~(m > 10 /\ directional)
  <2>1. KeepReach(p, h, m, dir) = Cover(p, h, m, dir)
    BY <1>3 DEF KeepReach
  <2>2. IsSpan(Cover(p, h, m, dir))
    BY SpanTypes
  <2> QED BY <2>1, <2>2, ContainsItself
<1> QED BY <1>2, <1>3

(* What the contents adjustment leaves of the cover span lies in the
   contents. *)
LEMMA AdjustedSpan ==
  ASSUME NEW c \in Nat, NEW s \in Adjusted(c)
  PROVE  IsSpan(s) /\ Clip(s, c) = [lo |-> s.lo, hi |-> s.hi]
  BY DEF Adjusted, IsSpan, Clip, Larger, Smaller

(* The keep span contains the adjusted cover span. *)
LEMMA KeepContains ==
  ASSUME NEW p \in Int, NEW h \in Nat, NEW m \in Nat, 10 <= m, NEW c \in Nat,
         NEW dir \in {-1, 0, 1}, NEW s \in Adjusted(c)
  PROVE  Contains(Keep(p, h, c, m, dir, s), s)
<1> DEFINE reach == KeepReach(p, h, m, dir)
           all == Unite(reach, s)
<1>1. IsSpan(reach) /\ IsSpan(s)
  BY SpanTypes, AdjustedSpan
<1> HIDE DEF reach
<1>2. IsSpan(all) /\ Contains(all, s)
  BY <1>1, Spans
<1> HIDE DEF all
<1>3. IsSpan(Inflate(all)) /\ Contains(Inflate(all), all)
  BY <1>2, Spans
<1>4. Contains(Inflate(all), s)
  BY <1>1, <1>2, <1>3, ContainsTransitive
<1>5. Contains(Clip(Inflate(all), c), Clip(s, c))
  BY <1>1, <1>3, <1>4, Spans
<1>6. Contains(Clip(Inflate(all), c), s)
  BY <1>5, AdjustedSpan DEF Contains, Empty
<1> QED BY <1>6 DEF Keep, all, reach

(* At one place a direction of motion reaches as far either way as any other,
   and as none. *)
LEMMA ReachWhateverDirection ==
  ASSUME NEW p \in Int, NEW h \in Nat, NEW m \in Nat, 10 <= m,
         NEW old \in {-1, 0, 1}, NEW new \in {-1, 1}
  PROVE  Contains(KeepReach(p, h, m, new), KeepReach(p, h, m, old))
<1>1. CASE m > 10 /\ directional
  <2>1. /\ Reach(h, m, new) \in Nat /\ Reach(h, m, old) \in Nat
        /\ Reach(h, m, old) <= Reach(h, m, new)
    BY Reaches
  <2> QED BY <1>1, <2>1 DEF KeepReach, Contains
<1>2. CASE ~(m > 10 /\ directional)
  <2>1. KeepReach(p, h, m, new) = KeepReach(p, h, m, old)
    BY <1>2 DEF KeepReach, Cover
  <2>2. IsSpan(KeepReach(p, h, m, old))
    BY SpanTypes
  <2> QED BY <2>1, <2>2, ContainsItself
<1> QED BY <1>1, <1>2

(* So the keep span of a viewport of some height contains the reach of any
   other direction, whatever the cover span was adjusted to. *)
LEMMA KeepWhateverDirection ==
  ASSUME NEW p \in Int, NEW h \in Nat, 0 < h, NEW m \in Nat, 10 <= m,
         NEW c \in Nat, NEW old \in {-1, 0, 1}, NEW new \in {-1, 1},
         NEW s \in Adjusted(c)
  PROVE  Contains(Keep(p, h, c, m, new, s), Clip(Inflate(KeepReach(p, h, m, old)), c))
<1> DEFINE reach == KeepReach(p, h, m, new)
           other == KeepReach(p, h, m, old)
           all == Unite(reach, s)
<1>1. IsSpan(reach) /\ IsSpan(other) /\ IsSpan(s) /\ Contains(reach, other)
  BY SpanTypes, AdjustedSpan, ReachWhateverDirection
<1>2. ~Empty(other)
  <2>1. /\ Reach(h, m, old) \in Nat /\ Ahead(h, m, old) \in Nat
        /\ Behind(h, m, old) \in Nat
    BY Reaches
  <2>2. Extra(h, m) \in Nat
    BY ExtraNat
  <2>3. Extra(h, m) \div 2 \in Nat
    BY <2>2
  <2> QED BY <2>1, <2>3 DEF KeepReach, Cover, Empty
<1> HIDE DEF reach, other
<1>3. IsSpan(all) /\ Contains(all, reach)
  BY <1>1, Spans
<1> HIDE DEF all
<1>4. Contains(all, other)
  BY <1>1, <1>3, ContainsTransitive
<1>5. /\ IsSpan(Inflate(all)) /\ IsSpan(Inflate(other))
      /\ Contains(Inflate(all), Inflate(other))
  BY <1>1, <1>2, <1>3, <1>4, Spans
<1>6. Contains(Clip(Inflate(all), c), Clip(Inflate(other), c))
  BY <1>5, Spans
<1> QED BY <1>6 DEF Keep, all, reach, other

-----------------------------------------------------------------------------
(* The accumulator is the travel since the last turn. *)
CoverageInv == TypeOK /\ scrollAccumulator = travel

LEMMA CoverageInit == Init => CoverageInv
  BY Domains DEF Init, CoverageInv, TypeOK

LEMMA CoverageStep == CoverageInv /\ [Next]_vars => CoverageInv'
<1> SUFFICES ASSUME CoverageInv, [Next]_vars PROVE CoverageInv'
  OBVIOUS
<1> USE Domains DEF CoverageInv, TypeOK
<1>1. ASSUME NEW p \in Position, NEW m \in Multiplier, Scroll(p, m)
      PROVE  CoverageInv'
  <2>0. p \in Int /\ y \in Int
    OBVIOUS
  <2>1. p - y \in Int /\ p - y # 0
    BY <1>1, <2>0 DEF Scroll
  <2> DEFINE dy == p - y
  <2>2. /\ scrollAccumulator' = IF (dy > 0) # (travel > 0) THEN dy ELSE travel + dy
        /\ travel' = IF dy * travel < 0 THEN dy ELSE travel + dy
    BY <1>1 DEF Scroll, Accumulate
  <2> HIDE DEF dy
  <2>3. dy \in Int /\ dy # 0 /\ travel \in Int
    BY <2>1 DEF dy
  <2>4. dy * travel < 0 <=> (dy > 0 /\ travel < 0) \/ (dy < 0 /\ travel > 0)
    BY <2>3
  <2>5. scrollAccumulator' = travel' /\ travel' \in Int
    BY <2>2, <2>3, <2>4
  <2>6. travel' \in -MaxTravel..MaxTravel
    BY <1>1, <2>5 DEF Scroll, Abs
  <2>7. lastScrollDirection' \in {-1, 0, 1}
    BY <1>1 DEF Scroll, Turn
  <2> QED BY <1>1, <2>5, <2>6, <2>7 DEF Scroll
<1>2. ASSUME NEW p \in Position, NEW h \in Height, NEW c \in Height,
             NEW m \in Multiplier, Relayout(p, h, c, m)
      PROVE  CoverageInv'
  BY <1>2 DEF Relayout
<1>3. CASE UNCHANGED vars
  BY <1>3 DEF vars
<1> QED BY <1>1, <1>2, <1>3 DEF Next

LEMMA CoverageAlways == Spec => []CoverageInv
  BY CoverageInit, CoverageStep, PTL DEF Spec

(* The variables keep their types, and the directions are -1, 0 and 1. *)
THEOREM CoverageTypeCorrect == Spec => []TypeOK
<1>1. CoverageInv => TypeOK
  BY DEF CoverageInv
<1> QED BY <1>1, CoverageAlways, PTL

(* Whatever the viewport's height, the multiplier and the tile size, and
   whatever the cover rectangle is adjusted to, what is covered lies within
   what is kept. *)
THEOREM CoveredIsKept == Spec => []KeepContainsCover
<1>1. CoverageInv => KeepContainsCover
  <2> SUFFICES ASSUME CoverageInv PROVE KeepContainsCover
    OBVIOUS
  <2>1. /\ y \in Int /\ height \in Nat /\ contents \in Nat
        /\ multiplier \in Nat /\ 10 <= multiplier
        /\ lastScrollDirection \in {-1, 0, 1}
    BY Domains DEF CoverageInv, TypeOK
  <2> QED BY <2>1, CoverInKeep, KeepContains DEF KeepContainsCover
<1> QED BY <1>1, CoverageAlways, PTL

(* The integer half of an odd height rounds down, which the strict comparison
   makes good. *)
LEMMA MoreThanHalf ==
  ASSUME NEW n \in Int, NEW h \in Nat, Abs(n) > h \div 2
  PROVE  2 * Abs(n) > h
<1>1. Abs(n) \in Nat
  BY DEF Abs
<1> DEFINE k == Abs(n)
<1> HIDE DEF k
<1>2. k \in Nat /\ k > h \div 2
  BY <1>1 DEF k
<1>3. 2 * k > h
  BY <1>2
<1> QED BY <1>3 DEF k

(* What a step that turns the direction looks like. *)
LEMMA TurnStep ==
  ASSUME CoverageInv, CoverageInv', Next, lastScrollDirection' # lastScrollDirection
  PROVE  /\ lastScrollDirection' \in {-1, 1}
         /\ 2 * Abs(travel') > height
         /\ lastScrollDirection' = IF travel' > 0 THEN 1 ELSE -1
<1>1. PICK p \in Position, m \in Multiplier : Scroll(p, m)
  BY DEF Next, Relayout
<1>2. /\ Abs(travel') > height \div 2
      /\ lastScrollDirection' = IF travel' > 0 THEN 1 ELSE -1
  BY <1>1 DEF Scroll, Turn, CoverageInv
<1>3. height \in Nat /\ travel' \in Int
  BY Domains DEF CoverageInv, TypeOK
<1>4. 2 * Abs(travel') > height
  BY <1>2, <1>3, MoreThanHalf
<1> QED BY <1>2, <1>4

(* A turn of the direction never evicts a tile within the reach of the old
   one, for every viewport of some height. *)
THEOREM TurnsKeepReach ==
  ASSUME 0 \notin Height
  PROVE  Spec => TurnKeepsReach
<1> DEFINE Keeps ==
      lastScrollDirection' # lastScrollDirection =>
          \A s \in Adjusted(contents') :
              Contains(Keep(y', height', contents', multiplier',
                            lastScrollDirection', s),
                       Clip(Inflate(KeepReach(y', height', multiplier',
                                              lastScrollDirection)),
                            contents'))
<1>1. ASSUME CoverageInv, CoverageInv', Next, lastScrollDirection' # lastScrollDirection
      PROVE  Keeps
  <2>1. /\ y' \in Int /\ height' \in Nat /\ 0 < height' /\ contents' \in Nat
        /\ multiplier' \in Nat /\ 10 <= multiplier'
        /\ lastScrollDirection \in {-1, 0, 1}
    BY <1>1, Domains DEF CoverageInv, TypeOK
  <2>2. lastScrollDirection' \in {-1, 1}
    BY <1>1, TurnStep
  <2> QED BY <2>1, <2>2, KeepWhateverDirection
<1>2. CoverageInv /\ CoverageInv' /\ [Next]_vars => [Keeps]_vars
  BY <1>1
<1> QED BY <1>2, CoverageAlways, PTL DEF Spec, TurnKeepsReach

(* The direction turns only after more than half a viewport of scrolling
   without a turn, for every height, odd or even. *)
THEOREM TurnsNeedTravel == Spec => TurnNeedsTravel
<1> DEFINE Travelled ==
      lastScrollDirection' # lastScrollDirection =>
          /\ 2 * Abs(travel') > height
          /\ lastScrollDirection' = IF travel' > 0 THEN 1 ELSE -1
<1>1. CoverageInv /\ CoverageInv' /\ [Next]_vars => [Travelled]_vars
  BY TurnStep DEF vars
<1> QED BY <1>1, CoverageAlways, PTL DEF Spec, TurnNeedsTravel
=============================================================================

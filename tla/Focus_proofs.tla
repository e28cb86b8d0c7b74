----------------------------- MODULE Focus_proofs -----------------------------
(***************************************************************************)
(* Proofs that a focused image shows its target and nothing but its        *)
(* target, for every box and every screen.                                 *)
(***************************************************************************)
EXTENDS Focus, TLAPS

Box == [x : Int, y : Int, width : Int, height : Int]
Shot == [vw : Int, vh : Int, scale : Int, w : Nat, h : Nat]
Rect == [left : Int, top : Int, right : Int, bottom : Int]

\* The quotient, by what it is.
LEMMA Quotient ==
  ASSUME NEW a \in Int, NEW v \in Nat, v > 0
  PROVE  /\ a \div v \in Int
         /\ v * (a \div v) <= a /\ a < v * (a \div v) + v
  OBVIOUS

\* Multiplication by a natural number keeps the order.
LEMMA Products ==
  ASSUME NEW i \in Int, NEW j \in Int, NEW v \in Nat, i <= j
  PROVE  i * v \in Int /\ j * v \in Int /\ i * v <= j * v
  OBVIOUS

\* A pixel is past the near edge, rounded down, iff its far side is past the edge.
LEMMA Floor ==
  ASSUME NEW a \in Int, NEW v \in Nat, v > 0, NEW i \in Int
  PROVE  i >= a \div v <=> (i + 1) * v > a
  <1> DEFINE q == a \div v
  <1>1. q \in Int /\ v * q <= a /\ a < v * q + v
    BY Quotient
  <1> HIDE DEF q
  <1>2. v * q = q * v /\ q * v \in Int /\ (q + 1) * v = q * v + v
    BY <1>1
  <1>3. CASE i >= q
    <2>1. (q + 1) * v <= (i + 1) * v
      BY <1>1, <1>3, Products
    <2> QED BY <1>1, <1>2, <1>3, <2>1 DEF q
  <1>4. CASE i < q
    <2>1. (i + 1) * v <= q * v
      BY <1>1, <1>4, Products
    <2> QED BY <1>1, <1>2, <1>4, <2>1 DEF q
  <1> QED BY <1>1, <1>3, <1>4

\* A pixel is before the far edge, rounded up, iff its near side is before the edge.
LEMMA Ceiling ==
  ASSUME NEW c \in Int, NEW v \in Nat, v > 0, NEW i \in Int
  PROVE  CeilDiv(c, v) \in Int /\ (i < CeilDiv(c, v) <=> i * v < c)
  <1> DEFINE q == (-c) \div v
  <1>1. q \in Int /\ v * q <= -c /\ -c < v * q + v
    BY Quotient
  <1>2. CeilDiv(c, v) = -q
    BY DEF CeilDiv
  <1> HIDE DEF q
  <1>3. CeilDiv(c, v) \in Int
    BY <1>1, <1>2
  <1>4. (-i) * v = -(i * v) /\ i * v \in Int
    OBVIOUS
  <1>5. -i >= q + 1 <=> (-i) * v > -c
    <2>1. -i - 1 >= q <=> (-i - 1 + 1) * v > -c
      BY Floor DEF q
    <2> QED BY <1>1, <2>1
  <1> QED BY <1>1, <1>2, <1>3, <1>4, <1>5
-----------------------------------------------------------------------------
(* The mapping of a box *)

\* Clipping at the image does not matter to a pixel of the image.
LEMMA Clipping ==
  ASSUME NEW near \in Int, NEW far \in Int, NEW max \in Nat, NEW i \in 0 .. max - 1
  PROVE  /\ Clamped(near, max) \in 0 .. max /\ Clamped(far, max) \in 0 .. max
         /\ i >= Clamped(near, max) <=> i >= near
         /\ i < Clamped(far, max) <=> i < far
  BY DEF Clamped

\* A mapped rectangle lies in the image, its edges those of the box scaled and clamped.
LEMMA MappedTyped ==
  ASSUME NEW b \in Box, NEW s \in Shot, s.vw > 0, s.vh > 0
  PROVE  LET r == map_rect(b, s).rect IN
         /\ r \in Rect
         /\ r.left >= 0 /\ r.right <= s.w /\ r.top >= 0 /\ r.bottom <= s.h
         /\ r.left = Clamped((b.x * s.w) \div s.vw, s.w)
         /\ r.top = Clamped((b.y * s.h) \div s.vh, s.h)
         /\ r.right = Clamped(CeilDiv((b.x + b.width) * s.w, s.vw), s.w)
         /\ r.bottom = Clamped(CeilDiv((b.y + b.height) * s.h, s.vh), s.h)
  <1>1. /\ b.x \in Int /\ b.y \in Int /\ b.width \in Int /\ b.height \in Int
        /\ s.vw \in Nat /\ s.vh \in Nat /\ s.w \in Nat /\ s.h \in Nat
    BY DEF Box, Shot
  <1>2. /\ b.x * s.w \in Int /\ (b.x + b.width) * s.w \in Int
        /\ b.y * s.h \in Int /\ (b.y + b.height) * s.h \in Int
    BY <1>1
  <1> DEFINE left == (b.x * s.w) \div s.vw
             top == (b.y * s.h) \div s.vh
             right == CeilDiv((b.x + b.width) * s.w, s.vw)
             bottom == CeilDiv((b.y + b.height) * s.h, s.vh)
  <1>3. left \in Int /\ top \in Int /\ right \in Int /\ bottom \in Int
    BY <1>1, <1>2, Quotient, Ceiling
  <1>4. map_rect(b, s).rect = [left |-> Clamped(left, s.w), top |-> Clamped(top, s.h),
                               right |-> Clamped(right, s.w), bottom |-> Clamped(bottom, s.h)]
    BY DEF map_rect, Mapped
  <1> HIDE DEF left, top, right, bottom
  <1>5. /\ Clamped(left, s.w) \in 0 .. s.w /\ Clamped(right, s.w) \in 0 .. s.w
        /\ Clamped(top, s.h) \in 0 .. s.h /\ Clamped(bottom, s.h) \in 0 .. s.h
    BY <1>1, <1>3 DEF Clamped
  <1> QED BY <1>4, <1>5 DEF Rect, left, top, right, bottom

\* A pixel the box touches is a pixel of its rectangle, and the other way round.
LEMMA TouchedIsInside ==
  ASSUME NEW b \in Box, NEW s \in Shot, s.vw > 0, s.vh > 0, NEW p \in Pixels(s)
  PROVE  p \in Touched(b, s) <=> Inside(p, map_rect(b, s).rect)
  <1>1. /\ b.x \in Int /\ b.y \in Int /\ b.width \in Int /\ b.height \in Int
        /\ s.vw \in Nat /\ s.vh \in Nat /\ s.w \in Nat /\ s.h \in Nat
    BY DEF Box, Shot
  <1> DEFINE r == map_rect(b, s).rect
             i == p[1]
             k == p[2]
             a == b.x * s.w
             c == (b.x + b.width) * s.w
             d == b.y * s.h
             e == (b.y + b.height) * s.h
  <1>2. i \in 0 .. s.w - 1 /\ k \in 0 .. s.h - 1
    BY DEF Pixels
  <1>3. /\ a \in Int /\ c \in Int /\ d \in Int /\ e \in Int /\ i \in Int /\ k \in Int
    BY <1>1, <1>2
  <1>4. /\ r.left = Clamped(a \div s.vw, s.w) /\ r.top = Clamped(d \div s.vh, s.h)
        /\ r.right = Clamped(CeilDiv(c, s.vw), s.w) /\ r.bottom = Clamped(CeilDiv(e, s.vh), s.h)
    BY MappedTyped
  <1>5. p \in Touched(b, s) <=> /\ i * s.vw < c /\ (i + 1) * s.vw > a
                                /\ k * s.vh < e /\ (k + 1) * s.vh > d
    BY DEF Touched
  <1>6. Inside(p, r) <=> i >= r.left /\ i < r.right /\ k >= r.top /\ k < r.bottom
    BY DEF Inside
  <1> HIDE DEF r, i, k, a, c, d, e
  <1>7. /\ a \div s.vw \in Int /\ d \div s.vh \in Int
        /\ CeilDiv(c, s.vw) \in Int /\ CeilDiv(e, s.vh) \in Int
    BY <1>1, <1>3, Quotient, Ceiling
  <1>8. i >= r.left <=> (i + 1) * s.vw > a
    <2>1. i >= r.left <=> i >= a \div s.vw
      BY <1>1, <1>2, <1>4, <1>7, Clipping
    <2> QED BY <1>1, <1>3, <2>1, Floor
  <1>9. i < r.right <=> i * s.vw < c
    <2>1. i < r.right <=> i < CeilDiv(c, s.vw)
      BY <1>1, <1>2, <1>4, <1>7, Clipping
    <2> QED BY <1>1, <1>3, <2>1, Ceiling
  <1>10. k >= r.top <=> (k + 1) * s.vh > d
    <2>1. k >= r.top <=> k >= d \div s.vh
      BY <1>1, <1>2, <1>4, <1>7, Clipping
    <2> QED BY <1>1, <1>3, <2>1, Floor
  <1>11. k < r.bottom <=> k * s.vh < e
    <2>1. k < r.bottom <=> k < CeilDiv(e, s.vh)
      BY <1>1, <1>2, <1>4, <1>7, Clipping
    <2> QED BY <1>1, <1>3, <2>1, Ceiling
  <1> QED BY <1>5, <1>6, <1>8, <1>9, <1>10, <1>11 DEF r

\* Padding moves each edge of a box outwards by as much.
LEMMA PaddedTyped ==
  ASSUME NEW b \in Box
  PROVE  /\ Padded(b) \in Box /\ PADDING_CSS \in Nat
         /\ Padded(b).x = b.x - PADDING_CSS /\ Padded(b).width = b.width + 2 * PADDING_CSS
         /\ Padded(b).y = b.y - PADDING_CSS /\ Padded(b).height = b.height + 2 * PADDING_CSS
  <1>1. PADDING_CSS \in Nat
    BY FocusAssumption DEF PADDING_CSS
  <1> QED BY <1>1 DEF Padded, Box

\* What a box touches, the box with its padding touches.
LEMMA PaddingTouchesMore ==
  ASSUME NEW b \in Box, NEW s \in Shot, NEW p \in Touched(b, s)
  PROVE  p \in Touched(Padded(b), s)
  <1>1. /\ b.x \in Int /\ b.y \in Int /\ b.width \in Int /\ b.height \in Int
        /\ s.vw \in Int /\ s.vh \in Int /\ s.w \in Nat /\ s.h \in Nat
    BY DEF Box, Shot
  <1>2. /\ p \in Pixels(s)
        /\ p[1] * s.vw < (b.x + b.width) * s.w /\ (p[1] + 1) * s.vw > b.x * s.w
        /\ p[2] * s.vh < (b.y + b.height) * s.h /\ (p[2] + 1) * s.vh > b.y * s.h
    BY DEF Touched
  <1>3. p[1] \in Int /\ p[2] \in Int
    BY <1>1, <1>2 DEF Pixels
  <1> DEFINE P == PADDING_CSS
  <1>4. P \in Nat
    BY PaddedTyped
  <1> HIDE DEF P
  <1>5. /\ (b.x + b.width) * s.w <= (b.x - P + (b.width + 2 * P)) * s.w
        /\ (b.x - P) * s.w <= b.x * s.w
    BY <1>1, <1>4, Products
  <1>6. /\ (b.y + b.height) * s.h <= (b.y - P + (b.height + 2 * P)) * s.h
        /\ (b.y - P) * s.h <= b.y * s.h
    BY <1>1, <1>4, Products
  <1>7. /\ p[1] * s.vw < (b.x - P + (b.width + 2 * P)) * s.w
        /\ (p[1] + 1) * s.vw > (b.x - P) * s.w
    BY <1>1, <1>2, <1>3, <1>4, <1>5
  <1>8. /\ p[2] * s.vh < (b.y - P + (b.height + 2 * P)) * s.h
        /\ (p[2] + 1) * s.vh > (b.y - P) * s.h
    BY <1>1, <1>2, <1>3, <1>4, <1>6
  <1> QED BY <1>2, <1>7, <1>8, PaddedTyped DEF Touched, P
-----------------------------------------------------------------------------
(* The outline *)

\* A rectangle of the image, not empty.
Framed(r, s) ==
  /\ r \in Rect /\ r.left >= 0 /\ r.top >= 0 /\ r.right <= s.w /\ r.bottom <= s.h
  /\ r.left < r.right /\ r.top < r.bottom

\* The grown rectangle is what lies so near to the rectangle.
LEMMA GrownIsNear ==
  ASSUME NEW s \in Shot, NEW r, Framed(r, s), NEW n \in Nat, NEW p \in Pixels(s)
  PROVE  Inside(p, Grown(r, n, s)) <=> \E q \in Around(p, n) : Inside(q, r)
  <1> DEFINE i == p[1]
             k == p[2]
  <1>1. /\ s.w \in Nat /\ s.h \in Nat /\ i \in 0 .. s.w - 1 /\ k \in 0 .. s.h - 1
        /\ r.left \in Int /\ r.right \in Int /\ r.top \in Int /\ r.bottom \in Int
    BY DEF Shot, Pixels, Framed, Rect
  <1>2. /\ i >= Clamped(r.left - n, s.w) <=> i >= r.left - n
        /\ i < Clamped(r.right + n, s.w) <=> i < r.right + n
        /\ k >= Clamped(r.top - n, s.h) <=> k >= r.top - n
        /\ k < Clamped(r.bottom + n, s.h) <=> k < r.bottom + n
    BY <1>1, Clipping
  <1>3. Inside(p, Grown(r, n, s)) <=>
          i >= r.left - n /\ i < r.right + n /\ k >= r.top - n /\ k < r.bottom + n
    BY <1>2 DEF Inside, Grown
  <1>4. ASSUME i >= r.left - n, i < r.right + n, k >= r.top - n, k < r.bottom + n
        PROVE  \E q \in Around(p, n) : Inside(q, r)
    <2> DEFINE j == IF i < r.left THEN r.left ELSE IF i < r.right THEN i ELSE r.right - 1
               l == IF k < r.top THEN r.top ELSE IF k < r.bottom THEN k ELSE r.bottom - 1
    <2>1. /\ j \in (i - n) .. (i + n) /\ j >= r.left /\ j < r.right
          /\ l \in (k - n) .. (k + n) /\ l >= r.top /\ l < r.bottom
      BY <1>1, <1>4 DEF Framed
    <2> HIDE DEF j, l
    <2>2. <<j, l>> \in Around(p, n) /\ Inside(<<j, l>>, r)
      BY <2>1 DEF Around, Inside
    <2> QED BY <2>2
  <1>5. ASSUME NEW q \in Around(p, n), Inside(q, r)
        PROVE  i >= r.left - n /\ i < r.right + n /\ k >= r.top - n /\ k < r.bottom + n
    <2>1. q[1] \in (i - n) .. (i + n) /\ q[2] \in (k - n) .. (k + n)
      BY DEF Around
    <2>2. q[1] >= r.left /\ q[1] < r.right /\ q[2] >= r.top /\ q[2] < r.bottom
      BY <1>5 DEF Inside
    <2> HIDE DEF i, k
    <2> QED BY <1>1, <2>1, <2>2
  <1> QED BY <1>3, <1>4, <1>5

\* The shrunk rectangle is what lies so deep in the rectangle.
LEMMA ShrunkIsDeep ==
  ASSUME NEW s \in Shot, NEW r, Framed(r, s), NEW n \in Nat, NEW p \in Pixels(s)
  PROVE  Inside(p, Shrunk(r, n)) <=> \A q \in Around(p, n) : Inside(q, r)
  <1> DEFINE i == p[1]
             k == p[2]
  <1>1. /\ i \in Int /\ k \in Int
        /\ r.left \in Int /\ r.right \in Int /\ r.top \in Int /\ r.bottom \in Int
        /\ r.left < r.right /\ r.top < r.bottom
    BY DEF Shot, Pixels, Framed, Rect
  <1>2. Inside(p, Shrunk(r, n)) <=>
          /\ i >= Least(r.left + n, r.right) /\ i < Most(r.right - n, r.left)
          /\ k >= Least(r.top + n, r.bottom) /\ k < Most(r.bottom - n, r.top)
    BY DEF Inside, Shrunk
  <1> HIDE DEF i, k
  <1>3. Inside(p, Shrunk(r, n)) <=>
          i - n >= r.left /\ i + n < r.right /\ k - n >= r.top /\ k + n < r.bottom
    <2>1. i >= Least(r.left + n, r.right) /\ i < Most(r.right - n, r.left) <=>
            i - n >= r.left /\ i + n < r.right
      BY <1>1 DEF Least, Most
    <2>2. k >= Least(r.top + n, r.bottom) /\ k < Most(r.bottom - n, r.top) <=>
            k - n >= r.top /\ k + n < r.bottom
      BY <1>1 DEF Least, Most
    <2> QED BY <1>2, <2>1, <2>2
  <1>4. ASSUME i - n >= r.left, i + n < r.right, k - n >= r.top, k + n < r.bottom,
               NEW q \in Around(p, n)
        PROVE  Inside(q, r)
    <2>1. q[1] \in (i - n) .. (i + n) /\ q[2] \in (k - n) .. (k + n)
      BY DEF Around, i, k
    <2> QED BY <1>1, <1>4, <2>1 DEF Inside
  <1>5. ASSUME \A q \in Around(p, n) : Inside(q, r)
        PROVE  i - n >= r.left /\ i + n < r.right /\ k - n >= r.top /\ k + n < r.bottom
    <2>1. <<i - n, k - n>> \in Around(p, n) /\ <<i + n, k + n>> \in Around(p, n)
      BY <1>1 DEF Around, i, k
    <2>2. Inside(<<i - n, k - n>>, r) /\ Inside(<<i + n, k + n>>, r)
      BY <1>5, <2>1
    <2> QED BY <2>2 DEF Inside
  <1> QED BY <1>3, <1>4, <1>5
-----------------------------------------------------------------------------
(* What is written *)

\* What is written is what the program makes of this box and this screenshot.
FocusInv ==
  box \in Boxes /\ screen \in Screens /\ written \in {Nothing, render(box, screen)}

\* The focused image is a function of the box and the screenshot (render of src/focus.rs).
THEOREM FocusInvariant == Spec => []FocusInv
  <1>1. Init => FocusInv
    BY DEF Init, FocusInv
  <1>2. FocusInv /\ [Next]_vars => FocusInv'
    BY DEF FocusInv, Next, Render, vars
  <1> QED BY <1>1, <1>2, PTL DEF Spec

\* The complete image, of a visible target on a screenshot that belongs to its viewport.
Complete ==
  LET target == map_rect(box, screen)
      focus == map_rect(Padded(box), screen)
      stroke == outline_width_px(screen)
  IN /\ validate_geometry(box, screen) /\ ScaleAgrees(screen)
     /\ Visible(target.rect) /\ Visible(focus.rect)
     /\ written.target = target.rect /\ written.clipped = target.clipped
     /\ written.focus = focus.rect /\ written.stroke = stroke
     /\ written.image = [p \in Pixels(screen) |-> Colour(target.rect, focus.rect, stroke, screen, p)]

\* What is written as complete was rendered from this box and screenshot.
LEMMA CompleteIsRendered ==
  ASSUME FocusInv, written.status = "complete"
  PROVE  Complete
  <1>1. written = render(box, screen)
    BY DEF FocusInv, Nothing
  <1> DEFINE target == map_rect(box, screen)
             focus == map_rect(Padded(box), screen)
             stroke == outline_width_px(screen)
             image == [p \in Pixels(screen) |-> Colour(target.rect, focus.rect, stroke, screen, p)]
             ok == /\ validate_geometry(box, screen) /\ ScaleAgrees(screen)
                   /\ Visible(target.rect) /\ Visible(focus.rect)
  <1>2. written = IF ok THEN [status |-> "complete", target |-> target.rect,
                              clipped |-> target.clipped, focus |-> focus.rect,
                              stroke |-> stroke, image |-> image]
                        ELSE [status |-> "invalid"]
    BY <1>1 DEF render
  <1> HIDE DEF target, focus, stroke, image, ok
  <1>3. ok
    BY <1>2
  <1>4. /\ written.target = target.rect /\ written.clipped = target.clipped
        /\ written.focus = focus.rect /\ written.stroke = stroke /\ written.image = image
    BY <1>2, <1>3
  <1> QED BY <1>3, <1>4 DEF Complete, target, focus, stroke, image, ok

\* The box and the screenshot are of their types.
LEMMA InputsTyped ==
  ASSUME FocusInv
  PROVE  box \in Box /\ screen \in Shot
  BY FocusAssumption DEF FocusInv, Box, Shot

\* The width of the outline, and its halves, are numbers.
LEMMA StrokeTyped ==
  ASSUME NEW s \in Shot, s.vw > 0, s.vh > 0
  PROVE  LET stroke == outline_width_px(s) IN
         stroke \in Nat /\ CeilDiv(stroke, 2) \in Nat /\ stroke \div 2 \in Nat
  <1>1. /\ s.w \in Nat /\ s.h \in Nat /\ s.vw \in Nat /\ s.vh \in Nat /\ Unit \in Nat
    BY FocusAssumption DEF Shot
  <1> DEFINE a == OUTLINE_CSS * Unit * (s.w * s.vh + s.h * s.vw)
             v == 2 * s.vw * s.vh
  <1>2. a \in Int /\ v \in Nat /\ v > 0
    <2>1. s.w * s.vh \in Nat /\ s.h * s.vw \in Nat /\ s.vw * s.vh \in Nat /\ s.vw * s.vh > 0
      BY <1>1
    <2>2. 3 * Unit \in Nat
      BY <1>1
    <2>3. a \in Int
      BY <2>1, <2>2 DEF OUTLINE_CSS
    <2>4. v = 2 * (s.vw * s.vh)
      BY <1>1
    <2> QED BY <2>1, <2>3, <2>4
  <1>3. ScaledOutline(s) = CeilDiv(a, v)
    BY DEF ScaledOutline
  <1> HIDE DEF a, v
  <1>4. ScaledOutline(s) \in Int
    BY <1>2, <1>3, Ceiling
  <1> DEFINE stroke == outline_width_px(s)
  <1>5. stroke \in Nat /\ stroke >= 2
    BY <1>4 DEF outline_width_px, AtLeastTwo, Most
  <1> HIDE DEF stroke
  <1>6. CeilDiv(stroke, 2) \in Nat /\ stroke \div 2 \in Nat
    BY <1>5 DEF CeilDiv
  <1> QED BY <1>5, <1>6 DEF stroke

\* A visible target lies in the image.
LEMMA VisibleIsFramed ==
  ASSUME NEW b \in Box, NEW s \in Shot, s.vw > 0, s.vh > 0, Visible(map_rect(b, s).rect)
  PROVE  Framed(map_rect(b, s).rect, s)
  BY MappedTyped DEF Visible, Framed

\* A pixel of a rectangle in the image is a pixel of the image.
LEMMA FramedPixel ==
  ASSUME NEW s \in Shot, NEW r, Framed(r, s), NEW n \in Nat, NEW p \in Pixels(s),
         NEW q \in Around(p, n), Inside(q, r)
  PROVE  q \in Pixels(s)
  BY DEF Framed, Inside, Around, Pixels, Shot, Rect

\* The focused image shows the target and nothing but the target, for every box and every
\* screenshot, clipped, padded and scaled as they may be: red is the outline of the target's
\* edge, no pixel the target touches is dimmed, and the page is dimmed exactly where it is
\* neither red nor within the padding (map_rect, dim_outside, draw_outline).
THEOREM FocusIsTruthful == Spec => []FocusTellsTheTruth
  <1>1. ASSUME FocusInv, written.status = "complete"
        PROVE  FocusTellsTheTruth
    <2> DEFINE target == map_rect(box, screen).rect
               focus == map_rect(Padded(box), screen).rect
               stroke == outline_width_px(screen)
               half == CeilDiv(stroke, 2)
               inner == stroke \div 2
               shown == Touched(box, screen)
               near == Touched(Padded(box), screen)
    <2>1. box \in Box /\ Padded(box) \in Box /\ screen \in Shot
      BY <1>1, InputsTyped, PaddedTyped
    <2>2. Complete
      BY <1>1, CompleteIsRendered
    <2>3. screen.vw > 0 /\ screen.vh > 0 /\ Visible(target) /\ Visible(focus)
      BY <2>2 DEF Complete, validate_geometry
    <2>4. Framed(target, screen)
      BY <2>1, <2>3, VisibleIsFramed
    <2>5. half \in Nat /\ inner \in Nat
      BY <2>1, <2>3, StrokeTyped
    <2>6. \A p \in Pixels(screen) : /\ p \in shown <=> Inside(p, target)
                                    /\ p \in near <=> Inside(p, focus)
                                    /\ p \in shown => p \in near
      BY <2>1, <2>3, TouchedIsInside, PaddingTouchesMore
    <2>7. shown \subseteq Pixels(screen)
      BY DEF Touched
    <2>8. written.stroke = stroke
      BY <2>2 DEF Complete
    <2>9. \A p \in Pixels(screen) :
            written.image[p] = IF /\ Inside(p, Grown(target, half, screen))
                                  /\ ~Inside(p, Shrunk(target, inner))
                                 THEN "red"
                                 ELSE IF Inside(p, focus) THEN "as_is" ELSE "dimmed"
      BY <2>2 DEF Complete, Colour
    <2> HIDE DEF target, focus, stroke, half, inner, shown, near
    <2>10. shown # {}
      <3>1. /\ <<target.left, target.top>> \in Pixels(screen)
            /\ Inside(<<target.left, target.top>>, target)
        BY <2>1, <2>4 DEF Framed, Rect, Pixels, Inside, Shot
      <3> QED BY <2>6, <3>1
    <2>11. ASSUME NEW p \in Pixels(screen)
           PROVE  /\ Inside(p, Grown(target, half, screen)) <=> Around(p, half) \cap shown # {}
                  /\ Inside(p, Shrunk(target, inner)) <=> Around(p, inner) \subseteq shown
      <3>1. \A n \in Nat : \A q \in Around(p, n) : q \in shown <=> Inside(q, target)
        BY <2>1, <2>4, <2>6, <2>7, FramedPixel
      <3>2. Inside(p, Grown(target, half, screen)) <=> \E q \in Around(p, half) : Inside(q, target)
        BY <2>1, <2>4, <2>5, GrownIsNear
      <3>3. Inside(p, Shrunk(target, inner)) <=> \A q \in Around(p, inner) : Inside(q, target)
        BY <2>1, <2>4, <2>5, ShrunkIsDeep
      <3> QED BY <2>5, <3>1, <3>2, <3>3
    <2>12. ASSUME NEW p \in Pixels(screen)
           PROVE  /\ written.image[p] = "red" <=>
                       Around(p, half) \cap shown # {} /\ ~(Around(p, inner) \subseteq shown)
                  /\ written.image[p] = "dimmed" <=> written.image[p] # "red" /\ p \notin near
                  /\ p \in shown => written.image[p] # "dimmed"
      BY <2>6, <2>9, <2>11
    <2> QED BY <2>8, <2>10, <2>12 DEF FocusTellsTheTruth, shown, near, half, inner
  <1>2. FocusInv => FocusTellsTheTruth
    BY <1>1 DEF FocusTellsTheTruth
  <1> QED BY <1>2, FocusInvariant, PTL
=============================================================================

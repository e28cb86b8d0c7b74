-------------------------------- MODULE Focus --------------------------------
(***************************************************************************)
(* The focused derivative of a screenshot (src/focus.rs): which pixels of  *)
(* it are as they were, dimmed and red.                                    *)
(*                                                                         *)
(* CSS lengths are integers, Unit of them to a CSS pixel; the device scale *)
(* is in quarters.  Arithmetic is exact, where the code's is in 64-bit     *)
(* floats: what becomes of floats on their way through files is Sidecar's  *)
(* subject.  A pixel is <<x, y>>, counted from 0; a colour is one of       *)
(* "as_is", "dimmed" and "red".                                            *)
(***************************************************************************)
EXTENDS Integers, FiniteSets

CONSTANTS Unit, Boxes, Screens

ASSUME FocusAssumption ==
  /\ Unit \in Nat \ {0}
  /\ Boxes \subseteq [x : Int, y : Int, width : Int, height : Int]
  /\ Screens \subseteq [vw : Int, vh : Int, scale : Int, w : Nat, h : Nat]

PADDING_CSS == 12 * Unit
OUTLINE_CSS == 3

\* A box is [x, y, width, height] in CSS lengths; a screen is a viewport [vw, vh, scale] in
\* CSS lengths and quarters, and the screenshot taken of it, [w, h] in pixels.
VARIABLES box, screen, written

vars == <<box, screen, written>>

Nothing == [status |-> "none"]

Init == box \in Boxes /\ screen \in Screens /\ written = Nothing
-----------------------------------------------------------------------------
CeilDiv(a, b) == -((-a) \div b)
Clamped(n, max) == IF n < 0 THEN 0 ELSE IF n > max THEN max ELSE n
Least(m, n) == IF m < n THEN m ELSE n
Most(m, n) == IF m < n THEN n ELSE m

\* The pixels from left to right and from top to bottom, and what clipping at the image leaves.
Mapped(left, top, right, bottom, s) ==
  [rect |-> [left |-> Clamped(left, s.w), top |-> Clamped(top, s.h),
             right |-> Clamped(right, s.w), bottom |-> Clamped(bottom, s.h)],
   clipped |-> [left |-> left < 0, top |-> top < 0, right |-> right > s.w, bottom |-> bottom > s.h]]

\* Mutant: the far edges are rounded down like the near ones.
map_rect_floored(b, s) ==
  Mapped((b.x * s.w) \div s.vw, (b.y * s.h) \div s.vh,
         ((b.x + b.width) * s.w) \div s.vw, ((b.y + b.height) * s.h) \div s.vh, s)

\* Near edges are rounded down and far edges up, so that a pixel touched is a pixel covered.
map_rect(b, s) ==
  Mapped((b.x * s.w) \div s.vw, (b.y * s.h) \div s.vh,
         CeilDiv((b.x + b.width) * s.w, s.vw), CeilDiv((b.y + b.height) * s.h, s.vh), s)

Visible(rect) == rect.left < rect.right /\ rect.top < rect.bottom

validate_geometry(b, s) ==
  /\ b.width > 0 /\ b.height > 0 /\ s.vw > 0 /\ s.vh > 0 /\ s.scale > 0
  /\ b.x + b.width > 0 /\ b.y + b.height > 0
  /\ b.x < s.vw /\ b.y < s.vh

\* Both scales are within a hundredth of the device scale.
ScaleAgrees(s) ==
  LET Near(pixels, length) ==
        LET off == 4 * Unit * pixels - s.scale * length IN
        100 * (IF off < 0 THEN -off ELSE off) <= s.scale * length
  IN Near(s.w, s.vw) /\ Near(s.h, s.vh)

Padded(b) == [x |-> b.x - PADDING_CSS, y |-> b.y - PADDING_CSS,
              width |-> b.width + 2 * PADDING_CSS, height |-> b.height + 2 * PADDING_CSS]

\* Three CSS pixels at the mean of the two scales, rounded up.
ScaledOutline(s) == CeilDiv(OUTLINE_CSS * Unit * (s.w * s.vh + s.h * s.vw), 2 * s.vw * s.vh)
AtLeastTwo(n) == Most(n, 2)
outline_width_px(s) == AtLeastTwo(ScaledOutline(s))

Inside(p, rect) ==
  p[1] >= rect.left /\ p[1] < rect.right /\ p[2] >= rect.top /\ p[2] < rect.bottom

Grown(rect, by, s) ==
  [left |-> Clamped(rect.left - by, s.w), top |-> Clamped(rect.top - by, s.h),
   right |-> Clamped(rect.right + by, s.w), bottom |-> Clamped(rect.bottom + by, s.h)]

Shrunk(rect, by) ==
  [left |-> Least(rect.left + by, rect.right), top |-> Least(rect.top + by, rect.bottom),
   right |-> Most(rect.right - by, rect.left), bottom |-> Most(rect.bottom - by, rect.top)]

\* dim_outside, and draw_outline over it.
Colour(target, focus, stroke, s, p) ==
  IF Inside(p, Grown(target, CeilDiv(stroke, 2), s)) /\ ~Inside(p, Shrunk(target, stroke \div 2))
    THEN "red"
    ELSE IF Inside(p, focus) THEN "as_is" ELSE "dimmed"

Pixels(s) == (0 .. s.w - 1) \X (0 .. s.h - 1)

render(b, s) ==
  LET target == map_rect(b, s)
      focus == map_rect(Padded(b), s)
      stroke == outline_width_px(s)
  IN IF validate_geometry(b, s) /\ ScaleAgrees(s) /\ Visible(target.rect) /\ Visible(focus.rect)
       THEN [status |-> "complete", target |-> target.rect, clipped |-> target.clipped,
             focus |-> focus.rect, stroke |-> stroke,
             image |-> [p \in Pixels(s) |-> Colour(target.rect, focus.rect, stroke, s, p)]]
       ELSE [status |-> "invalid"]

Render ==
  /\ written = Nothing
  /\ written' = render(box, screen)
  /\ UNCHANGED <<box, screen>>

Next == Render

Spec == Init /\ [][Next]_vars
-----------------------------------------------------------------------------
(* Properties *)

\* The pixels of the screenshot that a box of the page touches, by its own definition: the
\* open areas of the pixel and of the box meet.
Touched(b, s) ==
  {p \in Pixels(s) : /\ p[1] * s.vw < (b.x + b.width) * s.w /\ (p[1] + 1) * s.vw > b.x * s.w
                     /\ p[2] * s.vh < (b.y + b.height) * s.h /\ (p[2] + 1) * s.vh > b.y * s.h}

Around(p, n) == ((p[1] - n) .. (p[1] + n)) \X ((p[2] - n) .. (p[2] + n))

\* The focused image shows the target and nothing but the target: red is what lies within
\* half an outline of the target's edge, inside or outside; no pixel the target touches is
\* ever dimmed; and the page is dimmed exactly where it is neither red nor within the padding.
FocusTellsTheTruth ==
  written.status = "complete" =>
    LET shown == Touched(box, screen)
        near == Touched(Padded(box), screen)
        half == CeilDiv(written.stroke, 2)
        inner == written.stroke \div 2
    IN /\ shown # {}
       /\ \A p \in Pixels(screen) :
            /\ written.image[p] = "red" <=>
                 Around(p, half) \cap shown # {} /\ ~(Around(p, inner) \subseteq shown)
            /\ written.image[p] = "dimmed" <=> written.image[p] # "red" /\ p \notin near
            /\ p \in shown => written.image[p] # "dimmed"
=============================================================================

------------------------------- MODULE Sidecar -------------------------------
(***************************************************************************)
(* The numbers of a capture on their way through files: the browser's      *)
(* answer, which the driver parses (capture of src/driver.rs), the sidecar *)
(* of the focused image (src/focus.rs), and the renderer, which parses the *)
(* sidecar and computes everything once more (verify_focus_metadata of     *)
(* src/render.rs).  A float is written as the shortest decimal that stands *)
(* for it, and read by serde_json without its feature float_roundtrip:     *)
(* digits and power of ten each become a float, and are divided.           *)
(*                                                                         *)
(* A float has Precision significant bits; it is given as a count of       *)
(* 1/Unit.  The module follows the vertical axis, with screenshots as wide *)
(* as their viewport.  The drawing is in Focus, in exact arithmetic.       *)
(***************************************************************************)
EXTENDS Integers

CONSTANTS
  Precision,   \* significant bits of a float: 53 in the code
  Unit,        \* a power of two
  MaxPlaces,   \* bound: decimal places of a number
  MaxExponent, \* bound: floats are less than 2^(Precision + MaxExponent) of 1/Unit
  Boxes,       \* [y, height] of the target, as the browser has them
  Screens      \* [vh, h]: the height of the viewport and that of the screenshot

ASSUME SidecarAssumption ==
  /\ {Precision, Unit, MaxPlaces, MaxExponent} \subseteq Nat \ {0}
  /\ Boxes \subseteq [y : Int, height : Nat \ {0}]
  /\ Screens \subseteq [vh : Nat \ {0}, h : Nat \ {0}]

VARIABLES
  box,      \* the box of the target in the page
  screen,   \* the viewport and the screenshot
  held,     \* what the driver made of the browser's answer
  sidecar,  \* the metadata file beside the focused image
  verdict   \* what the renderer says of it

vars == <<box, screen, held, sidecar, verdict>>

None == [none |-> 0]

Init ==
  /\ box \in Boxes /\ screen \in Screens
  /\ held = None /\ sidecar = None /\ verdict = "none"
-----------------------------------------------------------------------------
(* Floats *)

FloorDiv(n, d) == n \div d
CeilDiv(n, d) == -((-n) \div d)

\* The integer nearest to n/d, the even one of two.
Nearest(n, d) ==
  LET q == n \div d
      twice == 2 * (n % d)
  IN IF twice > d \/ (twice = d /\ q % 2 = 1) THEN q + 1 ELSE q

\* The distance between floats of the size of n/d.
Spacing(n, d) ==
  2 ^ (CHOOSE e \in 0..MaxExponent :
         /\ n \div d < 2 ^ (Precision + e)
         /\ \A lower \in 0 .. e - 1 : n \div d >= 2 ^ (Precision + lower))

\* The float nearest to n/d.
Float(n, d) ==
  LET Positive(m) == LET u == Spacing(m, d) IN u * Nearest(m, d * u)
  IN IF n < 0 THEN -Positive(-n) ELSE Positive(n)

Add(a, b) == Float(a + b, 1)
Multiply(a, b) == Float(a * b, Unit)
-----------------------------------------------------------------------------
(* Decimals *)

\* The decimal of so many places that is nearest to x.
Decimal(x, places) == [digits |-> Nearest(x * 10 ^ places, Unit), places |-> places]

StandsFor(decimal, x) == Float(decimal.digits * Unit, 10 ^ decimal.places) = x

\* The shortest decimal that stands for a float.
Write(x) ==
  LET Magnitude(m) ==
        Decimal(m, CHOOSE places \in 0..MaxPlaces :
                     /\ StandsFor(Decimal(m, places), m)
                     /\ \A fewer \in 0 .. places - 1 : ~StandsFor(Decimal(m, fewer), m))
  IN IF x < 0 THEN LET decimal == Magnitude(-x) IN [decimal EXCEPT !.digits = -@] ELSE Magnitude(x)

\* serde_json: the digits are rounded to a float before they are divided.
Read(decimal) == Float(Float(decimal.digits, 1) * Unit, Float(10 ^ decimal.places, 1))

\* Mutant: the answer is taken as it is, not parsed as the sidecar will be.
ParsedExactly(b) == b

\* The answer to `get box`.
Parsed(b) == [y |-> Read(Write(b.y)), height |-> Read(Write(b.height))]

WrittenBox(b) == [y |-> Write(b.y), height |-> Write(b.height)]
ReadBox(b) == [y |-> Read(b.y), height |-> Read(b.height)]
-----------------------------------------------------------------------------
(* Geometry *)

PADDING_CSS == 12 * Unit
OUTLINE_CSS == 3

Clamped(n, max) == IF n < 0 THEN 0 ELSE IF n > max THEN max ELSE n

map_rect(b, scale, s) ==
  LET top == FloorDiv(Multiply(b.y, scale), Unit)
      bottom == CeilDiv(Multiply(Add(b.y, b.height), scale), Unit)
  IN [rect |-> [top |-> Clamped(top, s.h), bottom |-> Clamped(bottom, s.h)],
      clipped |-> [top |-> top < 0, bottom |-> bottom > s.h]]

Visible(rect) == rect.top < rect.bottom

Padded(b) == [y |-> Add(b.y, -PADDING_CSS), height |-> Add(b.height, 2 * PADDING_CSS)]

ScaleY(s) == Float(s.h * Unit, s.vh)

\* Both programs allow the scale to be off by a hundredth of the device scale, which is 1.
ScaleAgrees(scale) ==
  LET off == scale - Unit IN 100 * (IF off < 0 THEN -off ELSE off) <= Unit

\* The mean of the two scales, of which the horizontal one is 1.
outline_width_px(scale) ==
  LET width == CeilDiv(Multiply(OUTLINE_CSS * Unit, Float(Add(Unit, scale), 2)), Unit)
  IN IF width < 2 THEN 2 ELSE width

validate_geometry(b, s) == b.height > 0 /\ Add(b.y, b.height) > 0 /\ b.y < s.vh * Unit
-----------------------------------------------------------------------------
\* capture: the driver asks for the box.
Capture ==
  /\ held = None
  /\ held' = Parsed(box)
  /\ UNCHANGED <<box, screen, sidecar, verdict>>

\* focus::render: the image is drawn, and its sidecar written, or the capture is refused.
Focus ==
  /\ held # None /\ sidecar = None
  /\ LET scale == ScaleY(screen)
         target == map_rect(held, scale, screen)
         focus == map_rect(Padded(held), scale, screen)
     IN /\ validate_geometry(held, screen) /\ ScaleAgrees(scale)
        /\ Visible(target.rect) /\ Visible(focus.rect)
        /\ sidecar' = [scale |-> Write(scale), box |-> WrittenBox(held),
                       target |-> target.rect, clipped |-> target.clipped, focus |-> focus.rect,
                       outline |-> outline_width_px(scale)]
  /\ UNCHANGED <<box, screen, held, verdict>>

\* verify_focus_metadata: the geometry is computed again from the viewport, the screenshot and
\* the box that is read from the sidecar.
Verified ==
  LET area == ReadBox(sidecar.box)
      scale == ScaleY(screen)
      target == map_rect(area, scale, screen)
      focus == map_rect(Padded(area), scale, screen)
  IN /\ area.height > 0
     /\ Visible(target.rect) /\ sidecar.target = target.rect /\ sidecar.clipped = target.clipped
     /\ Visible(focus.rect) /\ sidecar.focus = focus.rect
     /\ Read(sidecar.scale) = scale /\ ScaleAgrees(Read(sidecar.scale))
     /\ sidecar.outline = outline_width_px(scale)

Verify ==
  /\ sidecar # None /\ verdict = "none"
  /\ verdict' = IF Verified THEN "accepted" ELSE "artifact_tampered"
  /\ UNCHANGED <<box, screen, held, sidecar>>

Next == Capture \/ Focus \/ Verify

Spec == Init /\ [][Next]_vars
-----------------------------------------------------------------------------
(* Properties *)

\* A capture that nobody has touched is never called tampered because of its box, although
\* floats that went through decimals do not all come back as they were, and then move an edge.
\* The box survives because the driver has already read it in that way: what one reading
\* returns, a second reading returns again.  The scale is computed, not read: it survives if
\* it is exact, and if it is not the renderer may refuse an honest sidecar.
VerifierAgrees == verdict = "artifact_tampered" => Read(sidecar.scale) # ScaleY(screen)
=============================================================================

------------------------------- MODULE MCFocus -------------------------------
(***************************************************************************)
(* Small screens for Focus: the plain scale, a fraction, a scale so small   *)
(* that the outline has its least width, pixels that are not quite square,  *)
(* and a screenshot that does not belong to its viewport.                   *)
(***************************************************************************)
EXTENDS Focus

Screen(width, height, scale, w, h) ==
  [vw |-> width * Unit, vh |-> height * Unit, scale |-> scale, w |-> w, h |-> h]

MCScreens ==
  {Screen(32, 4, 4, 32, 4),       \* one pixel to a CSS pixel
   Screen(4, 32, 4, 4, 32),
   Screen(24, 4, 6, 36, 6),       \* three to two
   Screen(96, 16, 1, 24, 4),      \* one to four: the least outline
   Screen(100, 3, 4, 101, 3),     \* a scale just inside the tolerance
   Screen(100, 3, 4, 102, 3)}     \* and one outside

\* Boxes beside, across and inside the edges, at whole and at half CSS pixels.
MCBoxes == [x : -6 .. 66, y : {-3, 0, 1, 7}, width : {0, 1, 5, 14}, height : {1, 6}]
=============================================================================

------------------------------ MODULE MCSidecar ------------------------------
(***************************************************************************)
(* Floats of 13 bits, which stand to their five digits as those of 53 bits *)
(* stand to seventeen: 10^5 and 10^17 are 12 and 11 times their range of   *)
(* integers, and powers of ten are exact as far as they are needed.        *)
(***************************************************************************)
EXTENDS Sidecar

\* Every float from 8 to 12 CSS pixels, and some that leave the page at its top.
MCTops == {16 * n : n \in (Unit \div 2) .. ((3 * Unit) \div 4)}
MCAbove == {-Float(n * Unit, 7) : n \in 4..14}

\* Thirds and sevenths.
MCHeights == {Float(n * Unit, 3) : n \in {2, 4, 5, 7}} \cup {Float(n * Unit, 7) : n \in {4, 5, 6, 8, 20}}

MCBoxes == [y : MCTops \cup MCAbove, height : MCHeights]

\* The screenshot of the viewport the driver has set up, one of a scale that is not exact and
\* survives, and one of a scale that does not survive; the latter two are off by less than a
\* hundredth.
MCScreens == [vh : {720}, h : {720, 718, 719}]
=============================================================================

----------------------------- MODULE LayoutPlan -----------------------------
(***************************************************************************)
(* The pure planner of crates/layoutd/src/lib.rs (plan, plan_small_grid)   *)
(* and the named Labwc regions of labwc/rc.xml it asks the compositor to   *)
(* snap to.  The daemon compares the rectangles of the planner with the    *)
(* geometry Labwc computed from the regions, so the two tables, written in *)
(* two languages and two files, must agree pixel for pixel.                *)
(*                                                                         *)
(* A tile is named <<n, k>>: the k-th of n managed windows.  <<1, 1>> is   *)
(* the maximize request, every other tile is a region of rc.xml.           *)
(***************************************************************************)
EXTENDS Integers, Sequences

CONSTANT Word   \* number of values of the u32 the planner computes with

ASSUME WordAssumption == Word \in Nat \ {0}

Counts == 1..6

Rect(x, y, width, height) == [x |-> x, y |-> y, width |-> width, height |-> height]

\* A u32 result wraps in a release build.
U32(n) == n % Word

-----------------------------------------------------------------------------
(* The planner.  An output is [width, height], both u32. *)

\* Mutant: exact thirds instead of the installed 33/67 percent.
GridOfExactThirds(output, n) ==
  [k \in 1..n |->
     LET row == IF k <= 3 THEN 0 ELSE 1
         column == k - 1 - 3 * row
         columns == IF n = 5 /\ row = 1 THEN 2 ELSE 3
         x == (output.width * column) \div columns
         y == (output.height * row) \div 2
     IN  Rect(x, y, (output.width * (column + 1)) \div columns - x,
                    (output.height * (row + 1)) \div 2 - y)]

\* The cells of the 5 and 6 window grids, row by row; 33/67 are percent.
plan_small_grid(output, n) ==
  [k \in 1..n |->
     LET row == IF k <= 3 THEN 0 ELSE 1
         column == k - 3 * row
         boundaries == IF n = 5 /\ row = 1 THEN <<0, 50, 100>> ELSE <<0, 33, 67, 100>>
         y == U32(output.height * row) \div 2
         next_y == U32(output.height * (row + 1)) \div 2
         x == U32(output.width * boundaries[column]) \div 100
         next_x == U32(output.width * boundaries[column + 1]) \div 100
     IN  Rect(x, y, U32(next_x - x), U32(next_y - y))]

Half(n) == n \div 2

\* Mutant: the second half is rounded down too and an odd size loses a pixel.
RestRoundedDown(n) == n \div 2

\* The second half takes the odd pixel.
Rest(n) == n - n \div 2

\* The rectangle of each of n managed windows; no placement outside 1..6.
plan(output, n) ==
  LET w == output.width
      h == output.height
  IN  CASE n = 1 -> <<Rect(0, 0, w, h)>>
        [] n = 2 -> <<Rect(0, 0, Half(w), h), Rect(Half(w), 0, Rest(w), h)>>
        [] n = 3 -> <<Rect(0, 0, Half(w), h),
                      Rect(Half(w), 0, Rest(w), Half(h)),
                      Rect(Half(w), Half(h), Rest(w), Rest(h))>>
        [] n = 4 -> <<Rect(0, 0, Half(w), Half(h)),
                      Rect(Half(w), 0, Rest(w), Half(h)),
                      Rect(0, Half(h), Half(w), Rest(h)),
                      Rect(Half(w), Half(h), Rest(w), Rest(h))>>
        [] n \in {5, 6} -> plan_small_grid(output, n)
        [] OTHER -> << >>

-----------------------------------------------------------------------------
(* The regions of rc.xml, in percent of the usable area. *)

GridRegion(n, k) == IF n = 5 /\ k > 3 THEN Rect(50 * (k - 4), 50, 50, 50)
                    ELSE LET c == (k - 1) % 3
                         IN  Rect(<<0, 33, 67>>[c + 1], 50 * ((k - 1) \div 3),
                              <<33, 34, 33>>[c + 1], 50)

Region(n, k) ==
  CASE n = 2 -> Rect(50 * (k - 1), 0, 50, 100)
    [] n = 3 -> IF k = 1 THEN Rect(0, 0, 50, 100) ELSE Rect(50, 50 * (k - 2), 50, 50)
    [] n = 4 -> Rect(50 * ((k - 1) % 2), 50 * ((k - 1) \div 2), 50, 50)
    [] OTHER -> GridRegion(n, k)

\* How Labwc scales a region: both edges are rounded down, then subtracted.
RegionBox(output, n, k) ==
  LET r == Region(n, k)
      x == (output.width * r.x) \div 100
      y == (output.height * r.y) \div 100
  IN  Rect(x, y, (output.width * (r.x + r.width)) \div 100 - x,
                 (output.height * (r.y + r.height)) \div 100 - y)

-----------------------------------------------------------------------------
(* What a layout promises. *)

Inside(rect, x, y) == /\ rect.x <= x /\ x < rect.x + rect.width
                      /\ rect.y <= y /\ y < rect.y + rect.height

Within(rect, output) == /\ rect.x >= 0 /\ rect.x + rect.width <= output.width
                        /\ rect.y >= 0 /\ rect.y + rect.height <= output.height

\* The largest output whose products do not wrap.
Representable(output) == output.width * 100 < Word /\ output.height * 2 < Word

\* Every pixel belongs to exactly one tile, and no tile leaves the output.
ExactCover(output, n) ==
  /\ \A k \in 1..n : Within(plan(output, n)[k], output)
  /\ \A x \in 0..(output.width - 1), y \in 0..(output.height - 1) :
       /\ \E k \in 1..n : Inside(plan(output, n)[k], x, y)
       /\ \A j, k \in 1..n : /\ Inside(plan(output, n)[j], x, y)
                             /\ Inside(plan(output, n)[k], x, y)
                             => j = k

\* The geometry the daemon waits for is the one Labwc gives the region.
AgreesWithRegions(output, n) ==
  \A k \in 1..n : n > 1 => plan(output, n)[k] = RegionBox(output, n, k)
=============================================================================

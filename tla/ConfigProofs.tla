---------------------------- MODULE ConfigProofs ----------------------------
(***************************************************************************)
(* From the files to the tiles.  The planner, for every output its         *)
(* arithmetic holds and every count of windows: the tiles cover the output *)
(* exactly, and they are the regions Labwc computes from rc.xml.  The      *)
(* title patterns, of any length: what they accept and what they miss.     *)
(* The resolver, for any number of drop-ins with any contents, listed in   *)
(* any order: the highest layer wins, a refusal has a defect, and what is  *)
(* accepted is a maximum the planner has exact layouts for.                *)
(***************************************************************************)
EXTENDS ConfigResolve, PureFunctions, FiniteSetTheorems, WellFoundedInduction, TLAPS

-----------------------------------------------------------------------------
(* The planner. *)

OutputSizes == [width : Nat, height : Nat]

\* A value that fits the word is not wrapped.
LEMMA NoWrap ==
  ASSUME NEW n \in Nat, n < Word
  PROVE  U32(n) = n
BY WordAssumption DEF U32

\* One cell of a grid as plan_small_grid computes it, and without wrapping.
WrappingCell(output, left, right, row) ==
  LET y == U32(output.height * row) \div 2
      next_y == U32(output.height * (row + 1)) \div 2
      x == U32(output.width * left) \div 100
      next_x == U32(output.width * right) \div 100
  IN  Rect(x, y, U32(next_x - x), U32(next_y - y))

Edge(w, percent) == (w * percent) \div 100
Line(h, row) == (h * row) \div 2
Cell(w, h, left, right, row) ==
  Rect(Edge(w, left), Line(h, row), Edge(w, right) - Edge(w, left), Line(h, row + 1) - Line(h, row))

\* On a representable output no product of plan_small_grid wraps.
LEMMA CellValue ==
  ASSUME NEW output \in OutputSizes, Representable(output),
         NEW left \in 0..100, NEW right \in 0..100, left <= right, NEW row \in 0..1
  PROVE  WrappingCell(output, left, right, row)
           = Cell(output.width, output.height, left, right, row)
<1> DEFINE w == output.width
           h == output.height
           y == (h * row) \div 2
           next_y == (h * (row + 1)) \div 2
           x == (w * left) \div 100
           next_x == (w * right) \div 100
<1>1. /\ w \in Nat /\ h \in Nat /\ w * 100 < Word /\ h * 2 < Word /\ Word \in Nat
      /\ left \in Nat /\ right \in Nat /\ left <= 100 /\ right <= 100
  BY WordAssumption DEF OutputSizes, Representable
<1> HIDE DEF w, h
<1>2. /\ w * left \in Nat /\ w * right \in Nat
      /\ w * left <= w * right /\ w * right <= w * 100
  BY <1>1
<1>3. /\ h * row \in Nat /\ h * (row + 1) \in Nat
      /\ h * row <= h * (row + 1) /\ h * (row + 1) <= h * 2
  BY <1>1
<1>4. /\ U32(w * left) = w * left /\ U32(w * right) = w * right
      /\ U32(h * row) = h * row /\ U32(h * (row + 1)) = h * (row + 1)
  BY <1>1, <1>2, <1>3, NoWrap
<1>5. next_x - x \in Nat /\ next_x - x < Word
  BY <1>1, <1>2
<1>6. next_y - y \in Nat /\ next_y - y < Word
  BY <1>1, <1>3
<1>7. U32(next_x - x) = next_x - x /\ U32(next_y - y) = next_y - y
  BY <1>5, <1>6, NoWrap
<1> QED BY <1>4, <1>7 DEF Cell, Edge, Line, WrappingCell, w, h

\* The column boundaries of the grids, in pixels.
Third(w) == Edge(w, 33)
TwoThirds(w) == Edge(w, 67)

\* How the boundaries of an output are ordered.
LEMMA Boundaries ==
  ASSUME NEW w \in Nat
  PROVE  /\ Third(w) \in Nat /\ TwoThirds(w) \in Nat /\ Half(w) \in Nat
         /\ Third(w) <= TwoThirds(w) /\ TwoThirds(w) <= w /\ Half(w) <= w
         /\ Edge(w, 0) = 0 /\ Edge(w, 50) = Half(w) /\ Edge(w, 100) = w
         /\ Line(w, 0) = 0 /\ Line(w, 1) = Half(w) /\ Line(w, 2) = w
         /\ Line(w, 0 + 1) = Half(w) /\ Line(w, 1 + 1) = w
         /\ Third(w) - 0 = Third(w) /\ Half(w) - 0 = Half(w)
BY DEF Third, TwoThirds, Half, Edge, Line

\* The cells of the grids, spelled out.
LEMMA CellForms ==
  ASSUME NEW w \in Nat, NEW h \in Nat
  PROVE  /\ Cell(w, h, 0, 33, 0) = Rect(0, 0, Third(w), Half(h))
         /\ Cell(w, h, 33, 67, 0) = Rect(Third(w), 0, TwoThirds(w) - Third(w), Half(h))
         /\ Cell(w, h, 67, 100, 0) = Rect(TwoThirds(w), 0, w - TwoThirds(w), Half(h))
         /\ Cell(w, h, 0, 50, 1) = Rect(0, Half(h), Half(w), h - Half(h))
         /\ Cell(w, h, 50, 100, 1) = Rect(Half(w), Half(h), w - Half(w), h - Half(h))
         /\ Cell(w, h, 0, 33, 1) = Rect(0, Half(h), Third(w), h - Half(h))
         /\ Cell(w, h, 33, 67, 1) = Rect(Third(w), Half(h), TwoThirds(w) - Third(w), h - Half(h))
         /\ Cell(w, h, 67, 100, 1) = Rect(TwoThirds(w), Half(h), w - TwoThirds(w), h - Half(h))
<1>1. Cell(w, h, 0, 33, 0) = Rect(0, 0, Third(w), Half(h))
  BY Boundaries DEF Cell, Third, TwoThirds
<1>2. Cell(w, h, 33, 67, 0) = Rect(Third(w), 0, TwoThirds(w) - Third(w), Half(h))
  BY Boundaries DEF Cell, Third, TwoThirds
<1>3. Cell(w, h, 67, 100, 0) = Rect(TwoThirds(w), 0, w - TwoThirds(w), Half(h))
  BY Boundaries DEF Cell, Third, TwoThirds
<1>4. Cell(w, h, 0, 50, 1) = Rect(0, Half(h), Half(w), h - Half(h))
  BY Boundaries DEF Cell, Third, TwoThirds
<1>5. Cell(w, h, 50, 100, 1) = Rect(Half(w), Half(h), w - Half(w), h - Half(h))
  BY Boundaries DEF Cell, Third, TwoThirds
<1>6. Cell(w, h, 0, 33, 1) = Rect(0, Half(h), Third(w), h - Half(h))
  BY Boundaries DEF Cell, Third, TwoThirds
<1>7. Cell(w, h, 33, 67, 1) = Rect(Third(w), Half(h), TwoThirds(w) - Third(w), h - Half(h))
  BY Boundaries DEF Cell, Third, TwoThirds
<1>8. Cell(w, h, 67, 100, 1) = Rect(TwoThirds(w), Half(h), w - TwoThirds(w), h - Half(h))
  BY Boundaries DEF Cell, Third, TwoThirds
<1> QED BY <1>1, <1>2, <1>3, <1>4, <1>5, <1>6, <1>7, <1>8

\* The five placements of plan_small_grid.
LEMMA GridOfFive ==
  ASSUME NEW output \in OutputSizes, Representable(output), NEW w, NEW h,
         w = output.width, h = output.height
  PROVE  LET g == plan_small_grid(output, 5)
         IN  /\ g[1] = Rect(0, 0, Third(w), Half(h))
             /\ g[2] = Rect(Third(w), 0, TwoThirds(w) - Third(w), Half(h))
             /\ g[3] = Rect(TwoThirds(w), 0, w - TwoThirds(w), Half(h))
             /\ g[4] = Rect(0, Half(h), Half(w), h - Half(h))
             /\ g[5] = Rect(Half(w), Half(h), w - Half(w), h - Half(h))
<1> DEFINE g == plan_small_grid(output, 5)
<1>0. w \in Nat /\ h \in Nat
  BY DEF OutputSizes
<1>1. g[1] = Cell(w, h, 0, 33, 0)
  <2>1. g[1] = WrappingCell(output, 0, 33, 0)
    BY DEF plan_small_grid, WrappingCell
  <2>2. 0 \in 0..100 /\ 33 \in 0..100 /\ 0 <= 33 /\ 0 \in 0..1
    OBVIOUS
  <2> HIDE DEF g
  <2> QED BY <2>1, <2>2, CellValue
<1>2. g[2] = Cell(w, h, 33, 67, 0)
  <2>1. g[2] = WrappingCell(output, 33, 67, 0)
    BY DEF plan_small_grid, WrappingCell
  <2>2. 33 \in 0..100 /\ 67 \in 0..100 /\ 33 <= 67 /\ 0 \in 0..1
    OBVIOUS
  <2> HIDE DEF g
  <2> QED BY <2>1, <2>2, CellValue
<1>3. g[3] = Cell(w, h, 67, 100, 0)
  <2>1. g[3] = WrappingCell(output, 67, 100, 0)
    BY DEF plan_small_grid, WrappingCell
  <2>2. 67 \in 0..100 /\ 100 \in 0..100 /\ 67 <= 100 /\ 0 \in 0..1
    OBVIOUS
  <2> HIDE DEF g
  <2> QED BY <2>1, <2>2, CellValue
<1>4. g[4] = Cell(w, h, 0, 50, 1)
  <2>1. g[4] = WrappingCell(output, 0, 50, 1)
    BY DEF plan_small_grid, WrappingCell
  <2>2. 0 \in 0..100 /\ 50 \in 0..100 /\ 0 <= 50 /\ 1 \in 0..1
    OBVIOUS
  <2> HIDE DEF g
  <2> QED BY <2>1, <2>2, CellValue
<1>5. g[5] = Cell(w, h, 50, 100, 1)
  <2>1. g[5] = WrappingCell(output, 50, 100, 1)
    BY DEF plan_small_grid, WrappingCell
  <2>2. 50 \in 0..100 /\ 100 \in 0..100 /\ 50 <= 100 /\ 1 \in 0..1
    OBVIOUS
  <2> HIDE DEF g
  <2> QED BY <2>1, <2>2, CellValue
<1> HIDE DEF g
<1> QED BY <1>0, <1>1, <1>2, <1>3, <1>4, <1>5, CellForms DEF g

\* The six placements of plan_small_grid.
LEMMA GridOfSix ==
  ASSUME NEW output \in OutputSizes, Representable(output), NEW w, NEW h,
         w = output.width, h = output.height
  PROVE  LET g == plan_small_grid(output, 6)
         IN  /\ g[1] = Rect(0, 0, Third(w), Half(h))
             /\ g[2] = Rect(Third(w), 0, TwoThirds(w) - Third(w), Half(h))
             /\ g[3] = Rect(TwoThirds(w), 0, w - TwoThirds(w), Half(h))
             /\ g[4] = Rect(0, Half(h), Third(w), h - Half(h))
             /\ g[5] = Rect(Third(w), Half(h), TwoThirds(w) - Third(w), h - Half(h))
             /\ g[6] = Rect(TwoThirds(w), Half(h), w - TwoThirds(w), h - Half(h))
<1> DEFINE g == plan_small_grid(output, 6)
<1>0. w \in Nat /\ h \in Nat
  BY DEF OutputSizes
<1>1. g[1] = Cell(w, h, 0, 33, 0)
  <2>1. g[1] = WrappingCell(output, 0, 33, 0)
    BY DEF plan_small_grid, WrappingCell
  <2>2. 0 \in 0..100 /\ 33 \in 0..100 /\ 0 <= 33 /\ 0 \in 0..1
    OBVIOUS
  <2> HIDE DEF g
  <2> QED BY <2>1, <2>2, CellValue
<1>2. g[2] = Cell(w, h, 33, 67, 0)
  <2>1. g[2] = WrappingCell(output, 33, 67, 0)
    BY DEF plan_small_grid, WrappingCell
  <2>2. 33 \in 0..100 /\ 67 \in 0..100 /\ 33 <= 67 /\ 0 \in 0..1
    OBVIOUS
  <2> HIDE DEF g
  <2> QED BY <2>1, <2>2, CellValue
<1>3. g[3] = Cell(w, h, 67, 100, 0)
  <2>1. g[3] = WrappingCell(output, 67, 100, 0)
    BY DEF plan_small_grid, WrappingCell
  <2>2. 67 \in 0..100 /\ 100 \in 0..100 /\ 67 <= 100 /\ 0 \in 0..1
    OBVIOUS
  <2> HIDE DEF g
  <2> QED BY <2>1, <2>2, CellValue
<1>4. g[4] = Cell(w, h, 0, 33, 1)
  <2>1. g[4] = WrappingCell(output, 0, 33, 1)
    BY DEF plan_small_grid, WrappingCell
  <2>2. 0 \in 0..100 /\ 33 \in 0..100 /\ 0 <= 33 /\ 1 \in 0..1
    OBVIOUS
  <2> HIDE DEF g
  <2> QED BY <2>1, <2>2, CellValue
<1>5. g[5] = Cell(w, h, 33, 67, 1)
  <2>1. g[5] = WrappingCell(output, 33, 67, 1)
    BY DEF plan_small_grid, WrappingCell
  <2>2. 33 \in 0..100 /\ 67 \in 0..100 /\ 33 <= 67 /\ 1 \in 0..1
    OBVIOUS
  <2> HIDE DEF g
  <2> QED BY <2>1, <2>2, CellValue
<1>6. g[6] = Cell(w, h, 67, 100, 1)
  <2>1. g[6] = WrappingCell(output, 67, 100, 1)
    BY DEF plan_small_grid, WrappingCell
  <2>2. 67 \in 0..100 /\ 100 \in 0..100 /\ 67 <= 100 /\ 1 \in 0..1
    OBVIOUS
  <2> HIDE DEF g
  <2> QED BY <2>1, <2>2, CellValue
<1> HIDE DEF g
<1> QED BY <1>0, <1>1, <1>2, <1>3, <1>4, <1>5, <1>6, CellForms DEF g

-----------------------------------------------------------------------------
(* The theorems. *)

\* The six layouts, spelled out.
LEMMA PlanForms ==
  ASSUME NEW output \in OutputSizes, NEW w, NEW h, w = output.width, h = output.height
  PROVE  /\ plan(output, 1) = <<Rect(0, 0, w, h)>>
         /\ plan(output, 2) = <<Rect(0, 0, Half(w), h), Rect(Half(w), 0, w - Half(w), h)>>
         /\ plan(output, 3) = <<Rect(0, 0, Half(w), h),
                                Rect(Half(w), 0, w - Half(w), Half(h)),
                                Rect(Half(w), Half(h), w - Half(w), h - Half(h))>>
         /\ plan(output, 4) = <<Rect(0, 0, Half(w), Half(h)),
                                Rect(Half(w), 0, w - Half(w), Half(h)),
                                Rect(0, Half(h), Half(w), h - Half(h)),
                                Rect(Half(w), Half(h), w - Half(w), h - Half(h))>>
         /\ plan(output, 5) = plan_small_grid(output, 5)
         /\ plan(output, 6) = plan_small_grid(output, 6)
<1>1. /\ Rest(w) = w - Half(w) /\ Rest(h) = h - Half(h)
  BY DEF Rest, Half
<1>2. plan(output, 1) = <<Rect(0, 0, w, h)>>
  BY DEF plan
<1>3. plan(output, 2) = <<Rect(0, 0, Half(w), h), Rect(Half(w), 0, w - Half(w), h)>>
  BY <1>1 DEF plan
<1>4. plan(output, 3) = <<Rect(0, 0, Half(w), h),
                          Rect(Half(w), 0, w - Half(w), Half(h)),
                          Rect(Half(w), Half(h), w - Half(w), h - Half(h))>>
  BY <1>1 DEF plan
<1>5. plan(output, 4) = <<Rect(0, 0, Half(w), Half(h)),
                          Rect(Half(w), 0, w - Half(w), Half(h)),
                          Rect(0, Half(h), Half(w), h - Half(h)),
                          Rect(Half(w), Half(h), w - Half(w), h - Half(h))>>
  BY <1>1 DEF plan
<1>6. plan(output, 5) = plan_small_grid(output, 5) /\ plan(output, 6) = plan_small_grid(output, 6)
  BY DEF plan
<1> QED BY <1>2, <1>3, <1>4, <1>5, <1>6

\* Every pixel of every output belongs to exactly one of the tiles of each
\* layout, and no tile leaves the output (plan and plan_small_grid of lib.rs).
THEOREM LayoutsCoverExactly ==
  \A output \in OutputSizes, n \in Counts : Representable(output) => ExactCover(output, n)
<1> SUFFICES ASSUME NEW output \in OutputSizes, NEW n \in Counts, Representable(output)
             PROVE  ExactCover(output, n)
  OBVIOUS
<1> DEFINE w == output.width
           h == output.height
           a == Third(w)
           b == TwoThirds(w)
           m == Half(w)
           c == Half(h)
<1>0. w \in Nat /\ h \in Nat
  BY DEF OutputSizes
<1>1. /\ a \in Nat /\ b \in Nat /\ m \in Nat /\ c \in Nat
      /\ a <= b /\ b <= w /\ m <= w /\ c <= h
  BY <1>0, Boundaries
<1>2. CASE n = 1
  <2> DEFINE r == plan(output, 1)
  <2>1. /\ r[1] = Rect(0, 0, w, h)
    BY PlanForms
  <2> HIDE DEF r, a, b, m, c, w, h
  <2>2. ASSUME NEW k \in 1..1 PROVE Within(r[k], [width |-> w, height |-> h])
    BY <1>0, <1>1, <2>1 DEF Within, Rect
  <2>3. ASSUME NEW x \in 0..(w - 1), NEW y \in 0..(h - 1)
        PROVE  /\ \E k \in 1..1 : Inside(r[k], x, y)
               /\ \A j, k \in 1..1 : Inside(r[j], x, y) /\ Inside(r[k], x, y) => j = k
    BY <1>0, <1>1, <2>1 DEF Inside, Rect
  <2> QED BY <1>2, <2>2, <2>3 DEF ExactCover, Within, r, w, h
<1>3. CASE n = 2
  <2> DEFINE r == plan(output, 2)
  <2>1. /\ r[1] = Rect(0, 0, m, h)
        /\ r[2] = Rect(m, 0, w - m, h)
    BY PlanForms
  <2> HIDE DEF r, a, b, m, c, w, h
  <2>2. ASSUME NEW k \in 1..2 PROVE Within(r[k], [width |-> w, height |-> h])
    BY <1>0, <1>1, <2>1 DEF Within, Rect
  <2>3. ASSUME NEW x \in 0..(w - 1), NEW y \in 0..(h - 1)
        PROVE  /\ \E k \in 1..2 : Inside(r[k], x, y)
               /\ \A j, k \in 1..2 : Inside(r[j], x, y) /\ Inside(r[k], x, y) => j = k
    BY <1>0, <1>1, <2>1 DEF Inside, Rect
  <2> QED BY <1>3, <2>2, <2>3 DEF ExactCover, Within, r, w, h
<1>4. CASE n = 3
  <2> DEFINE r == plan(output, 3)
  <2>1. /\ r[1] = Rect(0, 0, m, h)
        /\ r[2] = Rect(m, 0, w - m, c)
        /\ r[3] = Rect(m, c, w - m, h - c)
    BY PlanForms
  <2> HIDE DEF r, a, b, m, c, w, h
  <2>2. ASSUME NEW k \in 1..3 PROVE Within(r[k], [width |-> w, height |-> h])
    BY <1>0, <1>1, <2>1 DEF Within, Rect
  <2>3. ASSUME NEW x \in 0..(w - 1), NEW y \in 0..(h - 1)
        PROVE  /\ \E k \in 1..3 : Inside(r[k], x, y)
               /\ \A j, k \in 1..3 : Inside(r[j], x, y) /\ Inside(r[k], x, y) => j = k
    BY <1>0, <1>1, <2>1 DEF Inside, Rect
  <2> QED BY <1>4, <2>2, <2>3 DEF ExactCover, Within, r, w, h
<1>5. CASE n = 4
  <2> DEFINE r == plan(output, 4)
  <2>1. /\ r[1] = Rect(0, 0, m, c)
        /\ r[2] = Rect(m, 0, w - m, c)
        /\ r[3] = Rect(0, c, m, h - c)
        /\ r[4] = Rect(m, c, w - m, h - c)
    BY PlanForms
  <2> HIDE DEF r, a, b, m, c, w, h
  <2>2. ASSUME NEW k \in 1..4 PROVE Within(r[k], [width |-> w, height |-> h])
    BY <1>0, <1>1, <2>1 DEF Within, Rect
  <2>3. ASSUME NEW x \in 0..(w - 1), NEW y \in 0..(h - 1)
        PROVE  /\ \E k \in 1..4 : Inside(r[k], x, y)
               /\ \A j, k \in 1..4 : Inside(r[j], x, y) /\ Inside(r[k], x, y) => j = k
    BY <1>0, <1>1, <2>1 DEF Inside, Rect
  <2> QED BY <1>5, <2>2, <2>3 DEF ExactCover, Within, r, w, h
<1>6. CASE n = 5
  <2> DEFINE r == plan(output, 5)
  <2>1. /\ r[1] = Rect(0, 0, a, c)
        /\ r[2] = Rect(a, 0, b - a, c)
        /\ r[3] = Rect(b, 0, w - b, c)
        /\ r[4] = Rect(0, c, m, h - c)
        /\ r[5] = Rect(m, c, w - m, h - c)
    BY PlanForms, GridOfFive
  <2> HIDE DEF r, a, b, m, c, w, h
  <2>2. ASSUME NEW k \in 1..5 PROVE Within(r[k], [width |-> w, height |-> h])
    BY <1>0, <1>1, <2>1 DEF Within, Rect
  <2>3. ASSUME NEW x \in 0..(w - 1), NEW y \in 0..(h - 1)
        PROVE  /\ \E k \in 1..5 : Inside(r[k], x, y)
               /\ \A j, k \in 1..5 : Inside(r[j], x, y) /\ Inside(r[k], x, y) => j = k
    BY <1>0, <1>1, <2>1 DEF Inside, Rect
  <2> QED BY <1>6, <2>2, <2>3 DEF ExactCover, Within, r, w, h
<1>7. CASE n = 6
  <2> DEFINE r == plan(output, 6)
  <2>1. /\ r[1] = Rect(0, 0, a, c)
        /\ r[2] = Rect(a, 0, b - a, c)
        /\ r[3] = Rect(b, 0, w - b, c)
        /\ r[4] = Rect(0, c, a, h - c)
        /\ r[5] = Rect(a, c, b - a, h - c)
        /\ r[6] = Rect(b, c, w - b, h - c)
    BY PlanForms, GridOfSix
  <2> HIDE DEF r, a, b, m, c, w, h
  <2>2. ASSUME NEW k \in 1..6 PROVE Within(r[k], [width |-> w, height |-> h])
    BY <1>0, <1>1, <2>1 DEF Within, Rect
  <2>3. ASSUME NEW x \in 0..(w - 1), NEW y \in 0..(h - 1)
        PROVE  /\ \E k \in 1..6 : Inside(r[k], x, y)
               /\ \A j, k \in 1..6 : Inside(r[j], x, y) /\ Inside(r[k], x, y) => j = k
    BY <1>0, <1>1, <2>1 DEF Inside, Rect
  <2> QED BY <1>7, <2>2, <2>3 DEF ExactCover, Within, r, w, h
<1> QED BY <1>2, <1>3, <1>4, <1>5, <1>6, <1>7 DEF Counts

\* The geometry the daemon waits for is, to the pixel, the geometry Labwc
\* gives the region of rc.xml: a placed window can converge on every output.
THEOREM PlannerAgreesWithRegions ==
  \A output \in OutputSizes, n \in Counts : Representable(output) => AgreesWithRegions(output, n)
<1> SUFFICES ASSUME NEW output \in OutputSizes, NEW n \in Counts, Representable(output), n > 1
             PROVE  \A k \in 1..n : plan(output, n)[k] = RegionBox(output, n, k)
  BY DEF AgreesWithRegions
<1> DEFINE w == output.width
           h == output.height
           a == Third(w)
           b == TwoThirds(w)
           m == Half(w)
           c == Half(h)
           Box(x, y, width, height) ==
             Rect(Edge(w, x), Edge(h, y), Edge(w, x + width) - Edge(w, x),
                  Edge(h, y + height) - Edge(h, y))
<1>0. w \in Nat /\ h \in Nat
  BY DEF OutputSizes
<1>1. /\ a \in Nat /\ b \in Nat /\ m \in Nat /\ c \in Nat
      /\ Edge(w, 0) = 0 /\ Edge(w, 33) = a /\ Edge(w, 50) = m /\ Edge(w, 67) = b
      /\ Edge(w, 100) = w /\ Edge(h, 0) = 0 /\ Edge(h, 50) = c /\ Edge(h, 100) = h
  BY <1>0, Boundaries DEF Third, TwoThirds
<1>a. \A k \in 1..n : RegionBox(output, n, k) =
        Box(Region(n, k).x, Region(n, k).y, Region(n, k).width, Region(n, k).height)
  BY DEF RegionBox, Edge
<1>2. CASE n = 2
  <2> DEFINE r == plan(output, 2)
  <2>1. /\ r[1] = Rect(0, 0, m, h)
        /\ r[2] = Rect(m, 0, w - m, h)
    BY PlanForms
  <2>2. /\ Region(2, 1) = Rect(0, 0, 50, 100)
        /\ Region(2, 2) = Rect(50, 0, 50, 100)
    BY DEF Region, GridRegion
  <2> HIDE DEF r, a, b, m, c, w, h
  <2>3. /\ Box(0, 0, 50, 100) = Rect(0, 0, m, h)
        /\ Box(50, 0, 50, 100) = Rect(m, 0, w - m, h)
    BY <1>0, <1>1
  <2> HIDE DEF Box
  <2> QED BY <1>a, <1>2, <2>1, <2>2, <2>3 DEF r, Rect
<1>3. CASE n = 3
  <2> DEFINE r == plan(output, 3)
  <2>1. /\ r[1] = Rect(0, 0, m, h)
        /\ r[2] = Rect(m, 0, w - m, c)
        /\ r[3] = Rect(m, c, w - m, h - c)
    BY PlanForms
  <2>2. /\ Region(3, 1) = Rect(0, 0, 50, 100)
        /\ Region(3, 2) = Rect(50, 0, 50, 50)
        /\ Region(3, 3) = Rect(50, 50, 50, 50)
    BY DEF Region, GridRegion
  <2> HIDE DEF r, a, b, m, c, w, h
  <2>3. /\ Box(0, 0, 50, 100) = Rect(0, 0, m, h)
        /\ Box(50, 0, 50, 50) = Rect(m, 0, w - m, c)
        /\ Box(50, 50, 50, 50) = Rect(m, c, w - m, h - c)
    BY <1>0, <1>1
  <2> HIDE DEF Box
  <2> QED BY <1>a, <1>3, <2>1, <2>2, <2>3 DEF r, Rect
<1>4. CASE n = 4
  <2> DEFINE r == plan(output, 4)
  <2>1. /\ r[1] = Rect(0, 0, m, c)
        /\ r[2] = Rect(m, 0, w - m, c)
        /\ r[3] = Rect(0, c, m, h - c)
        /\ r[4] = Rect(m, c, w - m, h - c)
    BY PlanForms
  <2>2. /\ Region(4, 1) = Rect(0, 0, 50, 50)
        /\ Region(4, 2) = Rect(50, 0, 50, 50)
        /\ Region(4, 3) = Rect(0, 50, 50, 50)
        /\ Region(4, 4) = Rect(50, 50, 50, 50)
    BY DEF Region, GridRegion
  <2> HIDE DEF r, a, b, m, c, w, h
  <2>3. /\ Box(0, 0, 50, 50) = Rect(0, 0, m, c)
        /\ Box(50, 0, 50, 50) = Rect(m, 0, w - m, c)
        /\ Box(0, 50, 50, 50) = Rect(0, c, m, h - c)
        /\ Box(50, 50, 50, 50) = Rect(m, c, w - m, h - c)
    BY <1>0, <1>1
  <2> HIDE DEF Box
  <2> QED BY <1>a, <1>4, <2>1, <2>2, <2>3 DEF r, Rect
<1>5. CASE n = 5
  <2> DEFINE r == plan(output, 5)
  <2>1. /\ r[1] = Rect(0, 0, a, c)
        /\ r[2] = Rect(a, 0, b - a, c)
        /\ r[3] = Rect(b, 0, w - b, c)
        /\ r[4] = Rect(0, c, m, h - c)
        /\ r[5] = Rect(m, c, w - m, h - c)
    BY PlanForms, GridOfFive
  <2>2. /\ Region(5, 1) = Rect(0, 0, 33, 50)
        /\ Region(5, 2) = Rect(33, 0, 34, 50)
        /\ Region(5, 3) = Rect(67, 0, 33, 50)
        /\ Region(5, 4) = Rect(0, 50, 50, 50)
        /\ Region(5, 5) = Rect(50, 50, 50, 50)
    BY DEF Region, GridRegion
  <2> HIDE DEF r, a, b, m, c, w, h
  <2>3. /\ Box(0, 0, 33, 50) = Rect(0, 0, a, c)
        /\ Box(33, 0, 34, 50) = Rect(a, 0, b - a, c)
        /\ Box(67, 0, 33, 50) = Rect(b, 0, w - b, c)
        /\ Box(0, 50, 50, 50) = Rect(0, c, m, h - c)
        /\ Box(50, 50, 50, 50) = Rect(m, c, w - m, h - c)
    BY <1>0, <1>1
  <2> HIDE DEF Box
  <2> QED BY <1>a, <1>5, <2>1, <2>2, <2>3 DEF r, Rect
<1>6. CASE n = 6
  <2> DEFINE r == plan(output, 6)
  <2>1. /\ r[1] = Rect(0, 0, a, c)
        /\ r[2] = Rect(a, 0, b - a, c)
        /\ r[3] = Rect(b, 0, w - b, c)
        /\ r[4] = Rect(0, c, a, h - c)
        /\ r[5] = Rect(a, c, b - a, h - c)
        /\ r[6] = Rect(b, c, w - b, h - c)
    BY PlanForms, GridOfSix
  <2>2. /\ Region(6, 1) = Rect(0, 0, 33, 50)
        /\ Region(6, 2) = Rect(33, 0, 34, 50)
        /\ Region(6, 3) = Rect(67, 0, 33, 50)
        /\ Region(6, 4) = Rect(0, 50, 33, 50)
        /\ Region(6, 5) = Rect(33, 50, 34, 50)
        /\ Region(6, 6) = Rect(67, 50, 33, 50)
    BY DEF Region, GridRegion
  <2> HIDE DEF r, a, b, m, c, w, h
  <2>3. /\ Box(0, 0, 33, 50) = Rect(0, 0, a, c)
        /\ Box(33, 0, 34, 50) = Rect(a, 0, b - a, c)
        /\ Box(67, 0, 33, 50) = Rect(b, 0, w - b, c)
        /\ Box(0, 50, 33, 50) = Rect(0, c, a, h - c)
        /\ Box(33, 50, 34, 50) = Rect(a, c, b - a, h - c)
        /\ Box(67, 50, 33, 50) = Rect(b, c, w - b, h - c)
    BY <1>0, <1>1
  <2> HIDE DEF Box
  <2> QED BY <1>a, <1>6, <2>1, <2>2, <2>3 DEF r, Rect
<1> QED BY <1>2, <1>3, <1>4, <1>5, <1>6 DEF Counts

-----------------------------------------------------------------------------
(* Counting. *)

\* A non-empty set of naturals has a least element.
LEMMA LeastNatural ==
  ASSUME NEW T \in SUBSET Nat, T # {}
  PROVE  \E i \in T : \A j \in T : i <= j
<1>1. PICK i \in T : \A j \in T : ~(<<j, i>> \in OpToRel(<, Nat))
  BY WFMin, NatLessThanWellFounded
<1>2. ASSUME NEW j \in T, j < i PROVE FALSE
  <2>1. <<j, i>> \in Nat \X Nat /\ <<j, i>>[1] < <<j, i>>[2]
    BY <1>2
  <2>2. <<j, i>> \in {ss \in Nat \X Nat : ss[1] < ss[2]}
    BY <2>1
  <2> QED BY <1>1, <2>2 DEF OpToRel
<1> QED BY <1>2

\* Counting up to n, in terms of the set of numbers that have been reached.
LEMMA CountUp ==
  ASSUME NEW n \in Nat, NEW S, 0 \in S, \A k \in 0..n : k \in S /\ k < n => k + 1 \in S
  PROVE  \A k \in 0..n : k \in S
<1> DEFINE T == {k \in 0..n : k \notin S}
<1>1. ASSUME T # {} PROVE FALSE
  <2>1. T \in SUBSET Nat
    OBVIOUS
  <2>2. PICK k \in T : \A j \in T : k <= j
    <3> HIDE DEF T
    <3> QED BY <1>1, <2>1, LeastNatural
  <2>3. k \in 0..n /\ k \notin S /\ k # 0
    BY <2>2
  <2>4. k - 1 \in 0..n /\ k - 1 < n /\ (k - 1) + 1 = k /\ ~(k <= k - 1)
    BY <2>3
  <2>5. k - 1 \in S
    BY <2>2, <2>4
  <2> QED BY <2>3, <2>4, <2>5
<1> QED BY <1>1

-----------------------------------------------------------------------------
(* Title patterns. *)

Text == Seq(Letters)
PatternTexts == Seq(Letters \cup {Star})

\* The recursion of pieces has a solution.
PieceAt(upto, pattern, k) ==
  IF k = 0 THEN << >>
  ELSE IF pattern[k] = Star THEN upto[k - 1]
  ELSE IF k = 1 \/ pattern[k - 1] = Star THEN Append(upto[k - 1], <<pattern[k]>>)
  ELSE Append(Front(upto[k - 1]), Append(Last(upto[k - 1]), pattern[k]))

LEMMA PiecesExtend ==
  ASSUME NEW pattern, NEW n \in Nat, NEW g, g = [k \in 0..n |-> PieceAt(g, pattern, k)]
  PROVE  \E h : h = [k \in 0..(n + 1) |-> PieceAt(h, pattern, k)]
<1> DEFINE next == IF pattern[n + 1] = Star THEN g[n]
                   ELSE IF n + 1 = 1 \/ pattern[n] = Star THEN Append(g[n], <<pattern[n + 1]>>)
                   ELSE Append(Front(g[n]), Append(Last(g[n]), pattern[n + 1]))
           h == [k \in 0..(n + 1) |-> IF k <= n THEN g[k] ELSE next]
           h2 == [k \in 0..(n + 1) |-> PieceAt(h, pattern, k)]
<1>1. \A k \in 0..n : g[k] = PieceAt(g, pattern, k)
  BY Zenon
<1>2. ASSUME NEW k \in 0..(n + 1) PROVE h[k] = PieceAt(h, pattern, k)
  <2>1. CASE k <= n
    <3>1. k \in 0..n /\ h[k] = g[k] /\ (k # 0 => h[k - 1] = g[k - 1])
      BY <2>1
    <3> HIDE DEF h, next
    <3> QED BY <1>1, <3>1 DEF PieceAt
  <2>2. CASE k = n + 1
    <3>1. h[k] = next /\ h[k - 1] = g[n] /\ k # 0 /\ k - 1 = n
      BY <2>2
    <3> HIDE DEF h
    <3> QED BY <2>2, <3>1 DEF PieceAt
  <2> QED BY <2>1, <2>2
<1>3. h = [k \in 0..(n + 1) |-> h[k]] /\ h2 = [k \in 0..(n + 1) |-> h2[k]]
  OBVIOUS
<1>4. \A k \in 0..(n + 1) : h2[k] = PieceAt(h, pattern, k)
  BY Zenon
<1> HIDE DEF h, h2
<1>5. h = h2
  BY <1>2, <1>3, <1>4
<1> QED BY <1>5 DEF h2

LEMMA PiecesRun ==
  ASSUME NEW pattern, Len(pattern) \in Nat
  PROVE  \E g : /\ \A k \in 0..Len(pattern) : g[k] = PieceAt(g, pattern, k)
                /\ pieces(pattern) = g[Len(pattern)]
<1> DEFINE Solved == {n \in Nat : \E g : g = [k \in 0..n |-> PieceAt(g, pattern, k)]}
           run == CHOOSE g : g = [k \in 0..Len(pattern) |-> PieceAt(g, pattern, k)]
<1>1. 0 \in Solved
  <2> DEFINE g == [k \in 0..0 |-> << >>]
             g2 == [k \in 0..0 |-> PieceAt(g, pattern, k)]
  <2>1. g = [k \in 0..0 |-> g[k]] /\ g2 = [k \in 0..0 |-> g2[k]]
    OBVIOUS
  <2>2. \A k \in 0..0 : g[k] = << >> /\ g2[k] = PieceAt(g, pattern, k) /\ k = 0
    OBVIOUS
  <2> HIDE DEF g, g2
  <2>3. g = g2
    BY <2>1, <2>2 DEF PieceAt
  <2> QED BY <2>3 DEF g2
<1>2. \A n \in 0..Len(pattern) : n \in Solved /\ n < Len(pattern) => n + 1 \in Solved
  BY PiecesExtend
<1>3. Len(pattern) \in Solved
  <2>1. \A k \in 0..Len(pattern) : k \in Solved
    <3> HIDE DEF Solved
    <3> QED BY <1>1, <1>2, CountUp
  <2>2. Len(pattern) \in 0..Len(pattern)
    OBVIOUS
  <2> HIDE DEF Solved
  <2> QED BY <2>1, <2>2
<1>4. run = [k \in 0..Len(pattern) |-> PieceAt(run, pattern, k)]
  BY <1>3
<1>5. pieces(pattern) = run[Len(pattern)]
  BY DEF pieces, PieceAt
<1> HIDE DEF run
<1>6. \A k \in 0..Len(pattern) : run[k] = PieceAt(run, pattern, k)
  BY <1>4, Zenon
<1> QED BY <1>5, <1>6

\* A list of pieces none of which is empty.
PieceLists == {qs \in Seq(Text) : \A j \in 1..Len(qs) : Len(qs[j]) # 0}

\* How the list of pieces changes with one more character x: a star ends the
\* piece, a letter starts one or lengthens the last one.
Starts(a, b, x) ==
  /\ Len(b) = Len(a) + 1 /\ \A j \in 1..Len(a) : b[j] = a[j]
  /\ Len(b[Len(b)]) = 1 /\ b[Len(b)][1] = x
Grows(a, b, x) ==
  /\ Len(a) > 0 /\ Len(b) = Len(a) /\ \A j \in 1..(Len(a) - 1) : b[j] = a[j]
  /\ Len(b[Len(b)]) = Len(a[Len(a)]) + 1 /\ b[Len(b)][Len(a[Len(a)]) + 1] = x
  /\ \A t \in 1..Len(a[Len(a)]) : b[Len(b)][t] = a[Len(a)][t]

\* The pieces of every prefix of a pattern.
IsPieceRun(g, pattern) ==
  /\ g[0] = << >> /\ pieces(pattern) = g[Len(pattern)]
  /\ \A k \in 0..Len(pattern) : g[k] \in PieceLists
  /\ \A k \in 1..Len(pattern) : pattern[1] # Star => Len(g[k]) > 0
  /\ \A k \in 1..Len(pattern) : pattern[k] # Star => Len(g[k]) > 0
  /\ \A k \in 1..Len(pattern) :
       IF pattern[k] = Star THEN g[k] = g[k - 1]
       ELSE IF k = 1 \/ pattern[k - 1] = Star THEN Starts(g[k - 1], g[k], pattern[k])
       ELSE Grows(g[k - 1], g[k], pattern[k])

LEMMA StartsPiece ==
  ASSUME NEW a \in PieceLists, NEW x \in Letters, NEW b, b = Append(a, <<x>>)
  PROVE  b \in PieceLists /\ Starts(a, b, x) /\ Len(b) > 0
<1>1. a \in Seq(Text) /\ Len(a) \in Nat /\ \A j \in 1..Len(a) : Len(a[j]) # 0
  BY DEF PieceLists
<1> DEFINE q == <<x>>
<1>2. q \in Text /\ Len(q) = 1 /\ q[1] = x
  BY DEF Text
<1> HIDE DEF q
<1>3. /\ b \in Seq(Text) /\ Len(b) = Len(a) + 1 /\ b[Len(a) + 1] = q
      /\ \A j \in 1..Len(a) : b[j] = a[j]
  BY <1>1, <1>2 DEF q
<1>4. \A j \in 1..Len(b) : j \in 1..Len(a) \/ j = Len(a) + 1
  BY <1>1, <1>3
<1>5. \A j \in 1..Len(b) : Len(b[j]) # 0
  BY <1>1, <1>2, <1>3, <1>4
<1>6. b \in PieceLists
  BY <1>3, <1>5 DEF PieceLists
<1>7. Starts(a, b, x) /\ Len(b) > 0
  BY <1>1, <1>2, <1>3 DEF Starts
<1> QED BY <1>6, <1>7

LEMMA GrowsPiece ==
  ASSUME NEW a \in PieceLists, Len(a) > 0, NEW x \in Letters, NEW b,
         b = Append(Front(a), Append(Last(a), x))
  PROVE  b \in PieceLists /\ Grows(a, b, x) /\ Len(b) > 0
<1> DEFINE n == Len(a)
           f == Front(a)
           l == Last(a)
           q == Append(l, x)
<1>1. a \in Seq(Text) /\ n \in Nat /\ n > 0 /\ \A j \in 1..n : a[j] \in Text /\ Len(a[j]) # 0
  BY DEF PieceLists
<1>2. f \in Seq(Text) /\ Len(f) = n - 1 /\ \A j \in 1..(n - 1) : f[j] = a[j]
  <2> DEFINE m == n - 1
  <2>1. m \in Nat /\ m <= Len(a) /\ f = SubSeq(a, 1, m) /\ a \in Seq(Text)
    BY <1>1 DEF Front
  <2> HIDE DEF f, n, m
  <2>2. f \in Seq(Text) /\ Len(f) = m /\ \A j \in 1..m : f[j] = a[j]
    BY <2>1
  <2> QED BY <2>2 DEF m
<1>3. l \in Text /\ l = a[n]
  BY <1>1 DEF Last
<1>4. b = Append(f, q)
  OBVIOUS
<1> HIDE DEF f, l, n
<1>5. /\ q \in Text /\ Len(q) = Len(l) + 1 /\ q[Len(l) + 1] = x /\ Len(l) \in Nat
      /\ \A t \in 1..Len(l) : q[t] = l[t]
  BY <1>3 DEF Text
<1> HIDE DEF q
<1>6. /\ b \in Seq(Text) /\ Len(b) = n /\ b[n] = q
      /\ \A j \in 1..(n - 1) : b[j] = a[j]
  BY <1>1, <1>2, <1>4, <1>5
<1>7. \A j \in 1..n : j \in 1..(n - 1) \/ j = n
  BY <1>1
<1>8. b \in PieceLists
  <2>1. \A j \in 1..n : Len(b[j]) # 0
    BY <1>1, <1>5, <1>6, <1>7
  <2> QED BY <1>6, <2>1 DEF PieceLists
<1>9. Grows(a, b, x)
  BY <1>1, <1>3, <1>5, <1>6 DEF Grows, n
<1> QED BY <1>1, <1>6, <1>8, <1>9

LEMMA PieceRunExists ==
  ASSUME NEW pattern \in PatternTexts
  PROVE  \E g : IsPieceRun(g, pattern)
<1>1. /\ Len(pattern) \in Nat
      /\ \A k \in 1..Len(pattern) : pattern[k] # Star => pattern[k] \in Letters
  BY DEF PatternTexts
<1>2. PICK g : /\ \A k \in 0..Len(pattern) : g[k] = PieceAt(g, pattern, k)
               /\ pieces(pattern) = g[Len(pattern)]
  BY <1>1, PiecesRun
<1>3. g[0] = << >>
  <2>1. 0 \in 0..Len(pattern)
    BY <1>1
  <2>2. g[0] = PieceAt(g, pattern, 0)
    BY <1>2, <2>1
  <2> QED BY <2>2 DEF PieceAt
<1> DEFINE Shaped(k) == /\ g[k] \in PieceLists
                        /\ k # 0 /\ pattern[1] # Star => Len(g[k]) > 0
                        /\ k # 0 /\ pattern[k] # Star => Len(g[k]) > 0
           Step(k) == IF pattern[k] = Star THEN g[k] = g[k - 1]
                      ELSE IF k = 1 \/ pattern[k - 1] = Star THEN Starts(g[k - 1], g[k], pattern[k])
                      ELSE Grows(g[k - 1], g[k], pattern[k])
           Done == {k \in 0..Len(pattern) : Shaped(k)}
<1>4. 0 \in Done
  <2>1. << >> \in PieceLists
    BY DEF PieceLists
  <2> QED BY <1>1, <1>3, <2>1
<1>5. ASSUME NEW k \in 0..Len(pattern), Shaped(k), k < Len(pattern)
      PROVE  Shaped(k + 1) /\ Step(k + 1)
  <2> DEFINE x == pattern[k + 1]
             a == g[k]
             b == g[k + 1]
  <2>1. /\ k + 1 \in 1..Len(pattern) /\ k + 1 \in 0..Len(pattern) /\ (k + 1) - 1 = k
        /\ k + 1 # 0 /\ k \in Nat /\ (k + 1 = 1 <=> k = 0)
    BY <1>1, <1>5
  <2>2. b = PieceAt(g, pattern, k + 1)
    BY <1>2, <2>1
  <2>3. a \in PieceLists
    BY <1>5
  <2>4. CASE x = Star
    <3>1. b = a
      BY <2>1, <2>2, <2>4 DEF PieceAt
    <3>2. k = 0 => pattern[1] = Star
      BY <2>4
    <3> QED BY <1>5, <2>1, <2>4, <3>1, <3>2
  <2>5. CASE x # Star /\ (k = 0 \/ pattern[k] = Star)
    <3>0. k + 1 = 1 \/ pattern[(k + 1) - 1] = Star
      BY <2>1, <2>5
    <3>1. b = Append(a, <<x>>)
      BY <2>1, <2>2, <2>5, <3>0 DEF PieceAt
    <3>a. x \in Letters
      BY <1>1, <2>1, <2>5
    <3> HIDE DEF a, b, x
    <3>2. b \in PieceLists /\ Starts(a, b, x) /\ Len(b) > 0
      BY <2>3, <3>1, <3>a, StartsPiece
    <3> QED BY <2>1, <2>5, <3>2 DEF a, b, x
  <2>6. CASE x # Star /\ ~(k = 0 \/ pattern[k] = Star)
    <3>1. b = Append(Front(a), Append(Last(a), x)) /\ x \in Letters
      BY <1>1, <2>1, <2>2, <2>6 DEF PieceAt
    <3>2. Len(a) > 0
      BY <1>5, <2>6
    <3> HIDE DEF a, b, x
    <3>3. b \in PieceLists /\ Grows(a, b, x) /\ Len(b) > 0
      BY <2>3, <3>1, <3>2, GrowsPiece
    <3> QED BY <2>1, <2>6, <3>3 DEF a, b, x
  <2> QED BY <2>4, <2>5, <2>6
<1>6. \A k \in 0..Len(pattern) : Shaped(k)
  <2>1. \A k \in 0..Len(pattern) : k \in Done /\ k < Len(pattern) => k + 1 \in Done
    <3> HIDE DEF Shaped, Step
    <3> QED BY <1>1, <1>5
  <2>2. \A k \in 0..Len(pattern) : k \in Done
    <3> HIDE DEF Done
    <3> QED BY <1>1, <1>4, <2>1, CountUp
  <2> QED BY <2>2
<1>7. \A k \in 1..Len(pattern) : Step(k)
  <2> SUFFICES ASSUME NEW k \in 1..Len(pattern) PROVE Step(k)
    OBVIOUS
  <2> DEFINE m == k - 1
  <2>1. m \in 0..Len(pattern) /\ m < Len(pattern) /\ m + 1 = k
    BY <1>1
  <2> HIDE DEF m, Step, Shaped
  <2>2. Step(m + 1)
    BY <1>5, <1>6, <2>1
  <2> QED BY <2>1, <2>2
<1>8. \A k \in 1..Len(pattern) : k \in 0..Len(pattern) /\ k # 0
  BY <1>1
<1> QED BY <1>2, <1>3, <1>6, <1>7, <1>8 DEF IsPieceRun

\* Piece q stands in v behind its first o characters.
Occurs(v, o, q) ==
  o \in Nat /\ o + Len(q) <= Len(v) /\ \A t \in 1..Len(q) : v[o + t] = q[t]

\* Where the j-th of the pieces ends that start behind st.
End(qs, st, j) == IF j = 0 THEN 0 ELSE st[j] + Len(qs[j])

\* The first m pieces stand in v one behind the other.
Placed(qs, m, v, st, anchored) ==
  /\ \A j \in 1..m : Occurs(v, st[j], qs[j]) /\ End(qs, st, j - 1) <= st[j]
  /\ anchored /\ m > 0 => st[1] = 0

\* The first k characters of a pattern, whose pieces are qs, take the first e
\* characters of v.
Reaches(p, v, qs, k, st, e) ==
  /\ Placed(qs, Len(qs), v, st, anchored_start(p))
  /\ e \in 0..Len(v) /\ End(qs, st, Len(qs)) <= e
  /\ k = 0 => e = 0
  /\ k # 0 /\ p[k] # Star => e = End(qs, st, Len(qs))

\* The i-th character takes the part from d to e.
Takes(p, v, i, d, e) == IF p[i] = Star THEN d <= e ELSE e = d + 1 /\ v[e] = p[i]

\* Placed pieces end inside the text.
LEMMA EndInside ==
  ASSUME NEW qs \in PieceLists, NEW v \in Text, NEW st, NEW anchored, NEW m \in 0..Len(qs),
         Placed(qs, m, v, st, anchored)
  PROVE  /\ \A j \in 0..m : End(qs, st, j) \in 0..Len(v)
         /\ \A j \in 1..m : st[j] \in Nat /\ End(qs, st, j) = st[j] + Len(qs[j])
<1>1. /\ Len(v) \in Nat /\ Len(qs) \in Nat /\ \A j \in 1..m : Len(qs[j]) \in Nat /\ j # 0
  BY DEF PieceLists, Text
<1>2. \A j \in 1..m : /\ st[j] \in Nat /\ End(qs, st, j) = st[j] + Len(qs[j])
                      /\ End(qs, st, j) <= Len(v)
  BY <1>1 DEF Placed, Occurs, End
<1>3. End(qs, st, 0) = 0
  BY DEF End
<1>4. \A j \in 0..m : j = 0 \/ j \in 1..m
  OBVIOUS
<1> QED BY <1>1, <1>2, <1>3, <1>4

\* One more character can be undone ...
LEMMA ReachBack ==
  ASSUME NEW p \in PatternTexts, p # << >>, NEW v \in Text, NEW g, IsPieceRun(g, p),
         NEW k \in 0..Len(p), k < Len(p), NEW st, NEW e, Reaches(p, v, g[k + 1], k + 1, st, e)
  PROVE  \E d : Reaches(p, v, g[k], k, st, d) /\ Takes(p, v, k + 1, d, e)
<1> DEFINE x == p[k + 1]
           a == g[k]
           b == g[k + 1]
           n == Len(a)
<1>1. /\ Len(p) \in Nat /\ k \in Nat /\ k + 1 \in 1..Len(p) /\ k + 1 \in 0..Len(p)
      /\ (k + 1) - 1 = k /\ k + 1 # 0 /\ (k + 1 = 1 <=> k = 0) /\ Len(v) \in Nat
  BY DEF PatternTexts, Text
<1>2. /\ a \in PieceLists /\ b \in PieceLists /\ n \in Nat /\ Len(b) \in Nat
      /\ k = 0 => n = 0
  BY <1>1 DEF IsPieceRun, PieceLists
<1>3. IF x = Star THEN b = a
      ELSE IF k = 0 \/ p[k] = Star THEN Starts(a, b, x) ELSE Grows(a, b, x)
  BY <1>1 DEF IsPieceRun
<1>4. /\ Placed(b, Len(b), v, st, anchored_start(p)) /\ e \in 0..Len(v)
      /\ End(b, st, Len(b)) <= e
      /\ x # Star => e = End(b, st, Len(b))
  BY <1>1 DEF Reaches
<1>5. /\ \A j \in 0..Len(b) : End(b, st, j) \in 0..Len(v)
      /\ \A j \in 1..Len(b) : st[j] \in Nat /\ End(b, st, j) = st[j] + Len(b[j])
      /\ \A j \in 1..Len(b) : Occurs(v, st[j], b[j]) /\ End(b, st, j - 1) <= st[j]
      /\ anchored_start(p) /\ Len(b) > 0 => st[1] = 0
  <2>1. Len(b) \in 0..Len(b)
    BY <1>2
  <2> HIDE DEF b
  <2> QED BY <1>2, <1>4, <2>1, EndInside DEF Placed
<1> HIDE DEF x, a, b, n
<1>6. CASE x = Star
  <2> DEFINE d == End(a, st, n)
  <2>1. b = a /\ d \in 0..Len(v) /\ d <= e
    BY <1>2, <1>3, <1>4, <1>5, <1>6 DEF n
  <2>2. k = 0 => d = 0
    BY <1>2 DEF End
  <2> HIDE DEF d
  <2>3. Reaches(p, v, a, k, st, d)
    BY <1>2, <1>4, <2>1, <2>2 DEF Reaches, n, d
  <2>4. Takes(p, v, k + 1, d, e)
    BY <1>6, <2>1 DEF Takes, x
  <2> QED BY <2>3, <2>4 DEF a
<1>7. CASE x # Star /\ (k = 0 \/ p[k] = Star)
  <2> DEFINE d == st[n + 1]
  <2>1. Starts(a, b, x)
    BY <1>3, <1>7
  <2>2. /\ Len(b) = n + 1 /\ \A j \in 1..n : b[j] = a[j] /\ j \in 1..Len(b)
        /\ Len(b[n + 1]) = 1 /\ b[n + 1][1] = x /\ n + 1 \in 1..Len(b) /\ (n + 1) - 1 = n
    BY <1>2, <2>1 DEF Starts, n
  <2>3. \A j \in 0..n : End(a, st, j) = End(b, st, j)
    BY <1>2, <2>2 DEF End
  <2>4. Placed(a, n, v, st, anchored_start(p))
    <3>1. \A j \in 1..n : j - 1 \in 0..n
      BY <1>2
    <3>2. \A j \in 1..n : Occurs(v, st[j], a[j]) /\ End(a, st, j - 1) <= st[j]
      BY <1>5, <2>2, <2>3, <3>1
    <3>3. anchored_start(p) /\ n > 0 => st[1] = 0
      BY <1>2, <1>5, <2>2
    <3> QED BY <3>2, <3>3 DEF Placed
  <2>5. /\ d \in Nat /\ End(a, st, n) <= d /\ e = d + 1 /\ v[d + 1] = x
    <3>1. End(a, st, n) <= d
      BY <1>2, <1>5, <2>2, <2>3
    <3>2. e = d + 1 /\ d \in Nat
      BY <1>4, <1>5, <1>7, <2>2
    <3>3. v[d + 1] = x
      <4>1. Occurs(v, d, b[n + 1]) /\ 1 \in 1..Len(b[n + 1])
        BY <1>5, <2>2
      <4> QED BY <2>2, <4>1 DEF Occurs
    <3> QED BY <3>1, <3>2, <3>3
  <2>6. k = 0 => d = 0
    <3>1. k = 0 => anchored_start(p)
      BY <1>7 DEF anchored_start, x
    <3> QED BY <1>2, <1>5, <2>2, <3>1
  <2>7. d \in 0..Len(v)
    BY <1>1, <1>4, <2>5
  <2> HIDE DEF d
  <2>8. Reaches(p, v, a, k, st, d)
    BY <1>7, <2>4, <2>5, <2>6, <2>7 DEF Reaches, n
  <2>9. Takes(p, v, k + 1, d, e)
    BY <1>7, <2>5 DEF Takes, x
  <2> QED BY <2>8, <2>9 DEF a
<1>8. CASE x # Star /\ ~(k = 0 \/ p[k] = Star)
  <2> DEFINE d == End(a, st, n)
  <2>1. Grows(a, b, x)
    BY <1>3, <1>8
  <2>2. /\ n > 0 /\ Len(b) = n /\ \A j \in 1..(n - 1) : b[j] = a[j] /\ j \in 1..n
        /\ Len(b[n]) = Len(a[n]) + 1 /\ b[n][Len(a[n]) + 1] = x /\ n \in 1..Len(b)
        /\ \A t \in 1..Len(a[n]) : b[n][t] = a[n][t]
    BY <1>2, <2>1 DEF Grows, n
  <2>3. Len(a[n]) \in Nat
    BY <1>2, <2>2 DEF PieceLists, Text, n
  <2>4. \A j \in 0..(n - 1) : End(a, st, j) = End(b, st, j)
    BY <1>2, <2>2 DEF End
  <2>5. Occurs(v, st[n], a[n])
    <3>1. Occurs(v, st[n], b[n])
      BY <1>5, <2>2
    <3> QED BY <1>1, <2>2, <2>3, <3>1 DEF Occurs
  <2>6. Placed(a, n, v, st, anchored_start(p))
    <3>1. \A j \in 1..n : j - 1 \in 0..(n - 1) /\ (j \in 1..(n - 1) \/ j = n) /\ j \in 1..Len(b)
      BY <1>2, <2>2
    <3>2. \A j \in 1..n : Occurs(v, st[j], a[j])
      BY <1>5, <2>2, <2>5, <3>1
    <3>3. \A j \in 1..n : End(a, st, j - 1) <= st[j]
      BY <1>5, <2>4, <3>1
    <3>4. anchored_start(p) => st[1] = 0
      BY <1>5, <2>2
    <3> QED BY <3>2, <3>3, <3>4 DEF Placed
  <2>7. d = st[n] + Len(a[n]) /\ st[n] \in Nat /\ e = st[n] + (Len(a[n]) + 1)
    BY <1>4, <1>5, <1>8, <2>2 DEF End
  <2>8. e = d + 1 /\ d \in Nat
    BY <2>3, <2>7
  <2>9. v[d + 1] = x
    <3>1. Occurs(v, st[n], b[n]) /\ Len(a[n]) + 1 \in 1..Len(b[n])
      BY <1>5, <2>2, <2>3
    <3>2. v[st[n] + (Len(a[n]) + 1)] = x
      BY <2>2, <3>1 DEF Occurs
    <3> QED BY <2>7, <2>8, <3>2
  <2>10. d \in 0..Len(v) /\ d <= d
    BY <1>1, <1>4, <2>8
  <2> HIDE DEF d
  <2>11. Reaches(p, v, a, k, st, d)
    BY <1>8, <2>6, <2>10 DEF Reaches, n, d
  <2>12. Takes(p, v, k + 1, d, e)
    BY <1>8, <2>8, <2>9 DEF Takes, x
  <2> QED BY <2>11, <2>12 DEF a
<1> QED BY <1>6, <1>7, <1>8

\* ... and every next part of the text can be taken.
LEMMA ReachOn ==
  ASSUME NEW p \in PatternTexts, p # << >>, NEW v \in Text, NEW g, IsPieceRun(g, p),
         NEW k \in 0..Len(p), k < Len(p), NEW st, NEW d, Reaches(p, v, g[k], k, st, d),
         NEW e \in 0..Len(v), Takes(p, v, k + 1, d, e)
  PROVE  \E st2 : Reaches(p, v, g[k + 1], k + 1, st2, e)
<1> DEFINE x == p[k + 1]
           a == g[k]
           b == g[k + 1]
           n == Len(a)
<1>1. /\ Len(p) \in Nat /\ k \in Nat /\ k + 1 \in 1..Len(p) /\ k + 1 \in 0..Len(p)
      /\ (k + 1) - 1 = k /\ k + 1 # 0 /\ (k + 1 = 1 <=> k = 0) /\ Len(v) \in Nat
      /\ k \in 1..Len(p) \/ k = 0
  BY DEF PatternTexts, Text
<1>2. /\ a \in PieceLists /\ b \in PieceLists /\ n \in Nat /\ Len(b) \in Nat
      /\ k = 0 => n = 0
      /\ n = 0 => k = 0 \/ ~anchored_start(p)
  <2>1. /\ a \in PieceLists /\ b \in PieceLists /\ n \in Nat /\ Len(b) \in Nat
        /\ k = 0 => n = 0
    BY <1>1 DEF IsPieceRun, PieceLists
  <2>2. k # 0 /\ p[1] # Star => n > 0
    BY <1>1 DEF IsPieceRun
  <2>3. anchored_start(p) <=> p[1] # Star
    BY DEF anchored_start
  <2> QED BY <2>1, <2>2, <2>3
<1>3. IF x = Star THEN b = a
      ELSE IF k = 0 \/ p[k] = Star THEN Starts(a, b, x) ELSE Grows(a, b, x)
  BY <1>1 DEF IsPieceRun
<1>4. /\ Placed(a, n, v, st, anchored_start(p)) /\ d \in 0..Len(v) /\ End(a, st, n) <= d
      /\ k = 0 => d = 0
      /\ k # 0 /\ p[k] # Star => d = End(a, st, n)
  BY DEF Reaches
<1>5. /\ \A j \in 0..n : End(a, st, j) \in 0..Len(v)
      /\ \A j \in 1..n : st[j] \in Nat /\ End(a, st, j) = st[j] + Len(a[j])
      /\ \A j \in 1..n : Occurs(v, st[j], a[j]) /\ End(a, st, j - 1) <= st[j]
      /\ anchored_start(p) /\ n > 0 => st[1] = 0
  <2>1. n \in 0..Len(a) /\ Placed(a, n, v, st, anchored_start(p))
    BY <1>2, <1>4
  <2> HIDE DEF a, n
  <2> QED BY <1>2, <2>1, EndInside DEF Placed
<1>a. IF x = Star THEN d <= e ELSE e = d + 1 /\ v[e] = x
  BY DEF Takes
<1> HIDE DEF x, a, b, n
<1>6. CASE x = Star
  <2>1. b = a /\ d <= e
    BY <1>3, <1>6, <1>a
  <2>2. End(a, st, n) <= e
    BY <1>1, <1>2, <1>4, <1>5, <2>1
  <2>3. Reaches(p, v, b, k + 1, st, e)
    BY <1>1, <1>4, <1>6, <2>1, <2>2 DEF Reaches, n, x
  <2> QED BY <2>3 DEF b
<1>7. CASE x # Star /\ (k = 0 \/ p[k] = Star)
  <2> DEFINE t == [j \in 1..(n + 1) |-> IF j <= n THEN st[j] ELSE d]
  <2>1. Starts(a, b, x)
    BY <1>3, <1>7
  <2>2. /\ Len(b) = n + 1 /\ \A j \in 1..n : b[j] = a[j]
        /\ Len(b[n + 1]) = 1 /\ b[n + 1][1] = x
    BY <1>2, <2>1 DEF Starts, n
  <2>3. /\ \A j \in 1..n : t[j] = st[j]
        /\ t[n + 1] = d
    BY <1>2
  <2> HIDE DEF t
  <2>4. \A j \in 0..n : End(b, t, j) = End(a, st, j)
    BY <1>2, <2>2, <2>3 DEF End
  <2>5. e = d + 1 /\ v[d + 1] = x /\ d \in Nat /\ e <= Len(v)
    BY <1>1, <1>4, <1>7, <1>a
  <2>6. Occurs(v, d, b[n + 1])
    BY <1>1, <2>2, <2>5 DEF Occurs
  <2>7. Placed(b, n + 1, v, t, anchored_start(p))
    <3>1. \A j \in 1..(n + 1) : (j \in 1..n \/ j = n + 1) /\ j - 1 \in 0..n
      BY <1>2
    <3>2. \A j \in 1..(n + 1) : Occurs(v, t[j], b[j])
      BY <1>5, <2>2, <2>3, <2>6, <3>1
    <3>3. \A j \in 1..(n + 1) : End(b, t, j - 1) <= t[j]
      <4>1. \A j \in 1..n : End(b, t, j - 1) <= t[j]
        BY <1>2, <1>5, <2>3, <2>4, <3>1
      <4>2. End(b, t, (n + 1) - 1) <= t[n + 1]
        <5>1. (n + 1) - 1 = n /\ n \in 0..n
          BY <1>2
        <5> QED BY <1>4, <2>3, <2>4, <5>1
      <4> QED BY <3>1, <4>1, <4>2
    <3>4. anchored_start(p) => t[1] = 0
      <4>1. CASE n > 0
        BY <1>2, <1>5, <2>3, <4>1
      <4>2. CASE n = 0
        BY <1>2, <1>4, <2>3, <4>2
      <4> QED BY <1>2, <4>1, <4>2
    <3> QED BY <3>2, <3>3, <3>4 DEF Placed
  <2>8. End(b, t, n + 1) = e
    BY <1>2, <2>2, <2>3, <2>5 DEF End
  <2>9. Reaches(p, v, b, k + 1, t, e)
    BY <1>1, <2>2, <2>5, <2>7, <2>8 DEF Reaches
  <2> QED BY <2>9 DEF b
<1>8. CASE x # Star /\ ~(k = 0 \/ p[k] = Star)
  <2>1. Grows(a, b, x)
    BY <1>3, <1>8
  <2>2. /\ n > 0 /\ Len(b) = n /\ \A j \in 1..(n - 1) : b[j] = a[j] /\ j \in 1..n
        /\ Len(b[n]) = Len(a[n]) + 1 /\ b[n][Len(a[n]) + 1] = x
        /\ \A t \in 1..Len(a[n]) : b[n][t] = a[n][t]
    BY <1>2, <2>1 DEF Grows, n
  <2>3. Len(a[n]) \in Nat
    BY <1>2, <2>2 DEF PieceLists, Text, n
  <2>4. \A j \in 0..(n - 1) : End(b, st, j) = End(a, st, j)
    BY <1>2, <2>2 DEF End
  <2>5. /\ d = st[n] + Len(a[n]) /\ st[n] \in Nat /\ e = d + 1 /\ v[d + 1] = x /\ e <= Len(v)
    <3>1. n \in 1..n /\ n \in 0..n
      BY <1>2, <2>2
    <3> QED BY <1>1, <1>4, <1>5, <1>8, <1>a, <3>1
  <2>6. Occurs(v, st[n], b[n])
    <3>1. Occurs(v, st[n], a[n])
      BY <1>2, <1>5, <2>2
    <3>2. st[n] + Len(b[n]) <= Len(v)
      BY <2>2, <2>3, <2>5
    <3>3. \A t \in 1..Len(b[n]) : t \in 1..Len(a[n]) \/ t = Len(a[n]) + 1
      BY <2>2, <2>3
    <3>4. v[st[n] + (Len(a[n]) + 1)] = x
      <4>1. st[n] + (Len(a[n]) + 1) = d + 1
        BY <2>3, <2>5
      <4> QED BY <2>5, <4>1
    <3>5. \A t \in 1..Len(b[n]) : v[st[n] + t] = b[n][t]
      BY <2>2, <3>1, <3>3, <3>4 DEF Occurs
    <3> QED BY <2>5, <3>2, <3>5 DEF Occurs
  <2>7. Placed(b, n, v, st, anchored_start(p))
    <3>1. \A j \in 1..n : j - 1 \in 0..(n - 1) /\ (j \in 1..(n - 1) \/ j = n)
      BY <1>2
    <3>2. \A j \in 1..n : Occurs(v, st[j], b[j])
      BY <1>5, <2>2, <2>6, <3>1
    <3>3. \A j \in 1..n : End(b, st, j - 1) <= st[j]
      BY <1>5, <2>4, <3>1
    <3>4. anchored_start(p) => st[1] = 0
      BY <1>5, <2>2
    <3> QED BY <3>2, <3>3, <3>4 DEF Placed
  <2>8. End(b, st, n) = e
    BY <2>2, <2>3, <2>5 DEF End
  <2>9. Reaches(p, v, b, k + 1, st, e)
    BY <1>1, <2>2, <2>5, <2>7, <2>8 DEF Reaches
  <2> QED BY <2>9 DEF b
<1> QED BY <1>6, <1>7, <1>8

\* The first k characters of p take the parts of v between the cuts.
Cuts(p, v, cut, k) == cut[0] = 0 /\ \A i \in 1..k : Takes(p, v, i, cut[i - 1], cut[i])

\* Where the cuts of a prefix can end is where its pieces can.
LEMMA CutsAreReached ==
  ASSUME NEW p \in PatternTexts, p # << >>, NEW v \in Text, NEW g, IsPieceRun(g, p),
         NEW cut \in [0..Len(p) -> 0..Len(v)], Cuts(p, v, cut, Len(p))
  PROVE  \E st : Reaches(p, v, pieces(p), Len(p), st, cut[Len(p)])
<1>1. Len(p) \in Nat /\ Len(v) \in Nat
  BY DEF PatternTexts, Text
<1> DEFINE Done == {k \in 0..Len(p) : \E st : Reaches(p, v, g[k], k, st, cut[k])}
<1>2. 0 \in Done
  <2>1. g[0] = << >> /\ cut[0] = 0
    BY DEF IsPieceRun, Cuts
  <2>2. Reaches(p, v, << >>, 0, << >>, 0)
    BY <1>1 DEF Reaches, Placed, End
  <2> QED BY <1>1, <2>1, <2>2
<1>3. ASSUME NEW k \in 0..Len(p), k \in Done, k < Len(p) PROVE k + 1 \in Done
  <2> DEFINE d == cut[k]
             e == cut[k + 1]
  <2>1. PICK st : Reaches(p, v, g[k], k, st, d)
    BY <1>3
  <2>2. /\ k + 1 \in 1..Len(p) /\ k + 1 \in 0..Len(p) /\ (k + 1) - 1 = k
        /\ e \in 0..Len(v)
    BY <1>1, <1>3
  <2>3. Takes(p, v, k + 1, d, e)
    BY <2>2 DEF Cuts
  <2> HIDE DEF d, e
  <2>4. \E st2 : Reaches(p, v, g[k + 1], k + 1, st2, e)
    BY <1>3, <2>1, <2>2, <2>3, ReachOn
  <2> QED BY <2>2, <2>4 DEF e
<1>4. Len(p) \in Done
  <2>1. \A k \in 0..Len(p) : k \in Done
    <3> HIDE DEF Done
    <3> QED BY <1>1, <1>2, <1>3, CountUp
  <2>2. Len(p) \in 0..Len(p)
    BY <1>1
  <2> HIDE DEF Done
  <2> QED BY <2>1, <2>2
<1>5. pieces(p) = g[Len(p)]
  BY DEF IsPieceRun
<1> QED BY <1>4, <1>5

LEMMA ReachedIsCut ==
  ASSUME NEW p \in PatternTexts, p # << >>, NEW v \in Text, NEW g, IsPieceRun(g, p),
         NEW st, NEW e, Reaches(p, v, pieces(p), Len(p), st, e)
  PROVE  \E cut : /\ cut \in [0..Len(p) -> 0..Len(v)] /\ Cuts(p, v, cut, Len(p))
                  /\ cut[Len(p)] = e
<1>1. Len(p) \in Nat /\ Len(v) \in Nat
  BY DEF PatternTexts, Text
<1> DEFINE Cutting(k, s, d) ==
             Reaches(p, v, g[k], k, s, d) =>
               \E cut \in [0..k -> 0..Len(v)] : Cuts(p, v, cut, k) /\ cut[k] = d
           Done == {k \in 0..Len(p) : \A s, d : Cutting(k, s, d)}
<1>2. 0 \in Done
  <2> SUFFICES ASSUME NEW s, NEW d, Reaches(p, v, g[0], 0, s, d)
               PROVE  \E cut \in [0..0 -> 0..Len(v)] : Cuts(p, v, cut, 0) /\ cut[0] = d
    BY <1>1
  <2> DEFINE cut == [i \in 0..0 |-> 0]
  <2>1. d = 0
    BY DEF Reaches
  <2>2. cut \in [0..0 -> 0..Len(v)] /\ cut[0] = 0 /\ Cuts(p, v, cut, 0)
    BY <1>1 DEF Cuts
  <2> HIDE DEF cut
  <2> QED BY <2>1, <2>2
<1>3. ASSUME NEW k \in 0..Len(p), k \in Done, k < Len(p) PROVE k + 1 \in Done
  <2>1. /\ k + 1 \in 1..Len(p) /\ k + 1 \in 0..Len(p) /\ (k + 1) - 1 = k /\ k \in Nat
        /\ k \in 0..k
    BY <1>1, <1>3
  <2>2. ASSUME NEW s, NEW d, Reaches(p, v, g[k + 1], k + 1, s, d)
        PROVE  \E cut \in [0..(k + 1) -> 0..Len(v)] : Cuts(p, v, cut, k + 1) /\ cut[k + 1] = d
    <3>1. PICK c : Reaches(p, v, g[k], k, s, c) /\ Takes(p, v, k + 1, c, d)
      BY <1>3, <2>2, ReachBack
    <3>2. PICK cut \in [0..k -> 0..Len(v)] : Cuts(p, v, cut, k) /\ cut[k] = c
      BY <1>3, <3>1
    <3> DEFINE longer == [i \in 0..(k + 1) |-> IF i = k + 1 THEN d ELSE cut[i]]
    <3>3. d \in 0..Len(v)
      BY <2>2 DEF Reaches
    <3>4. longer \in [0..(k + 1) -> 0..Len(v)]
      <4>1. \A i \in 0..(k + 1) : i = k + 1 \/ i \in 0..k
        BY <2>1
      <4> QED BY <3>2, <3>3, <4>1
    <3>5. longer[k + 1] = d /\ \A i \in 0..k : longer[i] = cut[i]
      BY <2>1
    <3> HIDE DEF longer
    <3>6. ASSUME NEW i \in 1..(k + 1) PROVE Takes(p, v, i, longer[i - 1], longer[i])
      <4>1. CASE i = k + 1
        <5>1. longer[i - 1] = c /\ longer[i] = d
          BY <2>1, <3>2, <3>5, <4>1
        <5> QED BY <3>1, <4>1, <5>1
      <4>2. CASE i # k + 1
        <5>1. i \in 1..k /\ i \in 0..k /\ i - 1 \in 0..k
          BY <2>1, <4>2
        <5>2. Takes(p, v, i, cut[i - 1], cut[i])
          BY <3>2, <5>1 DEF Cuts
        <5> QED BY <3>5, <5>1, <5>2
      <4> QED BY <4>1, <4>2
    <3>7. longer[0] = 0
      BY <2>1, <3>2, <3>5 DEF Cuts
    <3> QED BY <3>4, <3>5, <3>6, <3>7 DEF Cuts
  <2> QED BY <2>1, <2>2
<1>4. Len(p) \in Done
  <2>1. \A k \in 0..Len(p) : k \in Done
    <3> HIDE DEF Done
    <3> QED BY <1>1, <1>2, <1>3, CountUp
  <2>2. Len(p) \in 0..Len(p)
    BY <1>1
  <2> HIDE DEF Done
  <2> QED BY <2>1, <2>2
<1>5. pieces(p) = g[Len(p)]
  BY DEF IsPieceRun
<1> QED BY <1>4, <1>5

\* The reference meaning of a pattern, in terms of cuts.
LEMMA MatchIsCut ==
  ASSUME NEW p, NEW v
  PROVE  GlobMatches(p, v) <=>
           \E cut \in [0..Len(p) -> 0..Len(v)] :
             Cuts(p, v, cut, Len(p)) /\ cut[Len(p)] = Len(v)
BY DEF GlobMatches, Cuts, Takes

\* What the search of a piece finds.
LEMMA OccurrenceMeans ==
  ASSUME NEW v \in Text, NEW q \in Text, NEW o \in Nat
  PROVE  \A i : i \in Occurrences(v, o, q) <=> i \in Nat /\ o <= i /\ Occurs(v, i, q)
<1>1. Len(v) \in Nat /\ Len(q) \in Nat
  BY DEF Text
<1>2. ASSUME NEW i \in o..Len(v)
      PROVE  IsPrefix(q, SubSeq(v, i + 1, Len(v))) <=> Occurs(v, i, q)
  <2> DEFINE tail == SubSeq(v, i + 1, Len(v))
             n == Len(q)
  <2>1. i \in Nat /\ i <= Len(v) /\ n \in Nat
    BY <1>1, <1>2
  <2>2. /\ tail \in Seq(Letters) /\ Len(tail) = Len(v) - i
        /\ \A t \in 1..(Len(v) - i) : tail[t] = v[i + t]
    <3>1. v \in Seq(Letters) /\ i + 1 \in 1..(Len(v) + 1)
      BY <1>1, <2>1 DEF Text
    <3>2. Len(tail) = Len(v) - i
      BY <1>1, <2>1, <3>1
    <3>3. \A t \in 1..(Len(v) - i) : tail[t] = v[t + (i + 1) - 1] /\ t + (i + 1) - 1 = i + t
      BY <1>1, <2>1, <3>1
    <3>4. tail \in Seq(Letters)
      BY <1>1, <2>1, <3>1
    <3> QED BY <3>2, <3>3, <3>4
  <2> HIDE DEF tail
  <2>3. CASE n <= Len(tail)
    <3> DEFINE f == SubSeq(q, 1, n)
               h == SubSeq(tail, 1, n)
    <3>1. f \in Seq(Letters) /\ Len(f) = n /\ \A t \in 1..n : f[t] = q[t]
      BY <1>1 DEF Text
    <3>2. h \in Seq(Letters) /\ Len(h) = n /\ \A t \in 1..n : h[t] = tail[t]
      BY <1>1, <2>2, <2>3
    <3>3. IsPrefix(q, tail) <=> f = h
      BY <2>3 DEF IsPrefix
    <3> HIDE DEF f, h
    <3>4. f = h <=> \A t \in 1..n : f[t] = h[t]
      BY <2>1, <3>1, <3>2
    <3>5. \A t \in 1..n : t \in 1..(Len(v) - i)
      BY <1>1, <2>1, <2>2, <2>3
    <3>6. IsPrefix(q, tail) <=> \A t \in 1..n : v[i + t] = q[t]
      BY <2>2, <3>1, <3>2, <3>3, <3>4, <3>5
    <3>7. i + n <= Len(v)
      BY <1>1, <2>1, <2>2, <2>3
    <3> QED BY <2>1, <3>6, <3>7 DEF Occurs, tail
  <2>4. CASE ~(n <= Len(tail))
    <3>1. ~IsPrefix(q, tail)
      BY <2>4 DEF IsPrefix
    <3>2. ~(i + n <= Len(v))
      BY <1>1, <2>1, <2>2, <2>4
    <3> QED BY <3>1, <3>2 DEF Occurs, tail
  <2> QED BY <2>3, <2>4
<1>3. \A i \in Nat : o <= i /\ Occurs(v, i, q) => i \in o..Len(v)
  BY <1>1 DEF Occurs
<1>4. \A i : i \in Occurrences(v, o, q) <=>
        i \in o..Len(v) /\ IsPrefix(q, SubSeq(v, i + 1, Len(v)))
  BY DEF Occurrences
<1>5. \A i \in o..Len(v) : i \in Nat /\ o <= i
  BY <1>1
<1> QED BY <1>2, <1>3, <1>4, <1>5

\* The recursion of the offsets has a solution.
OffsetAfter(p, v, i, o) ==
  LET found == Occurrences(v, o, pieces(p)[i])
      first == FirstOccurrence(found)
  IN  IF found = {} \/ (i = 1 /\ anchored_start(p) /\ first # 0)
      THEN Len(v) + 1
      ELSE first + Len(pieces(p)[i])
OffsetAt(f, p, v, i) == IF i = 0 THEN 0 ELSE OffsetAfter(p, v, i, f[i - 1])

LEMMA OffsetsExtend ==
  ASSUME NEW p, NEW v, NEW n \in Nat, NEW g, g = [i \in 0..n |-> OffsetAt(g, p, v, i)]
  PROVE  \E h : h = [i \in 0..(n + 1) |-> OffsetAt(h, p, v, i)]
<1> DEFINE h == [i \in 0..(n + 1) |-> IF i <= n THEN g[i] ELSE OffsetAfter(p, v, n + 1, g[n])]
           h2 == [i \in 0..(n + 1) |-> OffsetAt(h, p, v, i)]
<1>1. \A i \in 0..n : g[i] = OffsetAt(g, p, v, i)
  BY Zenon
<1>2. ASSUME NEW i \in 0..(n + 1) PROVE h[i] = OffsetAt(h, p, v, i)
  <2>1. CASE i <= n
    <3>1. i \in 0..n /\ h[i] = g[i] /\ (i # 0 => h[i - 1] = g[i - 1])
      BY <2>1
    <3> HIDE DEF h
    <3> QED BY <1>1, <3>1 DEF OffsetAt
  <2>2. CASE i = n + 1
    <3>1. h[i] = OffsetAfter(p, v, i, g[n]) /\ h[i - 1] = g[n] /\ i # 0
      BY <2>2
    <3> HIDE DEF h
    <3> QED BY <3>1 DEF OffsetAt
  <2> QED BY <2>1, <2>2
<1>3. h = [i \in 0..(n + 1) |-> h[i]] /\ h2 = [i \in 0..(n + 1) |-> h2[i]]
  OBVIOUS
<1>4. \A i \in 0..(n + 1) : h2[i] = OffsetAt(h, p, v, i)
  BY Zenon
<1> HIDE DEF h, h2
<1>5. h = h2
  BY <1>2, <1>3, <1>4
<1> QED BY <1>5 DEF h2

LEMMA OffsetsRun ==
  ASSUME NEW p, NEW v, NEW n, n = Len(pieces(p)), n \in Nat
  PROVE  \E f : /\ \A i \in 0..n : f[i] = OffsetAt(f, p, v, i)
                /\ glob_matches(p, v) <=>
                     IF anchored_end(p) THEN f[n] = Len(v) ELSE f[n] <= Len(v)
<1> DEFINE Solved == {m \in Nat : \E g : g = [i \in 0..m |-> OffsetAt(g, p, v, i)]}
           run == CHOOSE g : g = [i \in 0..n |-> OffsetAt(g, p, v, i)]
<1>1. 0 \in Solved
  <2> DEFINE g == [i \in 0..0 |-> 0]
             g2 == [i \in 0..0 |-> OffsetAt(g, p, v, i)]
  <2>1. g = [i \in 0..0 |-> g[i]] /\ g2 = [i \in 0..0 |-> g2[i]]
    OBVIOUS
  <2>2. \A i \in 0..0 : g[i] = 0 /\ g2[i] = OffsetAt(g, p, v, i) /\ i = 0
    OBVIOUS
  <2> HIDE DEF g, g2
  <2>3. g = g2
    BY <2>1, <2>2 DEF OffsetAt
  <2> QED BY <2>3 DEF g2
<1>2. \A m \in 0..n : m \in Solved /\ m < n => m + 1 \in Solved
  BY OffsetsExtend
<1>3. n \in Solved
  <2>1. \A m \in 0..n : m \in Solved
    <3> HIDE DEF Solved
    <3> QED BY <1>1, <1>2, CountUp
  <2>2. n \in 0..n
    OBVIOUS
  <2> HIDE DEF Solved
  <2> QED BY <2>1, <2>2
<1>4. run = [i \in 0..n |-> OffsetAt(run, p, v, i)]
  BY <1>3
<1>5. glob_matches(p, v) <=>
        IF anchored_end(p) THEN run[n] = Len(v) ELSE run[n] <= Len(v)
  BY DEF glob_matches, OffsetAt, OffsetAfter
<1> HIDE DEF run
<1>6. \A i \in 0..n : run[i] = OffsetAt(run, p, v, i)
  BY <1>4, Zenon
<1> QED BY <1>5, <1>6

\* The first occurrence is the least.
LEMMA FirstIsLeast ==
  ASSUME NEW found \in SUBSET Nat, found # {}
  PROVE  FirstOccurrence(found) \in found /\ \A o \in found : FirstOccurrence(found) <= o
<1>1. \E i \in found : \A j \in found : i <= j
  BY LeastNatural
<1> QED BY <1>1 DEF FirstOccurrence

\* A placement of more pieces places the ones before.
LEMMA PlacedBefore ==
  ASSUME NEW qs, NEW m \in Nat, NEW v, NEW st, NEW anchored, Placed(qs, m + 1, v, st, anchored)
  PROVE  /\ Placed(qs, m, v, st, anchored)
         /\ Occurs(v, st[m + 1], qs[m + 1]) /\ End(qs, st, m) <= st[m + 1]
         /\ anchored => st[1] = 0
<1>1. m + 1 \in 1..(m + 1) /\ (m + 1) - 1 = m /\ m + 1 > 0 /\ \A j \in 1..m : j \in 1..(m + 1)
  OBVIOUS
<1> QED BY <1>1 DEF Placed

\* Taking the first occurrence of every piece places the pieces, and no
\* placement ends earlier.
Greedy(f, qs, v, anchored, i) ==
  /\ f[i] \in 0..(Len(v) + 1)
  /\ f[i] <= Len(v) => \E st : Placed(qs, i, v, st, anchored) /\ f[i] = End(qs, st, i)
  /\ \A s : Placed(qs, i, v, s, anchored) => f[i] <= End(qs, s, i)

LEMMA OffsetsAreGreedy ==
  ASSUME NEW p, NEW v \in Text, NEW qs \in PieceLists, qs = pieces(p),
         NEW f, \A i \in 0..Len(qs) : f[i] = OffsetAt(f, p, v, i)
  PROVE  Greedy(f, qs, v, anchored_start(p), Len(qs))
<1> DEFINE n == Len(qs)
           anchored == anchored_start(p)
           Done == {i \in 0..n : Greedy(f, qs, v, anchored, i)}
<1>1. n \in Nat /\ Len(v) \in Nat /\ \A i \in 1..n : qs[i] \in Text /\ Len(qs[i]) \in Nat
  BY DEF PieceLists, Text
<1>2. 0 \in Done
  <2>1. f[0] = 0
    BY <1>1 DEF OffsetAt
  <2>2. \A s : Placed(qs, 0, v, s, anchored) /\ End(qs, s, 0) = 0
    BY DEF Placed, End
  <2> QED BY <1>1, <2>1, <2>2 DEF Greedy
<1>3. ASSUME NEW i \in 0..n, i \in Done, i < n PROVE i + 1 \in Done
  <2> DEFINE q == qs[i + 1]
             o == f[i]
             e == f[i + 1]
             found == Occurrences(v, o, q)
             first == FirstOccurrence(found)
  <2>1. /\ i \in Nat /\ i + 1 \in 1..n /\ i + 1 \in 0..n /\ (i + 1) - 1 = i /\ i + 1 # 0
        /\ q \in Text /\ Len(q) \in Nat
    BY <1>1, <1>3
  <2>2. Greedy(f, qs, v, anchored, i)
    BY <1>3
  <2>3. o \in 0..(Len(v) + 1) /\ o \in Nat
    BY <1>1, <2>2 DEF Greedy
  <2>4. e = IF found = {} \/ (i + 1 = 1 /\ anchored /\ first # 0)
            THEN Len(v) + 1 ELSE first + Len(q)
    BY <2>1 DEF OffsetAt, OffsetAfter
  <2>5. \A j : j \in found <=> j \in Nat /\ o <= j /\ Occurs(v, j, q)
    <3> HIDE DEF o, q
    <3> QED BY <2>1, <2>3, OccurrenceMeans
  <2> HIDE DEF found
  <2>6. found # {} => first \in found /\ \A j \in found : first <= j
    <3>1. found \in SUBSET Nat
      BY <2>5
    <3> QED BY <3>1, FirstIsLeast
  <2> HIDE DEF first, anchored
  <2>7. ASSUME NEW s, Placed(qs, i + 1, v, s, anchored)
        PROVE  /\ s[i + 1] \in found /\ End(qs, s, i + 1) = s[i + 1] + Len(q)
               /\ anchored => s[1] = 0
    <3>1. /\ Placed(qs, i, v, s, anchored)
          /\ Occurs(v, s[i + 1], q) /\ End(qs, s, i) <= s[i + 1]
          /\ anchored => s[1] = 0
      BY <2>1, <2>7, PlacedBefore
    <3>2. o <= End(qs, s, i)
      BY <2>2, <3>1 DEF Greedy
    <3>3. End(qs, s, i) \in Nat
      <4>1. i \in 0..Len(qs)
        BY <1>3
      <4>2. End(qs, s, i) \in 0..Len(v)
        <5>1. i \in 0..i
          BY <2>1
        <5> QED BY <3>1, <4>1, <5>1, EndInside
      <4> QED BY <1>1, <4>2
    <3>4. s[i + 1] \in Nat
      BY <3>1 DEF Occurs
    <3>5. o <= s[i + 1]
      BY <2>3, <3>1, <3>2, <3>3, <3>4
    <3> QED BY <2>1, <2>5, <3>1, <3>4, <3>5 DEF End
  <2>8. CASE found = {} \/ (i + 1 = 1 /\ anchored /\ first # 0)
    <3>1. e = Len(v) + 1
      BY <2>4, <2>8
    <3>2. ASSUME NEW s, Placed(qs, i + 1, v, s, anchored) PROVE FALSE
      <4>1. s[i + 1] \in found /\ (anchored => s[1] = 0)
        BY <2>7, <3>2
      <4>2. i + 1 = 1 /\ anchored /\ first # 0
        BY <2>8, <4>1
      <4>3. first \in Nat /\ first <= 0
        BY <2>5, <2>6, <4>1, <4>2
      <4> QED BY <4>2, <4>3
    <3>3. e \in 0..(Len(v) + 1) /\ ~(e <= Len(v))
      BY <1>1, <3>1
    <3> QED BY <2>1, <3>2, <3>3 DEF Greedy, e
  <2>9. CASE found # {} /\ ~(i + 1 = 1 /\ anchored /\ first # 0)
    <3>1. e = first + Len(q)
      BY <2>4, <2>9
    <3>2. first \in Nat /\ o <= first /\ Occurs(v, first, q) /\ \A j \in found : first <= j
      BY <2>5, <2>6, <2>9
    <3>3. e \in 0..(Len(v) + 1) /\ e <= Len(v) /\ o <= Len(v)
      BY <1>1, <2>1, <2>3, <3>1, <3>2 DEF Occurs
    <3>4. PICK st : Placed(qs, i, v, st, anchored) /\ o = End(qs, st, i)
      BY <2>2, <3>3 DEF Greedy
    <3> DEFINE t == [j \in 1..(i + 1) |-> IF j <= i THEN st[j] ELSE first]
    <3>5. t[i + 1] = first /\ \A j \in 1..i : t[j] = st[j]
      BY <2>1
    <3> HIDE DEF t
    <3>6. \A j \in 0..i : End(qs, t, j) = End(qs, st, j)
      BY <2>1, <3>5 DEF End
    <3>7. Placed(qs, i + 1, v, t, anchored)
      <4>1. \A j \in 1..(i + 1) : (j \in 1..i \/ j = i + 1) /\ j - 1 \in 0..i
        BY <2>1
      <4>2. \A j \in 1..i : Occurs(v, t[j], qs[j]) /\ End(qs, t, j - 1) <= t[j]
        <5>1. \A j \in 1..i : Occurs(v, st[j], qs[j]) /\ End(qs, st, j - 1) <= st[j]
          BY <3>4 DEF Placed
        <5>2. \A j \in 1..i : j - 1 \in 0..i
          BY <2>1
        <5> QED BY <3>5, <3>6, <5>1, <5>2
      <4>3. Occurs(v, t[i + 1], qs[i + 1]) /\ End(qs, t, (i + 1) - 1) <= t[i + 1]
        <5>1. i \in 0..i
          BY <2>1
        <5> QED BY <2>1, <3>2, <3>4, <3>5, <3>6, <5>1
      <4>4. anchored => t[1] = 0
        <5>1. CASE i = 0
          BY <2>9, <3>5, <5>1
        <5>2. CASE i # 0
          <6>1. 1 \in 1..i /\ i > 0
            BY <2>1, <5>2
          <6> QED BY <3>4, <3>5, <6>1 DEF Placed
        <5> QED BY <5>1, <5>2
      <4> QED BY <4>1, <4>2, <4>3, <4>4 DEF Placed
    <3>8. e = End(qs, t, i + 1)
      BY <2>1, <3>1, <3>5 DEF End
    <3>9. \A s : Placed(qs, i + 1, v, s, anchored) => e <= End(qs, s, i + 1)
      <4> SUFFICES ASSUME NEW s, Placed(qs, i + 1, v, s, anchored)
                   PROVE  e <= End(qs, s, i + 1)
        OBVIOUS
      <4>1. s[i + 1] \in found /\ End(qs, s, i + 1) = s[i + 1] + Len(q)
        BY <2>7
      <4>2. s[i + 1] \in Nat /\ first <= s[i + 1]
        BY <2>5, <3>2, <4>1
      <4> QED BY <2>1, <3>1, <3>2, <4>1, <4>2
    <3> QED BY <2>1, <3>3, <3>7, <3>8, <3>9 DEF Greedy, e
  <2> QED BY <2>8, <2>9
<1>4. \A i \in 0..n : i \in Done
  <2> HIDE DEF Done
  <2> QED BY <1>1, <1>2, <1>3, CountUp
<1>5. n \in 0..n
  BY <1>1
<1> QED BY <1>4, <1>5

\* A title that a pattern accepts is one the pattern describes.
LEMMA AcceptedMatches ==
  ASSUME NEW p \in PatternTexts, p # << >>, NEW v \in Text, glob_matches(p, v)
  PROVE  GlobMatches(p, v)
<1>1. PICK g : IsPieceRun(g, p)
  BY PieceRunExists
<1> DEFINE qs == pieces(p)
           n == Len(qs)
           e == Len(v)
<1>2. /\ Len(p) \in Nat /\ Len(p) # 0 /\ e \in Nat /\ qs \in PieceLists /\ n \in Nat
      /\ Len(p) \in 0..Len(p)
  <2>1. Len(p) \in Nat /\ Len(p) # 0 /\ e \in Nat
    BY DEF PatternTexts, Text
  <2>2. qs \in PieceLists
    BY <1>1, <2>1 DEF IsPieceRun
  <2> QED BY <2>1, <2>2 DEF PieceLists
<1>3. PICK f : /\ \A i \in 0..n : f[i] = OffsetAt(f, p, v, i)
               /\ glob_matches(p, v) <=>
                    IF anchored_end(p) THEN f[n] = Len(v) ELSE f[n] <= Len(v)
  BY <1>2, OffsetsRun
<1>4. Greedy(f, qs, v, anchored_start(p), n)
  BY <1>2, <1>3, OffsetsAreGreedy
<1>5. f[n] <= e /\ (anchored_end(p) => f[n] = e)
  BY <1>2, <1>3
<1>6. PICK st : Placed(qs, n, v, st, anchored_start(p)) /\ f[n] = End(qs, st, n)
  BY <1>4, <1>5 DEF Greedy
<1>7. anchored_end(p) <=> p[Len(p)] # Star
  BY DEF anchored_end, Last
<1>8. Reaches(p, v, qs, Len(p), st, e)
  BY <1>2, <1>5, <1>6, <1>7 DEF Reaches
<1> HIDE DEF qs, n, e
<1>9. \E cut : /\ cut \in [0..Len(p) -> 0..Len(v)] /\ Cuts(p, v, cut, Len(p))
               /\ cut[Len(p)] = e
  BY <1>1, <1>8, ReachedIsCut DEF qs
<1> QED BY <1>9, MatchIsCut DEF e

\* A pattern without a star is one piece.
LEMMA OnePiece ==
  ASSUME NEW p \in PatternTexts, p # << >>, ~Contains(p, Star), NEW g, IsPieceRun(g, p)
  PROVE  Len(pieces(p)) = 1
<1>1. Len(p) \in Nat /\ Len(p) # 0 /\ \A i \in 1..Len(p) : p[i] # Star
  BY DEF PatternTexts, Contains
<1> DEFINE Done == {k \in 0..Len(p) : k # 0 => Len(g[k]) = 1}
<1>2. 0 \in Done
  BY <1>1
<1>3. ASSUME NEW k \in 0..Len(p), k \in Done, k < Len(p) PROVE k + 1 \in Done
  <2>1. /\ k \in Nat /\ k + 1 \in 1..Len(p) /\ k + 1 \in 0..Len(p) /\ (k + 1) - 1 = k
        /\ (k + 1 = 1 <=> k = 0) /\ (k # 0 => k \in 1..Len(p))
    BY <1>1, <1>3
  <2>2. IF k = 0 THEN Starts(g[k], g[k + 1], p[k + 1]) ELSE Grows(g[k], g[k + 1], p[k + 1])
    BY <1>1, <2>1 DEF IsPieceRun
  <2>3. CASE k = 0
    <3>1. Len(g[k]) = 0
      BY <2>3 DEF IsPieceRun
    <3> QED BY <2>1, <2>2, <2>3, <3>1 DEF Starts
  <2>4. CASE k # 0
    BY <1>3, <2>1, <2>2, <2>4 DEF Grows
  <2> QED BY <2>3, <2>4
<1>4. \A k \in 0..Len(p) : k \in Done
  <2> HIDE DEF Done
  <2> QED BY <1>1, <1>2, <1>3, CountUp
<1>5. Len(p) \in 0..Len(p)
  BY <1>1
<1> QED BY <1>1, <1>4, <1>5 DEF IsPieceRun

\* Two occurrences are more than one.
LEMMA TwoOccurrences ==
  ASSUME NEW v \in Text, NEW q, NEW i, NEW j, i # j,
         i \in Occurrences(v, 0, q), j \in Occurrences(v, 0, q)
  PROVE  Cardinality(Occurrences(v, 0, q)) > 1
<1> DEFINE S == Occurrences(v, 0, q)
<1>1. S \subseteq 0..Len(v) /\ 0 \in Int /\ Len(v) \in Int
  BY DEF Occurrences, Text
<1>2. IsFiniteSet(S)
  BY <1>1, FS_Interval, FS_Subset
<1> HIDE DEF S
<1>3. {i, j} \subseteq S
  BY DEF S
<1>4. Cardinality({i, j}) = 2
  <2>1. IsFiniteSet({i}) /\ Cardinality({i}) = 1
    BY FS_Singleton
  <2>2. Cardinality({i} \cup {j}) = Cardinality({i}) + 1
    BY <2>1, FS_AddElement
  <2>3. {i} \cup {j} = {i, j}
    OBVIOUS
  <2> QED BY <2>1, <2>2, <2>3
<1>5. Cardinality({i, j}) <= Cardinality(S) /\ Cardinality(S) \in Nat
  BY <1>2, <1>3, FS_Subset, FS_CardinalityType
<1> QED BY <1>4, <1>5 DEF S

\* A title that a pattern describes and the code refuses ends with a piece that
\* occurs before, too.
LEMMA MissedRepeats ==
  ASSUME NEW p \in PatternTexts, p # << >>, NEW v \in Text, GlobMatches(p, v), ~glob_matches(p, v)
  PROVE  /\ Contains(p, Star) /\ anchored_end(p)
         /\ Cardinality(Occurrences(v, 0, Last(pieces(p)))) > 1
<1>1. PICK g : IsPieceRun(g, p)
  BY PieceRunExists
<1> DEFINE qs == pieces(p)
           n == Len(qs)
<1>2. /\ Len(p) \in Nat /\ Len(p) # 0 /\ Len(v) \in Nat /\ qs \in PieceLists /\ n \in Nat
      /\ Len(p) \in 1..Len(p)
  <2>1. Len(p) \in Nat /\ Len(p) # 0 /\ Len(v) \in Nat
    BY DEF PatternTexts, Text
  <2>2. qs \in PieceLists
    BY <1>1, <2>1 DEF IsPieceRun
  <2> QED BY <2>1, <2>2 DEF PieceLists
<1>3. PICK f : /\ \A i \in 0..n : f[i] = OffsetAt(f, p, v, i)
               /\ glob_matches(p, v) <=>
                    IF anchored_end(p) THEN f[n] = Len(v) ELSE f[n] <= Len(v)
  BY <1>2, OffsetsRun
<1>4. Greedy(f, qs, v, anchored_start(p), n)
  BY <1>2, <1>3, OffsetsAreGreedy
<1>5. PICK s : Reaches(p, v, qs, Len(p), s, Len(v))
  <2>1. PICK cut \in [0..Len(p) -> 0..Len(v)] :
          Cuts(p, v, cut, Len(p)) /\ cut[Len(p)] = Len(v)
    BY MatchIsCut
  <2>2. \E s : Reaches(p, v, pieces(p), Len(p), s, cut[Len(p)])
    BY <1>1, <2>1, CutsAreReached
  <2> QED BY <2>1, <2>2
<1>6. /\ Placed(qs, n, v, s, anchored_start(p)) /\ End(qs, s, n) <= Len(v)
      /\ p[Len(p)] # Star => Len(v) = End(qs, s, n)
  BY <1>2, <1>5 DEF Reaches
<1>7. f[n] <= End(qs, s, n) /\ f[n] \in Nat
  BY <1>2, <1>4, <1>6 DEF Greedy
<1>8. /\ \A j \in 0..n : End(qs, s, j) \in 0..Len(v)
      /\ \A j \in 1..n : s[j] \in Nat /\ End(qs, s, j) = s[j] + Len(qs[j])
  <2>1. n \in 0..n
    BY <1>2
  <2> HIDE DEF qs
  <2> QED BY <1>2, <1>6, <2>1, EndInside
<1>9. f[n] <= Len(v)
  <2>1. End(qs, s, n) \in Nat
    BY <1>2, <1>8
  <2> QED BY <1>2, <1>6, <1>7, <2>1
<1>10. anchored_end(p) /\ f[n] # Len(v)
  BY <1>3, <1>9
<1>11. p[Len(p)] # Star
  BY <1>10 DEF anchored_end, Last
<1>12. n > 0 /\ n \in 1..n /\ 1 \in 1..n
  <2>1. n > 0
    BY <1>1, <1>2, <1>11 DEF IsPieceRun
  <2> QED BY <1>2, <2>1
<1>13. PICK st : Placed(qs, n, v, st, anchored_start(p)) /\ f[n] = End(qs, st, n)
  BY <1>4, <1>9 DEF Greedy
<1>14. \A j \in 1..n : st[j] \in Nat /\ End(qs, st, j) = st[j] + Len(qs[j])
  <2>1. n \in 0..n
    BY <1>2
  <2> HIDE DEF qs
  <2> QED BY <1>2, <1>13, <2>1, EndInside
<1>15. st[n] # s[n]
  BY <1>6, <1>8, <1>10, <1>11, <1>12, <1>13, <1>14
<1>16. Contains(p, Star)
  <2> SUFFICES ASSUME ~Contains(p, Star) PROVE FALSE
    OBVIOUS
  <2>1. n = 1
    BY <1>1, OnePiece
  <2>2. anchored_start(p)
    <3>1. p[1] # Star
      BY <1>2 DEF Contains
    <3> QED BY <3>1 DEF anchored_start
  <2>3. st[1] = 0 /\ s[1] = 0
    BY <1>6, <1>12, <1>13, <2>2 DEF Placed
  <2> QED BY <1>15, <2>1, <2>3
<1>17. Cardinality(Occurrences(v, 0, Last(qs))) > 1
  <2> DEFINE q == qs[n]
  <2>1. q \in Text /\ 0 \in Nat
    BY <1>2, <1>12 DEF PieceLists
  <2>2. Occurs(v, st[n], q) /\ Occurs(v, s[n], q)
    BY <1>6, <1>12, <1>13 DEF Placed
  <2> HIDE DEF q
  <2>3. \A i : i \in Occurrences(v, 0, q) <=> i \in Nat /\ 0 <= i /\ Occurs(v, i, q)
    BY <2>1, OccurrenceMeans
  <2>4. st[n] \in Occurrences(v, 0, q) /\ s[n] \in Occurrences(v, 0, q)
    BY <1>8, <1>12, <1>14, <2>2, <2>3
  <2>5. Cardinality(Occurrences(v, 0, q)) > 1
    BY <1>15, <2>4, TwoOccurrences
  <2> QED BY <2>5 DEF q, Last
<1> QED BY <1>10, <1>16, <1>17

-----------------------------------------------------------------------------
(* The calls. *)

\* What the functions are called with.
Called ==
  \/ input \in [output : OutputSizes, windows : Counts]
  \/ input \in [pattern : PatternTexts \ {<< >>}, title : Text]

LEMMA CallsAreTyped == CallSpec => []Called
<1>1. FirstCall => Called
  <2>1. CASE input \in PlanInputs
    BY <2>1, InputsAssumption DEF PlanInputs, Called, OutputSizes
  <2>2. ASSUME NEW p \in Patterns, input = [pattern |-> p, title |-> << >>] PROVE Called
    <3>1. p # << >> /\ p \in BoundedSeq(Letters \cup {Star}, PatternLength)
      BY DEF Patterns
    <3>2. PICK m \in 0..PatternLength : p \in [1..m -> Letters \cup {Star}]
      BY <3>1 DEF BoundedSeq, SeqOf
    <3>3. p \in PatternTexts
      BY <3>2, InputsAssumption DEF PatternTexts
    <3>4. << >> \in Text
      BY DEF Text
    <3> QED BY <2>2, <3>1, <3>3, <3>4 DEF Called
  <2> QED BY <2>1, <2>2 DEF FirstCall
<1>2. Called /\ [NextCall]_input => Called'
  <2> SUFFICES ASSUME Called, [NextCall]_input PROVE Called'
    OBVIOUS
  <2>1. CASE Resize
    <3>1. input \in [output : OutputSizes, windows : Counts]
      BY <2>1 DEF Resize, Planning, Called
    <3> QED BY <2>1, <3>1, InputsAssumption DEF Resize, Called, OutputSizes
  <2>2. CASE OpenOrClose
    <3>1. input \in [output : OutputSizes, windows : Counts]
      BY <2>2 DEF OpenOrClose, Planning, Called
    <3> QED BY <2>2, <3>1 DEF OpenOrClose, Called
  <2>3. CASE Retitle
    <3>1. input \in [pattern : PatternTexts \ {<< >>}, title : Text]
      BY <2>3 DEF Retitle, Matching, Called
    <3>2. input.title \in Seq(Letters)
      BY <3>1 DEF Text
    <3>3. \A c \in Letters : Append(input.title, c) \in Text
      BY <3>2 DEF Text
    <3>4. input.title # << >> => Front(input.title) \in Text
      <4> DEFINE t == input.title
                 m == Len(t) - 1
      <4>1. SUFFICES ASSUME t # << >> PROVE Front(t) \in Text
        OBVIOUS
      <4>2. t \in Seq(Letters) /\ m \in Nat /\ m <= Len(t) /\ Front(t) = SubSeq(t, 1, m)
        BY <3>2, <4>1 DEF Front
      <4> HIDE DEF t, m
      <4> QED BY <4>2 DEF Text
    <3> QED BY <2>3, <3>1, <3>3, <3>4 DEF Retitle, Called
  <2>4. CASE UNCHANGED input
    BY <2>4 DEF Called
  <2> QED BY <2>1, <2>2, <2>3, <2>4 DEF NextCall
<1> QED BY <1>1, <1>2, PTL DEF CallSpec

\* On every output whose size the u32 products can hold, the layout of every
\* count of windows covers the usable area exactly (lib.rs:299).
THEOREM PlacementsAlwaysTile == CallSpec => []PlacementsTileTheOutput
<1>1. ASSUME Called PROVE PlacementsTileTheOutput
  <2>1. ASSUME Planning PROVE input.output \in OutputSizes /\ input.windows \in Counts
    BY <1>1, <2>1 DEF Called, Planning
  <2> QED BY <2>1, LayoutsCoverExactly DEF PlacementsTileTheOutput
<1> QED BY <1>1, CallsAreTyped, PTL

\* On every such output the rectangles the daemon waits for are the boxes
\* Labwc computes from the percent regions of rc.xml.
THEOREM PlannerAlwaysMatchesRegions == CallSpec => []PlannerMatchesRegions
<1>1. ASSUME Called PROVE PlannerMatchesRegions
  <2>1. ASSUME Planning PROVE input.output \in OutputSizes /\ input.windows \in Counts
    BY <1>1, <2>1 DEF Called, Planning
  <2> QED BY <2>1, PlannerAgreesWithRegions DEF PlannerMatchesRegions
<1> QED BY <1>1, CallsAreTyped, PTL

\* For patterns and titles of any length, a rule never applies to a window
\* whose title its pattern does not describe (lib.rs:276).
THEOREM AcceptsOnlyDescribedTitles == CallSpec => []AcceptsOnlyMatches
<1>1. ASSUME Called PROVE AcceptsOnlyMatches
  <2> SUFFICES ASSUME Matching, glob_matches(input.pattern, input.title)
               PROVE  GlobMatches(input.pattern, input.title)
    BY DEF AcceptsOnlyMatches
  <2>1. input \in [pattern : PatternTexts \ {<< >>}, title : Text]
    BY <1>1 DEF Called, Matching
  <2> DEFINE p == input.pattern
             v == input.title
  <2>2. p \in PatternTexts /\ p # << >> /\ v \in Text
    BY <2>1
  <2> HIDE DEF p, v
  <2>3. glob_matches(p, v) => GlobMatches(p, v)
    BY <2>2, AcceptedMatches
  <2> QED BY <2>3 DEF p, v
<1> QED BY <1>1, CallsAreTyped, PTL

\* For patterns and titles of any length, what taking the first occurrence of
\* every piece misses are titles in which the piece that must end them occurs
\* more than once, and only for a pattern with a star that does not end in one
\* (lib.rs:283).
THEOREM MissesOnlyRepeats == CallSpec => []MissesOnlyRepeatedEndings
<1>1. ASSUME Called PROVE MissesOnlyRepeatedEndings
  <2> DEFINE p == input.pattern
             v == input.title
  <2> SUFFICES ASSUME Matching, GlobMatches(p, v), ~glob_matches(p, v)
               PROVE  /\ Contains(p, Star) /\ anchored_end(p)
                      /\ Cardinality(Occurrences(v, 0, Last(pieces(p)))) > 1
    BY DEF MissesOnlyRepeatedEndings
  <2>1. input \in [pattern : PatternTexts \ {<< >>}, title : Text]
    BY <1>1 DEF Called, Matching
  <2>2. p \in PatternTexts /\ p # << >> /\ v \in Text
    BY <2>1
  <2> HIDE DEF p, v
  <2> QED BY <2>2, MissedRepeats
<1> QED BY <1>1, CallsAreTyped, PTL

-----------------------------------------------------------------------------
(* The directory of the drop-ins. *)

Distinct(s) == \A i, j \in DOMAIN s : s[i] = s[j] => i = j
Has(s, n) == \E i \in DOMAIN s : s[i] = n

\* Every file is listed once, and nothing else is.
Listed ==
  /\ listing \in Seq(DropIns) /\ Distinct(listing)
  /\ \A n \in DropIns : profile_d[n] # NoFile <=> Has(listing, n)

Directory ==
  /\ defaults \in Defaults \cup {Bad}
  /\ builtin_profile \in Files \cup {NoFile} /\ local_profile \in Files \cup {NoFile}
  /\ profile_d \in [DropIns -> Files \cup {NoFile}]
  /\ Listed

\* What insertion does to a list.
LEMMA InsertFacts ==
  ASSUME NEW S, NEW s \in Seq(S), NEW x \in S, NEW p \in 1..(Len(s) + 1)
  PROVE  /\ InsertAt(s, p, x) \in Seq(S) /\ Len(InsertAt(s, p, x)) = Len(s) + 1
         /\ \A i \in 1..(Len(s) + 1) :
              InsertAt(s, p, x)[i] = IF i < p THEN s[i] ELSE IF i = p THEN x ELSE s[i - 1]
<1> DEFINE front == SubSeq(s, 1, p - 1)
           back == SubSeq(s, p, Len(s))
           t == front \o <<x>>
           u == t \o back
<1>1. /\ front \in Seq(S) /\ Len(front) = p - 1 /\ \A i \in 1..(p - 1) : front[i] = s[i]
  OBVIOUS
<1>2. /\ back \in Seq(S) /\ Len(back) = Len(s) - p + 1
      /\ \A i \in 1..(Len(s) - p + 1) : back[i] = s[i + p - 1]
  OBVIOUS
<1> HIDE DEF front, back
<1>3. /\ t \in Seq(S) /\ Len(t) = p /\ t[p] = x /\ \A i \in 1..(p - 1) : t[i] = s[i]
  BY <1>1
<1> HIDE DEF t
<1>4. /\ u \in Seq(S) /\ Len(u) = Len(s) + 1
      /\ \A i \in 1..p : u[i] = t[i]
      /\ \A i \in (p + 1)..(Len(s) + 1) : u[i] = back[i - p]
  BY <1>2, <1>3
<1>5. \A i \in (p + 1)..(Len(s) + 1) :
        i - p \in 1..(Len(s) - p + 1) /\ (i - p) + p - 1 = i - 1
  OBVIOUS
<1>6. InsertAt(s, p, x) = u
  BY DEF InsertAt, front, back, t
<1> HIDE DEF u
<1> QED BY <1>2, <1>3, <1>4, <1>5, <1>6

\* What removal does to a list.
LEMMA RemoveFacts ==
  ASSUME NEW S, NEW s \in Seq(S), NEW p \in DOMAIN s
  PROVE  /\ RemoveAt(s, p) \in Seq(S) /\ Len(RemoveAt(s, p)) = Len(s) - 1
         /\ \A i \in 1..(Len(s) - 1) : RemoveAt(s, p)[i] = IF i < p THEN s[i] ELSE s[i + 1]
<1> DEFINE front == SubSeq(s, 1, p - 1)
           back == SubSeq(s, p + 1, Len(s))
           u == front \o back
<1>1. /\ front \in Seq(S) /\ Len(front) = p - 1 /\ \A i \in 1..(p - 1) : front[i] = s[i]
  OBVIOUS
<1>2. /\ back \in Seq(S) /\ Len(back) = Len(s) - p
      /\ \A i \in 1..(Len(s) - p) : back[i] = s[i + p]
  OBVIOUS
<1> HIDE DEF front, back
<1>3. /\ u \in Seq(S) /\ Len(u) = Len(s) - 1
      /\ \A i \in 1..(p - 1) : u[i] = front[i]
      /\ \A i \in p..(Len(s) - 1) : u[i] = back[i - (p - 1)]
  BY <1>1, <1>2
<1>4. \A i \in p..(Len(s) - 1) :
        i - (p - 1) \in 1..(Len(s) - p) /\ (i - (p - 1)) + p = i + 1
  OBVIOUS
<1>5. RemoveAt(s, p) = u
  BY DEF RemoveAt, front, back
<1> HIDE DEF u
<1>6. p \in Nat /\ Len(s) \in Nat /\ \A i \in 1..(Len(s) - 1) :
        (i < p /\ i \in 1..(p - 1)) \/ (~(i < p) /\ i \in p..(Len(s) - 1))
  OBVIOUS
<1>7. ASSUME NEW i \in 1..(Len(s) - 1) PROVE u[i] = IF i < p THEN s[i] ELSE s[i + 1]
  <2>1. CASE i < p
    BY <1>1, <1>3, <1>6, <2>1
  <2>2. CASE ~(i < p)
    <3>1. i \in p..(Len(s) - 1)
      BY <1>6, <2>2
    <3>2. u[i] = back[i - (p - 1)]
      BY <1>3, <3>1
    <3>3. back[i - (p - 1)] = s[(i - (p - 1)) + p] /\ (i - (p - 1)) + p = i + 1
      BY <1>2, <1>4, <3>1
    <3> QED BY <2>2, <3>2, <3>3
  <2> QED BY <2>1, <2>2
<1> QED BY <1>3, <1>5, <1>7

\* A new name joins the names of a list.
LEMMA InsertNames ==
  ASSUME NEW S, NEW s \in Seq(S), NEW x \in S, NEW p \in 1..(Len(s) + 1), NEW t,
         t = InsertAt(s, p, x), ~Has(s, x), Distinct(s)
  PROVE  t \in Seq(S) /\ Distinct(t) /\ \A n : Has(t, n) <=> Has(s, n) \/ n = x
<1>1. /\ t \in Seq(S) /\ Len(t) = Len(s) + 1 /\ Len(s) \in Nat
      /\ \A i \in 1..(Len(s) + 1) : t[i] = IF i < p THEN s[i] ELSE IF i = p THEN x ELSE s[i - 1]
  BY InsertFacts
<1>2. DOMAIN s = 1..Len(s) /\ DOMAIN t = 1..(Len(s) + 1) /\ p \in Nat
  BY <1>1
<1>3. \A i \in DOMAIN t : i < p => i \in DOMAIN s /\ t[i] = s[i] /\ t[i] # x
  BY <1>1, <1>2 DEF Has
<1>4. \A i \in DOMAIN t : i > p => i - 1 \in DOMAIN s /\ t[i] = s[i - 1] /\ t[i] # x
  BY <1>1, <1>2 DEF Has
<1>5. p \in DOMAIN t /\ t[p] = x
  BY <1>1, <1>2
<1>6. \A i \in DOMAIN t : i < p \/ i = p \/ i > p
  BY <1>2
<1>7. Distinct(t)
  <2> SUFFICES ASSUME NEW i \in DOMAIN t, NEW j \in DOMAIN t, t[i] = t[j] PROVE i = j
    BY DEF Distinct
  <2> QED BY <1>2, <1>3, <1>4, <1>5, <1>6 DEF Distinct
<1>8. ASSUME NEW n, Has(t, n) PROVE Has(s, n) \/ n = x
  BY <1>3, <1>4, <1>5, <1>6, <1>8 DEF Has
<1>9. ASSUME NEW n, Has(s, n) PROVE Has(t, n)
  <2>1. PICK i \in DOMAIN s : s[i] = n
    BY <1>9 DEF Has
  <2>2. \/ i \in DOMAIN t /\ t[i] = n
        \/ i + 1 \in DOMAIN t /\ t[i + 1] = n
    BY <1>1, <1>2, <2>1
  <2> QED BY <2>2 DEF Has
<1> QED BY <1>1, <1>5, <1>7, <1>8, <1>9 DEF Has

\* A removed name leaves the others.
LEMMA RemoveNames ==
  ASSUME NEW S, NEW s \in Seq(S), NEW p \in DOMAIN s, NEW t, t = RemoveAt(s, p), Distinct(s)
  PROVE  t \in Seq(S) /\ Distinct(t) /\ \A n : Has(t, n) <=> Has(s, n) /\ n # s[p]
<1>1. /\ t \in Seq(S) /\ Len(t) = Len(s) - 1 /\ Len(s) \in Nat
      /\ \A i \in 1..(Len(s) - 1) : t[i] = IF i < p THEN s[i] ELSE s[i + 1]
  BY RemoveFacts
<1>2. DOMAIN s = 1..Len(s) /\ DOMAIN t = 1..(Len(s) - 1) /\ p \in Nat
  BY <1>1
<1>3. \A i \in DOMAIN t : i < p => i \in DOMAIN s /\ t[i] = s[i]
  BY <1>1, <1>2
<1>4. \A i \in DOMAIN t : i >= p => i + 1 \in DOMAIN s /\ t[i] = s[i + 1]
  BY <1>1, <1>2
<1>5. \A i \in DOMAIN t : (i < p \/ i >= p) /\ i \in Nat
  BY <1>2
<1>6. Distinct(t)
  <2> SUFFICES ASSUME NEW i \in DOMAIN t, NEW j \in DOMAIN t, t[i] = t[j] PROVE i = j
    BY DEF Distinct
  <2> QED BY <1>2, <1>3, <1>4, <1>5 DEF Distinct
<1>7. ASSUME NEW n, Has(t, n) PROVE Has(s, n) /\ n # s[p]
  <2>1. PICK i \in DOMAIN t : t[i] = n
    BY <1>7 DEF Has
  <2> QED BY <1>2, <1>3, <1>4, <1>5, <2>1 DEF Has, Distinct
<1>8. ASSUME NEW n, Has(s, n), n # s[p] PROVE Has(t, n)
  <2>1. PICK i \in DOMAIN s : s[i] = n
    BY <1>8 DEF Has
  <2>2. \/ i \in DOMAIN t /\ t[i] = n
        \/ i - 1 \in DOMAIN t /\ t[i - 1] = n
    BY <1>1, <1>2, <1>8, <2>1
  <2> QED BY <2>2 DEF Has
<1> QED BY <1>1, <1>6, <1>7, <1>8

\* Whatever is edited, the directory lists each file once.
LEMMA DirectoryHolds == Spec => []Directory
<1>1. Init => Directory
  BY DEF Init, Directory, Listed, Distinct, Has
<1>2. ASSUME Directory, [Next]_vars PROVE Directory'
  <2>0. NoFile \notin Files
    BY FilesAssumption DEF Files
  <2>1. CASE EditProfile
    BY <1>2, <2>1 DEF EditProfile, Directory, Listed, Distinct, Has
  <2>2. ASSUME NEW n \in DropIns, AddDropIn(n) PROVE Directory'
    <3>1. PICK file \in Files : profile_d' = [profile_d EXCEPT ![n] = file]
      BY <2>2 DEF AddDropIn
    <3>2. PICK p \in 1..(Len(listing) + 1) : listing' = InsertAt(listing, p, n)
      BY <2>2 DEF AddDropIn
    <3>3. listing \in Seq(DropIns) /\ Distinct(listing) /\ ~Has(listing, n)
      BY <1>2, <2>2 DEF AddDropIn, Directory, Listed
    <3>4. /\ listing' \in Seq(DropIns) /\ Distinct(listing')
          /\ \A m : Has(listing', m) <=> Has(listing, m) \/ m = n
      BY <3>2, <3>3, InsertNames
    <3>5. /\ profile_d' \in [DropIns -> Files \cup {NoFile}]
          /\ profile_d'[n] # NoFile
          /\ \A m \in DropIns : m # n => profile_d'[m] = profile_d[m]
      BY <1>2, <2>0, <3>1 DEF Directory
    <3>6. Listed'
      <4>1. \A m \in DropIns : profile_d'[m] # NoFile <=> Has(listing', m)
        BY <1>2, <3>4, <3>5 DEF Directory, Listed
      <4> QED BY <3>4, <4>1 DEF Listed, Has, Distinct
    <3> QED BY <1>2, <2>2, <3>5, <3>6 DEF AddDropIn, Directory
  <2>3. ASSUME NEW n \in DropIns, RemoveDropIn(n) PROVE Directory'
    <3>1. PICK p \in DOMAIN listing : listing[p] = n /\ listing' = RemoveAt(listing, p)
      BY <2>3 DEF RemoveDropIn
    <3>2. listing \in Seq(DropIns) /\ Distinct(listing)
      BY <1>2 DEF Directory, Listed
    <3>3. /\ listing' \in Seq(DropIns) /\ Distinct(listing')
          /\ \A m : Has(listing', m) <=> Has(listing, m) /\ m # n
      BY <3>1, <3>2, RemoveNames
    <3>4. /\ profile_d' \in [DropIns -> Files \cup {NoFile}]
          /\ profile_d'[n] = NoFile
          /\ \A m \in DropIns : m # n => profile_d'[m] = profile_d[m]
      BY <1>2, <2>3 DEF Directory, RemoveDropIn
    <3>5. Listed'
      <4>1. \A m \in DropIns : profile_d'[m] # NoFile <=> Has(listing', m)
        BY <1>2, <3>3, <3>4 DEF Directory, Listed
      <4> QED BY <3>3, <4>1 DEF Listed, Has, Distinct
    <3> QED BY <1>2, <2>3, <3>4, <3>5 DEF RemoveDropIn, Directory
  <2>4. CASE UNCHANGED vars
    BY <1>2, <2>4 DEF vars, Directory, Listed, Distinct, Has
  <2> QED BY <1>2, <2>1, <2>2, <2>3, <2>4 DEF Next
<1> QED BY <1>1, <1>2, PTL DEF Spec

-----------------------------------------------------------------------------
(* The drop-ins in lexical order. *)

Ascending(s) == \A i, j \in DOMAIN s : i < j => s[i] < s[j]

\* A new name has a place in an ascending list.
LEMMA InsertAscending ==
  ASSUME NEW s \in Seq(Nat), Ascending(s), NEW x \in Nat, ~Has(s, x)
  PROVE  \E t \in Seq(Nat) : /\ Len(t) = Len(s) + 1 /\ Ascending(t)
                             /\ \A n : Has(t, n) <=> Has(s, n) \/ n = x
<1>1. /\ Len(s) \in Nat /\ DOMAIN s = 1..Len(s) /\ \A i \in DOMAIN s : s[i] \in Nat
  OBVIOUS
<1> DEFINE Places == {i \in 1..(Len(s) + 1) : i = Len(s) + 1 \/ x < s[i]}
<1>2. PICK p \in Places : \A i \in Places : p <= i
  <2>1. Places \in SUBSET Nat /\ Len(s) + 1 \in Places
    BY <1>1
  <2> HIDE DEF Places
  <2> QED BY <2>1, LeastNatural
<1>3. /\ p \in 1..(Len(s) + 1) /\ p \in Nat
      /\ \A i \in DOMAIN s : i < p => ~(x < s[i])
      /\ p \in DOMAIN s => x < s[p]
  BY <1>1, <1>2
<1> HIDE DEF Places
<1>4. \A i \in DOMAIN s : i < p => s[i] < x
  BY <1>1, <1>3 DEF Has
<1>5. ASSUME NEW i \in DOMAIN s, i >= p PROVE x < s[i]
  <2>1. p \in DOMAIN s /\ (p = i \/ p < i)
    BY <1>1, <1>3, <1>5
  <2>2. s[p] = s[i] \/ s[p] < s[i]
    BY <2>1 DEF Ascending
  <2> QED BY <1>1, <1>3, <2>1, <2>2
<1> DEFINE t == InsertAt(s, p, x)
<1>6. Distinct(s)
  BY <1>1 DEF Distinct, Ascending
<1>7. /\ t \in Seq(Nat) /\ Len(t) = Len(s) + 1
      /\ \A i \in 1..(Len(s) + 1) : t[i] = IF i < p THEN s[i] ELSE IF i = p THEN x ELSE s[i - 1]
  <2> DEFINE N == Nat
  <2>1. s \in Seq(N) /\ x \in N /\ p \in 1..(Len(s) + 1)
    BY <1>3
  <2>2. N = Nat
    OBVIOUS
  <2> HIDE DEF N
  <2>3. /\ InsertAt(s, p, x) \in Seq(N) /\ Len(InsertAt(s, p, x)) = Len(s) + 1
        /\ \A i \in 1..(Len(s) + 1) :
             InsertAt(s, p, x)[i] = IF i < p THEN s[i] ELSE IF i = p THEN x ELSE s[i - 1]
    BY <2>1, InsertFacts
  <2> QED BY <2>2, <2>3
<1>8. \A n : Has(t, n) <=> Has(s, n) \/ n = x
  BY <1>3, <1>6, InsertNames
<1> HIDE DEF t
<1>9. ASSUME NEW i \in DOMAIN t, NEW j \in DOMAIN t, i < j PROVE t[i] < t[j]
  <2>1. i \in 1..(Len(s) + 1) /\ j \in 1..(Len(s) + 1) /\ i \in Nat /\ j \in Nat
    BY <1>7
  <2>2. CASE j < p
    <3>1. t[i] = s[i] /\ t[j] = s[j] /\ i \in DOMAIN s /\ j \in DOMAIN s
      BY <1>1, <1>3, <1>7, <1>9, <2>1, <2>2
    <3> QED BY <1>9, <3>1 DEF Ascending
  <2>3. CASE j = p
    <3>1. t[i] = s[i] /\ t[j] = x /\ i \in DOMAIN s /\ i < p
      BY <1>1, <1>3, <1>7, <1>9, <2>1, <2>3
    <3> QED BY <1>4, <3>1
  <2>4. CASE j > p /\ i < p
    <3>1. t[i] = s[i] /\ t[j] = s[j - 1] /\ i \in DOMAIN s /\ j - 1 \in DOMAIN s /\ j - 1 >= p
      BY <1>1, <1>3, <1>7, <2>1, <2>4
    <3>2. s[i] < x /\ x < s[j - 1] /\ s[i] \in Nat /\ s[j - 1] \in Nat
      BY <1>1, <1>4, <1>5, <2>4, <3>1
    <3> QED BY <3>1, <3>2
  <2>5. CASE j > p /\ i = p
    <3>1. t[i] = x /\ t[j] = s[j - 1] /\ j - 1 \in DOMAIN s /\ j - 1 >= p
      BY <1>1, <1>3, <1>7, <2>1, <2>5
    <3> QED BY <1>5, <3>1
  <2>6. CASE j > p /\ i > p
    <3>1. t[i] = s[i - 1] /\ t[j] = s[j - 1] /\ i - 1 \in DOMAIN s /\ j - 1 \in DOMAIN s
          /\ i - 1 < j - 1
      BY <1>1, <1>3, <1>7, <1>9, <2>1, <2>6
    <3> QED BY <3>1 DEF Ascending
  <2> QED BY <1>3, <2>1, <2>2, <2>3, <2>4, <2>5, <2>6
<1>10. Ascending(t)
  BY <1>9 DEF Ascending
<1> QED BY <1>7, <1>8, <1>10

\* sorted returns the names of a list without repetitions, in ascending order.
LEMMA SortedNames ==
  ASSUME NEW p \in Seq(Nat), Distinct(p), NEW r, r = sorted(p)
  PROVE  r \in Seq(Nat) /\ Ascending(r) /\ \A n : Has(r, n) <=> Has(p, n)
<1>1. /\ Len(p) \in Nat /\ DOMAIN p = 1..Len(p) /\ \A i \in DOMAIN p : p[i] \in Nat
  OBVIOUS
<1> DEFINE Prefix(k, n) == \E i \in 1..k : p[i] = n
           Sorts(s, k) == Len(s) = k /\ Ascending(s) /\ \A n : Has(s, n) <=> Prefix(k, n)
           Done == {k \in 0..Len(p) : \E s \in Seq(Nat) : Sorts(s, k)}
<1>2. 0 \in Done
  <2>1. << >> \in Seq(Nat) /\ Sorts(<< >>, 0)
    BY DEF Ascending, Has
  <2>2. 0 \in 0..Len(p)
    BY <1>1
  <2> HIDE DEF Sorts
  <2> QED BY <2>1, <2>2
<1>3. ASSUME NEW k \in 0..Len(p), k \in Done, k < Len(p) PROVE k + 1 \in Done
  <2>1. PICK s \in Seq(Nat) : Sorts(s, k)
    BY <1>3
  <2>2. k \in Nat /\ k + 1 \in DOMAIN p /\ p[k + 1] \in Nat /\ k + 1 \in 0..Len(p)
    BY <1>1, <1>3
  <2>3. ~Has(s, p[k + 1])
    <3>1. \A i \in 1..k : i \in DOMAIN p /\ i # k + 1
      BY <1>1, <2>2
    <3> QED BY <2>1, <2>2, <3>1 DEF Distinct
  <2>4. PICK t \in Seq(Nat) : /\ Len(t) = Len(s) + 1 /\ Ascending(t)
                              /\ \A n : Has(t, n) <=> Has(s, n) \/ n = p[k + 1]
    BY <2>1, <2>2, <2>3, InsertAscending
  <2>5. \A n : Prefix(k + 1, n) <=> Prefix(k, n) \/ n = p[k + 1]
    <3>1. \A i : i \in 1..(k + 1) <=> i \in 1..k \/ i = k + 1
      BY <2>2
    <3> QED BY <3>1
  <2>6. Sorts(t, k + 1)
    BY <2>1, <2>4, <2>5
  <2> QED BY <2>2, <2>6
<1>4. PICK s \in Seq(Nat) : Sorts(s, Len(p))
  <2>1. \A k \in 0..Len(p) : k \in Done
    <3> HIDE DEF Done
    <3> QED BY <1>1, <1>2, <1>3, CountUp
  <2>2. Len(p) \in 0..Len(p)
    BY <1>1
  <2> HIDE DEF Sorts
  <2> QED BY <2>1, <2>2
<1>5. \A n : Has(s, n) <=> Has(p, n)
  BY <1>1, <1>4 DEF Has
<1>6. DOMAIN s = DOMAIN p /\ s = [i \in DOMAIN s |-> s[i]]
  BY <1>1, <1>4
<1>7. ToSet(s) = ToSet(p) /\ \A i \in DOMAIN s : s[i] \in ToSet(p)
  BY <1>5 DEF ToSet, Has
<1>8. s \in [DOMAIN p -> ToSet(p)]
  BY <1>6, <1>7
<1> DEFINE Candidates == [DOMAIN p -> ToSet(p)]
           SortsAll(q) == ToSet(q) = ToSet(p) /\ \A i, j \in DOMAIN q : i < j => q[i] < q[j]
<1>9. s \in Candidates /\ SortsAll(s)
  BY <1>4, <1>7, <1>8 DEF Ascending
<1>10. r = CHOOSE q \in Candidates : SortsAll(q)
  BY DEF sorted
<1>11. r \in Candidates /\ SortsAll(r)
  <2> HIDE DEF Candidates, SortsAll
  <2> QED BY <1>9, <1>10
<1>12. DOMAIN r = 1..Len(p) /\ \A i \in DOMAIN r : r[i] \in Nat
  <2>1. DOMAIN r = DOMAIN p /\ \A i \in DOMAIN r : r[i] \in ToSet(p)
    BY <1>11
  <2> QED BY <1>1, <2>1 DEF ToSet
<1>13. r \in Seq(Nat)
  <2>1. r = [i \in 1..Len(p) |-> r[i]]
    BY <1>1, <1>11
  <2> QED BY <1>1, <1>12, <2>1
<1>14. \A n : Has(r, n) <=> Has(p, n)
  <2>1. \A n : (n \in ToSet(r) <=> Has(r, n)) /\ (n \in ToSet(p) <=> Has(p, n))
    BY DEF ToSet, Has
  <2> QED BY <1>11, <2>1
<1> QED BY <1>11, <1>13, <1>14 DEF Ascending

\* The recursion of collected has a solution.
Collect(paths, k) ==
  IF k = 0 THEN << >>
  ELSE IF listing[k] \in TomlFiles THEN Append(paths[k - 1], listing[k]) ELSE paths[k - 1]

LEMMA CollectExtends ==
  ASSUME NEW n \in Nat, NEW g, g = [k \in 0..n |-> Collect(g, k)]
  PROVE  \E h : h = [k \in 0..(n + 1) |-> Collect(h, k)]
<1> DEFINE h == [k \in 0..(n + 1) |->
                   IF k <= n THEN g[k]
                   ELSE IF listing[n + 1] \in TomlFiles THEN Append(g[n], listing[n + 1]) ELSE g[n]]
           h2 == [k \in 0..(n + 1) |-> Collect(h, k)]
<1>1. \A k \in 0..n : g[k] = Collect(g, k)
  BY Zenon
<1>2. ASSUME NEW k \in 0..(n + 1) PROVE h[k] = Collect(h, k)
  <2>1. CASE k <= n
    <3>1. k \in 0..n /\ h[k] = g[k] /\ (k # 0 => h[k - 1] = g[k - 1])
      BY <2>1
    <3> QED BY <1>1, <3>1 DEF Collect
  <2>2. CASE k = n + 1
    <3>1. /\ h[k] = IF listing[k] \in TomlFiles THEN Append(g[n], listing[k]) ELSE g[n]
          /\ h[k - 1] = g[n] /\ k # 0
      BY <2>2
    <3> QED BY <3>1 DEF Collect
  <2> QED BY <2>1, <2>2
<1>3. h = [k \in 0..(n + 1) |-> h[k]] /\ h2 = [k \in 0..(n + 1) |-> h2[k]]
  OBVIOUS
<1>4. \A k \in 0..(n + 1) : h2[k] = Collect(h, k)
  BY Zenon
<1> HIDE DEF h, h2
<1>5. h = h2
  BY <1>2, <1>3, <1>4
<1> QED BY <1>5 DEF h2

LEMMA CollectRuns ==
  ASSUME Len(listing) \in Nat
  PROVE  \E g : /\ \A k \in 0..Len(listing) : g[k] = Collect(g, k)
                /\ collected = g[Len(listing)]
<1> DEFINE Solved == {n \in Nat : \E g : g = [k \in 0..n |-> Collect(g, k)]}
           run == CHOOSE g : g = [k \in 0..Len(listing) |-> Collect(g, k)]
<1>1. 0 \in Solved
  <2> DEFINE g == [k \in 0..0 |-> << >>]
             g2 == [k \in 0..0 |-> Collect(g, k)]
  <2>1. g = [k \in 0..0 |-> g[k]] /\ g2 = [k \in 0..0 |-> g2[k]]
    OBVIOUS
  <2>2. \A k \in 0..0 : g[k] = << >> /\ g2[k] = Collect(g, k) /\ k = 0
    OBVIOUS
  <2> HIDE DEF g, g2
  <2>3. g = g2
    BY <2>1, <2>2 DEF Collect
  <2> QED BY <2>3 DEF g2
<1>2. \A n \in 0..Len(listing) : n \in Solved /\ n < Len(listing) => n + 1 \in Solved
  BY CollectExtends
<1>3. Len(listing) \in Solved
  <2>1. \A k \in 0..Len(listing) : k \in Solved
    <3> HIDE DEF Solved
    <3> QED BY <1>1, <1>2, CountUp
  <2>2. Len(listing) \in 0..Len(listing)
    OBVIOUS
  <2> HIDE DEF Solved
  <2> QED BY <2>1, <2>2
<1>4. run = [k \in 0..Len(listing) |-> Collect(run, k)]
  BY <1>3
<1>5. collected = run[Len(listing)]
  BY DEF collected, Collect
<1> HIDE DEF run
<1>6. \A k \in 0..Len(listing) : run[k] = Collect(run, k)
  BY <1>4, Zenon
<1> QED BY <1>5, <1>6

\* The drop-ins that count, each once and in lexical order.
LEMMA DropInPaths ==
  ASSUME Directory
  PROVE  /\ drop_in_paths \in Seq(Nat) /\ Ascending(drop_in_paths)
         /\ \A n : Has(drop_in_paths, n) <=> n \in TomlFiles /\ profile_d[n] # NoFile
<1>1. /\ listing \in Seq(DropIns) /\ Distinct(listing) /\ Len(listing) \in Nat
      /\ DOMAIN listing = 1..Len(listing)
  BY DEF Directory, Listed
<1>2. DropIns \subseteq Nat /\ TomlFiles \subseteq DropIns
  BY FilesAssumption
<1>3. PICK g : /\ \A k \in 0..Len(listing) : g[k] = Collect(g, k)
               /\ collected = g[Len(listing)]
  BY <1>1, CollectRuns
<1> DEFINE Prefix(k, n) == n \in TomlFiles /\ \E i \in 1..k : listing[i] = n
           Collects(s, k) == s \in Seq(Nat) /\ Distinct(s) /\ \A n : Has(s, n) <=> Prefix(k, n)
           Done == {k \in 0..Len(listing) : Collects(g[k], k)}
<1>4. 0 \in Done
  <2>1. g[0] = << >>
    BY <1>1, <1>3 DEF Collect
  <2>2. Collects(<< >>, 0)
    BY DEF Distinct, Has
  <2>3. 0 \in 0..Len(listing)
    BY <1>1
  <2> HIDE DEF Collects
  <2> QED BY <2>1, <2>2, <2>3
<1>5. ASSUME NEW k \in 0..Len(listing), k \in Done, k < Len(listing) PROVE k + 1 \in Done
  <2>1. Collects(g[k], k)
    BY <1>5
  <2>2. /\ k \in Nat /\ k + 1 \in DOMAIN listing /\ listing[k + 1] \in Nat
        /\ k + 1 \in 0..Len(listing) /\ (k + 1) - 1 = k /\ k + 1 # 0
    <3>1. \A i \in DOMAIN listing : listing[i] \in DropIns
      BY <1>1
    <3>2. /\ k \in Nat /\ k + 1 \in DOMAIN listing /\ k + 1 \in 0..Len(listing)
          /\ (k + 1) - 1 = k /\ k + 1 # 0
      BY <1>1, <1>5
    <3> QED BY <1>2, <3>1, <3>2
  <2> DEFINE x == listing[k + 1]
  <2>3. \A n : Prefix(k + 1, n) <=> Prefix(k, n) \/ (n = x /\ n \in TomlFiles)
    <3>1. \A i : i \in 1..(k + 1) <=> i \in 1..k \/ i = k + 1
      BY <2>2
    <3> QED BY <3>1
  <2>4. CASE x \in TomlFiles
    <3>1. g[k + 1] = Append(g[k], x)
      BY <1>3, <2>2, <2>4 DEF Collect
    <3>2. ~Has(g[k], x)
      <4>1. \A i \in 1..k : i \in DOMAIN listing /\ i # k + 1
        BY <1>1, <2>2
      <4> QED BY <1>1, <2>1, <2>2, <4>1 DEF Distinct
    <3>3. /\ g[k + 1] \in Seq(Nat) /\ Len(g[k]) \in Nat
          /\ DOMAIN g[k] = 1..Len(g[k]) /\ DOMAIN g[k + 1] = 1..(Len(g[k]) + 1)
          /\ \A i \in DOMAIN g[k] : g[k + 1][i] = g[k][i]
          /\ g[k + 1][Len(g[k]) + 1] = x
      BY <2>1, <2>2, <3>1
    <3>4. \A i : i \in DOMAIN g[k + 1] <=> i \in DOMAIN g[k] \/ i = Len(g[k]) + 1
      BY <3>3
    <3>5. Distinct(g[k + 1])
      BY <2>1, <3>2, <3>3, <3>4 DEF Distinct, Has
    <3>6. \A n : Has(g[k + 1], n) <=> Has(g[k], n) \/ n = x
      BY <3>3, <3>4 DEF Has
    <3> QED BY <2>1, <2>2, <2>3, <2>4, <3>3, <3>5, <3>6
  <2>5. CASE x \notin TomlFiles
    <3>1. g[k + 1] = g[k]
      BY <1>3, <2>2, <2>5 DEF Collect
    <3> QED BY <2>1, <2>2, <2>3, <2>5, <3>1
  <2> QED BY <2>4, <2>5
<1>6. Collects(collected, Len(listing))
  <2>1. \A k \in 0..Len(listing) : k \in Done
    <3> HIDE DEF Done
    <3> QED BY <1>1, <1>4, <1>5, CountUp
  <2>2. Len(listing) \in 0..Len(listing)
    BY <1>1
  <2> QED BY <1>3, <2>1, <2>2
<1>7. \A n : Has(collected, n) <=> n \in TomlFiles /\ profile_d[n] # NoFile
  <2>1. \A n \in TomlFiles : profile_d[n] # NoFile <=> \E i \in 1..Len(listing) : listing[i] = n
    BY <1>1, <1>2 DEF Directory, Listed, Has
  <2> QED BY <1>6, <2>1
<1> QED BY <1>6, <1>7, SortedNames DEF drop_in_paths

-----------------------------------------------------------------------------
(* The layers. *)

IsHighest(ranks, r) == r \in ranks /\ \A q \in ranks : q <= r

\* The layers of R that set a key.
ModeSetters(R) == {r \in R : Content(r).mode # Unset}
MaximumSetters(R) == {r \in R : Content(r).maximum # Unset}
WineSetters(R) == {r \in R : Content(r).wine # Unset}
Rulers(R) == {r \in R : Content(r).rules # << >>}

\* What a configuration that has been layered from the files of R looks like.
Reflects(c, R) ==
  /\ c \in Configs /\ c.schema_version = 1 /\ Usable(c.rules)
  /\ \E r : IsHighest(ModeSetters(R), r) /\ c.mode = Content(r).mode
  /\ \E r : IsHighest(MaximumSetters(R), r) /\ c.maximum = Content(r).maximum
  /\ \E r : IsHighest(WineSetters(R), r) /\ c.wine = Content(r).wine
  /\ \A r \in R : ToSet(Content(r).rules) \subseteq ToSet(c.rules)
  /\ Rulers(R) # {} =>
       \E r : IsHighest(Rulers(R), r) /\ Last(c.rules) = Last(Content(r).rules)

Unsound(file) == file = Bad \/ file.schema_version # 1 \/ ~Usable(file.rules)
Defect(R) == defaults.maximum \notin 1..6 \/ \E r \in R : Unsound(Content(r))

\* Layering stops for a defect, or goes on with what the files say when none of
\* them has any.
Reached(c, R) == IF Defect(R) THEN c = Error ELSE Reflects(c, R)

\* A highest rank is the one that Highest chooses.
LEMMA HighestIs ==
  ASSUME NEW ranks \in SUBSET Nat, NEW r, IsHighest(ranks, r)
  PROVE  Highest(ranks) = r
<1>1. \A q \in ranks : IsHighest(ranks, q) => q = r
  BY DEF IsHighest
<1>2. Highest(ranks) \in ranks /\ \A q \in ranks : q <= Highest(ranks)
  BY DEF IsHighest, Highest
<1> QED BY <1>1, <1>2 DEF IsHighest

\* Rules that are appended are lost neither in front nor behind.
LEMMA ConcatFacts ==
  ASSUME NEW S, NEW a \in Seq(S), NEW b \in Seq(S), NEW c, c = a \o b
  PROVE  /\ c \in Seq(S) /\ ToSet(a) \subseteq ToSet(c) /\ ToSet(b) \subseteq ToSet(c)
         /\ \A i \in DOMAIN c : c[i] \in ToSet(a) \/ c[i] \in ToSet(b)
<1>1. /\ Len(a) \in Nat /\ DOMAIN a = 1..Len(a) /\ Len(b) \in Nat /\ DOMAIN b = 1..Len(b)
      /\ c \in Seq(S) /\ Len(c) = Len(a) + Len(b) /\ DOMAIN c = 1..Len(c)
      /\ \A i \in DOMAIN a : c[i] = a[i]
      /\ \A i \in DOMAIN b : c[Len(a) + i] = b[i]
  OBVIOUS
<1>2. \A i \in DOMAIN a : i \in DOMAIN c
  BY <1>1
<1>3. \A i \in DOMAIN b : Len(a) + i \in DOMAIN c
  BY <1>1
<1>4. ToSet(a) \subseteq ToSet(c)
  BY <1>1, <1>2 DEF ToSet
<1>5. ToSet(b) \subseteq ToSet(c)
  BY <1>1, <1>3 DEF ToSet
<1>6. ASSUME NEW i \in DOMAIN c PROVE c[i] \in ToSet(a) \/ c[i] \in ToSet(b)
  <2>1. CASE i \in DOMAIN a
    BY <1>1, <2>1 DEF ToSet
  <2>2. CASE i \notin DOMAIN a
    <3>1. i - Len(a) \in DOMAIN b /\ Len(a) + (i - Len(a)) = i
      BY <1>1, <2>2
    <3>2. c[i] = b[i - Len(a)]
      BY <1>1, <3>1
    <3> QED BY <3>1, <3>2 DEF ToSet
  <2> QED BY <2>1, <2>2
<1> QED BY <1>1, <1>4, <1>5, <1>6

\* A sound patch over a configuration.
LEMMA PatchFacts ==
  ASSUME NEW c \in Configs, NEW f \in ConfigPatches, Usable(c.rules), Usable(f.rules), NEW d,
         d = apply_patch(c, f)
  PROVE  /\ d \in Configs /\ d.schema_version = c.schema_version /\ Usable(d.rules)
         /\ d.mode = Set(f.mode, c.mode) /\ d.maximum = Set(f.maximum, c.maximum)
         /\ d.wine = Set(f.wine, c.wine) /\ d.rules = c.rules \o f.rules
<1>1. /\ c.rules \in Seq(Rules) /\ f.rules \in Seq(Rules)
      /\ c.mode \in Modes /\ c.maximum \in Nat /\ c.wine \in BOOLEAN /\ c.schema_version \in Nat
      /\ f.mode \in Modes \cup {Unset} /\ f.maximum \in Nat \cup {Unset}
  BY DEF Configs, ConfigPatches
<1>2. f.wine \in BOOLEAN \cup {Unset}
  BY DEF ConfigPatches
<1> DEFINE rules == c.rules \o f.rules
<1>3. /\ rules \in Seq(Rules)
      /\ \A i \in DOMAIN rules : rules[i] \in ToSet(c.rules) \/ rules[i] \in ToSet(f.rules)
  <2> DEFINE a == c.rules
             b == f.rules
  <2>1. a \in Seq(Rules) /\ b \in Seq(Rules) /\ rules = a \o b
    BY <1>1
  <2> HIDE DEF a, b, rules
  <2>2. /\ rules \in Seq(Rules)
        /\ \A i \in DOMAIN rules : rules[i] \in ToSet(a) \/ rules[i] \in ToSet(b)
    BY <2>1, ConcatFacts
  <2> QED BY <2>2 DEF a, b
<1>4. Set(f.mode, c.mode) \in Modes /\ Set(f.maximum, c.maximum) \in Nat
  BY <1>1 DEF Set
<1>5. Set(f.wine, c.wine) \in BOOLEAN
  BY <1>1, <1>2, Zenon DEF Set
<1>6. Usable(rules)
  BY <1>3 DEF Usable, ToSet
<1>7. d = [c EXCEPT !.mode = Set(f.mode, c.mode), !.maximum = Set(f.maximum, c.maximum),
                    !.wine = Set(f.wine, c.wine), !.rules = rules]
  BY DEF apply_patch
<1>8. DOMAIN c = {"schema_version", "mode", "maximum", "wine", "rules"}
  BY DEF Configs
<1> HIDE DEF rules
<1>9. /\ d.schema_version = c.schema_version
      /\ d.mode = Set(f.mode, c.mode) /\ d.maximum = Set(f.maximum, c.maximum)
      /\ d.wine = Set(f.wine, c.wine) /\ d.rules = rules
  BY <1>7, <1>8
<1>10. d \in Configs
  BY <1>1, <1>3, <1>4, <1>5, <1>7 DEF Configs
<1> QED BY <1>6, <1>9, <1>10 DEF rules

\* One more layer above the ones that have been applied.
LEMMA LayerStep ==
  ASSUME NEW c, NEW R \in SUBSET Nat, Reflects(c, R), ~Defect(R), NEW q \in Nat,
         \A r \in R : r < q,
         Content(q) \in Files, NEW d, d = Layer(c, Content(q)), NEW T, T = R \cup {q}
  PROVE  Reached(d, T)
<1> DEFINE f == Content(q)
<1>1. c \in Configs /\ c # Error /\ (f # Bad => f \in ConfigPatches /\ f # Error)
  <2>1. c \in Configs /\ f \in Files
    BY DEF Reflects
  <2> HIDE DEF f
  <2> QED BY <2>1, FilesAssumption DEF Files
<1>2. CASE Unsound(f)
  <2>1. d = Error
    BY <1>2 DEF Layer, parse_patch, Unsound
  <2> QED BY <1>2, <2>1 DEF Reached, Defect
<1>3. CASE ~Unsound(f)
  <2>1. f # Bad /\ f.schema_version = 1 /\ Usable(f.rules) /\ f \in ConfigPatches
    BY <1>1, <1>3 DEF Unsound
  <2>2. parse_patch(f) = f
    BY <2>1 DEF parse_patch
  <2>3. d = apply_patch(c, f)
    BY <1>1, <2>1, <2>2 DEF Layer
  <2>4. c \in Configs /\ Usable(c.rules) /\ c.schema_version = 1
    BY DEF Reflects
  <2>5. /\ d \in Configs /\ d.schema_version = c.schema_version /\ Usable(d.rules)
        /\ d.mode = Set(f.mode, c.mode) /\ d.maximum = Set(f.maximum, c.maximum)
        /\ d.wine = Set(f.wine, c.wine) /\ d.rules = c.rules \o f.rules
    <3> HIDE DEF f
    <3> QED BY <2>1, <2>3, <2>4, PatchFacts
  <2>6. \A r \in R : r \in Nat /\ r < q
    OBVIOUS
  <2>7. \E r : IsHighest(ModeSetters(T), r) /\ d.mode = Content(r).mode
    <3>1. PICK r : IsHighest(ModeSetters(R), r) /\ c.mode = Content(r).mode
      BY DEF Reflects
    <3>2. \A x : x \in ModeSetters(T) <=> x \in ModeSetters(R) \/ (x = q /\ f.mode # Unset)
      BY DEF ModeSetters
    <3>3. \A x \in ModeSetters(R) : x < q /\ x \in Nat
      BY <2>6 DEF ModeSetters
    <3>4. CASE f.mode = Unset
      BY <2>5, <3>1, <3>2, <3>4 DEF Set, IsHighest
    <3>5. CASE f.mode # Unset
      <4>1. IsHighest(ModeSetters(T), q)
        BY <3>2, <3>3, <3>5 DEF IsHighest
      <4> QED BY <2>5, <3>5, <4>1 DEF Set
    <3> QED BY <3>4, <3>5
  <2>8. \E r : IsHighest(MaximumSetters(T), r) /\ d.maximum = Content(r).maximum
    <3>1. PICK r : IsHighest(MaximumSetters(R), r) /\ c.maximum = Content(r).maximum
      BY DEF Reflects
    <3>2. \A x : x \in MaximumSetters(T) <=> x \in MaximumSetters(R) \/ (x = q /\ f.maximum # Unset)
      BY DEF MaximumSetters
    <3>3. \A x \in MaximumSetters(R) : x < q /\ x \in Nat
      BY <2>6 DEF MaximumSetters
    <3>4. CASE f.maximum = Unset
      BY <2>5, <3>1, <3>2, <3>4 DEF Set, IsHighest
    <3>5. CASE f.maximum # Unset
      <4>1. IsHighest(MaximumSetters(T), q)
        BY <3>2, <3>3, <3>5 DEF IsHighest
      <4> QED BY <2>5, <3>5, <4>1 DEF Set
    <3> QED BY <3>4, <3>5
  <2>9. \E r : IsHighest(WineSetters(T), r) /\ d.wine = Content(r).wine
    <3>1. PICK r : IsHighest(WineSetters(R), r) /\ c.wine = Content(r).wine
      BY DEF Reflects
    <3>2. \A x : x \in WineSetters(T) <=> x \in WineSetters(R) \/ (x = q /\ f.wine # Unset)
      BY DEF WineSetters
    <3>3. \A x \in WineSetters(R) : x < q /\ x \in Nat
      BY <2>6 DEF WineSetters
    <3>4. CASE f.wine = Unset
      BY <2>5, <3>1, <3>2, <3>4 DEF Set, IsHighest
    <3>5. CASE f.wine # Unset
      <4>1. IsHighest(WineSetters(T), q)
        BY <3>2, <3>3, <3>5 DEF IsHighest
      <4> QED BY <2>5, <3>5, <4>1 DEF Set
    <3> QED BY <3>4, <3>5
  <2>10. /\ ToSet(c.rules) \subseteq ToSet(d.rules) /\ ToSet(f.rules) \subseteq ToSet(d.rules)
         /\ f.rules = << >> => d.rules = c.rules
         /\ f.rules # << >> => Last(d.rules) = Last(f.rules)
    <3> DEFINE a == c.rules
               b == f.rules
               all == d.rules
    <3>1. a \in Seq(Rules) /\ b \in Seq(Rules) /\ all = a \o b
      BY <2>1, <2>4, <2>5 DEF Configs, ConfigPatches
    <3> HIDE DEF f, a, b, all
    <3>2. ToSet(a) \subseteq ToSet(all) /\ ToSet(b) \subseteq ToSet(all)
      BY <3>1, ConcatFacts
    <3>3. b = << >> => all = a
      BY <3>1
    <3>4. ASSUME b # << >> PROVE Last(all) = Last(b)
      <4>1. /\ Len(b) \in Nat /\ Len(b) # 0 /\ Len(a) \in Nat /\ Len(all) = Len(a) + Len(b)
            /\ \A i \in 1..Len(b) : all[Len(a) + i] = b[i]
        BY <3>1, <3>4
      <4> QED BY <4>1 DEF Last
    <3> QED BY <3>2, <3>3, <3>4 DEF a, b, all
  <2>11. \A r \in T : ToSet(Content(r).rules) \subseteq ToSet(d.rules)
    BY <2>10 DEF Reflects
  <2>12. Rulers(T) # {} =>
           \E r : IsHighest(Rulers(T), r) /\ Last(d.rules) = Last(Content(r).rules)
    <3>1. \A x : x \in Rulers(T) <=> x \in Rulers(R) \/ (x = q /\ f.rules # << >>)
      BY DEF Rulers
    <3>2. \A x \in Rulers(R) : x < q /\ x \in Nat
      BY <2>6 DEF Rulers
    <3>3. CASE f.rules = << >>
      <4>1. Rulers(T) = Rulers(R)
        BY <3>1, <3>3
      <4> QED BY <2>10, <3>3, <4>1 DEF Reflects
    <3>4. CASE f.rules # << >>
      <4>1. IsHighest(Rulers(T), q)
        <5>1. q \in Rulers(T)
          BY <3>4 DEF Rulers
        <5>2. \A x \in Rulers(T) : x <= q
          BY <2>6 DEF Rulers
        <5> QED BY <5>1, <5>2 DEF IsHighest
      <4> QED BY <2>10, <3>4, <4>1
    <3> QED BY <3>3, <3>4
  <2>13. Reflects(d, T)
    BY <2>4, <2>5, <2>7, <2>8, <2>9, <2>11, <2>12 DEF Reflects
  <2>14. ~Defect(T)
    BY <1>3 DEF Defect
  <2> QED BY <2>13, <2>14 DEF Reached
<1> QED BY <1>2, <1>3

\* The lowest layer is the defaults.
LEMMA LowestLayer ==
  ASSUME Directory
  PROVE  Reached(parse_defaults(defaults), {0})
<1>1. Content(0) = defaults
  BY DEF Content
<1>2. defaults # NoFile /\ (defaults # Bad => defaults \in Configs)
  BY FilesAssumption DEF Directory
<1>3. CASE defaults = Bad \/ ~validate_config(defaults)
  <2>1. parse_defaults(defaults) = Error
    BY <1>3 DEF parse_defaults
  <2>2. Defect({0})
    BY <1>1, <1>3 DEF validate_config, Defect, Unsound
  <2> QED BY <2>1, <2>2 DEF Reached
<1>4. CASE defaults # Bad /\ validate_config(defaults)
  <2>1. parse_defaults(defaults) = defaults
    BY <1>2, <1>4 DEF parse_defaults
  <2>2. /\ defaults \in Configs /\ defaults.schema_version = 1 /\ Usable(defaults.rules)
        /\ defaults.mode # Unset /\ defaults.maximum # Unset
    BY <1>2, <1>4, FilesAssumption DEF validate_config, Configs
  <2>3. defaults.wine # Unset
    <3>1. defaults.wine \in BOOLEAN
      BY <2>2 DEF Configs
    <3> QED BY <3>1, FilesAssumption
  <2>4. /\ IsHighest(ModeSetters({0}), 0) /\ IsHighest(MaximumSetters({0}), 0)
        /\ IsHighest(WineSetters({0}), 0)
    BY <1>1, <2>2, <2>3 DEF IsHighest, ModeSetters, MaximumSetters, WineSetters
  <2>5. Rulers({0}) # {} => IsHighest(Rulers({0}), 0)
    BY DEF IsHighest, Rulers
  <2>6. Reflects(defaults, {0})
    BY <1>1, <2>2, <2>4, <2>5 DEF Reflects
  <2>7. ~Defect({0})
    BY <1>1, <1>4 DEF validate_config, Defect, Unsound
  <2> QED BY <2>1, <2>6, <2>7 DEF Reached
<1> QED BY <1>3, <1>4

\* The same with an error below.
LEMMA LayerOver ==
  ASSUME NEW c, NEW R \in SUBSET Nat, Reached(c, R), NEW q \in Nat, \A r \in R : r < q,
         Content(q) \in Files, NEW d, d = Layer(c, Content(q)), NEW T, T = R \cup {q}
  PROVE  Reached(d, T)
<1>1. CASE ~Defect(R)
  <2>1. Reflects(c, R)
    BY <1>1 DEF Reached
  <2> QED BY <1>1, <2>1, LayerStep
<1>2. CASE Defect(R)
  <2>1. d = Error /\ Defect(T)
    BY <1>2 DEF Layer, Reached, Defect
  <2> QED BY <2>1 DEF Reached
<1> QED BY <1>1, <1>2

\* The recursion of layered has a solution.
LayerAt(upto, paths, k) ==
  IF k = 0 THEN Layer(parse_defaults(defaults), profile_path)
  ELSE Layer(upto[k - 1], profile_d[paths[k]])

LEMMA LayersExtend ==
  ASSUME NEW paths, NEW n \in Nat, NEW g, g = [k \in 0..n |-> LayerAt(g, paths, k)]
  PROVE  \E h : h = [k \in 0..(n + 1) |-> LayerAt(h, paths, k)]
<1> DEFINE h == [k \in 0..(n + 1) |-> IF k <= n THEN g[k] ELSE Layer(g[n], profile_d[paths[n + 1]])]
           h2 == [k \in 0..(n + 1) |-> LayerAt(h, paths, k)]
<1>1. \A k \in 0..n : g[k] = LayerAt(g, paths, k)
  BY Zenon
<1>2. ASSUME NEW k \in 0..(n + 1) PROVE h[k] = LayerAt(h, paths, k)
  <2>1. CASE k <= n
    <3>1. k \in 0..n /\ h[k] = g[k] /\ (k # 0 => h[k - 1] = g[k - 1])
      BY <2>1
    <3> QED BY <1>1, <3>1 DEF LayerAt
  <2>2. CASE k = n + 1
    <3>1. h[k] = Layer(g[n], profile_d[paths[k]]) /\ h[k - 1] = g[n] /\ k # 0
      BY <2>2
    <3> QED BY <3>1 DEF LayerAt
  <2> QED BY <2>1, <2>2
<1>3. h = [k \in 0..(n + 1) |-> h[k]] /\ h2 = [k \in 0..(n + 1) |-> h2[k]]
  OBVIOUS
<1>4. \A k \in 0..(n + 1) : h2[k] = LayerAt(h, paths, k)
  BY Zenon
<1> HIDE DEF h, h2
<1>5. h = h2
  BY <1>2, <1>3, <1>4
<1> QED BY <1>5 DEF h2

LEMMA LayersRun ==
  ASSUME NEW paths, Len(paths) \in Nat
  PROVE  \E g : /\ \A k \in 0..Len(paths) : g[k] = LayerAt(g, paths, k)
                /\ layered(paths) = g[Len(paths)]
<1> DEFINE Solved == {n \in Nat : \E g : g = [k \in 0..n |-> LayerAt(g, paths, k)]}
           run == CHOOSE g : g = [k \in 0..Len(paths) |-> LayerAt(g, paths, k)]
<1>1. 0 \in Solved
  <2> DEFINE g == [k \in 0..0 |-> Layer(parse_defaults(defaults), profile_path)]
             g2 == [k \in 0..0 |-> LayerAt(g, paths, k)]
  <2>1. g = [k \in 0..0 |-> g[k]] /\ g2 = [k \in 0..0 |-> g2[k]]
    OBVIOUS
  <2>2. \A k \in 0..0 : /\ g[k] = Layer(parse_defaults(defaults), profile_path)
                        /\ g2[k] = LayerAt(g, paths, k) /\ k = 0
    OBVIOUS
  <2> HIDE DEF g, g2
  <2>3. g = g2
    BY <2>1, <2>2 DEF LayerAt
  <2> QED BY <2>3 DEF g2
<1>2. \A n \in 0..Len(paths) : n \in Solved /\ n < Len(paths) => n + 1 \in Solved
  BY LayersExtend
<1>3. Len(paths) \in Solved
  <2>1. \A k \in 0..Len(paths) : k \in Solved
    <3> HIDE DEF Solved
    <3> QED BY <1>1, <1>2, CountUp
  <2>2. Len(paths) \in 0..Len(paths)
    OBVIOUS
  <2> HIDE DEF Solved
  <2> QED BY <2>1, <2>2
<1>4. run = [k \in 0..Len(paths) |-> LayerAt(run, paths, k)]
  BY <1>3
<1>5. layered(paths) = run[Len(paths)]
  BY DEF layered, LayerAt
<1> HIDE DEF run
<1>6. \A k \in 0..Len(paths) : run[k] = LayerAt(run, paths, k)
  BY <1>4, Zenon
<1> QED BY <1>5, <1>6

\* The defaults, the profile and the first k drop-ins.
Below(paths, k) == {0, 1} \cup {r \in Nat : \E j \in 1..k : r = paths[j] + 2}

\* Layering reaches a configuration that reflects all the files that count, or
\* stops for a defect of one of them.
LEMMA LayeredReflects ==
  ASSUME Directory, profile_path # NoFile
  PROVE  Reached(layered(drop_in_paths), Ranks)
<1> DEFINE paths == drop_in_paths
<1>1. /\ paths \in Seq(Nat) /\ Ascending(paths)
      /\ \A n : Has(paths, n) <=> n \in TomlFiles /\ profile_d[n] # NoFile
  BY DropInPaths
<1> HIDE DEF paths
<1>2. /\ Len(paths) \in Nat /\ DOMAIN paths = 1..Len(paths)
      /\ \A i \in DOMAIN paths : paths[i] \in Nat
  BY <1>1
<1>3. PICK g : /\ \A k \in 0..Len(paths) : g[k] = LayerAt(g, paths, k)
               /\ layered(paths) = g[Len(paths)]
  BY <1>2, LayersRun
<1> DEFINE Done == {k \in 0..Len(paths) : Reached(g[k], Below(paths, k))}
<1>4. 0 \in Done
  <2> DEFINE c == parse_defaults(defaults)
             d == g[0]
  <2>1. Reached(c, {0})
    BY LowestLayer
  <2>2. Content(1) = profile_path /\ Content(1) \in Files
    BY DEF Content, profile_path, Directory
  <2>3. d = Layer(c, Content(1))
    BY <1>2, <1>3, <2>2 DEF LayerAt
  <2>4. Below(paths, 0) = {0} \cup {1} /\ {0} \in SUBSET Nat /\ \A r \in {0} : r < 1
    BY DEF Below
  <2> HIDE DEF c, d
  <2>5. Reached(d, Below(paths, 0))
    BY <2>1, <2>2, <2>3, <2>4, LayerOver
  <2> QED BY <1>2, <2>5 DEF d
<1>5. ASSUME NEW k \in 0..Len(paths), k \in Done, k < Len(paths) PROVE k + 1 \in Done
  <2> DEFINE R == Below(paths, k)
             T == Below(paths, k + 1)
             q == paths[k + 1] + 2
             c == g[k]
             d == g[k + 1]
  <2>1. /\ k \in Nat /\ k + 1 \in DOMAIN paths /\ k + 1 \in 0..Len(paths)
        /\ (k + 1) - 1 = k /\ k + 1 # 0
    BY <1>2, <1>5
  <2>2. Reached(c, R)
    BY <1>5
  <2>3. q \in Nat /\ q - 2 = paths[k + 1] /\ q # 0 /\ q # 1
    BY <1>2, <2>1
  <2>4. Content(q) = profile_d[paths[k + 1]]
    BY <2>3 DEF Content
  <2>5. Content(q) \in Files
    <3>1. Has(paths, paths[k + 1])
      BY <2>1 DEF Has
    <3>2. paths[k + 1] \in DropIns /\ profile_d[paths[k + 1]] # NoFile
      BY <1>1, <3>1, FilesAssumption
    <3> QED BY <2>4, <3>2 DEF Directory
  <2>6. d = Layer(c, Content(q))
    BY <1>3, <2>1, <2>4 DEF LayerAt
  <2>7. \A r \in R : r < q
    <3>1. \A j \in 1..k : j \in DOMAIN paths /\ j < k + 1
      BY <1>2, <2>1
    <3>2. \A j \in 1..k : paths[j] < paths[k + 1]
      BY <1>1, <2>1, <3>1 DEF Ascending
    <3>3. \A j \in 1..k : paths[j] + 2 < q
      BY <1>2, <2>1, <3>1, <3>2
    <3>4. 0 < q /\ 1 < q
      BY <2>3
    <3> QED BY <3>3, <3>4 DEF Below
  <2>8. R \in SUBSET Nat
    BY DEF Below
  <2>9. T = R \cup {q}
    <3>1. \A j : j \in 1..(k + 1) <=> j \in 1..k \/ j = k + 1
      BY <2>1
    <3>2. \A r : r \in T <=> r \in R \/ r = q
      BY <2>3, <3>1 DEF Below
    <3> QED BY <3>2
  <2> HIDE DEF R, T, q, c, d
  <2>10. Reached(d, T)
    BY <2>2, <2>3, <2>5, <2>6, <2>7, <2>8, <2>9, LayerOver
  <2> QED BY <2>1, <2>10 DEF d, T
<1>6. Reached(layered(paths), Below(paths, Len(paths)))
  <2>1. \A k \in 0..Len(paths) : k \in Done
    <3> HIDE DEF Done
    <3> QED BY <1>2, <1>4, <1>5, CountUp
  <2>2. Len(paths) \in 0..Len(paths)
    BY <1>2
  <2> QED BY <1>3, <2>1, <2>2
<1>7. Below(paths, Len(paths)) = Ranks
  <2>1. ASSUME NEW r PROVE r \in Below(paths, Len(paths)) <=> r \in Ranks
    <3>1. \A n : n \in TomlFiles /\ profile_d[n] # NoFile <=> \E j \in 1..Len(paths) : paths[j] = n
      BY <1>1, <1>2 DEF Has
    <3>2. \A n \in TomlFiles : n + 2 \in Nat
      BY FilesAssumption
    <3> QED BY <3>1, <3>2 DEF Below, Ranks
  <2> QED BY <2>1
<1> QED BY <1>6, <1>7 DEF paths

-----------------------------------------------------------------------------
(* What resolve promises. *)

\* A configuration that is accepted reflects every file that counts.
LEMMA AcceptedReflects ==
  ASSUME Directory, resolve # Error
  PROVE  Reflects(resolve, Ranks) /\ validate_config(resolve)
<1>1. /\ profile_path # NoFile /\ resolve = layered(drop_in_paths) /\ validate_config(resolve)
  BY DEF resolve
<1> QED BY <1>1, LayeredReflects DEF Reached

\* The setters of a key, as the properties name them, are numbers.
LEMMA RanksAreNatural == Ranks \in SUBSET Nat
BY FilesAssumption DEF Ranks

\* docs/configuration.md:3: each key has the value of the highest layer that
\* sets it, in whatever order the directory lists any number of drop-ins.
THEOREM HighestLayerAlwaysWins == Spec => []HighestLayerWins
<1>1. ASSUME Directory PROVE HighestLayerWins
  <2> SUFFICES ASSUME resolve # Error PROVE HighestLayerWins
    BY DEF HighestLayerWins
  <2> DEFINE c == resolve
  <2>1. Reflects(c, Ranks)
    BY <1>1, AcceptedReflects
  <2> HIDE DEF c
  <2>2. /\ ModeSetters(Ranks) \in SUBSET Nat /\ MaximumSetters(Ranks) \in SUBSET Nat
        /\ WineSetters(Ranks) \in SUBSET Nat
    BY RanksAreNatural DEF ModeSetters, MaximumSetters, WineSetters
  <2>3. c.mode = Content(Highest(ModeSetters(Ranks))).mode
    BY <2>1, <2>2, HighestIs DEF Reflects
  <2>4. c.maximum = Content(Highest(MaximumSetters(Ranks))).maximum
    BY <2>1, <2>2, HighestIs DEF Reflects
  <2>5. c.wine = Content(Highest(WineSetters(Ranks))).wine
    BY <2>1, <2>2, HighestIs DEF Reflects
  <2> QED BY <2>3, <2>4, <2>5
          DEF HighestLayerWins, c, ModeSetters, MaximumSetters, WineSetters
<1> QED BY <1>1, DirectoryHolds, PTL

\* The last window rule is the last one of the highest layer that has any, and
\* no layer's rules are lost (lib.rs:342).
THEOREM HighestRuleAlwaysWins == Spec => []HighestRuleWins
<1>1. ASSUME Directory PROVE HighestRuleWins
  <2> SUFFICES ASSUME resolve # Error, Rulers(Ranks) # {}
               PROVE  /\ Last(resolve.rules) = Last(Content(Highest(Rulers(Ranks))).rules)
                      /\ \A r \in Rulers(Ranks) :
                           ToSet(Content(r).rules) \subseteq ToSet(resolve.rules)
    BY DEF HighestRuleWins, Rulers
  <2> DEFINE c == resolve
  <2>1. Reflects(c, Ranks)
    BY <1>1, AcceptedReflects
  <2> HIDE DEF c
  <2>2. Rulers(Ranks) \in SUBSET Nat
    BY RanksAreNatural DEF Rulers
  <2>3. Last(c.rules) = Last(Content(Highest(Rulers(Ranks))).rules)
    BY <2>1, <2>2, HighestIs DEF Reflects
  <2>4. \A r \in Rulers(Ranks) : ToSet(Content(r).rules) \subseteq ToSet(c.rules)
    BY <2>1 DEF Reflects, Rulers
  <2> QED BY <2>3, <2>4 DEF c
<1> QED BY <1>1, DirectoryHolds, PTL

\* A configuration is refused for a defect of a file that counts, never for a
\* hidden file, nor for a maximum that a higher layer corrects (lib.rs:244).
THEOREM RefusalsHaveADefect == Spec => []RefusedForADefect
<1>1. ASSUME Directory PROVE RefusedForADefect
  <2> SUFFICES ASSUME resolve = Error, profile_path # NoFile PROVE RefusedForADefect
    BY DEF RefusedForADefect
  <2> DEFINE c == layered(drop_in_paths)
  <2>1. Reached(c, Ranks)
    BY <1>1, LayeredReflects
  <2>2. c = Error \/ ~validate_config(c)
    BY DEF resolve
  <2> HIDE DEF c
  <2>3. CASE Defect(Ranks)
    BY <2>3 DEF Defect, Unsound, RefusedForADefect
  <2>4. CASE ~Defect(Ranks) /\ Reflects(c, Ranks)
    <3>1. c # Error
      BY <2>4, FilesAssumption DEF Reflects
    <3>2. c.maximum \notin 1..6
      BY <2>2, <2>4, <3>1 DEF Reflects, validate_config
    <3>3. MaximumSetters(Ranks) \in SUBSET Nat
      BY RanksAreNatural DEF MaximumSetters
    <3>4. c.maximum = Content(Highest(MaximumSetters(Ranks))).maximum
      BY <2>4, <3>3, HighestIs DEF Reflects
    <3> QED BY <3>2, <3>4 DEF RefusedForADefect, MaximumSetters
  <2> QED BY <2>1, <2>3, <2>4 DEF Reached
<1> QED BY <1>1, DirectoryHolds, PTL

\* The converse: a defect of any file that counts is refused, however low its
\* layer and whatever the layers above set instead (lib.rs:244, lib.rs:264).
THEOREM DefectsAreRefused == Spec => []NoDefectIsMasked
<1>1. ASSUME Directory PROVE NoDefectIsMasked
  <2> SUFFICES ASSUME resolve # Error PROVE NoDefectIsMasked
    BY DEF NoDefectIsMasked
  <2>1. profile_path # NoFile /\ layered(drop_in_paths) # Error
    BY DEF resolve
  <2>2. ~Defect(Ranks)
    BY <1>1, <2>1, LayeredReflects DEF Reached
  <2> QED BY <2>2 DEF Defect, Unsound, NoDefectIsMasked
<1> QED BY <1>1, DirectoryHolds, PTL

\* For every count of windows up to the maximum of an accepted configuration
\* (lib.rs:352), the planner covers exactly every output whose products fit the
\* 32-bit words they are computed in.
THEOREM AcceptedMaximumIsTiled ==
  Spec => [](resolve # Error =>
               \A output \in OutputSizes, n \in 1..resolve.maximum :
                 Representable(output) => ExactCover(output, n))
<1> DEFINE tiled == \A output \in OutputSizes, n \in 1..resolve.maximum :
                      Representable(output) => ExactCover(output, n)
<1>1. ASSUME resolve # Error PROVE tiled
  <2>1. resolve.maximum \in 1..6
    BY <1>1 DEF resolve, validate_config
  <2>2. \A n \in 1..resolve.maximum : n \in Counts
    BY <2>1 DEF Counts
  <2> QED BY <2>2, LayoutsCoverExactly
<1>2. resolve # Error => tiled
  BY <1>1
<1> HIDE DEF tiled
<1>3. [](resolve # Error => tiled)
  BY <1>2, PTL
<1> QED BY <1>3, PTL DEF tiled
=============================================================================

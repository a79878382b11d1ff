--------------------------- MODULE PureFunctions ---------------------------
(***************************************************************************)
(* Drives the two pure algorithms of crates/layoutd/src/lib.rs: the layout *)
(* planner over outputs and window counts, and glob_matches over title     *)
(* patterns and titles.                                                    *)
(***************************************************************************)
EXTENDS LayoutPlan, TitleGlob

CONSTANTS
  Widths, Heights,   \* the output sizes tried
  PatternLength,     \* the longest pattern tried
  TitleLength        \* the longest title tried

ASSUME InputsAssumption == Widths \subseteq Nat /\ Heights \subseteq Nat /\ PatternLength \in Nat

VARIABLE input   \* what the function is called with

\* The usable area the inventory reported, and how many windows are managed.
PlanInputs == [output : [width : Widths, height : Heights], windows : Counts]

\* The configuration refuses an empty pattern; a window can have no title.
Patterns == BoundedSeq(Letters \cup {Star}, PatternLength) \ {<< >>}

Planning == "windows" \in DOMAIN input
Matching == "title" \in DOMAIN input

FirstCall ==
  \/ input \in PlanInputs
  \/ \E p \in Patterns : input = [pattern |-> p, title |-> << >>]

\* The output mode changes.
Resize ==
  /\ Planning
  /\ \E w \in Widths, h \in Heights :
       input' = [input EXCEPT !.output = [width |-> w, height |-> h]]

OpenOrClose ==
  /\ Planning
  /\ \E n \in {input.windows - 1, input.windows + 1} \cap Counts :
       input' = [input EXCEPT !.windows = n]

\* A window shows more of its title, or less.
Retitle ==
  /\ Matching
  /\ \/ \E c \in Letters : /\ Len(input.title) < TitleLength
                           /\ input' = [input EXCEPT !.title = Append(@, c)]
     \/ input.title # << >> /\ input' = [input EXCEPT !.title = Front(@)]

NextCall == Resize \/ OpenOrClose \/ Retitle

CallSpec == FirstCall /\ [][NextCall]_input

\* Layouts one through six cover the usable area exactly, without overlap,
\* on every output whose size the u32 products of plan_small_grid can hold
\* (docs/reference-runtime.md item 2: bounded, non-overlapping, covering).
PlacementsTileTheOutput ==
  Planning /\ Representable(input.output) => ExactCover(input.output, input.windows)

\* plan's rectangles equal the boxes Labwc computes from the percent regions
\* of rc.xml, odd sizes and 33/67 rounding included; one pixel of difference
\* and the daemon would wait for a geometry that never comes.
PlannerMatchesRegions ==
  Planning /\ Representable(input.output) => AgreesWithRegions(input.output, input.windows)

\* A rule never applies to a window whose title its pattern does not describe
\* (lib.rs:276).
AcceptsOnlyMatches ==
  Matching /\ glob_matches(input.pattern, input.title)
    => GlobMatches(input.pattern, input.title)

\* The other way round the code is not complete, because it takes the first
\* occurrence of every piece (lib.rs:283).  What it misses are only titles in
\* which the piece that must end them occurs more than once, and only for a
\* pattern with a star that does not end in one.
MissesOnlyRepeatedEndings ==
  Matching /\ GlobMatches(input.pattern, input.title)
           /\ ~glob_matches(input.pattern, input.title) =>
    /\ Contains(input.pattern, Star) /\ anchored_end(input.pattern)
    /\ Cardinality(Occurrences(input.title, 0, Last(pieces(input.pattern)))) > 1
=============================================================================

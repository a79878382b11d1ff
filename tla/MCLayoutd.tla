------------------------------ MODULE MCLayoutd ------------------------------
(* The windows of the liveness instance, without title rules, and an rc.xml *)
(* that lacks a region of three windows.                                    *)
EXTENDS Layoutd

Editor == [kind |-> "normal", parent |-> FALSE, app |-> "editor", title |-> "a"]
Dialog == [Editor EXCEPT !.kind = "dialog", !.parent = TRUE]

EditorAndDialog == {Editor, Dialog}
NoRules == << >>
NoMatches == {}
NoThirdTile == {<<n, k>> \in (1..6) \X (1..6) : k <= n} \ {<<3, 3>>}
=============================================================================

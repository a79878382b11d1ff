-------------------------- MODULE MCLayoutdHistory --------------------------
EXTENDS LayoutdHistory

Editor == [kind |-> "normal", parent |-> FALSE, app |-> "editor", title |-> "a"]
Dialog == [Editor EXCEPT !.kind = "dialog", !.parent = TRUE]
Panel == [Editor EXCEPT !.kind = "desktop"]

AllFaces == {Editor, Dialog, Panel}
EditorAndDialog == {Editor, Dialog}
EditorOnly == {Editor}
NoRules == << >>
NoMatches == {}
AllTiles == {<<n, k>> \in (1..6) \X (1..6) : k <= n}
=============================================================================

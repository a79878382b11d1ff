---------------------------- MODULE MCInventory ----------------------------
EXTENDS Inventory

Normal == [kind |-> "normal", parent |-> FALSE, app |-> "editor", title |-> "a"]
Retitled == [Normal EXCEPT !.title = "b"]

MCFaces == {Normal, Retitled}
MCRules == << >>
MCMatches == {}
=============================================================================

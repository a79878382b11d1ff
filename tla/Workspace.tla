------------------------------ MODULE Workspace ------------------------------
(***************************************************************************)
(* The session-local window model of layoutd: classification, the ordered  *)
(* Workspace, the plan made from it and the command batch that enforces a  *)
(* plan (crates/layoutd/src/lib.rs), and the difference between two Labwc  *)
(* inventories that feeds it (refresh, crates/layoutd/src/labwc.rs).       *)
(*                                                                         *)
(* A toplevel is [id, face]: the compositor's creation id and everything   *)
(* the rules look at.  An inventory is a function from the ids of the      *)
(* mapped windows to their faces.                                          *)
(***************************************************************************)
EXTENDS Integers, Sequences, FiniteSets

CONSTANTS
  Views,          \* creation ids, numbered in creation order
  Faces,          \* [kind, parent, app, title] a window can show
  WindowRules,    \* the rules of the effective configuration, in order
  TitleMatches,   \* pairs <<pattern, title>> that glob_matches accepts
  Maximum         \* layout.max_managed_windows

\* Creation ids are unsigned machine integers: there is a largest one.
ASSUME ViewsAssumption == Views \subseteq Nat /\ \E n \in Views : \A v \in Views : v <= n
ASSUME FacesAssumption == Faces # {}
ASSUME MaximumAssumption == Maximum \in 1..6

\* Classification has three variants, and rules come in a sequence.
Classes == {"managed", "floating", "ignored"}
ASSUME RulesAssumption ==
  /\ DOMAIN WindowRules = 1..Len(WindowRules) /\ Len(WindowRules) \in Nat
  /\ \A i \in DOMAIN WindowRules : WindowRules[i].disposition \in Classes

Toplevels == [id : Views, face : Faces]
NoTitle == "none"

-----------------------------------------------------------------------------
(* Classification. *)

base_class(face) ==
  IF face.kind = "normal" /\ ~face.parent THEN "managed"
  ELSE IF face.kind \in {"normal", "dialog", "utility"} THEN "floating"
  ELSE "ignored"

Matches(rule, face) ==
  /\ rule.app_id \in {"*", face.app}
  /\ rule.title = NoTitle \/ <<rule.title, face.title>> \in TitleMatches

\* The last matching rule wins over the kind of the window.
classify_toplevel(face) ==
  LET hits == {i \in DOMAIN WindowRules : Matches(WindowRules[i], face)}
  IN  IF hits = {} THEN base_class(face)
      ELSE WindowRules[CHOOSE i \in hits : \A j \in hits : j <= i].disposition

-----------------------------------------------------------------------------
(* Sub-sequences, by position. *)

\* The k-th smallest element of a finite set of naturals.
Kth(S, k) == CHOOSE i \in S : Cardinality({j \in S : j <= i}) = k

Ascending(S) == [k \in 1..Cardinality(S) |-> Kth(S, k)]

\* The elements of s at the positions P, in order.
InOrder(s, P) == [k \in 1..Cardinality(P) |-> s[Kth(P, k)]]

Positions(ws, class) == {i \in DOMAIN ws : classify_toplevel(ws[i].face) = class}

\* The ids of one class, in workspace order.
OfClass(ws, class) ==
  LET chosen == InOrder(ws, Positions(ws, class))
  IN  [k \in DOMAIN chosen |-> chosen[k].id]

Ids(ws) == {ws[i].id : i \in DOMAIN ws}

-----------------------------------------------------------------------------
(* Plans. *)

Lesser(m, n) == IF m <= n THEN m ELSE n

Plans == [placements : Seq([id : Views, tile : Nat \X Nat, output : Nat]),
          floating : Seq(Views), ignored : Seq(Views)]

\* The first Maximum managed windows are tiled, the rest float behind the
\* windows that float by class; without layout.mode = "auto" all of them float.
workspace_plan(automatic, ws, output) ==
  LET managed == OfClass(ws, "managed")
      n == IF automatic THEN Lesser(Maximum, Len(managed)) ELSE 0
      overflow == [k \in 1..(Len(managed) - n) |-> managed[n + k]]
  IN  [placements |-> [k \in 1..n |-> [id |-> managed[k], tile |-> <<n, k>>,
                                       output |-> output]],
       floating   |-> OfClass(ws, "floating") \o overflow,
       ignored    |-> OfClass(ws, "ignored")]

-----------------------------------------------------------------------------
(* The command batch: full decoration before the geometry request of each  *)
(* window, the tiled ones first, then the floating, then the ignored.      *)

Commands == [op : {"DECORATION", "TILE", "FLOAT", "UNMANAGE"}, id : Views, tile : Nat \X Nat]
Command(op, id, tile) == [op |-> op, id |-> id, tile |-> tile]
NoTile == <<0, 0>>

reconcile_commands(placements) ==
  [k \in 1..(2 * Len(placements)) |->
     LET p == placements[(k + 1) \div 2]
     IN  IF k % 2 = 1 THEN Command("DECORATION", p.id, NoTile)
         ELSE Command("TILE", p.id, p.tile)]

float_commands(floating) ==
  [k \in 1..(2 * Len(floating)) |->
     LET id == floating[(k + 1) \div 2]
     IN  IF k % 2 = 1 THEN Command("DECORATION", id, NoTile)
         ELSE Command("FLOAT", id, NoTile)]

unmanage_commands(ignored) ==
  [k \in 1..Len(ignored) |-> Command("UNMANAGE", ignored[k], NoTile)]

reconcile_workspace_commands(p) ==
  reconcile_commands(p.placements) \o float_commands(p.floating)
                                   \o unmanage_commands(p.ignored)

-----------------------------------------------------------------------------
(* Events between two inventories and their effect on the workspace.       *)

Inventories == UNION {[S -> Faces] : S \in SUBSET Views}

Changed(known, current) ==
  {v \in DOMAIN current : v \notin DOMAIN known \/ known[v] # current[v]}
Gone(known, current) == DOMAIN known \ DOMAIN current

\* Mutant: windows that left the inventory are never removed.
AbsorbWithoutRemovals(ws, known, current) ==
  LET changed == Changed(known, current)
      new == Ascending(changed \ Ids(ws))
  IN  [i \in DOMAIN ws |-> IF ws[i].id \in changed
                           THEN [ws[i] EXCEPT !.face = current[ws[i].id]] ELSE ws[i]]
      \o [k \in DOMAIN new |-> [id |-> new[k], face |-> current[new[k]]]]

\* Mutant: a changed window is removed and pushed again, at the end.
AbsorbAtEnd(ws, known, current) ==
  LET pushed == Ascending(Changed(known, current))
      kept == {i \in DOMAIN ws : ws[i].id \in DOMAIN current \ Changed(known, current)}
  IN  InOrder(ws, kept)
      \o [k \in DOMAIN pushed |-> [id |-> pushed[k], face |-> current[pushed[k]]]]

\* What observing `current` leaves in the workspace: a changed window is
\* replaced in place, a new one pushed at the end in id order, a lost one
\* removed.  Inventory.tla derives it from the events.
Absorb(ws, known, current) ==
  LET changed == Changed(known, current)
      replaced == [i \in DOMAIN ws |-> IF ws[i].id \in changed
                                       THEN [ws[i] EXCEPT !.face = current[ws[i].id]]
                                       ELSE ws[i]]
      kept == {i \in DOMAIN ws : ws[i].id \notin Gone(known, current)}
      new == Ascending(changed \ Ids(ws))
  IN  InOrder(replaced, kept) \o [k \in DOMAIN new |-> [id |-> new[k], face |-> current[new[k]]]]

\* ws holds each window of an inventory exactly once, with its current face.
Mirrors(ws, inventory) ==
  /\ Ids(ws) = DOMAIN inventory
  /\ \A i \in DOMAIN ws : ws[i].face = inventory[ws[i].id]
  /\ \A i, j \in DOMAIN ws : ws[i].id = ws[j].id => i = j
=============================================================================

------------------------------ MODULE LabwcView ------------------------------
(***************************************************************************)
(* One Labwc view as the downstream patch sees it, and the effect of each  *)
(* IPC action on it (ipc_run_action of labwc/ipc-control.patch).  The view *)
(* functions the actions call belong to Labwc and are modelled as the      *)
(* patch and the daemon use them.                                          *)
(*                                                                         *)
(* Geometry is asynchronous: the compositor ASKS the client to take a      *)
(* size, and the client commits it later, commits another one, or never.   *)
(***************************************************************************)
EXTENDS Integers, Sequences

CONSTANT InstalledTiles   \* the regions of rc.xml (and <<1, 1>>) Labwc knows

ASSUME InstalledTilesAssumption == InstalledTiles \subseteq ((1..6) \X (1..6))

Free == <<0, 0>>          \* neither maximized nor tiled
Solo == <<1, 1>>          \* maximized
TileStates == InstalledTiles \cup {Free, Solo}

\* fit says how the committed geometry relates to the tile: "fits", "asked"
\* (a configure is outstanding) or "stale" (the client committed otherwise
\* and nothing is outstanding).  hidden: minimized or fullscreen.  full: full
\* decoration, whose titlebar is visible, since rc.xml:16 hides none.  locked:
\* pelagian_managed.
ViewStates(Faces) ==
  [mapped : BOOLEAN, face : Faces, tile : TileStates,
   fit : {"fits", "asked", "stale"}, hidden : BOOLEAN, full : BOOLEAN, locked : BOOLEAN]

-----------------------------------------------------------------------------
(* The view functions of Labwc. *)

\* Apply the geometry of a tile; a view that already has it is not asked.
Ask(view, tile) ==
  IF view.tile = tile /\ view.fit = "fits" THEN view
  ELSE [view EXCEPT !.tile = tile, !.fit = "asked"]

\* Mutant: upstream Labwc returns early when the view is already maximized.
UpstreamMaximize(view) == IF view.tile = Solo THEN view ELSE Ask(view, Solo)

\* The patched view_maximize: an already maximized view is asked again when
\* Shell manages it, so that a retry reaches a client with stale geometry.
view_maximize(view) ==
  IF view.tile = Solo /\ (~view.locked \/ view.hidden) THEN view ELSE Ask(view, Solo)

view_float(view) == [view EXCEPT !.tile = Free, !.fit = "fits"]

\* The user may start an interactive move or resize.
Draggable(view) == view.mapped /\ ~view.locked

-----------------------------------------------------------------------------
(* ipc_run_action.  An action is refused when the view is not mapped or the  *)
(* region is not installed.                                                *)

Shown(view) == [view EXCEPT !.locked = TRUE, !.hidden = FALSE]

Refused(view, cmd) ==
  ~view.mapped \/ (cmd.op = "TILE" /\ cmd.tile # Solo /\ cmd.tile \notin InstalledTiles)

ipc_run_action(view, cmd) ==
  CASE cmd.op = "TILE" -> IF cmd.tile = Solo THEN view_maximize(Shown(view))
                          ELSE Ask(Shown(view), cmd.tile)
    [] cmd.op = "FLOAT" -> view_float([view EXCEPT !.locked = FALSE])
    [] cmd.op = "UNMANAGE" -> [view EXCEPT !.locked = FALSE]
    [] OTHER -> [view EXCEPT !.full = TRUE]
=============================================================================

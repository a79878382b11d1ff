--------------------------- MODULE Reconciliation ---------------------------
(***************************************************************************)
(* What layoutd promises somebody who sees the windows, the report and how *)
(* many requests are under way, but no plan, batch or restart: it says     *)
(* "healthy" only of a session that is laid out, and from then on, until   *)
(* it takes that back, nothing it has asked for changes a window.          *)
(***************************************************************************)
EXTENDS Naturals, FiniteSets

CONSTANT Maximum   \* layout.max_managed_windows

VARIABLES
  windows,    \* those on screen: [class, tile, fits, hidden, full, locked]
  automatic,  \* the layout mode in force
  report,     \* "starting", "healthy" or "degraded"
  requests    \* how many requests of layoutd Labwc may still get and run

vars == <<windows, automatic, report, requests>>

Free == <<0, 0>>   \* the tile of a window that has none

Shows(class) == {v \in DOMAIN windows : windows[v].class = class}
Tiled == {v \in DOMAIN windows \ Shows("ignored") : windows[v].tile # Free}

\* How many windows the layout has room for.
TiledCount ==
  IF ~automatic THEN 0
  ELSE IF Maximum <= Cardinality(Shows("managed")) THEN Maximum
  ELSE Cardinality(Shows("managed"))

\* The managed windows, up to the maximum, hold the tiles of one layout, one
\* window each, with their geometry, shown and locked; every managed or
\* floating window is decorated; and no other window is locked or, unless it
\* is ignored, has a tile.
Settled ==
  /\ Tiled \subseteq Shows("managed") /\ Cardinality(Tiled) = TiledCount
  /\ {windows[v].tile : v \in Tiled} = {<<TiledCount, k>> : k \in 1..TiledCount}
  /\ \A v \in Tiled : windows[v].fits /\ ~windows[v].hidden /\ windows[v].locked
  /\ \A v \in DOMAIN windows \ Shows("ignored") : windows[v].full
  /\ \A v \in DOMAIN windows \ Tiled : ~windows[v].locked

-----------------------------------------------------------------------------
Init == DOMAIN windows = {} /\ automatic \in BOOLEAN /\ report = "starting" /\ requests = 0

\* The session is found to be laid out, and nothing more is going to be done.
Confirm ==
  /\ Settled /\ report' = "healthy" /\ requests' = 0
  /\ UNCHANGED <<windows, automatic>>

\* It is not, or nobody knows; requests are prepared, refused or given up.
Doubt ==
  /\ report' \in {"starting", "degraded"} /\ requests' \in Nat
  /\ UNCHANGED <<windows, automatic>>

\* A new daemon reads the configuration again.
Reload ==
  /\ automatic' \in BOOLEAN /\ report' = "starting" /\ requests' \in Nat
  /\ UNCHANGED windows

\* The other windows stay on screen, or off it, and as they are.
Only(v) ==
  /\ DOMAIN windows' \ {v} = DOMAIN windows \ {v}
  /\ \A u \in DOMAIN windows \ {v} : windows'[u] = windows[u]

\* Labwc runs a request of layoutd, which does not call the session healthy.
Enforce(v) ==
  /\ report # "healthy" /\ requests' = requests - 1
  /\ v \in DOMAIN windows' /\ Only(v)
  /\ windows'[v].class = windows[v].class
  /\ UNCHANGED <<automatic, report>>

\* A client or the user changes one window, opens it or closes it.  No request
\* is used up, and the movement lock is not theirs.
Disturb(v) ==
  /\ Only(v)
  /\ v \in DOMAIN windows \cap DOMAIN windows' => windows'[v].locked = windows[v].locked
  /\ UNCHANGED <<automatic, report, requests>>

\* The output changes, and with it where the tiles are.
Resize ==
  /\ DOMAIN windows' = DOMAIN windows
  /\ \A v \in DOMAIN windows : \E fits \in BOOLEAN :
       windows'[v] = [windows[v] EXCEPT !.fits = fits]
  /\ UNCHANGED <<automatic, report, requests>>

Next ==
  \/ Confirm \/ Doubt \/ Reload \/ Resize
  \/ \E v \in DOMAIN windows : Enforce(v)
  \/ \E v \in DOMAIN windows \cup DOMAIN windows' : Disturb(v)

Spec == Init /\ [][Next]_vars
=============================================================================

------------------------------ MODULE Inventory ------------------------------
(***************************************************************************)
(* The observing half of the Labwc adapter, event by event: refresh diffs  *)
(* the inventory against the last one and queues events; the events are    *)
(* drained into the Workspace, all at once by the daemon                   *)
(* (observe_workspace) or one per call (observe_toplevel).                 *)
(***************************************************************************)
EXTENDS Workspace

VARIABLES
  known,      \* the last inventory read
  pending,    \* events not yet applied
  workspace   \* the ordered toplevels

vars == <<known, pending, workspace>>

Upsert(v, face) == [type |-> "upsert", id |-> v, face |-> face]
Removal(v) == [type |-> "remove", id |-> v]

\* Workspace::upsert replaces the toplevel in place or pushes it.
upsert(ws, t) ==
  IF t.id \in Ids(ws)
  THEN [i \in DOMAIN ws |-> IF ws[i].id = t.id THEN t ELSE ws[i]]
  ELSE Append(ws, t)

\* Mutant: an update moves the window to the end of the order.
UpsertMovesToEnd(ws, event) ==
  LET others == SelectSeq(ws, LAMBDA t : t.id # event.id)
  IN  IF event.type = "upsert"
      THEN Append(others, [id |-> event.id, face |-> event.face]) ELSE others

\* Workspace::apply.  The Reconcile event of a mere layout change has no effect
\* on the workspace and is left out.
apply(ws, event) ==
  IF event.type = "upsert" THEN upsert(ws, [id |-> event.id, face |-> event.face])
  ELSE InOrder(ws, {i \in DOMAIN ws : ws[i].id # event.id})

\* The workspace after the events of a queue, the first one first.
drain(ws, queue) ==
  LET after[k \in 0..Len(queue)] == IF k = 0 THEN ws ELSE apply(after[k - 1], queue[k])
  IN  after[Len(queue)]

\* Mutant: a window whose face changed produces no event.
OnlyNewWindows(old, current) ==
  [k \in 1..Cardinality(DOMAIN current \ DOMAIN old) |->
     LET v == Ascending(DOMAIN current \ DOMAIN old)[k] IN Upsert(v, current[v])]
  \o [k \in 1..Cardinality(Gone(old, current)) |-> Removal(Ascending(Gone(old, current))[k])]

\* The events of one refresh: the changed windows, then the lost ones, both
\* in the key order of the BTreeMaps.
events(old, current) ==
  LET changed == Ascending(Changed(old, current))
      gone == Ascending(Gone(old, current))
  IN  [k \in DOMAIN changed |-> Upsert(changed[k], current[changed[k]])]
      \o [k \in DOMAIN gone |-> Removal(gone[k])]

-----------------------------------------------------------------------------
Init == /\ known = << >>
        /\ pending = << >>
        /\ workspace = << >>

\* observe_workspace: refresh, then apply everything pending.
observe_workspace(current) ==
  /\ workspace' = drain(workspace, pending \o events(known, current))
  /\ known' = current
  /\ pending' = << >>

\* Mutant: every call refreshes, pending events or not.
RefreshEveryCall(current) ==
  LET queue == pending \o events(known, current)
  IN  /\ known' = current
      /\ queue # << >>
      /\ workspace' = apply(workspace, Head(queue))
      /\ pending' = Tail(queue)

\* observe_toplevel: refresh only when nothing is pending, hand out one event.
observe_toplevel(current) ==
  LET queue == IF pending = << >> THEN events(known, current) ELSE pending
  IN  /\ known' = IF pending = << >> THEN current ELSE known
      /\ queue # << >>
      /\ workspace' = apply(workspace, Head(queue))
      /\ pending' = Tail(queue)

Next == \E current \in Inventories : \/ observe_workspace(current)
                                     \/ observe_toplevel(current)

Spec == Init /\ [][Next]_vars

-----------------------------------------------------------------------------
\* Types; the pending events are the rest of one refresh, so no window has
\* two of them.
Typing == /\ known \in Inventories
          /\ workspace \in Seq(Toplevels)
          /\ \A k \in DOMAIN pending : pending[k].id \in Views
          /\ \A j, k \in DOMAIN pending : pending[j].id = pending[k].id => j = k

\* Once the pending events are applied the workspace holds exactly the
\* windows of the last inventory, each once and with its current face,
\* however the two ways of draining were mixed.
DrainedMirrorsKnown ==
  LET ws == drain(workspace, pending)
  IN  /\ Ids(ws) = DOMAIN known
      /\ Len(ws) = Cardinality(DOMAIN known)
      /\ \A i \in DOMAIN ws : ws[i].face = known[ws[i].id]

\* The closed form Absorb, which the daemon's specification uses, is what the
\* events of one observe_workspace do, whatever the next inventory is.
AbsorbIsTheDrainedRefresh ==
  pending = << >> =>
    \A current \in Inventories :
      drain(workspace, events(known, current)) = Absorb(workspace, known, current)

\* Mapping, unmapping and relabelling windows never swaps two windows that
\* stay, whatever is still queued: the layout does not reshuffle what the
\* user already sees.  A window whose removal is queued does not stay.
PositionOf(ws, v) == CHOOSE i \in DOMAIN ws : ws[i].id = v
Staying == {v \in Ids(workspace) : \A k \in DOMAIN pending : pending[k] # Removal(v)}
OrderIsStable ==
  [][\A u, v \in Staying \cap Ids(workspace') :
       PositionOf(workspace, u) < PositionOf(workspace, v)
         => PositionOf(workspace', u) < PositionOf(workspace', v)]_vars
=============================================================================

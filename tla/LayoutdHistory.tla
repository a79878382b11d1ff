--------------------------- MODULE LayoutdHistory ---------------------------
(***************************************************************************)
(* Layoutd with two history variables that the code does not have, for     *)
(* properties that compare a state with an earlier one.                    *)
(***************************************************************************)
EXTENDS Layoutd

VARIABLES
  waited,     \* how long the present plan has gone unconfirmed
  remembered  \* the last inventory planned for, with the order of its tiles

history == <<waited, remembered>>

PlacedIds(p) == [k \in DOMAIN p.placements |-> p.placements[k].id]

HInit == /\ Init
         /\ waited = 0
         /\ remembered = [known |-> << >>, order |-> << >>]

\* The wait for a plan begins when it is adopted, or with the first
\* observation that does not confirm it after a healthy report.
Waiting(dt) ==
  IF last_plan' # last_plan \/ published'.health = "healthy" \/ pending_since = None
  THEN 0 ELSE waited + dt

HTick == \E dt \in 1..MaxDelay :
           /\ TickAfter(dt)
           /\ waited' = Lesser(Waiting(dt), Deadline)
           /\ remembered' = [known |-> known', order |-> PlacedIds(last_plan')]

HFails == \E dt \in 1..MaxDelay, connected \in BOOLEAN :
            /\ ObserveFails(dt, connected)
            /\ waited' = Lesser(waited + dt, Deadline)
            /\ UNCHANGED remembered

HNext == \/ HTick
         \/ HFails
         \/ (Batch \/ LateAction \/ Session) /\ UNCHANGED history
         \/ (\E connected \in BOOLEAN : ActionLost(connected)) /\ UNCHANGED history
         \/ Restart /\ waited' = 0 /\ UNCHANGED remembered

HSpec == HInit /\ [][HNext]_<<vars, history>>

\* "starting" is never published for a plan that has waited for the whole
\* deadline: acknowledged batches, failed ones, unreadable inventories and
\* windows that keep moving do not extend it (main.rs:117).
DeadlineHolds ==
  published.health = "starting" /\ last_plan # NoPlan => waited < Deadline

\* docs/reference-runtime.md:16: an automatic restart of layoutd reconciles
\* without reordering.  The first plan of a new process tiles the windows the
\* old one knew in the order they had.
RestartKeepsOrder ==
  [][last_plan = NoPlan /\ last_plan' # NoPlan /\ known' = remembered.known
       => PlacedIds(last_plan') = remembered.order]_<<vars, history>>

\* docs/layoutd.md:35 and tests/consumer-conformance/verify-shell-session.py:60:
\* under a healthy report the windows that float are on screen, neither
\* minimized nor fullscreen.
HealthyFloatingShown ==
  [][Tick /\ published'.health = "healthy" =>
       \A k \in DOMAIN last_plan'.floating : ~views[last_plan'.floating[k]].hidden
    ]_<<vars, history>>
=============================================================================

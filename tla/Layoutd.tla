------------------------------- MODULE Layoutd -------------------------------
(***************************************************************************)
(* The reconciling daemon (run, crates/layoutd/src/main.rs) over the Labwc *)
(* adapter (crates/layoutd/src/labwc.rs) and a live compositor.            *)
(*                                                                         *)
(* A tick reads one inventory, plans, compares and reports; when a batch   *)
(* is due, its ACTION requests are sent one by one, each a step of its     *)
(* own, so that windows open, close and move between any two of them.      *)
(* Everything the daemon did not ask for is an upset of the environment;   *)
(* MaxUpsets bounds their number.                                          *)
(***************************************************************************)
EXTENDS Workspace, LabwcView

CONSTANTS
  Modes,       \* layout.mode = "auto" in the configurations a daemon may find
  Outputs,     \* usable areas the session can have
  Deadline,    \* ticks until an unconverged plan is degraded (5 s)
  Retry,       \* ticks between two batches (1 s)
  MaxDelay,    \* the longest tick, in units of the 250 ms sleep
  MaxUpsets

ASSUME TimingAssumption == /\ Deadline \in Nat \ {0} /\ Retry \in Nat \ {0}
                           /\ MaxDelay \in Nat \ {0} /\ MaxUpsets \in Nat
ASSUME ModesAssumption == Modes \subseteq BOOLEAN /\ Modes # {}
ASSUME OutputsAssumption == Outputs \subseteq Nat /\ Outputs # {}

VARIABLES
  views,          \* Labwc: the state of every view
  output,         \* Labwc: the usable area
  automatic,      \* daemon: the layout mode this process read at its start
  known,          \* adapter: the last inventory
  workspace,      \* daemon: the ordered toplevels
  last_plan,      \* daemon: the plan being enforced, or NoPlan
  pending_since,  \* daemon: ticks since the plan was last unconfirmed, or None
  last_attempt,   \* daemon: ticks since the last batch began, or None
  force_apply,    \* daemon: the plan's batch was not fully accepted
  pc,             \* daemon: "sleep" between ticks, "apply" inside a batch
  queue,          \* daemon: the rest of the batch
  late,           \* Labwc: the abandoned action that may still run, if any
  published,      \* the report in the runtime state file
  upsets          \* upsets left

adapter == <<known, workspace>>
clocks == <<pending_since, last_attempt>>
compositor == <<views, output>>
daemon == <<automatic, adapter, last_plan, clocks, force_apply, pc, queue, published>>
vars == <<views, output, automatic, known, workspace, last_plan, pending_since,
          last_attempt, force_apply, pc, queue, late, published, upsets>>

None == -1
NoPlan == [placements |-> << >>, floating |-> << >>, ignored |-> << >>, none |-> TRUE]

Report(health, connected, p) ==
  [health |-> health, connected |-> connected,
   managed |-> Len(p.placements), floating |-> Len(p.floating)]

-----------------------------------------------------------------------------
(* What one inventory shows. *)

Mapped == {v \in Views : views[v].mapped}
LIST == [v \in Mapped |-> views[v].face]

\* A placement: planned geometry and state, shown, with full decoration.
Placed(view, tile) ==
  view.tile = tile /\ view.fit = "fits" /\ ~view.hidden /\ view.full

\* Mutant: a floating window may keep the tile it had.
FloatingAnywhere(view) == view.full

\* A floating window: full decoration, neither maximized nor tiled.  (Only that
\* of placements is asked for its titlebar too, which full decoration has.)
Floating(view) == view.full /\ view.tile = Free

\* convergence_error finds nothing; the ids of a plan are all in the inventory.
Converged(p) ==
  /\ \A k \in DOMAIN p.placements :
       /\ p.placements[k].id \in Mapped
       /\ Placed(views[p.placements[k].id], p.placements[k].tile)
  /\ \A k \in DOMAIN p.floating :
       p.floating[k] \in Mapped /\ Floating(views[p.floating[k]])

-----------------------------------------------------------------------------
(* The clocks of a tick that began dt after the last one. *)

\* Mutant: time is added to a clock that was never started or is past its limit.
AlwaysRunning(age, dt, limit) == age + dt

\* The age of an instant dt later; an age past the limit needs no precision.
Later(age, dt, limit) == IF age = None THEN None ELSE Lesser(age + dt, limit)

\* Mutant: every new batch starts the deadline again.
SinceLastBatch(p, dt) ==
  IF p # last_plan \/ Later(last_attempt, dt, Retry) >= Retry THEN 0
  ELSE Later(pending_since, dt, Deadline)

Since(p, dt) == IF p # last_plan THEN 0 ELSE Later(pending_since, dt, Deadline)
Attempt(p, dt) == IF p # last_plan THEN None ELSE Later(last_attempt, dt, Retry)

MustApply(p) == force_apply \/ p # last_plan
Due(attempt) == attempt = None \/ attempt >= Retry

-----------------------------------------------------------------------------
\* The face of a window that is not mapped is never read, and no usable area
\* is special.
AnyFace == CHOOSE face \in Faces : TRUE
AnyOutput == CHOOSE area \in Outputs : TRUE
Fresh(face) == [mapped |-> FALSE, face |-> face, tile |-> Free, fit |-> "fits",
                hidden |-> FALSE, full |-> FALSE, locked |-> FALSE]

\* What a daemon process starts from; `report` is its first write.
DaemonStart ==
  [known |-> << >>, workspace |-> << >>, report |-> Report("starting", FALSE, NoPlan)]

Init ==
  /\ views = [v \in Views |-> Fresh(AnyFace)]
  /\ output = AnyOutput
  /\ automatic \in Modes
  /\ known = DaemonStart.known /\ workspace = DaemonStart.workspace
  /\ last_plan = NoPlan
  /\ pending_since = None /\ last_attempt = None
  /\ force_apply = TRUE
  /\ pc = "sleep" /\ queue = << >> /\ late = << >>
  /\ published = DaemonStart.report
  /\ upsets = MaxUpsets

-----------------------------------------------------------------------------
(* The daemon. *)

\* Mutant: an abandoned action may run after a newer request.
StillLate == late

\* Connections are served in order and without those that have hung up
\* (IpcServer): once a newer request is answered, an abandoned one never runs.
NoLonger == << >>

\* The part every successful observation shares: the workspace ws it leads
\* to and the plan p made from it.
Observe(ws, p) ==
  /\ pc = "sleep"
  /\ known' = LIST
  /\ workspace' = ws
  /\ last_plan' = p
  /\ late' = NoLonger
  /\ UNCHANGED <<compositor, automatic, upsets>>

\* The batch was accepted and this inventory, read later, shows its effect.
ObserveHealthy(dt, ws, p) ==
  /\ Observe(ws, p)
  /\ ~MustApply(p) /\ Converged(p)
  /\ pending_since' = None
  /\ last_attempt' = Attempt(p, dt)
  /\ published' = Report("healthy", TRUE, p)
  /\ UNCHANGED <<force_apply, pc, queue>>

\* Otherwise the deadline runs, and a batch starts when none began lately.
ObservePending(dt, ws, p) ==
  /\ Observe(ws, p)
  /\ MustApply(p) \/ ~Converged(p)
  /\ pending_since' = IF Since(p, dt) = None THEN 0 ELSE Since(p, dt)
  /\ published' = Report(IF pending_since' >= Deadline THEN "degraded" ELSE "starting",
                         TRUE, p)
  /\ force_apply' = MustApply(p)
  /\ \/ /\ Due(Attempt(p, dt))
        /\ last_attempt' = 0
        /\ pc' = "apply"
        /\ queue' = reconcile_workspace_commands(p)
     \/ /\ ~Due(Attempt(p, dt))
        /\ last_attempt' = Attempt(p, dt)
        /\ UNCHANGED <<pc, queue>>

\* No usable inventory: nothing is absorbed, the next one re-applies.
ObserveFails(dt, connected) ==
  /\ pc = "sleep" /\ upsets > 0
  /\ pending_since' = Later(pending_since, dt, Deadline)
  /\ last_attempt' = Later(last_attempt, dt, Retry)
  /\ force_apply' = TRUE
  /\ published' = Report("degraded", connected, last_plan)
  /\ upsets' = upsets - 1
  /\ UNCHANGED <<compositor, automatic, adapter, last_plan, pc, queue, late>>

Sending == pc = "apply" /\ queue # << >>
Refusal(cmd) == cmd.id \notin DOMAIN known \/ Refused(views[cmd.id], cmd)
RunAction(cmd) == [views EXCEPT ![cmd.id] = ipc_run_action(views[cmd.id], cmd)]

\* Labwc runs the action and the daemon reads the acknowledgement.
ActionAccepted ==
  /\ Sending
  /\ ~Refusal(Head(queue))
  /\ views' = RunAction(Head(queue))
  /\ queue' = Tail(queue)
  /\ UNCHANGED <<output, automatic, adapter, last_plan, clocks, force_apply, pc, late,
                 published, upsets>>

\* The first error ends the batch; the rest of it is never sent.
BatchFails(connected) ==
  /\ force_apply' = TRUE
  /\ published' = Report("degraded", connected, last_plan)
  /\ pc' = "sleep"
  /\ queue' = << >>
  /\ UNCHANGED <<output, automatic, adapter, last_plan, clocks>>

\* The window closed since the inventory, or its region is not installed.
ActionRefused ==
  /\ Sending
  /\ Refusal(Head(queue))
  /\ BatchFails(TRUE)
  /\ UNCHANGED <<views, late, upsets>>

\* No usable reply within the request's deadline.
ActionLost(connected) ==
  /\ Sending /\ upsets > 0
  /\ late' = <<Head(queue)>>
  /\ BatchFails(connected)
  /\ upsets' = upsets - 1
  /\ UNCHANGED views

\* Labwc runs the action at last, for a daemon that has given it up or died.
LateAction ==
  /\ late # << >>
  /\ late' = << >>
  /\ views' = IF Refused(views[late[1].id], late[1]) THEN views ELSE RunAction(late[1])
  /\ UNCHANGED <<output, daemon, upsets>>

BatchAccepted ==
  /\ pc = "apply" /\ queue = << >>
  /\ force_apply' = FALSE
  /\ pc' = "sleep"
  /\ UNCHANGED <<compositor, automatic, adapter, last_plan, clocks, queue, late, published, upsets>>

\* The supervisor replaces a daemon that died at any point, a request on its
\* way or not.  The new process resolves the configuration again, of which
\* only the layout mode can have changed here.
Restart ==
  /\ upsets > 0
  /\ automatic' \in Modes
  /\ known' = DaemonStart.known /\ workspace' = DaemonStart.workspace
  /\ last_plan' = NoPlan
  /\ pending_since' = None /\ last_attempt' = None
  /\ force_apply' = TRUE
  /\ pc' = "sleep" /\ queue' = << >>
  /\ published' = DaemonStart.report
  /\ (Sending /\ late' = <<Head(queue)>>) \/ UNCHANGED late
  /\ upsets' = upsets - 1
  /\ UNCHANGED compositor

-----------------------------------------------------------------------------
(* The windows, their clients and the user. *)

Upset(v, view) ==
  /\ upsets > 0 /\ upsets' = upsets - 1
  /\ view # views[v]
  /\ views' = [views EXCEPT ![v] = view]
  /\ UNCHANGED <<output, daemon, late>>

OpenWindow(v) ==
  /\ ~views[v].mapped
  /\ \E face \in Faces : Upset(v, [views[v] EXCEPT !.mapped = TRUE, !.face = face])

CloseWindow(v) == views[v].mapped /\ Upset(v, [views[v] EXCEPT !.mapped = FALSE])

\* A new title, app id, parent or window type.
Relabel(v) ==
  /\ views[v].mapped
  /\ \E face \in Faces : Upset(v, [views[v] EXCEPT !.face = face])

\* A state request of the client or the user that Labwc honours.
StateRequest(v) ==
  /\ views[v].mapped
  /\ \/ Upset(v, view_maximize(views[v]))
     \/ Upset(v, view_float(views[v]))
     \/ \E hidden \in BOOLEAN : Upset(v, [views[v] EXCEPT !.hidden = hidden])
     \/ \E full \in BOOLEAN : Upset(v, [views[v] EXCEPT !.full = full])

\* An interactive move leaves the tile; the lock rejects it.
Drag(v) == Draggable(views[v]) /\ Upset(v, view_float(views[v]))

\* The client commits a size nobody asked for, or ignores the one asked.
CommitStale(v) ==
  /\ views[v].mapped /\ views[v].tile # Free
  /\ Upset(v, [views[v] EXCEPT !.fit = "stale"])

\* The client commits the geometry it was asked to take.
Commit(v) ==
  /\ views[v].mapped /\ views[v].fit = "asked"
  /\ views' = [views EXCEPT ![v].fit = "fits"]
  /\ UNCHANGED <<output, daemon, late, upsets>>

\* Labwc re-applies the tiles to a new usable area.
ResizeOutput ==
  /\ upsets > 0 /\ upsets' = upsets - 1
  /\ output' \in Outputs \ {output}
  /\ views' = [v \in Views |-> IF views[v].tile = Free THEN views[v]
                               ELSE [views[v] EXCEPT !.fit = "asked"]]
  /\ UNCHANGED <<daemon, late>>

-----------------------------------------------------------------------------
\* The inventory determines the workspace and the plan; each is bound once.
TickAfter(dt) ==
  \E seen \in {LIST} :
    \E ws \in {Absorb(workspace, known, seen)} :
      \E p \in {workspace_plan(automatic, ws, output)} :
        ObserveHealthy(dt, ws, p) \/ ObservePending(dt, ws, p)
Tick == \E dt \in 1..MaxDelay : TickAfter(dt)
Batch == ActionAccepted \/ ActionRefused \/ BatchAccepted

Faults ==
  \/ \E dt \in 1..MaxDelay, connected \in BOOLEAN : ObserveFails(dt, connected)
  \/ \E connected \in BOOLEAN : ActionLost(connected)
  \/ Restart

Session ==
  \/ \E v \in Views : \/ OpenWindow(v) \/ CloseWindow(v) \/ Relabel(v)
                      \/ StateRequest(v) \/ Drag(v) \/ CommitStale(v) \/ Commit(v)
  \/ ResizeOutput

Next == Tick \/ Batch \/ LateAction \/ Faults \/ Session

Spec == Init /\ [][Next]_vars

\* The daemon keeps running and clients commit what they are asked to.
Fairness == WF_vars(Tick) /\ WF_vars(Batch) /\ \A v \in Views : WF_vars(Commit(v))
FairSpec == Spec /\ Fairness

-----------------------------------------------------------------------------
(* Properties. *)

Reports == [health : {"starting", "healthy", "degraded"}, connected : BOOLEAN,
            managed : Nat, floating : Nat]

Abandoned == {cmds \in Seq(Commands) : Len(cmds) <= 1}

\* Every variable stays in its type.
TypeOK ==
  /\ views \in [Views -> ViewStates(Faces)]
  /\ output \in Outputs
  /\ automatic \in Modes
  /\ known \in Inventories
  /\ workspace \in Seq(Toplevels)
  /\ last_plan \in Plans \cup {NoPlan}
  /\ pending_since \in {None} \cup 0..Deadline
  /\ last_attempt \in {None} \cup 0..Retry
  /\ force_apply \in BOOLEAN
  /\ pc \in {"sleep", "apply"}
  /\ queue \in Seq(Commands) /\ late \in Abandoned
  /\ published \in Reports
  /\ upsets \in 0..MaxUpsets

\* While "healthy" is published, the movement lock of Labwc, which no
\* inventory shows, is on for every tiled window of the plan and off for
\* every floating and ignored one (docs/configuration.md:74): a batch cut
\* short, a reply lost after its action ran, a restart or a plan that changed
\* under a running batch never leaves a wrong lock behind a healthy report, nor
\* does an action that Labwc runs after layoutd gave it up.
LockFollowsPlan ==
  published.health = "healthy" =>
    /\ \A k \in DOMAIN last_plan.placements : views[last_plan.placements[k].id].locked
    /\ \A k \in DOMAIN last_plan.floating : ~views[last_plan.floating[k]].locked
    /\ \A k \in DOMAIN last_plan.ignored : ~views[last_plan.ignored[k]].locked

\* The daemon's model holds each window of the last inventory exactly once,
\* with its current face, and the batch names no other: the "disappeared
\* before reconciliation" error of action() never stops a batch.
ModelMirrorsInventory ==
  /\ Mirrors(workspace, known)
  /\ \A k \in DOMAIN queue : queue[k].id \in DOMAIN known

\* What the session looks like to its user.
Appearance(view) ==
  [class |-> classify_toplevel(view.face), tile |-> view.tile, fits |-> view.fit = "fits",
   hidden |-> view.hidden, full |-> view.full, locked |-> view.locked]

\* The rest of the batch, and the request that was given up.
Outstanding == Len(queue) + Len(late)

Promise == INSTANCE Reconciliation WITH windows <- [v \in Mapped |-> Appearance(views[v])],
                                        report <- published.health,
                                        requests <- Outstanding

\* layoutd keeps its promise: in spite of lost replies, of requests that run
\* late and of restarts, it says "healthy" only of a session that is laid out
\* and when none of its requests is left that could still change a window;
\* until it has taken that back, only clients, the user and the output change
\* windows (main.rs:82).
KeepsPromise == Promise!Spec

\* A tick reports "healthy" only when the windows it observed are settled.
HealthyMeansSettled == [][Tick /\ published'.health = "healthy" => Promise!Settled]_vars

\* Two windows that stay in the inventory keep their order in the layout,
\* except across a restart of the daemon.
PositionOf(ws, v) == CHOOSE i \in DOMAIN ws : ws[i].id = v
OrderIsStable ==
  [][\A u, v \in Ids(workspace) \cap Ids(workspace') :
       PositionOf(workspace, u) < PositionOf(workspace, v)
         => PositionOf(workspace', u) < PositionOf(workspace', v)]_vars

\* Once nothing else disturbs the session, layoutd becomes healthy and stays
\* so, provided the regions of the layout it needs are installed: retries reach
\* clients that committed stale geometry, and no lost reply, refused action,
\* restart or exhausted deadline stops the reconciliation for good.
Placeable == \A k \in 1..Promise!TiledCount : <<Promise!TiledCount, k>> \in InstalledTiles
EventuallyHealthy == <>[]Placeable => <>[](published.health = "healthy")

\* With a region missing, the windows of a layout can never be placed; then
\* the report settles on "degraded" instead of promising a layout forever:
\* neither the batches that keep failing nor the errors they report restart
\* the deadline.
ReportSettles == \/ <>[](published.health = "healthy")
                 \/ <>[](published.health = "degraded")
=============================================================================

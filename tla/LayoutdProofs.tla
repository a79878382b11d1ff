---------------------------- MODULE LayoutdProofs ----------------------------
(***************************************************************************)
(* For every set of windows, faces, rules, outputs and installed regions,  *)
(* every maximum, deadline, retry interval and delay and both layout       *)
(* modes: the types of the daemon, that its model mirrors the inventory    *)
(* and keeps the order of the windows, that "healthy" is said only of a    *)
(* session that is laid out (layoutd implements Reconciliation), and       *)
(* "starting" only until the deadline (main.rs:117).                       *)
(***************************************************************************)
EXTENDS LayoutdHistory, WorkspaceLemmas

-----------------------------------------------------------------------------
(* Views. *)

V == ViewStates(Faces)

\* A view is the record of its fields.
LEMMA ViewFields ==
  ASSUME NEW view \in V
  PROVE  /\ view = [mapped |-> view.mapped, face |-> view.face, tile |-> view.tile,
                    fit |-> view.fit, hidden |-> view.hidden, full |-> view.full,
                    locked |-> view.locked]
         /\ view.mapped \in BOOLEAN /\ view.face \in Faces /\ view.tile \in TileStates
         /\ view.fit \in {"fits", "asked", "stale"} /\ view.hidden \in BOOLEAN
         /\ view.full \in BOOLEAN /\ view.locked \in BOOLEAN
BY DEF V, ViewStates

\* The view functions of Labwc keep the lock as it is.
LEMMA ViewFunctions ==
  ASSUME NEW view \in V
  PROVE  /\ \A tile \in TileStates : Ask(view, tile) \in V /\ Ask(view, tile).locked = view.locked
         /\ view_maximize(view) \in V /\ view_maximize(view).locked = view.locked
         /\ view_float(view) \in V /\ view_float(view).locked = view.locked
<1>1. ASSUME NEW tile \in TileStates
      PROVE  Ask(view, tile) \in V /\ Ask(view, tile).locked = view.locked
  BY DEF Ask, V, ViewStates
<1>2. Solo \in TileStates /\ Free \in TileStates
  BY DEF TileStates
<1>3. view_maximize(view) \in V /\ view_maximize(view).locked = view.locked
  BY <1>1, <1>2 DEF view_maximize
<1>4. view_float(view) \in V /\ view_float(view).locked = view.locked
  BY <1>2 DEF view_float, V, ViewStates
<1> QED BY <1>1, <1>3, <1>4

\* TILE locks, FLOAT and UNMANAGE unlock, DECORATION leaves the lock alone.
LEMMA ActionLocks ==
  ASSUME NEW view \in V, NEW cmd \in Commands, ~Refused(view, cmd)
  PROVE  /\ ipc_run_action(view, cmd) \in V
         /\ cmd.op = "TILE" => ipc_run_action(view, cmd).locked
         /\ cmd.op \in {"FLOAT", "UNMANAGE"} => ~ipc_run_action(view, cmd).locked
         /\ cmd.op = "DECORATION" => ipc_run_action(view, cmd).locked = view.locked
<1>0. cmd.op \in {"DECORATION", "TILE", "FLOAT", "UNMANAGE"}
  BY DEF Commands
<1>1. CASE cmd.op = "TILE"
  <2> DEFINE s == Shown(view)
  <2>1. s \in V /\ s.locked = TRUE
    BY DEF Shown, V, ViewStates
  <2>2. cmd.tile = Solo \/ cmd.tile \in TileStates
    BY <1>1 DEF Refused, TileStates
  <2>3. ipc_run_action(view, cmd) = IF cmd.tile = Solo THEN view_maximize(s) ELSE Ask(s, cmd.tile)
    BY <1>1 DEF ipc_run_action
  <2> HIDE DEF s
  <2> QED BY <1>1, <2>1, <2>2, <2>3, ViewFunctions
<1>2. CASE cmd.op = "FLOAT"
  <2> DEFINE s == [view EXCEPT !.locked = FALSE]
  <2>1. s \in V /\ s.locked = FALSE
    BY DEF V, ViewStates
  <2>2. ipc_run_action(view, cmd) = view_float(s)
    BY <1>2 DEF ipc_run_action
  <2> HIDE DEF s
  <2> QED BY <1>2, <2>1, <2>2, ViewFunctions
<1>3. CASE cmd.op = "UNMANAGE"
  <2>1. ipc_run_action(view, cmd) = [view EXCEPT !.locked = FALSE]
    BY <1>3 DEF ipc_run_action
  <2> QED BY <1>3, <2>1 DEF V, ViewStates
<1>4. CASE cmd.op = "DECORATION"
  <2>1. ipc_run_action(view, cmd) = [view EXCEPT !.full = TRUE]
    BY <1>4 DEF ipc_run_action
  <2> QED BY <1>4, <2>1 DEF V, ViewStates
<1> QED BY <1>0, <1>1, <1>2, <1>3, <1>4

-----------------------------------------------------------------------------
(* The inductive invariant.  A healthy report is published long after the  *)
(* locks were set, so the invariant follows a batch through: every lock of *)
(* the plan is right already or its command is still to be sent, and no    *)
(* command of the rest of the batch breaks a lock another one set.  An     *)
(* abandoned action can only be around while nothing is promised.          *)

LocksRight ==
  /\ \A v \in TiledIds(last_plan) : views[v].locked
  /\ \A v \in FloatIds(last_plan) \cup IgnoredIds(last_plan) : ~views[v].locked

LocksOnTheWay ==
  /\ \A k \in DOMAIN queue : Planned(last_plan, queue[k])
  /\ \A v \in TiledIds(last_plan) : views[v].locked \/ Has(queue, "TILE", v)
  /\ \A v \in FloatIds(last_plan) : ~views[v].locked \/ Has(queue, "FLOAT", v)
  /\ \A v \in IgnoredIds(last_plan) : ~views[v].locked \/ Has(queue, "UNMANAGE", v)

LockInv ==
  /\ PlanIds(last_plan) \subseteq Views
  /\ TiledIds(last_plan) \cap FloatIds(last_plan) = {}
  /\ TiledIds(last_plan) \cap IgnoredIds(last_plan) = {}
  /\ pc = "sleep" /\ ~force_apply => LocksRight
  /\ pc = "sleep" => queue = << >>
  /\ pc = "apply" => LocksOnTheWay
  /\ published.health = "healthy" => pc = "sleep" /\ ~force_apply
  /\ late # << >> => pc = "sleep" /\ force_apply

IInv == TypeOK /\ ModelMirrorsInventory /\ LockInv

\* The plan of a process that has not planned yet names no window.
LEMMA EmptyPlan ==
  /\ TiledIds(NoPlan) = {} /\ FloatIds(NoPlan) = {} /\ IgnoredIds(NoPlan) = {}
  /\ PlanIds(NoPlan) = {}
  /\ Len(NoPlan.placements) = 0 /\ Len(NoPlan.floating) = 0
BY DEF NoPlan, TiledIds, FloatIds, IgnoredIds, PlanIds

\* An empty model and batch are well typed, and mirror an empty inventory.
LEMMA EmptyModel ==
  << >> \in Inventories /\ << >> \in Seq(Toplevels) /\ << >> \in Seq(Commands) /\ Mirrors(<< >>, << >>)
<1>1. << >> \in [{} -> Faces]
  OBVIOUS
<1> QED BY <1>1 DEF Inventories, Mirrors, Ids

\* Every report run makes is well typed.
LEMMA ReportType ==
  ASSUME NEW health \in {"starting", "healthy", "degraded"}, NEW connected \in BOOLEAN,
         NEW p \in Plans \cup {NoPlan}
  PROVE  Report(health, connected, p) \in Reports
<1>1. Len(p.placements) \in Nat /\ Len(p.floating) \in Nat
  BY EmptyPlan DEF Plans
<1> QED BY <1>1 DEF Report, Reports

\* At most one request is abandoned at a time.
LEMMA AbandonedFacts ==
  /\ << >> \in Abandoned
  /\ \A cmd \in Commands : <<cmd>> \in Abandoned
  /\ \A cmds \in Abandoned : cmds \in Seq(Commands) /\ (cmds # << >> => Len(cmds) = 1)
<1>1. << >> \in Seq(Commands) /\ Len(<< >>) = 0
  OBVIOUS
<1>2. \A cmd \in Commands : <<cmd>> \in Seq(Commands) /\ Len(<<cmd>>) = 1
  OBVIOUS
<1>3. ASSUME NEW cmds \in Seq(Commands), Len(cmds) <= 1, cmds # << >>
      PROVE  Len(cmds) = 1
  <2>1. Len(cmds) \in Nat /\ (Len(cmds) = 0 => cmds = << >>)
    OBVIOUS
  <2> HIDE DEF Commands
  <2> QED BY <1>3, <2>1
<1>4. << >> \in Abandoned
  BY <1>1 DEF Abandoned
<1>5. \A cmd \in Commands : <<cmd>> \in Abandoned
  BY <1>2 DEF Abandoned
<1> QED BY <1>3, <1>4, <1>5 DEF Abandoned

\* A daemon process that just started knows nothing and promises nothing.
LEMMA StartIsSafe ==
  ASSUME views \in [Views -> V], output \in Outputs, automatic \in Modes, upsets \in 0..MaxUpsets,
         late \in Abandoned,
         known = DaemonStart.known, workspace = DaemonStart.workspace, last_plan = NoPlan,
         pending_since = None, last_attempt = None, force_apply = TRUE,
         pc = "sleep", queue = << >>, published = DaemonStart.report
  PROVE  IInv
<1>1. known = << >> /\ workspace = << >> /\ published = Report("starting", FALSE, NoPlan)
  BY DEF DaemonStart
<1>2. TypeOK
  <2>1. published \in Reports
    BY <1>1, ReportType
  <2> QED BY <1>1, <2>1, EmptyModel DEF TypeOK, V
<1>3. ModelMirrorsInventory
  BY <1>1, EmptyModel DEF ModelMirrorsInventory
<1>4. LockInv
  BY <1>1, EmptyPlan DEF LockInv, Report
<1> QED BY <1>2, <1>3, <1>4 DEF IInv

\* The session starts with a daemon that just started.
LEMMA InitSafe == Init => IInv
<1> SUFFICES ASSUME Init PROVE IInv
  OBVIOUS
<1>1. views = [v \in Views |-> Fresh(AnyFace)] /\ AnyFace \in Faces
  BY FacesAssumption DEF Init, AnyFace
<1>2. Fresh(AnyFace) \in V
  BY <1>1 DEF Fresh, V, ViewStates, TileStates
<1>3. upsets \in 0..MaxUpsets /\ output \in Outputs
  BY TimingAssumption, OutputsAssumption DEF Init, AnyOutput
<1> QED BY <1>1, <1>2, <1>3, EmptyModel, AbandonedFacts, StartIsSafe DEF Init

-----------------------------------------------------------------------------
(* Windows, clients and the user: no lock changes and the daemon does not  *)
(* notice.                                                                 *)

Quiet ==
  /\ views' \in [Views -> V]
  /\ \A v \in Views : views'[v].locked = views[v].locked
  /\ output' \in Outputs /\ upsets' \in 0..MaxUpsets
  /\ UNCHANGED <<daemon, late>>

\* A disturbance of one window that keeps its lock is quiet.
LEMMA UpsetQuiet ==
  ASSUME TypeOK, NEW v \in Views, NEW view \in V, view.locked = views[v].locked,
         Upset(v, view)
  PROVE  Quiet
<1>1. views' = [views EXCEPT ![v] = view] /\ views \in [Views -> V]
  BY DEF Upset, TypeOK, V
<1>2. upsets' \in 0..MaxUpsets
  BY TimingAssumption DEF Upset, TypeOK
<1> QED BY <1>1, <1>2 DEF Quiet, Upset, TypeOK

\* Everything clients, the user and the output do is quiet: only the IPC
\* actions of the patch write pelagian_managed.
LEMMA SessionQuiet == TypeOK /\ Session => Quiet
<1> SUFFICES ASSUME TypeOK, Session PROVE Quiet
  OBVIOUS
<1>0. views \in [Views -> V]
  BY DEF TypeOK, V
<1>1. ASSUME NEW v \in Views, OpenWindow(v) PROVE Quiet
  <2>1. PICK face \in Faces : Upset(v, [views[v] EXCEPT !.mapped = TRUE, !.face = face])
    BY <1>1 DEF OpenWindow
  <2>2. [views[v] EXCEPT !.mapped = TRUE, !.face = face] \in V
    BY <1>0 DEF V, ViewStates
  <2>3. [views[v] EXCEPT !.mapped = TRUE, !.face = face].locked = views[v].locked
    BY <1>0 DEF V, ViewStates
  <2> QED BY <2>1, <2>2, <2>3, UpsetQuiet
<1>2. ASSUME NEW v \in Views, CloseWindow(v) PROVE Quiet
  <2>1. /\ [views[v] EXCEPT !.mapped = FALSE] \in V
        /\ [views[v] EXCEPT !.mapped = FALSE].locked = views[v].locked
    BY <1>0 DEF V, ViewStates
  <2> QED BY <1>2, <2>1, UpsetQuiet DEF CloseWindow
<1>3. ASSUME NEW v \in Views, Relabel(v) PROVE Quiet
  <2>1. PICK face \in Faces : Upset(v, [views[v] EXCEPT !.face = face])
    BY <1>3 DEF Relabel
  <2>2. /\ [views[v] EXCEPT !.face = face] \in V
        /\ [views[v] EXCEPT !.face = face].locked = views[v].locked
    BY <1>0 DEF V, ViewStates
  <2> QED BY <2>1, <2>2, UpsetQuiet
<1>4. ASSUME NEW v \in Views, StateRequest(v) PROVE Quiet
  <2>1. CASE Upset(v, view_maximize(views[v]))
    BY <1>0, <2>1, ViewFunctions, UpsetQuiet
  <2>2. CASE Upset(v, view_float(views[v]))
    BY <1>0, <2>2, ViewFunctions, UpsetQuiet
  <2>3. CASE \E hidden \in BOOLEAN : Upset(v, [views[v] EXCEPT !.hidden = hidden])
    <3>1. PICK hidden \in BOOLEAN : Upset(v, [views[v] EXCEPT !.hidden = hidden])
      BY <2>3
    <3>2. /\ [views[v] EXCEPT !.hidden = hidden] \in V
          /\ [views[v] EXCEPT !.hidden = hidden].locked = views[v].locked
      BY <1>0 DEF V, ViewStates
    <3> QED BY <3>1, <3>2, UpsetQuiet
  <2>4. CASE \E full \in BOOLEAN : Upset(v, [views[v] EXCEPT !.full = full])
    <3>1. PICK full \in BOOLEAN : Upset(v, [views[v] EXCEPT !.full = full])
      BY <2>4
    <3>2. /\ [views[v] EXCEPT !.full = full] \in V
          /\ [views[v] EXCEPT !.full = full].locked = views[v].locked
      BY <1>0 DEF V, ViewStates
    <3> QED BY <3>1, <3>2, UpsetQuiet
  <2> QED BY <1>4, <2>1, <2>2, <2>3, <2>4 DEF StateRequest
<1>5. ASSUME NEW v \in Views, Drag(v) PROVE Quiet
  BY <1>0, <1>5, ViewFunctions, UpsetQuiet DEF Drag
<1>6. ASSUME NEW v \in Views, CommitStale(v) PROVE Quiet
  <2>1. /\ [views[v] EXCEPT !.fit = "stale"] \in V
        /\ [views[v] EXCEPT !.fit = "stale"].locked = views[v].locked
    BY <1>0 DEF V, ViewStates
  <2> QED BY <1>6, <2>1, UpsetQuiet DEF CommitStale
<1>7. ASSUME NEW v \in Views, Commit(v) PROVE Quiet
  <2>1. /\ [views[v] EXCEPT !.fit = "fits"] \in V
        /\ [views[v] EXCEPT !.fit = "fits"].locked = views[v].locked
    BY <1>0 DEF V, ViewStates
  <2>2. views' = [views EXCEPT ![v] = [views[v] EXCEPT !.fit = "fits"]]
    BY <1>7 DEF Commit
  <2>3. views' \in [Views -> V] /\ \A w \in Views : views'[w].locked = views[w].locked
    BY <1>0, <2>1, <2>2
  <2> QED BY <1>7, <2>3 DEF Commit, Quiet, TypeOK
<1>8. ASSUME ResizeOutput PROVE Quiet
  <2>1. \A v \in Views : /\ [views[v] EXCEPT !.fit = "asked"] \in V
                         /\ [views[v] EXCEPT !.fit = "asked"].locked = views[v].locked
    BY <1>0 DEF V, ViewStates
  <2>2. views' = [v \in Views |-> IF views[v].tile = Free THEN views[v]
                                  ELSE [views[v] EXCEPT !.fit = "asked"]]
    BY <1>8 DEF ResizeOutput
  <2>3. views' \in [Views -> V] /\ \A w \in Views : views'[w].locked = views[w].locked
    BY <1>0, <2>1, <2>2
  <2>4. upsets' \in 0..MaxUpsets
    BY <1>8, TimingAssumption DEF ResizeOutput, TypeOK
  <2> QED BY <1>8, <2>3, <2>4 DEF ResizeOutput, Quiet
<1> QED BY <1>1, <1>2, <1>3, <1>4, <1>5, <1>6, <1>7, <1>8 DEF Session

\* A quiet step keeps the invariant.
LEMMA QuietSafe == IInv /\ Quiet => IInv'
<1> SUFFICES ASSUME IInv, Quiet PROVE IInv'
  OBVIOUS
<1>1. /\ automatic' = automatic
      /\ known' = known /\ workspace' = workspace /\ last_plan' = last_plan
      /\ pending_since' = pending_since /\ last_attempt' = last_attempt
      /\ force_apply' = force_apply /\ pc' = pc /\ queue' = queue /\ published' = published
      /\ late' = late
  BY DEF Quiet, daemon, adapter, clocks
<1>2. TypeOK'
  BY <1>1 DEF IInv, TypeOK, Quiet, V
<1>3. ModelMirrorsInventory'
  BY <1>1 DEF IInv, ModelMirrorsInventory
<1>4. \A v \in PlanIds(last_plan) : views'[v].locked = views[v].locked
  BY DEF Quiet, IInv, LockInv
<1>5. LocksRight => LocksRight'
  BY <1>1, <1>4 DEF LocksRight, PlanIds
<1>6. LocksOnTheWay => LocksOnTheWay'
  BY <1>1, <1>4 DEF LocksOnTheWay, PlanIds
<1>7. LockInv'
  BY <1>1, <1>5, <1>6 DEF IInv, LockInv
<1> QED BY <1>2, <1>3, <1>7 DEF IInv

-----------------------------------------------------------------------------
(* One tick. *)

\* A saturating clock stays within its limit.
LEMMA LaterType ==
  ASSUME NEW limit \in Nat, NEW age \in {None} \cup 0..limit, NEW dt \in Nat
  PROVE  Later(age, dt, limit) \in {None} \cup 0..limit
BY DEF Later, Lesser, None

\* The clocks a tick computes stay within their limits.
LEMMA ClockTypes ==
  ASSUME TypeOK, NEW p, NEW dt \in 1..MaxDelay
  PROVE  /\ Since(p, dt) \in {None} \cup 0..Deadline
         /\ Attempt(p, dt) \in {None} \cup 0..Retry
         /\ Later(pending_since, dt, Deadline) \in {None} \cup 0..Deadline
         /\ Later(last_attempt, dt, Retry) \in {None} \cup 0..Retry
         /\ 0 \in 0..Deadline /\ 0 \in 0..Retry
<1>1. dt \in Nat /\ Deadline \in Nat /\ Retry \in Nat
  BY TimingAssumption
<1>2. /\ Later(pending_since, dt, Deadline) \in {None} \cup 0..Deadline
      /\ Later(last_attempt, dt, Retry) \in {None} \cup 0..Retry
  BY <1>1, LaterType DEF TypeOK
<1> QED BY <1>1, <1>2 DEF Since, Attempt

\* Every observation leaves a model of what it saw and a plan made from it.
LEMMA ObservationFacts ==
  ASSUME TypeOK, ModelMirrorsInventory,
         NEW ws, ws = Absorb(workspace, known, LIST),
         NEW p, p = workspace_plan(automatic, ws, output)
  PROVE  /\ LIST \in Inventories /\ ws \in Seq(Toplevels) /\ Mirrors(ws, LIST)
         /\ p \in Plans /\ PlanIds(p) \subseteq DOMAIN LIST /\ PlanIds(p) \subseteq Views
         /\ TiledIds(p) \cap FloatIds(p) = {} /\ TiledIds(p) \cap IgnoredIds(p) = {}
<1>1. LIST \in Inventories
  <2>1. Mapped \in SUBSET Views
    BY DEF Mapped
  <2>2. \A v \in Views : views[v].face \in Faces
    BY DEF TypeOK, ViewStates
  <2>3. LIST \in [Mapped -> Faces]
    BY <2>1, <2>2 DEF LIST
  <2> QED BY <2>1, <2>3 DEF Inventories
<1>2. ws \in Seq(Toplevels) /\ Mirrors(ws, LIST)
  <2>1. workspace \in Seq(Toplevels) /\ known \in Inventories /\ Mirrors(workspace, known)
    BY DEF TypeOK, ModelMirrorsInventory
  <2> QED BY <1>1, <2>1, AbsorbMirrors
<1>3. output \in Nat /\ automatic \in BOOLEAN
  BY OutputsAssumption, ModesAssumption DEF TypeOK
<1>4. /\ p \in Plans /\ PlanIds(p) \subseteq DOMAIN LIST
      /\ TiledIds(p) \cap FloatIds(p) = {} /\ TiledIds(p) \cap IgnoredIds(p) = {}
  BY <1>2, <1>3, PlanFacts
<1>5. DOMAIN LIST \subseteq Views
  BY DEF LIST, Mapped
<1> QED BY <1>1, <1>2, <1>4, <1>5

\* One iteration of the loop of run, up to the start of a batch, keeps the
\* invariant.
LEMMA TickSafe == IInv /\ Tick => IInv'
<1> SUFFICES ASSUME IInv, Tick PROVE IInv'
  OBVIOUS
<1>1. PICK dt \in 1..MaxDelay : TickAfter(dt)
  BY DEF Tick
<1>2. PICK ws, p : /\ ws = Absorb(workspace, known, LIST)
                   /\ p = workspace_plan(automatic, ws, output)
                   /\ ObserveHealthy(dt, ws, p) \/ ObservePending(dt, ws, p)
  BY <1>1 DEF TickAfter
<1>3. /\ LIST \in Inventories /\ ws \in Seq(Toplevels) /\ Mirrors(ws, LIST)
      /\ p \in Plans /\ PlanIds(p) \subseteq DOMAIN LIST /\ PlanIds(p) \subseteq Views
      /\ TiledIds(p) \cap FloatIds(p) = {} /\ TiledIds(p) \cap IgnoredIds(p) = {}
  BY <1>2, ObservationFacts DEF IInv
<1>4. /\ pc = "sleep" /\ known' = LIST /\ workspace' = ws /\ last_plan' = p
      /\ views' = views /\ output' = output /\ automatic' = automatic
      /\ upsets' = upsets /\ late' = << >>
  BY <1>2 DEF ObserveHealthy, ObservePending, Observe, compositor, NoLonger
<1>5. ~MustApply(p) => last_plan' = last_plan /\ ~force_apply
  BY <1>4 DEF MustApply
<1>6. /\ Since(p, dt) \in {None} \cup 0..Deadline
      /\ Attempt(p, dt) \in {None} \cup 0..Retry
      /\ 0 \in 0..Deadline /\ 0 \in 0..Retry
  BY ClockTypes DEF IInv
<1>7. LocksRight /\ last_plan' = last_plan => LocksRight'
  BY <1>4 DEF LocksRight
<1>8. CASE ObserveHealthy(dt, ws, p)
  <2>1. /\ ~MustApply(p) /\ pending_since' = None /\ last_attempt' = Attempt(p, dt)
        /\ published' = Report("healthy", TRUE, p)
        /\ force_apply' = force_apply /\ pc' = pc /\ queue' = queue
    BY <1>8 DEF ObserveHealthy
  <2>2. TypeOK'
    <3>1. published' \in Reports
      BY <1>3, <2>1, ReportType
    <3> QED BY <1>3, <1>4, <1>6, <2>1, <3>1, EmptyModel, AbandonedFacts DEF IInv, TypeOK
  <2>3. ModelMirrorsInventory'
    <3>1. queue = << >>
      BY <1>4 DEF IInv, LockInv
    <3> QED BY <1>3, <1>4, <2>1, <3>1 DEF ModelMirrorsInventory
  <2>4. LockInv'
    BY <1>3, <1>4, <1>5, <1>7, <2>1 DEF IInv, LockInv
  <2> QED BY <2>2, <2>3, <2>4 DEF IInv
<1>9. CASE ObservePending(dt, ws, p)
  <2>1. /\ pending_since' = IF Since(p, dt) = None THEN 0 ELSE Since(p, dt)
        /\ published' = Report(IF pending_since' >= Deadline THEN "degraded" ELSE "starting",
                               TRUE, p)
        /\ force_apply' = MustApply(p)
        /\ \/ pc' = "apply" /\ last_attempt' = 0 /\ queue' = reconcile_workspace_commands(p)
           \/ last_attempt' = Attempt(p, dt) /\ pc' = pc /\ queue' = queue
    BY <1>9 DEF ObservePending
  <2>2. /\ reconcile_workspace_commands(p) \in Seq(Commands)
        /\ \A k \in DOMAIN reconcile_workspace_commands(p) :
             Planned(p, reconcile_workspace_commands(p)[k])
        /\ \A v \in TiledIds(p) : Has(reconcile_workspace_commands(p), "TILE", v)
        /\ \A v \in FloatIds(p) : Has(reconcile_workspace_commands(p), "FLOAT", v)
        /\ \A v \in IgnoredIds(p) : Has(reconcile_workspace_commands(p), "UNMANAGE", v)
    BY <1>3, BatchFacts
  <2>3. published' \in Reports /\ published'.health # "healthy"
    <3>1. published' \in Reports
      BY <1>3, <2>1, ReportType
    <3> QED BY <2>1, <3>1 DEF Report
  <2>4. TypeOK'
    BY <1>3, <1>4, <1>6, <2>1, <2>2, <2>3, EmptyModel, AbandonedFacts DEF IInv, TypeOK, MustApply
  <2>5. ModelMirrorsInventory'
    <3>1. ASSUME NEW k \in DOMAIN reconcile_workspace_commands(p)
          PROVE  reconcile_workspace_commands(p)[k].id \in DOMAIN LIST
      BY <1>3, <2>2 DEF Planned
    <3>2. Mirrors(workspace', known')
      BY <1>3, <1>4
    <3>3. ASSUME queue' = queue, NEW k \in DOMAIN queue PROVE queue[k].id \in DOMAIN LIST
      BY <1>4 DEF IInv, LockInv
    <3> QED BY <1>4, <2>1, <3>1, <3>2, <3>3 DEF ModelMirrorsInventory
  <2>6. LockInv'
    <3>1. LocksOnTheWay' \/ pc' = "sleep"
      BY <1>4, <2>1, <2>2 DEF LocksOnTheWay
    <3> QED BY <1>3, <1>4, <1>5, <1>7, <2>1, <2>3, <3>1 DEF IInv, LockInv
  <2> QED BY <2>4, <2>5, <2>6 DEF IInv
<1> QED BY <1>2, <1>8, <1>9

-----------------------------------------------------------------------------
(* One request of a batch. *)

\* The rest of a non-empty sequence, by position.
LEMMA TailParts ==
  ASSUME NEW A, NEW q \in Seq(A), q # << >>
  PROVE  /\ Tail(q) \in Seq(A) /\ Head(q) \in A /\ Head(q) = q[1] /\ 1 \in DOMAIN q
         /\ \A k \in DOMAIN Tail(q) : k + 1 \in DOMAIN q /\ Tail(q)[k] = q[k + 1]
         /\ \A k \in DOMAIN q : k # 1 => k - 1 \in DOMAIN Tail(q) /\ Tail(q)[k - 1] = q[k]
<1>1. Len(q) \in Nat /\ DOMAIN q = 1..Len(q) /\ Len(q) # 0
  OBVIOUS
<1>2. Tail(q) \in Seq(A) /\ Len(Tail(q)) = Len(q) - 1 /\ Head(q) = q[1]
  OBVIOUS
<1>3. \A k \in 1..(Len(q) - 1) : Tail(q)[k] = q[k + 1]
  OBVIOUS
<1>4. DOMAIN Tail(q) = 1..(Len(q) - 1)
  BY <1>1, <1>2
<1>5. \A k \in 1..(Len(q) - 1) : k + 1 \in 1..Len(q)
  BY <1>1
<1>6. \A k \in 1..Len(q) : k # 1 => k - 1 \in 1..(Len(q) - 1) /\ (k - 1) + 1 = k
  BY <1>1
<1>7. 1 \in 1..Len(q) /\ q[1] \in A
  BY <1>1
<1> QED BY <1>1, <1>2, <1>3, <1>4, <1>5, <1>6, <1>7

\* One accepted action keeps the invariant: it sets the lock of its own window
\* and contradicts no lock set before.
LEMMA ActionAcceptedSafe == IInv /\ ActionAccepted => IInv'
<1> SUFFICES ASSUME IInv, ActionAccepted PROVE IInv'
  OBVIOUS
<1> DEFINE cmd == Head(queue)
           v == cmd.id
<1>1. /\ pc = "apply" /\ queue # << >> /\ ~Refused(views[v], cmd)
      /\ views' = [views EXCEPT ![v] = ipc_run_action(views[v], cmd)]
      /\ queue' = Tail(queue)
      /\ output' = output /\ automatic' = automatic
      /\ known' = known /\ workspace' = workspace /\ last_plan' = last_plan
      /\ pending_since' = pending_since /\ last_attempt' = last_attempt
      /\ force_apply' = force_apply /\ pc' = pc /\ published' = published /\ upsets' = upsets
      /\ late' = late
  BY DEF ActionAccepted, Sending, Refusal, RunAction, adapter, clocks
<1>2. /\ queue' \in Seq(Commands) /\ cmd \in Commands /\ cmd = queue[1] /\ 1 \in DOMAIN queue
      /\ \A k \in DOMAIN queue' : k + 1 \in DOMAIN queue /\ queue'[k] = queue[k + 1]
      /\ \A k \in DOMAIN queue : k # 1 => k - 1 \in DOMAIN queue' /\ queue'[k - 1] = queue[k]
  <2>1. queue \in Seq(Commands)
    BY DEF IInv, TypeOK
  <2> QED BY <1>1, <2>1, TailParts
<1>3. v \in Views /\ views \in [Views -> V]
  BY <1>2 DEF Commands, IInv, TypeOK, V
<1> HIDE DEF cmd, v
<1>4. /\ views'[v] = ipc_run_action(views[v], cmd) /\ ipc_run_action(views[v], cmd) \in V
      /\ cmd.op = "TILE" => views'[v].locked
      /\ cmd.op \in {"FLOAT", "UNMANAGE"} => ~views'[v].locked
      /\ cmd.op = "DECORATION" => views'[v].locked = views[v].locked
  BY <1>1, <1>2, <1>3, ActionLocks
<1>5. views' \in [Views -> V] /\ \A w \in Views : w # v => views'[w] = views[w]
  BY <1>1, <1>3, <1>4
<1>6. LocksOnTheWay /\ Planned(last_plan, cmd)
  BY <1>1, <1>2 DEF IInv, LockInv, LocksOnTheWay
<1>7. \A op, w : Has(queue, op, w) => Has(queue', op, w) \/ (cmd.op = op /\ v = w)
  BY <1>2 DEF Has, v
<1>8. LocksOnTheWay'
  <2>1. \A k \in DOMAIN queue' : Planned(last_plan, queue'[k])
    BY <1>2, <1>6 DEF LocksOnTheWay
  <2>2. ASSUME NEW w \in TiledIds(last_plan) PROVE views'[w].locked \/ Has(queue', "TILE", w)
    <3>1. w \in Views /\ w \notin FloatIds(last_plan) /\ w \notin IgnoredIds(last_plan)
      BY DEF IInv, LockInv, PlanIds
    <3>2. CASE w = v
      BY <1>4, <1>6, <1>7, <3>1, <3>2 DEF LocksOnTheWay, Planned, v
    <3>3. CASE w # v
      BY <1>5, <1>6, <1>7, <3>1, <3>3 DEF LocksOnTheWay
    <3> QED BY <3>2, <3>3
  <2>3. ASSUME NEW w \in FloatIds(last_plan) PROVE ~views'[w].locked \/ Has(queue', "FLOAT", w)
    <3>1. w \in Views /\ w \notin TiledIds(last_plan)
      BY DEF IInv, LockInv, PlanIds
    <3>2. CASE w = v
      BY <1>4, <1>6, <1>7, <3>1, <3>2 DEF LocksOnTheWay, Planned, v
    <3>3. CASE w # v
      BY <1>5, <1>6, <1>7, <3>1, <3>3 DEF LocksOnTheWay
    <3> QED BY <3>2, <3>3
  <2>4. ASSUME NEW w \in IgnoredIds(last_plan) PROVE ~views'[w].locked \/ Has(queue', "UNMANAGE", w)
    <3>1. w \in Views /\ w \notin TiledIds(last_plan)
      BY DEF IInv, LockInv, PlanIds
    <3>2. CASE w = v
      BY <1>4, <1>6, <1>7, <3>1, <3>2 DEF LocksOnTheWay, Planned, v
    <3>3. CASE w # v
      BY <1>5, <1>6, <1>7, <3>1, <3>3 DEF LocksOnTheWay
    <3> QED BY <3>2, <3>3
  <2> QED BY <1>1, <2>1, <2>2, <2>3, <2>4 DEF LocksOnTheWay
<1>9. TypeOK'
  BY <1>1, <1>2, <1>5 DEF IInv, TypeOK, V
<1>10. ModelMirrorsInventory'
  BY <1>1, <1>2 DEF IInv, ModelMirrorsInventory
<1>11. LockInv'
  BY <1>1, <1>8 DEF IInv, LockInv
<1> QED BY <1>9, <1>10, <1>11 DEF IInv

\* Whatever an aborted batch did to the windows, it leaves an open promise.
LEMMA FailureSafe ==
  ASSUME IInv, views' \in [Views -> V], upsets' \in 0..MaxUpsets, late' \in Abandoned,
         NEW connected \in BOOLEAN, BatchFails(connected)
  PROVE  IInv'
<1>1. /\ force_apply' = TRUE /\ published' = Report("degraded", connected, last_plan)
      /\ pc' = "sleep" /\ queue' = << >>
      /\ output' = output /\ automatic' = automatic
      /\ known' = known /\ workspace' = workspace /\ last_plan' = last_plan
      /\ pending_since' = pending_since /\ last_attempt' = last_attempt
  BY DEF BatchFails, adapter, clocks
<1>2. published' \in Reports /\ published'.health # "healthy"
  <2>1. published' \in Reports
    BY <1>1, ReportType DEF IInv, TypeOK
  <2> QED BY <1>1, <2>1 DEF Report
<1>3. TypeOK'
  BY <1>1, <1>2, EmptyModel DEF IInv, TypeOK, V
<1>4. ModelMirrorsInventory'
  BY <1>1 DEF IInv, ModelMirrorsInventory
<1>5. LockInv'
  BY <1>1, <1>2 DEF IInv, LockInv
<1> QED BY <1>3, <1>4, <1>5 DEF IInv

\* Accepted, refused or finished: every step of a batch keeps the invariant.
LEMMA BatchSafe == IInv /\ Batch => IInv'
<1> SUFFICES ASSUME IInv, Batch PROVE IInv'
  OBVIOUS
<1>1. CASE ActionAccepted
  BY <1>1, ActionAcceptedSafe
<1>2. CASE ActionRefused
  <2>1. /\ views' \in [Views -> V] /\ upsets' \in 0..MaxUpsets /\ late' \in Abandoned
        /\ BatchFails(TRUE)
    BY <1>2 DEF ActionRefused, IInv, TypeOK, V
  <2> QED BY <2>1, FailureSafe
<1>3. CASE BatchAccepted
  <2>1. /\ pc = "apply" /\ queue = << >> /\ force_apply' = FALSE /\ pc' = "sleep"
        /\ views' = views /\ output' = output /\ automatic' = automatic
        /\ known' = known /\ workspace' = workspace
        /\ last_plan' = last_plan /\ pending_since' = pending_since
        /\ last_attempt' = last_attempt /\ queue' = queue /\ published' = published
        /\ upsets' = upsets /\ late' = late
    BY <1>3 DEF BatchAccepted, compositor, adapter, clocks
  <2>2. \A op, w : ~Has(queue, op, w)
    BY <2>1 DEF Has
  <2>3. LocksRight'
    BY <2>1, <2>2 DEF IInv, LockInv, LocksOnTheWay, LocksRight
  <2>4. TypeOK'
    BY <2>1 DEF IInv, TypeOK
  <2>5. ModelMirrorsInventory'
    BY <2>1 DEF IInv, ModelMirrorsInventory
  <2>6. LockInv'
    BY <2>1, <2>3 DEF IInv, LockInv
  <2> QED BY <2>4, <2>5, <2>6 DEF IInv
<1> QED BY <1>1, <1>2, <1>3 DEF Batch

\* Unreadable inventories, lost replies and restarts keep the invariant.
LEMMA FaultsSafe == IInv /\ Faults => IInv'
<1> SUFFICES ASSUME IInv, Faults PROVE IInv'
  OBVIOUS
<1>1. ASSUME NEW dt \in 1..MaxDelay, NEW connected \in BOOLEAN, ObserveFails(dt, connected)
      PROVE  IInv'
  <2>1. /\ pc = "sleep" /\ upsets > 0 /\ upsets' = upsets - 1 /\ force_apply' = TRUE
        /\ pending_since' = Later(pending_since, dt, Deadline)
        /\ last_attempt' = Later(last_attempt, dt, Retry)
        /\ published' = Report("degraded", connected, last_plan)
        /\ views' = views /\ output' = output /\ automatic' = automatic
        /\ known' = known /\ workspace' = workspace
        /\ last_plan' = last_plan /\ pc' = pc /\ queue' = queue /\ late' = late
    BY <1>1 DEF ObserveFails, compositor, adapter
  <2>2. /\ pending_since' \in {None} \cup 0..Deadline
        /\ last_attempt' \in {None} \cup 0..Retry
    BY <2>1, ClockTypes DEF IInv
  <2>3. published' \in Reports /\ published'.health # "healthy"
    <3>1. published' \in Reports
      BY <2>1, ReportType DEF IInv, TypeOK
    <3> QED BY <2>1, <3>1 DEF Report
  <2>4. TypeOK'
    BY <2>1, <2>2, <2>3, TimingAssumption DEF IInv, TypeOK
  <2>5. ModelMirrorsInventory'
    BY <2>1 DEF IInv, ModelMirrorsInventory
  <2>6. LockInv'
    BY <2>1, <2>3 DEF IInv, LockInv
  <2> QED BY <2>4, <2>5, <2>6 DEF IInv
<1>2. ASSUME NEW connected \in BOOLEAN, ActionLost(connected)
      PROVE  IInv'
  <2>1. Head(queue) \in Commands
    <3>1. queue \in Seq(Commands) /\ queue # << >>
      BY <1>2 DEF IInv, TypeOK, ActionLost, Sending
    <3> QED BY <3>1, TailParts
  <2>2. views' \in [Views -> V] /\ upsets' \in 0..MaxUpsets /\ late' \in Abandoned
    BY <1>2, <2>1, TimingAssumption, AbandonedFacts DEF ActionLost, IInv, TypeOK, V
  <2>3. BatchFails(connected)
    BY <1>2 DEF ActionLost
  <2> QED BY <2>2, <2>3, FailureSafe
<1>3. CASE Restart
  <2>1. /\ views' \in [Views -> V] /\ output' \in Outputs /\ automatic' \in Modes
        /\ known' = DaemonStart.known /\ workspace' = DaemonStart.workspace
        /\ last_plan' = NoPlan /\ pending_since' = None /\ last_attempt' = None
        /\ force_apply' = TRUE /\ pc' = "sleep" /\ queue' = << >>
        /\ published' = DaemonStart.report
    BY <1>3 DEF Restart, compositor, IInv, TypeOK, V
  <2>2. upsets' \in 0..MaxUpsets
    BY <1>3, TimingAssumption DEF Restart, IInv, TypeOK
  <2>3. /\ known' = << >> /\ workspace' = << >> /\ published' = Report("starting", FALSE, NoPlan)
    BY <2>1 DEF DaemonStart
  <2>4. published' \in Reports /\ published'.health # "healthy"
    <3>1. published' \in Reports
      BY <2>3, ReportType
    <3> QED BY <2>3, <3>1 DEF Report
  <2>8. late' \in Abandoned
    <3>1. CASE Sending /\ late' = <<Head(queue)>>
      <4>1. Head(queue) \in Commands
        BY <3>1, TailParts DEF Sending, IInv, TypeOK
      <4> QED BY <3>1, <4>1, AbandonedFacts
    <3>2. CASE late' = late
      BY <3>2 DEF IInv, TypeOK
    <3> QED BY <1>3, <3>1, <3>2 DEF Restart
  <2>5. TypeOK'
    BY <2>1, <2>2, <2>3, <2>4, <2>8, EmptyModel DEF TypeOK, V
  <2>6. ModelMirrorsInventory'
    BY <2>1, <2>3, EmptyModel DEF ModelMirrorsInventory
  <2>7. LockInv'
    BY <2>1, <2>4, EmptyPlan DEF LockInv
  <2> QED BY <2>5, <2>6, <2>7 DEF IInv
<1> QED BY <1>1, <1>2, <1>3 DEF Faults

\* An abandoned action changes one window while the daemon promises nothing.
LEMMA LateSafe == IInv /\ LateAction => IInv'
<1> SUFFICES ASSUME IInv, LateAction PROVE IInv'
  OBVIOUS
<1> DEFINE cmd == late[1]
<1>1. /\ late # << >> /\ late' = << >> /\ pc = "sleep" /\ force_apply
      /\ output' = output /\ automatic' = automatic
      /\ known' = known /\ workspace' = workspace /\ last_plan' = last_plan
      /\ pending_since' = pending_since /\ last_attempt' = last_attempt
      /\ force_apply' = force_apply /\ pc' = pc /\ queue' = queue /\ published' = published
      /\ upsets' = upsets
  BY DEF LateAction, daemon, adapter, clocks, IInv, LockInv
<1>2. cmd \in Commands
  <2>1. late \in Seq(Commands) /\ Len(late) # 0
    BY <1>1, AbandonedFacts DEF IInv, TypeOK
  <2> QED BY <2>1
<1>3. cmd.id \in Views /\ views \in [Views -> V]
  BY <1>2 DEF Commands, IInv, TypeOK, V
<1>4. ~Refused(views[cmd.id], cmd) => ipc_run_action(views[cmd.id], cmd) \in V
  BY <1>2, <1>3, ActionLocks
<1>5. views' = IF Refused(views[cmd.id], cmd) THEN views ELSE RunAction(cmd)
  BY DEF LateAction
<1> HIDE DEF cmd
<1>6. views' \in [Views -> V]
  BY <1>3, <1>4, <1>5 DEF RunAction
<1>7. TypeOK'
  BY <1>1, <1>6, AbandonedFacts DEF IInv, TypeOK, V
<1>8. ModelMirrorsInventory'
  BY <1>1 DEF IInv, ModelMirrorsInventory
<1>9. LockInv'
  BY <1>1 DEF IInv, LockInv
<1> QED BY <1>7, <1>8, <1>9 DEF IInv

-----------------------------------------------------------------------------
(* The theorems. *)

\* IInv is inductive: run keeps it through ticks, batches, faults and
\* everything the session does.
THEOREM Invariance == Spec => []IInv
<1>1. Init => IInv
  BY InitSafe
<1>2. IInv /\ [Next]_vars => IInv'
  <2> SUFFICES ASSUME IInv, [Next]_vars PROVE IInv'
    OBVIOUS
  <2>1. CASE Tick
    BY <2>1, TickSafe
  <2>2. CASE Batch
    BY <2>2, BatchSafe
  <2>3. CASE Faults
    BY <2>3, FaultsSafe
  <2>4. CASE Session
    BY <2>4, SessionQuiet, QuietSafe DEF IInv
  <2>6. CASE LateAction
    BY <2>6, LateSafe
  <2>5. CASE UNCHANGED vars
    <3>1. Quiet
      BY <2>5 DEF vars, Quiet, daemon, adapter, clocks, IInv, TypeOK, V
    <3> QED BY <3>1, QuietSafe
  <2> QED BY <2>1, <2>2, <2>3, <2>4, <2>5, <2>6 DEF Next
<1> QED BY <1>1, <1>2, PTL DEF Spec

\* The state of the daemon and of Labwc stays in its type, whatever the
\* session and the faults do (the clocks of run, the batch, the report).
THEOREM TypeCorrect == Spec => []TypeOK
<1>1. IInv => TypeOK
  BY DEF IInv
<1> QED BY <1>1, Invariance, PTL

\* refresh and action of labwc.rs: the workspace always lists each window of
\* the last inventory once, with its current face, and every command names
\* one of them.
THEOREM ModelIsExact == Spec => []ModelMirrorsInventory
<1>1. IInv => ModelMirrorsInventory
  BY DEF IInv
<1> QED BY <1>1, Invariance, PTL

\* run of main.rs: a healthy report is never published, or left standing,
\* over a window whose movement lock contradicts the plan.
THEOREM LocksFollowPlan == Spec => []LockFollowsPlan
<1>1. IInv => LockFollowsPlan
  <2> SUFFICES ASSUME IInv, published.health = "healthy" PROVE LockFollowsPlan
    BY DEF LockFollowsPlan
  <2>1. LocksRight
    BY DEF IInv, LockInv
  <2> QED BY <2>1 DEF LocksRight, TiledIds, FloatIds, IgnoredIds, LockFollowsPlan
<1> QED BY <1>1, Invariance, PTL

-----------------------------------------------------------------------------
(* The order of the layout. *)

\* In a workspace without repetitions a window has one position.
LEMMA OnePosition ==
  ASSUME NEW ws, NEW inventory, Mirrors(ws, inventory), NEW i \in DOMAIN ws
  PROVE  PositionOf(ws, ws[i].id) = i
BY DEF PositionOf, Mirrors

\* An observation keeps the order of the windows that stay.
LEMMA TickKeepsOrder ==
  ASSUME IInv, Tick, NEW u \in Ids(workspace) \cap Ids(workspace'),
         NEW v \in Ids(workspace) \cap Ids(workspace'),
         PositionOf(workspace, u) < PositionOf(workspace, v)
  PROVE  PositionOf(workspace', u) < PositionOf(workspace', v)
<1>1. workspace' = Absorb(workspace, known, LIST)
  BY DEF Tick, TickAfter, ObserveHealthy, ObservePending, Observe
<1>2. /\ workspace \in Seq(Toplevels) /\ known \in Inventories /\ Mirrors(workspace, known)
      /\ LIST \in Inventories /\ Mirrors(workspace', LIST)
  BY <1>1, ObservationFacts DEF IInv, TypeOK, ModelMirrorsInventory
<1>3. PICK i \in DOMAIN workspace, j \in DOMAIN workspace :
        workspace[i].id = u /\ workspace[j].id = v
  BY DEF Ids
<1>4. i < j
  BY <1>2, <1>3, OnePosition
<1>5. u \in DOMAIN LIST /\ v \in DOMAIN LIST
  BY <1>2 DEF Mirrors
<1>6. PICK k \in DOMAIN workspace', l \in DOMAIN workspace' :
        k < l /\ workspace'[k].id = u /\ workspace'[l].id = v
  BY <1>1, <1>2, <1>3, <1>4, <1>5, AbsorbKeepsOrder
<1>7. PositionOf(workspace', u) = k /\ PositionOf(workspace', v) = l
  BY <1>2, <1>6, OnePosition
<1> QED BY <1>6, <1>7

\* refresh of labwc.rs: windows that stay keep their order, whatever opens,
\* closes, changes or is retried around them.
THEOREM OrderIsKept == Spec => OrderIsStable
<1> DEFINE Kept == \A u, v \in Ids(workspace) \cap Ids(workspace') :
                     PositionOf(workspace, u) < PositionOf(workspace, v)
                       => PositionOf(workspace', u) < PositionOf(workspace', v)
<1>1. IInv /\ [Next]_vars => [Kept]_vars
  <2> SUFFICES ASSUME IInv, Next PROVE Kept
    OBVIOUS
  <2>1. CASE Tick
    BY <2>1, TickKeepsOrder
  <2>2. CASE workspace' = workspace
    BY <2>2
  <2>3. CASE Restart
    <3>1. workspace' = << >>
      BY <2>3 DEF Restart, DaemonStart
    <3>2. Ids(workspace') = {}
      BY <3>1 DEF Ids
    <3> QED BY <3>2
  <2>4. Tick \/ Restart \/ workspace' = workspace
    <3>1. Batch \/ LateAction => workspace' = workspace
      BY DEF Batch, ActionAccepted, ActionRefused, BatchAccepted, BatchFails, LateAction,
             adapter, daemon
    <3>2. Faults => Restart \/ workspace' = workspace
      BY DEF Faults, ObserveFails, ActionLost, BatchFails, adapter
    <3>3. Session => workspace' = workspace
      BY SessionQuiet DEF IInv, Quiet, daemon, adapter
    <3> QED BY <3>1, <3>2, <3>3 DEF Next
  <2> QED BY <2>1, <2>2, <2>3, <2>4
<1> QED BY <1>1, Invariance, PTL DEF Spec, OrderIsStable

-----------------------------------------------------------------------------
(* What a healthy report is worth. *)

\* The windows of the abstract session.
Windows == [v \in Mapped |-> Appearance(views[v])]

\* The cardinality Reconciliation speaks of is that of FiniteSets.
LEMMA PromiseCardinality ==
  ASSUME NEW S
  PROVE  Promise!Cardinality(S) = Cardinality(S)
BY DEF Promise!Cardinality, Cardinality

\* The operators of Reconciliation, written out for the windows of layoutd.
LEMMA PromiseUnfolded ==
  /\ Promise!Free = Free
  /\ \A c : Promise!Shows(c) = {v \in Mapped : classify_toplevel(views[v].face) = c}
  /\ Promise!Tiled = {v \in Mapped \ Promise!Shows("ignored") : views[v].tile # Free}
  /\ Promise!TiledCount = IF ~automatic THEN 0
                          ELSE IF Maximum <= Cardinality(Promise!Shows("managed")) THEN Maximum
                          ELSE Cardinality(Promise!Shows("managed"))
<1>1. Promise!Free = Free
  BY DEF Promise!Free, Free
<1>2. \A c : Promise!Shows(c) = {v \in Mapped : classify_toplevel(views[v].face) = c}
  BY DEF Promise!Shows, Appearance
<1>3. Promise!Tiled = {v \in Mapped \ Promise!Shows("ignored") : views[v].tile # Free}
  <2>1. Promise!Shows("ignored") \subseteq Mapped
    BY <1>2
  <2> QED BY <1>1, <2>1 DEF Promise!Tiled, Appearance
<1>4. Promise!TiledCount = IF ~automatic THEN 0
                          ELSE IF Maximum <= Cardinality(Promise!Shows("managed")) THEN Maximum
                          ELSE Cardinality(Promise!Shows("managed"))
  BY PromiseCardinality DEF Promise!TiledCount
<1> QED BY <1>1, <1>2, <1>3, <1>4

\* A converged plan with its locks in place lays the session out as promised.
LEMMA ConvergedIsSettled ==
  ASSUME TypeOK, NEW ws \in Seq(Toplevels), Mirrors(ws, LIST),
         NEW p, p = workspace_plan(automatic, ws, output),
         Converged(p),
         \A v \in TiledIds(p) : views[v].locked,
         \A v \in FloatIds(p) \cup IgnoredIds(p) : ~views[v].locked
  PROVE  Promise!Settled
<1> DEFINE M == OfClass(ws, "managed")
           F == OfClass(ws, "floating")
           G == OfClass(ws, "ignored")
           n == IF automatic THEN Lesser(Maximum, Len(M)) ELSE 0
           Shows(c) == {v \in Mapped : classify_toplevel(views[v].face) = c}
<1>1. output \in Nat /\ automatic \in BOOLEAN
  BY OutputsAssumption, ModesAssumption DEF TypeOK
<1>2. /\ n \in Nat /\ Len(M) \in Nat /\ n <= Len(M)
      /\ DOMAIN p.placements = 1..n
      /\ \A k \in 1..n : p.placements[k].id = M[k] /\ p.placements[k].tile = <<n, k>>
      /\ TiledIds(p) = {M[k] : k \in 1..n}
      /\ FloatIds(p) = {F[k] : k \in DOMAIN F} \cup {M[k] : k \in (n + 1)..Len(M)}
      /\ IgnoredIds(p) = {G[k] : k \in DOMAIN G}
  BY <1>1, PlanShape
<1>3. DOMAIN LIST = Mapped /\ \A v \in Mapped : LIST[v] = views[v].face
  BY DEF LIST
<1>5. /\ \A k \in DOMAIN M : M[k] \in Shows("managed")
      /\ \A v \in Shows("managed") : \E k \in DOMAIN M : M[k] = v
      /\ \A v \in Shows("floating") : \E k \in DOMAIN F : F[k] = v
      /\ \A v \in Shows("ignored") : \E k \in DOMAIN G : G[k] = v
      /\ Cardinality(Shows("managed")) = Len(M)
  <2>1. \A c : Shows(c) = Members(LIST, c)
    BY <1>3 DEF Members
  <2> HIDE DEF Shows
  <2> QED BY <2>1, ClassMembers
<1>6. M \in Seq(Views) /\ \A j, k \in DOMAIN M : M[j] = M[k] => j = k
  BY OfClassPositions, OfClassOnce
<1>7. Mapped = Shows("managed") \cup Shows("floating") \cup Shows("ignored")
  BY ClassIsKnown DEF Classes
<1> HIDE DEF M, F, G
<1>8. DOMAIN M = 1..Len(M) /\ \A k \in 1..n : k \in DOMAIN M
  BY <1>2, <1>6
<1>9. n = IF ~automatic THEN 0 ELSE IF Maximum <= Len(M) THEN Maximum ELSE Len(M)
  BY <1>1 DEF Lesser
<1> HIDE DEF n
\* The three kinds of windows, one by one.
<1>10. ASSUME NEW k \in 1..n
       PROVE  /\ M[k] \in Shows("managed") /\ views[M[k]].tile = <<n, k>> /\ <<n, k>> # Free
              /\ views[M[k]].fit = "fits" /\ ~views[M[k]].hidden /\ views[M[k]].full
              /\ views[M[k]].locked
  <2>1. Placed(views[M[k]], <<n, k>>)
    <3>1. /\ k \in DOMAIN p.placements
          /\ p.placements[k].id = M[k] /\ p.placements[k].tile = <<n, k>>
      BY <1>2
    <3>2. Placed(views[p.placements[k].id], p.placements[k].tile)
      BY <3>1 DEF Converged
    <3> QED BY <3>1, <3>2
  <2>2. k # 0
    BY <1>2
  <2>3. <<n, k>> # Free
    BY <2>2 DEF Free
  <2> QED BY <1>2, <1>5, <1>8, <2>1, <2>3 DEF Placed
<1>11. ASSUME NEW v \in FloatIds(p)
       PROVE  views[v].full /\ views[v].tile = Free /\ ~views[v].locked
  BY DEF FloatIds, Converged, Floating
<1>12. \A v \in Shows("ignored") : ~views[v].locked
  BY <1>2, <1>5
<1>13. \A v \in Shows("floating") : v \in FloatIds(p)
  BY <1>2, <1>5
<1>14. ASSUME NEW v \in Shows("managed")
       PROVE  v \in FloatIds(p) \/ \E k \in 1..n : v = M[k]
  <2>1. PICK k \in 1..Len(M) : v = M[k]
    BY <1>5, <1>8
  <2>2. k \in 1..n \/ k \in (n + 1)..Len(M)
    BY <1>2
  <2> QED BY <1>2, <2>1, <2>2
<1>15. \A v \in Shows("managed") : v \notin Shows("ignored")
  OBVIOUS
<1>16. /\ Promise!Free = Free
       /\ \A c : Promise!Shows(c) = Shows(c)
       /\ Promise!Tiled = {v \in Mapped \ Shows("ignored") : views[v].tile # Free}
       /\ Promise!TiledCount = n
  <2>1. /\ Promise!Free = Free
        /\ \A c : Promise!Shows(c) = Shows(c)
        /\ Promise!Tiled = {v \in Mapped \ Promise!Shows("ignored") : views[v].tile # Free}
        /\ Promise!TiledCount = IF ~automatic THEN 0
                            ELSE IF Maximum <= Cardinality(Promise!Shows("managed")) THEN Maximum
                            ELSE Cardinality(Promise!Shows("managed"))
    BY PromiseUnfolded
  <2>2. Promise!Shows("managed") = Shows("managed") /\ Promise!Shows("ignored") = Shows("ignored")
    BY <2>1
  <2> HIDE DEF Shows
  <2> QED BY <1>5, <1>9, <2>1, <2>2
<1> HIDE DEF Shows
<1>17. Promise!Tiled = {M[k] : k \in 1..n}
  <2>1. ASSUME NEW v \in Promise!Tiled PROVE \E k \in 1..n : v = M[k]
    <3>1. v \in Mapped /\ v \notin Shows("ignored") /\ views[v].tile # Free
      BY <1>16
    <3>2. v \notin FloatIds(p)
      BY <1>11, <3>1
    <3> QED BY <1>7, <1>13, <1>14, <3>1, <3>2
  <2>2. ASSUME NEW k \in 1..n PROVE M[k] \in Promise!Tiled
    BY <1>7, <1>10, <1>15, <1>16
  <2> QED BY <2>1, <2>2
<1>18. Cardinality({M[k] : k \in 1..n}) = n
  <2> DEFINE s == [k \in 1..n |-> M[k]]
  <2>1. s \in Seq(Views) /\ DOMAIN s = 1..n /\ Len(s) = n
    BY <1>2, <1>6, <1>8
  <2>2. \A k \in DOMAIN s : s[k] = M[k]
    BY <2>1
  <2>3. \A j, k \in DOMAIN s : s[j] = s[k] => j = k
    BY <1>6, <1>8, <2>1, <2>2
  <2> HIDE DEF s
  <2> QED BY <2>1, <2>2, <2>3, ListCount
<1>19. Promise!Tiled \subseteq Promise!Shows("managed") /\ Cardinality(Promise!Tiled) = Promise!TiledCount
  BY <1>10, <1>16, <1>17, <1>18
<1> DEFINE W == [v \in Mapped |-> Appearance(views[v])]
<1>20. {W[v].tile : v \in Promise!Tiled} = {<<Promise!TiledCount, k>> : k \in 1..Promise!TiledCount}
  <2>1. \A k \in 1..n : M[k] \in Mapped /\ W[M[k]].tile = <<n, k>>
    BY <1>7, <1>10 DEF Appearance
  <2> HIDE DEF W
  <2>2. {W[v].tile : v \in {M[k] : k \in 1..n}} = {<<n, k>> : k \in 1..n}
    BY <2>1
  <2> QED BY <1>16, <1>17, <2>2
<1>21. \A v \in Promise!Tiled : W[v].fits /\ ~W[v].hidden /\ W[v].locked
  <2>1. ASSUME NEW k \in 1..n PROVE W[M[k]].fits /\ ~W[M[k]].hidden /\ W[M[k]].locked
    BY <1>7, <1>10 DEF Appearance
  <2> HIDE DEF W
  <2> QED BY <1>17, <2>1
<1>22. \A v \in Mapped \ Promise!Shows("ignored") : W[v].full
  BY <1>7, <1>10, <1>11, <1>13, <1>14, <1>16 DEF Appearance
<1>23. \A v \in Mapped \ Promise!Tiled : ~W[v].locked
  BY <1>7, <1>11, <1>12, <1>13, <1>14, <1>17 DEF Appearance
<1>24. DOMAIN W = Mapped
  OBVIOUS
<1>25. Cardinality(Promise!Tiled) = Promise!Cardinality(Promise!Tiled)
  BY PromiseCardinality
<1> HIDE DEF W
<1> QED BY <1>19, <1>20, <1>21, <1>22, <1>23, <1>24, <1>25 DEF Promise!Settled, W

\* The tick that reports "healthy" changes no window, and the plan it confirms
\* is the one whose batch was accepted in full.
LEMMA HealthyTick ==
  ASSUME IInv, Tick, published'.health = "healthy"
  PROVE  Promise!Settled
<1>1. PICK dt \in 1..MaxDelay : TickAfter(dt)
  BY DEF Tick
<1>2. PICK ws, p : /\ ws = Absorb(workspace, known, LIST)
                   /\ p = workspace_plan(automatic, ws, output)
                   /\ ObserveHealthy(dt, ws, p) \/ ObservePending(dt, ws, p)
  BY <1>1 DEF TickAfter
<1>3. ObserveHealthy(dt, ws, p)
  BY <1>2 DEF ObservePending, Report
<1>4. ws \in Seq(Toplevels) /\ Mirrors(ws, LIST)
  BY <1>2, ObservationFacts DEF IInv
<1>5. pc = "sleep" /\ ~force_apply /\ p = last_plan /\ Converged(p)
  BY <1>3 DEF ObserveHealthy, Observe, MustApply
<1>6. LocksRight
  BY <1>5 DEF IInv, LockInv
<1> QED BY <1>2, <1>4, <1>5, <1>6, ConvergedIsSettled DEF LocksRight, IInv

\* run of main.rs: whatever happened before, a tick that reports "healthy" has
\* just observed a session that is laid out.
THEOREM HealthyIsTrue == Spec => HealthyMeansSettled
<1>1. IInv /\ [Next]_vars => [Tick /\ published'.health = "healthy" => Promise!Settled]_vars
  BY HealthyTick
<1> QED BY <1>1, Invariance, PTL DEF Spec, HealthyMeansSettled

-----------------------------------------------------------------------------
(* The refinement of Reconciliation. *)

\* Ticks and reports leave the windows as they are.
LEMMA SameWindows ==
  ASSUME UNCHANGED views
  PROVE  Windows' = Windows
BY DEF Windows, Mapped

\* An action runs on a window that is on screen, and leaves it there, with its
\* class.
LEMMA ActionEnforces ==
  ASSUME TypeOK, NEW cmd \in Commands, ~Refused(views[cmd.id], cmd), views' = RunAction(cmd),
         published.health # "healthy", UNCHANGED <<automatic, published>>,
         Outstanding' = Outstanding - 1
  PROVE  Promise!Next
<1> DEFINE v == cmd.id
           act == ipc_run_action(views[v], cmd)
<1>1. v \in Views /\ views \in [Views -> V]
  BY DEF Commands, TypeOK, V
<1>2. act.mapped = views[v].mapped /\ act.face = views[v].face /\ views[v].mapped
  BY <1>1 DEF ipc_run_action, Shown, view_maximize, view_float, Ask, V, ViewStates, Refused
<1>3. views' = [views EXCEPT ![v] = act]
  BY DEF RunAction
<1> HIDE DEF act, v
<1>4. views'[v] = act /\ \A u \in Views : u # v => views'[u] = views[u]
  BY <1>1, <1>3
<1>5. Mapped' = Mapped /\ v \in Mapped
  BY <1>1, <1>2, <1>4 DEF Mapped
<1>6. /\ DOMAIN Windows' = DOMAIN Windows /\ v \in DOMAIN Windows
      /\ \A u \in DOMAIN Windows \ {v} : Windows'[u] = Windows[u]
      /\ Windows'[v].class = Windows[v].class
  <2>1. DOMAIN Windows = Mapped /\ DOMAIN Windows' = Mapped
    BY <1>5 DEF Windows
  <2>2. \A u \in Mapped : /\ Windows[u] = Appearance(views[u])
                          /\ Windows'[u] = Appearance(views'[u])
    BY <1>5 DEF Windows, Appearance
  <2>3. \A u \in Mapped : u # v => Windows'[u] = Windows[u]
    BY <1>4, <2>2 DEF Mapped
  <2>4. Windows'[v].class = Windows[v].class
    <3>1. \A view : Appearance(view).class = classify_toplevel(view.face)
      BY DEF Appearance
    <3>2. views'[v].face = views[v].face
      BY <1>2, <1>4
    <3> QED BY <1>5, <2>2, <3>1, <3>2
  <2> QED BY <1>5, <2>1, <2>3, <2>4
<1>7. Promise!Enforce(v)
  BY <1>6 DEF Promise!Enforce, Promise!Only, Windows
<1> QED BY <1>6, <1>7 DEF Promise!Next, Windows

\* A step that changes one window, but not its lock, and is not noticed by the
\* daemon, disturbs that window and no other.
LEMMA OneDisturbs ==
  ASSUME NEW v \in Views, v \in Mapped \cup Mapped', DOMAIN views' = DOMAIN views,
         \A u \in Views : u # v => views'[u] = views[u],
         views'[v].locked = views[v].locked,
         UNCHANGED <<daemon, late>>
  PROVE  Promise!Next
<1>1. DOMAIN Windows = Mapped /\ DOMAIN Windows' = Mapped'
  BY DEF Windows
<1>2. Mapped' \ {v} = Mapped \ {v}
  BY DEF Mapped
<1>3. \A u \in Mapped \ {v} : Windows'[u] = Windows[u]
  <2>1. \A u \in Mapped : Windows[u] = Appearance(views[u])
    BY DEF Windows
  <2>2. \A u \in Mapped' : Windows'[u] = Appearance(views'[u])
    BY DEF Windows, Appearance
  <2>3. \A u \in Mapped \ {v} : u \in Mapped' /\ views'[u] = views[u]
    BY <1>2 DEF Mapped
  <2> QED BY <2>1, <2>2, <2>3
<1>4. v \in Mapped \cap Mapped' => Windows'[v].locked = Windows[v].locked
  BY DEF Windows, Appearance
<1>5. UNCHANGED <<automatic, published, Outstanding>>
  BY DEF daemon, Outstanding
<1>6. Promise!Disturb(v)
  BY <1>1, <1>2, <1>3, <1>4, <1>5 DEF Promise!Disturb, Promise!Only, Windows
<1> QED BY <1>1, <1>6 DEF Promise!Next, Windows

\* An upset is such a step.
LEMMA UpsetDisturbs ==
  ASSUME TypeOK, NEW v \in Views, NEW view, view.locked = views[v].locked,
         views[v].mapped \/ view.mapped, Upset(v, view)
  PROVE  Promise!Next
<1>1. views' = [views EXCEPT ![v] = view] /\ DOMAIN views = Views /\ UNCHANGED <<daemon, late>>
  BY DEF Upset, TypeOK
<1>2. v \in Mapped \cup Mapped'
  BY <1>1 DEF Mapped
<1> QED BY <1>1, <1>2, OneDisturbs

\* Labwc moves the tiles with the output, and nothing else.
LEMMA ResizeMovesTiles == TypeOK /\ ResizeOutput => Promise!Next
<1> SUFFICES ASSUME TypeOK, ResizeOutput PROVE Promise!Next
  OBVIOUS
<1>1. /\ views' = [v \in Views |-> IF views[v].tile = Free THEN views[v]
                                   ELSE [views[v] EXCEPT !.fit = "asked"]]
      /\ views \in [Views -> V] /\ UNCHANGED <<daemon, late>>
  BY DEF ResizeOutput, TypeOK, V
<1>2. \A v \in Views :
        /\ views'[v].mapped = views[v].mapped /\ views'[v].face = views[v].face
        /\ views'[v].tile = views[v].tile /\ views'[v].hidden = views[v].hidden
        /\ views'[v].full = views[v].full /\ views'[v].locked = views[v].locked
  <2>1. \A v \in Views : views[v] \in V
    BY <1>1
  <2> QED BY <1>1, <2>1 DEF V, ViewStates
<1>3. Mapped' = Mapped /\ DOMAIN Windows = Mapped /\ DOMAIN Windows' = Mapped'
  BY <1>2 DEF Mapped, Windows
<1>4. ASSUME NEW v \in Mapped
      PROVE  \E fits \in BOOLEAN : Windows'[v] = [Windows[v] EXCEPT !.fits = fits]
  <2> DEFINE fits == views'[v].fit = "fits"
  <2>1. Windows[v] = Appearance(views[v]) /\ Windows'[v] = Appearance(views'[v])
    BY <1>3 DEF Windows, Appearance
  <2>2. Windows'[v] = [Windows[v] EXCEPT !.fits = fits]
    BY <1>2, <2>1 DEF Appearance, Mapped
  <2>3. fits \in BOOLEAN
    OBVIOUS
  <2> QED BY <2>2, <2>3
<1>5. UNCHANGED <<automatic, published, Outstanding>>
  BY <1>1 DEF daemon, Outstanding
<1>6. Promise!Resize
  BY <1>3, <1>4, <1>5 DEF Promise!Resize, Windows
<1> QED BY <1>6 DEF Promise!Next

\* Everything clients, the user and the output do is one of these two.
LEMMA SessionDisturbs == TypeOK /\ Session => Promise!Next
<1> SUFFICES ASSUME TypeOK, Session PROVE Promise!Next
  OBVIOUS
<1>0. views \in [Views -> V]
  BY DEF TypeOK, V
<1>1. ASSUME NEW v \in Views,
             OpenWindow(v) \/ CloseWindow(v) \/ Relabel(v) \/ CommitStale(v)
      PROVE  Promise!Next
  <2>1. views[v] \in V
    BY <1>0
  <2>2. \A face \in Faces :
          /\ [views[v] EXCEPT !.mapped = TRUE, !.face = face].locked = views[v].locked
          /\ [views[v] EXCEPT !.mapped = TRUE, !.face = face].mapped
          /\ [views[v] EXCEPT !.face = face].locked = views[v].locked
    BY <2>1 DEF V, ViewStates
  <2>3. /\ [views[v] EXCEPT !.mapped = FALSE].locked = views[v].locked
        /\ [views[v] EXCEPT !.fit = "stale"].locked = views[v].locked
    BY <2>1 DEF V, ViewStates
  <2>4. CASE OpenWindow(v)
    BY <2>2, <2>4, UpsetDisturbs DEF OpenWindow
  <2>5. CASE CloseWindow(v)
    BY <2>3, <2>5, UpsetDisturbs DEF CloseWindow
  <2>6. CASE Relabel(v)
    BY <2>2, <2>6, UpsetDisturbs DEF Relabel
  <2>7. CASE CommitStale(v)
    BY <2>3, <2>7, UpsetDisturbs DEF CommitStale
  <2> QED BY <1>1, <2>4, <2>5, <2>6, <2>7
<1>2. ASSUME NEW v \in Views, StateRequest(v) PROVE Promise!Next
  <2>1. views[v] \in V /\ views[v].mapped
    BY <1>0, <1>2 DEF StateRequest
  <2>2. /\ view_maximize(views[v]).locked = views[v].locked
        /\ view_float(views[v]).locked = views[v].locked
    BY <2>1, ViewFunctions
  <2>3. \A b \in BOOLEAN : /\ [views[v] EXCEPT !.hidden = b].locked = views[v].locked
                           /\ [views[v] EXCEPT !.full = b].locked = views[v].locked
    BY <2>1 DEF V, ViewStates
  <2> QED BY <1>2, <2>1, <2>2, <2>3, UpsetDisturbs DEF StateRequest
<1>3. ASSUME NEW v \in Views, Drag(v) PROVE Promise!Next
  <2>1. views[v].mapped /\ view_float(views[v]).locked = views[v].locked
    BY <1>0, <1>3, ViewFunctions DEF Drag, Draggable
  <2> QED BY <1>3, <2>1, UpsetDisturbs DEF Drag
<1>4. ASSUME NEW v \in Views, Commit(v) PROVE Promise!Next
  <2>1. views' = [views EXCEPT ![v] = [views[v] EXCEPT !.fit = "fits"]] /\ views[v].mapped
    BY <1>4 DEF Commit
  <2>2. [views[v] EXCEPT !.fit = "fits"].locked = views[v].locked
    BY <1>0 DEF V, ViewStates
  <2>3. /\ DOMAIN views' = DOMAIN views /\ \A u \in Views : u # v => views'[u] = views[u]
        /\ views'[v].locked = views[v].locked /\ v \in Mapped
    BY <1>0, <2>1, <2>2 DEF Mapped
  <2> QED BY <1>4, <2>3, OneDisturbs DEF Commit
<1> QED BY <1>1, <1>2, <1>3, <1>4, ResizeMovesTiles DEF Session

\* The requests of a batch and the one given up are a number.
LEMMA RequestsAreCounted == TypeOK' => Outstanding' \in Nat
<1>1. \A q, l \in Seq(Commands) : Len(q) + Len(l) \in Nat
  OBVIOUS
<1> QED BY <1>1, AbandonedFacts DEF TypeOK, Outstanding

\* An error report, like a new daemon, makes no promise.
LEMMA FaultDoubts ==
  ASSUME TypeOK', UNCHANGED <<views, automatic>>, published'.health \in {"starting", "degraded"}
  PROVE  Promise!Next
<1>1. Windows' = Windows /\ Outstanding' \in Nat
  BY SameWindows, RequestsAreCounted
<1>2. Promise!Doubt
  BY <1>1 DEF Promise!Doubt, Windows
<1> QED BY <1>2 DEF Promise!Next

\* Every step of layoutd, of Labwc and of the session is one that Reconciliation
\* allows, or changes nothing it speaks of.
LEMMA StepIsPromised == IInv /\ TypeOK' /\ [Next]_vars => [Promise!Next]_(Promise!vars)
<1> SUFFICES ASSUME IInv, TypeOK', [Next]_vars PROVE Promise!Next \/ UNCHANGED Promise!vars
  OBVIOUS
<1>1. ASSUME UNCHANGED <<views, automatic, published, queue, late>> PROVE UNCHANGED Promise!vars
  BY <1>1, SameWindows DEF Promise!vars, Windows, Outstanding
<1>2. CASE Tick
  <2>1. PICK dt, ws, p : ObserveHealthy(dt, ws, p) \/ ObservePending(dt, ws, p)
    BY <1>2 DEF Tick, TickAfter
  <2>2. UNCHANGED <<views, automatic>>
    BY <2>1 DEF ObserveHealthy, ObservePending, Observe, compositor
  <2>3. published'.health \in {"starting", "degraded", "healthy"}
    BY <2>1 DEF ObserveHealthy, ObservePending, Report
  <2>4. CASE published'.health = "healthy"
    <3>1. Promise!Settled
      BY <1>2, <2>4, HealthyTick
    <3>2. queue' = << >> /\ late' = << >>
      BY <2>1, <2>4 DEF ObserveHealthy, ObservePending, Observe, Report, IInv, LockInv, NoLonger
    <3>3. Outstanding' = 0
      BY <3>2 DEF Outstanding
    <3>4. Promise!Confirm
      BY <2>2, <2>4, <3>1, <3>3, SameWindows DEF Promise!Confirm, Windows
    <3> QED BY <3>4 DEF Promise!Next
  <2> QED BY <2>2, <2>3, <2>4, FaultDoubts
<1>3. CASE ActionAccepted
  <2>1. Head(queue) \in Commands /\ pc = "apply"
    BY <1>3, TailParts DEF ActionAccepted, Sending, IInv, TypeOK
  <2>2. published.health # "healthy"
    BY <2>1 DEF IInv, LockInv
  <2>3. /\ ~Refused(views[Head(queue).id], Head(queue)) /\ views' = RunAction(Head(queue))
        /\ UNCHANGED <<automatic, published>>
    BY <1>3 DEF ActionAccepted, Refusal
  <2>4. Outstanding' = Outstanding - 1
    <3>1. /\ queue \in Seq(Commands) /\ queue # << >> /\ late \in Seq(Commands)
          /\ queue' = Tail(queue) /\ late' = late
      BY <1>3, AbandonedFacts DEF ActionAccepted, Sending, IInv, TypeOK
    <3>2. Len(queue') = Len(queue) - 1 /\ Len(queue) \in Nat /\ Len(late) \in Nat
      BY <3>1
    <3> QED BY <3>1, <3>2 DEF Outstanding
  <2> QED BY <2>1, <2>2, <2>3, <2>4, ActionEnforces DEF IInv
<1>4. CASE LateAction
  <2>1. late # << >> /\ late \in Seq(Commands) /\ Len(late) = 1
    BY <1>4, AbandonedFacts DEF LateAction, IInv, TypeOK
  <2>2. late[1] \in Commands
    BY <2>1
  <2>3. published.health # "healthy"
    BY <2>1 DEF IInv, LockInv
  <2>4. UNCHANGED <<automatic, published>>
    BY <1>4 DEF LateAction, daemon
  <2>5. views' = IF Refused(views[late[1].id], late[1]) THEN views ELSE RunAction(late[1])
    BY <1>4 DEF LateAction
  <2>6. Outstanding' = Outstanding - 1
    <3>1. late' = << >> /\ queue' = queue /\ Len(queue) \in Nat
      BY <1>4 DEF LateAction, daemon, IInv, TypeOK
    <3> QED BY <2>1, <3>1 DEF Outstanding
  <2>7. CASE Refused(views[late[1].id], late[1])
    <3>1. published.health \in {"starting", "degraded"}
      BY <2>3 DEF IInv, TypeOK, Reports
    <3> QED BY <2>4, <2>5, <2>7, <3>1, FaultDoubts
  <2> QED BY <2>2, <2>3, <2>4, <2>5, <2>6, <2>7, ActionEnforces DEF IInv
<1>5. CASE ActionRefused
  <2>1. UNCHANGED <<views, automatic>> /\ published'.health = "degraded"
    BY <1>5 DEF ActionRefused, BatchFails, Report
  <2> QED BY <2>1, FaultDoubts
<1>6. CASE BatchAccepted
  BY <1>1, <1>6 DEF BatchAccepted, compositor
<1>7. CASE \E dt \in 1..MaxDelay, connected \in BOOLEAN : ObserveFails(dt, connected)
  <2>1. UNCHANGED <<views, automatic>> /\ published'.health = "degraded"
    BY <1>7 DEF ObserveFails, compositor, Report
  <2> QED BY <2>1, FaultDoubts
<1>8. CASE \E connected \in BOOLEAN : ActionLost(connected)
  <2>1. UNCHANGED <<views, automatic>> /\ published'.health = "degraded"
    BY <1>8 DEF ActionLost, BatchFails, Report
  <2> QED BY <2>1, FaultDoubts
<1>9. CASE Restart
  <2>1. UNCHANGED views /\ automatic' \in BOOLEAN /\ published'.health = "starting"
    BY <1>9, ModesAssumption DEF Restart, compositor, DaemonStart, Report
  <2>2. Promise!Reload
    BY <2>1, SameWindows, RequestsAreCounted DEF Promise!Reload, Windows
  <2> QED BY <2>2 DEF Promise!Next
<1>10. CASE Session
  BY <1>10, SessionDisturbs DEF IInv
<1>11. CASE UNCHANGED vars
  BY <1>1, <1>11 DEF vars
<1> QED BY <1>2, <1>3, <1>4, <1>5, <1>6, <1>7, <1>8, <1>9, <1>10, <1>11 DEF Next, Batch, Faults

\* layoutd and Labwc together implement Reconciliation: "healthy" is said only
\* of a session that is laid out and has no request left, and while it stands
\* every change of a window is one of a client, the user or the output.
THEOREM PromiseIsKept == Spec => KeepsPromise
<1>1. Init => Promise!Init
  <2> SUFFICES ASSUME Init PROVE Promise!Init
    OBVIOUS
  <2>1. Mapped = {}
    BY DEF Init, Mapped, Fresh
  <2>2. DOMAIN Windows = {}
    BY <2>1 DEF Windows
  <2>3. automatic \in BOOLEAN /\ published.health = "starting"
    BY ModesAssumption DEF Init, DaemonStart, Report
  <2>4. Outstanding = 0
    BY DEF Init, Outstanding
  <2> QED BY <2>2, <2>3, <2>4 DEF Promise!Init, Windows
<1>2. IInv /\ IInv' /\ [Next]_vars => [Promise!Next]_(Promise!vars)
  BY StepIsPromised DEF IInv
<1> QED BY <1>1, <1>2, Invariance, PTL DEF Spec, KeepsPromise, Promise!Spec

-----------------------------------------------------------------------------
(* The deadline. *)

\* The daemon's own clock runs at least as long as the plan has waited, and
\* "starting" is what it says before that clock reaches the deadline.
ClockInv ==
  /\ pending_since \in {None} \cup 0..Deadline
  /\ waited \in 0..Deadline
  /\ pending_since # None => waited <= pending_since
  /\ published.health = "starting" /\ last_plan # NoPlan =>
       pending_since # None /\ pending_since < Deadline

Constants == Deadline \in Nat /\ Retry \in Nat /\ MaxDelay \in Nat

\* The limits of daemon.timing are numbers.
LEMMA Limits == Constants
BY TimingAssumption DEF Constants

\* A tick that leaves the deadline running adds the same time to both clocks.
LEMMA TickClocks == ClockInv /\ HTick => ClockInv'
<1> SUFFICES ASSUME ClockInv, HTick PROVE ClockInv'
  OBVIOUS
<1>1. PICK dt \in 1..MaxDelay : TickAfter(dt) /\ waited' = Lesser(Waiting(dt), Deadline)
  BY DEF HTick
<1>2. PICK ws, p : ObserveHealthy(dt, ws, p) \/ ObservePending(dt, ws, p)
  BY <1>1 DEF TickAfter
<1>3. dt \in Nat /\ Deadline \in Nat
  BY Limits DEF Constants
<1>4. waited' \in 0..Deadline
  BY <1>1, <1>3 DEF Waiting, Lesser, ClockInv
<1>5. CASE ObserveHealthy(dt, ws, p)
  <2>1. pending_since' = None /\ published'.health = "healthy"
    BY <1>5 DEF ObserveHealthy, Report
  <2> QED BY <1>4, <2>1 DEF ClockInv
<1>6. CASE ObservePending(dt, ws, p)
  <2>1. /\ last_plan' = p
        /\ pending_since' = IF Since(p, dt) = None THEN 0 ELSE Since(p, dt)
        /\ published'.health = IF pending_since' >= Deadline THEN "degraded" ELSE "starting"
    BY <1>6 DEF ObservePending, Observe, Report
  <2>2. /\ pending_since' \in 0..Deadline
        /\ pending_since' = IF p # last_plan \/ pending_since = None THEN 0
                            ELSE Lesser(pending_since + dt, Deadline)
    BY <1>3, <2>1 DEF Since, Later, Lesser, None, ClockInv
  <2>3. waited' <= pending_since'
    <3>1. CASE p # last_plan \/ pending_since = None
      BY <1>1, <1>3, <2>1, <2>2, <3>1 DEF Waiting, Lesser
    <3>2. CASE ~(p # last_plan \/ pending_since = None)
      <4>1. waited' = Lesser(waited + dt, Deadline)
        BY <1>1, <2>1, <3>2 DEF Waiting
      <4>2. waited \in 0..Deadline /\ pending_since \in 0..Deadline /\ waited <= pending_since
        BY <3>2 DEF ClockInv
      <4> QED BY <1>3, <2>2, <3>2, <4>1, <4>2 DEF Lesser
    <3> QED BY <3>1, <3>2
  <2>4. pending_since' # None
    BY <1>3, <2>2 DEF None
  <2>5. published'.health = "starting" => pending_since' < Deadline
    BY <1>3, <2>1, <2>2
  <2> QED BY <1>4, <2>2, <2>3, <2>4, <2>5 DEF ClockInv
<1> QED BY <1>2, <1>5, <1>6

\* An unreadable inventory lets both clocks run and reports degraded.
LEMMA FailureClocks == ClockInv /\ HFails => ClockInv'
<1> SUFFICES ASSUME ClockInv, HFails PROVE ClockInv'
  OBVIOUS
<1>1. PICK dt \in 1..MaxDelay, connected \in BOOLEAN :
        ObserveFails(dt, connected) /\ waited' = Lesser(waited + dt, Deadline)
  BY DEF HFails
<1>2. /\ pending_since' = Later(pending_since, dt, Deadline)
      /\ published'.health = "degraded"
  BY <1>1 DEF ObserveFails, Report
<1>3. dt \in Nat /\ Deadline \in Nat
  BY Limits DEF Constants
<1>4. waited' \in 0..Deadline
  BY <1>1, <1>3 DEF ClockInv, Lesser
<1>5. CASE pending_since = None
  <2>1. pending_since' = None
    BY <1>2, <1>5 DEF Later
  <2> QED BY <1>2, <1>4, <2>1 DEF ClockInv
<1>6. CASE pending_since # None
  <2>1. waited \in 0..Deadline /\ pending_since \in 0..Deadline /\ waited <= pending_since
    BY <1>6 DEF ClockInv
  <2>2. pending_since' = Lesser(pending_since + dt, Deadline)
    BY <1>2, <1>6 DEF Later
  <2>3. pending_since' \in 0..Deadline /\ waited' <= pending_since'
    BY <1>1, <1>3, <2>1, <2>2 DEF Lesser
  <2> QED BY <1>2, <1>4, <2>3 DEF ClockInv
<1> QED BY <1>5, <1>6

\* Batches, late actions and windows touch neither clock.
LEMMA BatchClocks == ClockInv /\ (Batch \/ LateAction \/ Session) /\ UNCHANGED history => ClockInv'
<1> SUFFICES ASSUME ClockInv, Batch \/ LateAction \/ Session, UNCHANGED history PROVE ClockInv'
  OBVIOUS
<1>1. waited' = waited
  BY DEF history
<1>2. CASE ActionAccepted \/ BatchAccepted
  <2>1. UNCHANGED <<pending_since, last_plan, published>>
    BY <1>2 DEF ActionAccepted, BatchAccepted, clocks
  <2> QED BY <1>1, <2>1 DEF ClockInv
<1>3. CASE ActionRefused
  <2>1. UNCHANGED <<pending_since, last_plan>> /\ published'.health = "degraded"
    BY <1>3 DEF ActionRefused, BatchFails, clocks, Report
  <2> QED BY <1>1, <2>1 DEF ClockInv
<1>4. CASE LateAction \/ Session
  <2>1. UNCHANGED daemon
    BY <1>4 DEF LateAction, Session, OpenWindow, CloseWindow, Relabel, StateRequest, Drag,
                CommitStale, Commit, Upset, ResizeOutput
  <2>2. UNCHANGED <<pending_since, last_plan, published>>
    BY <2>1 DEF daemon, clocks
  <2> QED BY <1>1, <2>2 DEF ClockInv
<1> QED BY <1>2, <1>3, <1>4 DEF Batch

\* A lost reply reports degraded; a new daemon has no plan yet.
LEMMA FaultClocks ==
  ASSUME ClockInv,
         \/ (\E connected \in BOOLEAN : ActionLost(connected)) /\ UNCHANGED history
         \/ Restart /\ waited' = 0
  PROVE  ClockInv'
<1>1. CASE (\E connected \in BOOLEAN : ActionLost(connected)) /\ UNCHANGED history
  <2>1. waited' = waited /\ pending_since' = pending_since /\ published'.health = "degraded"
    BY <1>1 DEF history, ActionLost, BatchFails, clocks, Report
  <2> QED BY <2>1 DEF ClockInv
<1>2. CASE Restart /\ waited' = 0
  <2>1. waited' = 0 /\ pending_since' = None /\ last_plan' = NoPlan
    BY <1>2 DEF Restart
  <2>2. 0 \in 0..Deadline
    BY Limits DEF Constants
  <2> QED BY <2>1, <2>2 DEF ClockInv
<1> QED BY <1>1, <1>2

\* run of main.rs: no sequence of batches, errors, window movements and
\* restarts keeps a plan at "starting" once it has waited for the deadline.
THEOREM DeadlineIsKept == HSpec => []DeadlineHolds
<1>1. HInit => ClockInv
  BY Limits DEF Constants, HInit, Init, ClockInv
<1>2. ClockInv /\ [HNext]_<<vars, history>> => ClockInv'
  <2> SUFFICES ASSUME ClockInv, [HNext]_<<vars, history>> PROVE ClockInv'
    OBVIOUS
  <2>1. CASE UNCHANGED <<vars, history>>
    BY <2>1 DEF vars, history, ClockInv
  <2> QED BY <2>1, TickClocks, FailureClocks, BatchClocks, FaultClocks DEF HNext
<1>3. ClockInv => DeadlineHolds
  <2> SUFFICES ASSUME ClockInv, published.health = "starting", last_plan # NoPlan
               PROVE  waited < Deadline
    BY DEF DeadlineHolds
  <2>1. waited \in 0..Deadline /\ pending_since \in 0..Deadline /\ waited <= pending_since
        /\ pending_since < Deadline
    BY DEF ClockInv
  <2> QED BY <2>1, Limits DEF Constants
<1> QED BY <1>1, <1>2, <1>3, PTL DEF HSpec

\* The history variables of LayoutdHistory constrain nothing: what holds of
\* Layoutd holds of it.
THEOREM HistoryOnlyWatches == HSpec => Spec
<1>1. HInit => Init
  BY DEF HInit
<1>2. [HNext]_<<vars, history>> => [Next]_vars
  <2> SUFFICES ASSUME [HNext]_<<vars, history>> PROVE [Next]_vars
    OBVIOUS
  <2>1. CASE UNCHANGED <<vars, history>>
    BY <2>1
  <2>2. CASE HTick
    BY <2>2 DEF HTick, Next, Tick
  <2>3. CASE HFails
    BY <2>3 DEF HFails, Next, Faults
  <2>4. CASE Batch \/ LateAction \/ Session
    BY <2>4 DEF Next
  <2>5. CASE (\E connected \in BOOLEAN : ActionLost(connected)) \/ Restart
    BY <2>5 DEF Next, Faults
  <2> QED BY <2>1, <2>2, <2>3, <2>4, <2>5 DEF HNext
<1> QED BY <1>1, <1>2, PTL DEF HSpec, Spec
=============================================================================

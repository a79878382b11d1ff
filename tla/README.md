# TLA+ model of pelagian-shell

pelagian-shell is a desktop session: the Labwc compositor with a small
downstream patch, and `layoutd`, a daemon that keeps the windows of the session
in one of six layouts.  layoutd is not a window manager.  It reads Labwc's
inventory over a socket, plans, sends a few requests, and reports in a state
file whether the session looks as planned.  What is hard is that everything
happens behind its back: windows come and go between two requests, clients
commit geometry when they like, replies get lost, and the daemon itself is
killed and restarted.

Paths below are relative to the repository (`lib.rs`, `labwc.rs`, `main.rs` and
`runtime.rs` are in `crates/layoutd/src/`, "the patch" is
`labwc/ipc-control.patch`).

## 1. Inventory of the system

| Part | State | Operations | Talks to |
|---|---|---|---|
| Planner, `lib.rs` `plan`, `plan_small_grid` | none | rectangles and region names for 1..6 windows | its rectangles must equal Labwc's regions (`labwc/rc.xml`) |
| Workspace, `lib.rs` | ordered toplevels | `apply` (upsert, remove), `classify`, `plan`; the command batch | fed by the adapter, read by the daemon |
| Labwc adapter, `labwc.rs` | last inventory, pending events, layout state, output | `refresh`, `observe_workspace`, `observe_toplevel`, `convergence_error`, `action`, `apply_commands` | one socket connection per request, 250 ms each |
| Daemon, `main.rs` | plan, two instants, `force_apply`, last report | one loop: observe, plan, compare, report, apply | adapter, state file |
| Runtime state, `runtime.rs` | one JSON file | atomic publication, `status` with a process check | daemon writes, `status` and shellctl read |
| Labwc patch, view side | `pelagian_managed` of a view | `MAXIMIZE`, `SNAP`, `FLOAT`, `UNMANAGE`, `DECORATION`; movement lock; patched `view_maximize` | Labwc's view functions, clients |
| Labwc patch, server side | up to 16 clients with buffer, response and timer; the socket path | accept, read, run, write, expire, hang up; `ipc_init`, `ipc_finish` | event loop of Labwc, other Labwcs at the same path |
| Supervisor, `session/supervise-layoutd` | restart counter, delay, child pid | spawn, record, wait, back off, give up, stop on a signal | daemons, state directory |
| Autostart, `session/autostart_wayland` | none | starts the supervisor unless one runs, waits for the consumer | supervisor, consumer hook, watchdog |
| Configuration, `crates/shellctl` | none | layered TOML resolution and validation | its result is fixed for the life of a daemon |
| Image, integrations | none | file installation, an Electron options merge, a Wine registry import | - |

What must be right about each of them:

- *Planner*: layouts cover the usable area exactly; the two geometry tables
  agree to the pixel, otherwise a plan never converges.
- *Workspace and adapter*: the model is the inventory, each window once, in a
  stable order, however its events were delivered.
- *Daemon and patch*: "healthy" is true when it is said; it is said eventually;
  "starting" has a deadline; errors and restarts leave nothing wrong behind.
- *Supervisor*: one daemon, replaced when it dies, within a budget.
- *Runtime state*: a reader sees a whole report, and one of a living process.
- *IPC server*: no client can hold a slot for ever, no abandoned request runs
  after a newer one, and the socket at the path is that of the Labwc that runs,
  unless two of them start or end at once.
- *Configuration*: each key is that of the highest layer, and the result is one
  the planner can serve.

The hard behaviours are listed with their lines under `hazards` in
`PROJECT.json`.

## 2. Modules

```
LayoutPlan, TitleGlob         <- PureFunctions
PureFunctions, ConfigResolve  <- MCFunctions, ConfigProofs
Workspace   <- Inventory <- MCInventory
                         <- InventoryProofs (with WorkspaceLemmas)
            <- WorkspaceLemmas
Workspace, LabwcView <- Layoutd <- MCLayoutd
                                <- LayoutdHistory <- MCLayoutdHistory
                                                  <- LayoutdProofs (with WorkspaceLemmas)
Reconciliation <- Layoutd (INSTANCE ... WITH)
RequestChannel <- IpcServer <- MCIpcServer, IpcServerProofs
IpcSocket      <- MCIpcSocket, IpcSocketProofs
RuntimeState   <- MCRuntimeState, RuntimeStateProofs
Session        <- MCSession, SessionProofs
```

**LayoutPlan** is the planner as pure operators, with the `u32` products of
`plan_small_grid` wrapping modulo the constant `Word`, and the regions of
`rc.xml` with Labwc's rounding.  A tile is `<<n, k>>`, the k-th of n windows;
`<<1, 1>>` is the maximize request and the others are the named regions.

**Workspace** holds the pure part of the daemon: classification with its rules,
the sub-sequences by class, `workspace_plan`, the command batch, and `Absorb`,
what observing one inventory leaves in the ordered list.  A toplevel is
`[id, face]`: the creation id and everything the rules look at.  A plan is made
for a layout mode: without `automatic` it has no placement.  Title patterns are
the relation `TitleMatches`.

**Inventory** is the same observation event by event: `refresh` as the function
`events`, `pending`, and the two ways of draining it (`drain` is the recursive
function over the queue).  Its invariant
`AbsorbIsTheDrainedRefresh` is what allows `Layoutd` to use `Absorb` in one step.

**LabwcView** is one view as the patch sees it and the effect of every action.
`tile` combines maximized, tiled and region; `fit` says whether the committed
geometry is that of the tile (`fits`), still to be committed (`asked`) or another
one with nothing outstanding (`stale`); `hidden` is minimized or fullscreen;
`full` is full decoration with a visible titlebar; `locked` is
`pelagian_managed`, the only part no inventory shows.

**Layoutd** composes them.  One action is one thing another process can see:

| Action | Code |
|---|---|
| `ObserveHealthy` | an iteration of `run` that ends in the `continue` of `main.rs:115` |
| `ObservePending` | an iteration that reports starting or degraded, and starts a batch if one is due |
| `ObserveFails` | `main.rs:68-79`, no usable inventory |
| `ActionAccepted`, `ActionRefused`, `ActionLost` | one `ACTION` of `apply_commands`: run and acknowledged, refused, or without a usable reply |
| `LateAction` | Labwc runs an `ACTION` whose sender has given it up or died |
| `BatchAccepted` | `main.rs:148` |
| `Restart` | a daemon that died anywhere is replaced: its variables are those of `main.rs:30-41`, and `automatic` is the layout mode of the configuration it resolves then (`main.rs:13-24`), one of `Modes` |
| `OpenWindow`, `CloseWindow`, `Relabel`, `StateRequest`, `Drag`, `CommitStale`, `Commit`, `ResizeOutput` | clients, the user and Labwc, between any two of the above |

An abandoned `ACTION` stays in `late` until Labwc runs it or an inventory is read:
the connection of the `LIST` is newer, and Labwc never runs an older request after
a newer one.  That is the guarantee of `RequestChannel`, which `IpcServer`
implements; without it (`StillLate`) a lock can change under a healthy report.

A closed window keeps its view, and so its lock, and can be mapped again: that
is what Labwc does with an unmapped toplevel.  The adapter's `layout_state` and
`pending` are not variables: `run` compares the plan with the inventory it has
just read, in the same iteration, and drains all events at once.  Instants are
ages that stop counting at the limit they are compared with.  A tick takes 1 to
`MaxDelay` units of 250 ms, because a slow inventory delays it.

**Reconciliation** is what all this promises somebody who sees the windows, the
report and the number of requests under way, but no plan, batch or restart.  A
session is `Settled` when the first `Maximum` managed windows hold the tiles of
one layout, shown, sized, decorated and locked, and the others are free, decorated
and movable.  `Confirm` says "healthy" only of a settled session and only when no
request is left; from then on a window changes in two ways.  `Disturb(v)` is a
client or the user: it changes one window, uses up no request and writes no lock.
`Resize` is the output: it changes how windows fit and nothing else.  A request
that Labwc runs is `Enforce(v)`: it takes one from `requests` and is no step under
a healthy report.  `Layoutd` maps its views to the windows by `Appearance` and
`queue` and `late` to `requests` by `Outstanding`, and implements it
(`KeepsPromise`): a request of layoutd that runs is counted down and so cannot pass
for a disturbance, whatever it does to the window.

**LayoutdHistory** adds two history variables to Layoutd: how long the present
plan has waited, and the order of the tiles in the last inventory planned for.

**Session** is the supervisor script command by command, because its trap runs
between two commands: a stop signal can come at every `line`.  Daemons are
process ids that are alive; `long` is the 60 second test, the only time the
script decides on.  Under `set -e` a write of a state file that fails ends the
script wherever it is (`WriteFails`), and can lose the status.  `failures` is a
history variable.

**RequestChannel** is what the adapter's `request()` relies on: requests run one
after the other in the order they were sent, each at most once, and an answered
one has run; an abandoned one may still run, but never after a newer one.

**IpcServer** is the implementation: connections, the backlog of the listening
socket, and Labwc's event loop.  `Poll` is libwayland collecting a batch of ready
sources *with the conditions they had then*; the handlers run one by one, and
clients connect, write, close and die between any two.  So a client can be read
after its peer has closed: what protects the order is that the peer had not closed
when the batch was collected.  `ReadPart` to `WriteReply` are the branches of
`ipc_client_event`, `Listen` and what conjoins it the branches of
`ipc_listen_readable`, `Expire` the timer.  A batch is unordered, which includes
libwayland's order.  `sent`, `outcome` and `ran` are the variables of the channel.

**IpcSocket** is `ipc_init` and `ipc_finish` call by call for several Labwcs that
use one path.  `step` is the next system call; a process can die or a call fail
at each, the `unlink` of an error path or of `ipc_finish` included.  Nothing in the
code keeps two of them from starting or ending at once, and nothing in the module
does.  Two history variables say what happened: `met` has those that began or ended
while another one did, `found` whose socket answered when one started.

**PureFunctions** drives the two pure algorithms of `lib.rs`, each over its own
inputs.

**RuntimeState** is the state file.  `step` walks through `write_runtime_state`;
`file` and `temp` are the contents on disk, `synced` what a power failure spares.
`published` is what the report closure remembers: nothing after the first write of
a daemon, which comes before the closure.  A status command reads the
file, and compares the stored id with the processes afterwards.  `run`, `boot`,
`interrupted` and `collisions` are ghosts.  The `Layoutd` report is one `health`
here, since only the change of a report matters to the file.

**TitleGlob** has `glob_matches` with its offsets, and `GlobMatches`, the usual
meaning of a pattern.  The pairs it accepts are the constant `TitleMatches` of
Workspace.

**ConfigResolve** is `resolve` over files that change between two resolutions.  A
drop-in is its place in lexical order; `listing` is the order of the directory.
A patch is a record of what it sets; keys with a single legal value are left out.

## 3. Runs

The daemon, its batch, the server and the supervisor never stop by design, so
the runs check for deadlock; only `ipc_socket`, where each Labwc runs once and
ends, does not.

| Run | Instance | Question |
|---|---|---|
| `functions` | 8 widths x 4 heights, 1..6 windows, `Word` 4096; 2 letters, patterns to 5, titles to 4; 3 drop-ins, one not `.toml`, 6 patches, 3 defaults | do the layouts tile the output, do planner and regions agree; what does `glob_matches` accept and miss; which layer `resolve` follows, what it refuses and that it masks no defect |
| `inventory` | 3 windows, 2 faces, every inventory | does draining events keep the model exact and in order, and is `Absorb` that drain |
| `layoutd` | 3 windows over a maximum of 2, editor, dialog or panel, 2 outputs, both modes, 4 upsets | types; locks, model and windows behind a healthy report, with overflow, promotion, ignored windows and changes of mode; stable order; the deadline; refinement of `Reconciliation` |
| `layoutd_live` | 3 windows, editor or dialog, 2 outputs, both modes, ticks of 1 or 2, 3 upsets, the third region of three missing, fairness | healthy in the end, or degraded when the region is missing |
| `session` | budget 5 as in the script, 2 signals, 1 failing write, 3 pids, fairness | backoff, budget, one daemon, replacement |
| `ipc_server` | 3 requests, 1 other client, 2 slots, backlog 2, 1 fault, fairness | client count, batches, refinement of the channel; lockouts end, waiting ends, what was never accepted never runs |
| `ipc_socket` | 3 Labwcs in any interleaving, 2 failing calls | the path leads to the one that serves; what answered is not removed; stale sockets are replaced |
| `runtime_state` | 4 pids, 2 reports, 1 fault, 1 status command, 1 container restart, fairness | whole, current on disk, leftovers cost one start, running means written by the one that runs, published in the end |
| `restart_order` | 2 windows, 5 upsets | *violated*: restart keeps the order |
| `hidden_floating` | 2 windows, 3 upsets | *violated*: floating windows are shown |
| `stop_terminates_child` | as `session` | *violated*: stop kills the child |
| `socket_overlap` | 2 Labwcs, no failing call | *violated*: only stale sockets are replaced |

`KeepsPromise` is the specification of the daemon.  It does not mention plans or
batches, only what a user sees.  `HealthyMeansSettled` is its core, an action
property of ticks because a window may move the moment after a healthy report;
the refinement adds that no request of layoutd changes a window in any way under
such a report, which an abandoned one would do if Labwc could run it late
(`StillLate`), and that clients and the user write no lock.
`LockFollowsPlan` is an invariant:
a healthy report stays true about locks until it is replaced, since only
layoutd's own actions write them.

*Bounds.*  Two windows are the smallest number with a layout of two regions, a
layout of one and an order to lose; three over a maximum of two make overflow and
promotion beside a full layout.  The maximum itself is compared in one place and
larger layouts differ only in the planner, which `functions` takes through all
six.  An upset is one thing nobody asked for: a window event, an unreadable
inventory, a lost reply or a restart.  Four of them are two windows opening and
two faults in any place, or three windows and one; the three of `layoutd_live`
are a pair and one fault, or three windows that cannot be placed.  The proofs have
no such bound, and the counterexamples need at most five, two of them for opening.
An abandoned action is at most one: another batch needs an inventory first.
`Deadline` 3 and `Retry` 2 keep the order of 5 s and 1 s against the tick, with a
retry inside the deadline.  With a region of three missing, one instance has
layouts that can be placed (one window, two, float mode) and one that cannot.

A request abandoned in a slot and a silent stranger fill two slots, three requests let an abandoned
one, its successor and one more be in backlog, batch and socket at once; 16 slots
are compared in one place, and a response in two parts stands for one in many.
Three Labwcs are one that leaves a stale socket, one that replaces it and one that
comes in between; two are enough for the overlap.  Four pids are two daemons that leave files, one that collides
with them and a status command.  Patterns of five characters have two pieces
between three stars, or three pieces.  The word of `functions` is small so that
TLC could reach the wrap of the product with 100; the theorem has no such bound.

*Fairness.*  `WF(Tick)` and `WF(Batch)`: the loop of `run` has no exit but an
error, each request has a deadline of its own, and the supervisor replaces the
process.  `WF(Commit(v))`: a client commits the size it is asked for, unless one
of the bounded upsets makes it commit another one; `docs/reference-runtime.md:18`
requires recovery from exactly such a client once it accepts resizes.  Upsets
are finite: a window that moves for ever is never still enough to be healthy.
`WF(Supervise)`: the shell goes on executing its script.  In `IpcServer`,
`WF(Loop)` and `WF(Expire(c))` say that Labwc is not stuck and its timers fire,
`WF(Adapter)` that a waiting `request()` takes the steps it can; its timeout is
*not* fair, so `EveryRequestEnds` does not rest on it.  In `RuntimeState`,
`WF(Start)` is the supervisor (within its budget) and `WF(Publication)` the
straight line of system calls.  No other action is fair: windows need not open,
signals need not come, other clients need not write or leave.

## 4. Where the code and its documents disagree

- **Order after a restart** (`restart_order`).  A window that is unmapped and
  mapped again goes to the end of the workspace; a restarted daemon sorts by
  creation id, and so swaps the tiles.  `docs/reference-runtime.md:16` promises
  a restart without reordering.
- **Hidden floating windows** (`hidden_floating`).  `convergence_error` does not
  look at minimized and fullscreen of floating windows and `FLOAT` does not reset
  them, so a healthy session can have a floating window nobody sees; compare
  `tests/consumer-conformance/verify-shell-session.py:60` and
  `docs/layoutd.md:35`.
- **Stop between spawn and pid** (`stop_terminates_child`).  A signal handled
  between lines 31 and 32 of `session/supervise-layoutd` leaves the daemon alive;
  `docs/layoutd.md:29` says that stopping terminates the child.
- **Two Labwcs at once** (`socket_overlap`).  Between `bind` and `listen` a socket
  refuses connections as a stale one does.  A second Labwc that probes it then
  unlinks the path two calls later, when the first one already listens: the first
  serves a socket nobody can reach.  `ipc_finish` is exposed in the same way, since
  it closes before it unlinks and unlinks by name: a Labwc that starts in between
  loses its socket to the one that ends.  `docs/compositor-adapter.md:12` says the
  socket "replaces only a stale same-user socket after refusing a live endpoint".
  What does hold in every interleaving is that a Labwc removes no socket that
  answered when it started (`LiveEndpointIsRefused`); that the path leads to the
  one that serves needs that no two have met (`ServingIsReachable`).

Not disagreements that a run shows, but good to know:

- `glob_matches` takes the first occurrence of every piece, the last one
  included, so `a*b` does not match `abxb`.  No document defines title patterns.
  `functions` shows that it accepts no title it should not, and which ones it
  misses.
- A supervisor that cannot write the pid of the daemon it has just spawned ends and
  leaves it running, and the next run of autostart starts another one beside it.
  `OneDaemon` therefore speaks of sessions in which no such write has failed.
- The state file outlives the container and process ids begin anew, so until a new
  daemon has written, `status` can show the report of the previous container.
  `PidIdentity` allows that, and says that nothing else is ever taken for the
  running daemon's report.

## 5. Proofs

All proofs hold for every value of the constants under the assumptions stated
next to their declaration: `Views` is a set of naturals with a largest element, there is a face and a mode,
`Maximum` is 1..6 (what the configuration accepts), rules are a finite list and
dispose of a window in one of three ways, outputs are naturals, the timing constants are positive, installed tiles are among those of six layouts,
the `None` of `RuntimeState` is neither a process id, a report nor a file, the
wildcard of title patterns is no character of a title, and the contents of
configuration files are those serde decodes, apart from the markers for an absent
and an undecodable file.

**LayoutdProofs.**  `TypeCorrect`, `ModelIsExact` and `LocksFollowPlan`, from the
inductive invariant `IInv == TypeOK /\ ModelMirrorsInventory /\ LockInv`.

`LockFollowsPlan` alone is not inductive: a healthy report says nothing about how
the locks became right, and the step that publishes it sends no command.  The
locks become right during a batch, one action at a time, while windows move and
close.  `LockInv` follows the batch: inside it, every lock of the plan is right
or its command is still in the queue (`LocksOnTheWay`), and all commands of the
queue are the plan's; a finished batch has an empty queue, so the locks are right
when `force_apply` is cleared; and while `force_apply` is clear they stay right,
because only commands write locks.  That one action does not undo another's lock
needs tiled, floating and ignored windows of a plan to be different ones, which
rests on the workspace listing each window once: `ModelMirrorsInventory`, kept by
`AbsorbMirrors`.  Failures, lost replies and restarts set `force_apply`, so they
promise nothing; an action that runs late finds `force_apply` set, and is gone
before it is cleared.

`HealthyIsTrue` and `PromiseIsKept` add what a tick compares.  A plan is a list of
ids by position in the workspace, `Settled` counts windows on the screen; they
meet in `ClassMembers` and `PlanShape`: the windows of a class in the plan are
exactly the mapped windows of that class, each once, so the plan has as many
placements as the layout has tiles, and `convergence_error` finding every one of
them in its tile makes the tiles of the windows those of the layout.  Decoration
and place are what the tick has just read, the locks come from `LockInv`.  The
refinement then goes step by step: ticks and failures confirm or doubt, a restart
reloads, an action enforces one window and takes one from `Outstanding`, and a
request that runs late does too, because `late` holds at most one and is empty as
long as the report is healthy; each step of a window, a client or the user disturbs
one window (`OneDisturbs`, `UpsetDisturbs`), and a new size of the output moves
tiles (`ResizeMovesTiles`).

`OrderIsKept` follows from `AbsorbKeepsOrder`.  `DeadlineIsKept` is
`DeadlineHolds` for every deadline, retry interval and delay.  `waited` is not a
variable of the daemon, so the invariant compares it with the one that is:
`ClockInv` says that `pending_since` runs at least as long as the plan has
waited, and that "starting" is only said below the deadline of that clock.
`HistoryOnlyWatches` carries the theorems about `Layoutd` over to `LayoutdHistory`.

**InventoryProofs.**  All properties of `Inventory`.  `drain` is defined by
recursion over a queue of any length, so the first lemmas show that this recursion
has a solution and only one (`DrainRuns`, `RunsAgree`), by induction in the form
of the least number that is not reached; a queue can then be cut in two
(`DrainConcat`).  One refresh is its upserts followed by its removals.
`Updated` and `Reduced` say what the workspace is after the first k of them, with
the order it may have: old windows as they were, new ones behind them by id.  Two
lists of the same windows whose orders do not conflict are equal
(`SameOrderSameList`), which is how `Absorb`, a closed form with sub-sequences by
position, is shown to be that drain.  The invariant of the specification is that
the workspace *after* what is pending mirrors what is known; one event per call
moves an event from the second to the first and leaves the sum alone.

**WorkspaceLemmas** has the facts about the operators: the k-th element of a
finite set, sub-sequences by position, `Absorb` preserves `Mirrors` and the order,
the parts of a plan are disjoint and complete, a batch asks for all of the plan
and nothing else.

**ConfigProofs** goes from the files to the tiles.  `LayoutsCoverExactly` and
`PlannerAgreesWithRegions`: on every output with `width * 100` and `height * 2`
below the word, the layouts of one to six windows stay inside the output, cover
each pixel exactly once, and are the boxes of `rc.xml`; `PlacementsAlwaysTile` and
`PlannerAlwaysMatchesRegions` say so of every call of `PureFunctions`.

`AcceptsOnlyDescribedTitles` and `MissesOnlyRepeats` are about patterns and titles
of any length.  `glob_matches` speaks of pieces and offsets, `GlobMatches` of one
cut per character; between them stands `Placed`, pieces put somewhere in the title
one behind the other.  By induction over the prefixes of a pattern, the title can
be cut there if and only if the pieces so far can be placed with the right end
(`ReachBack`, `ReachOn`, `MatchIsCut`).  By induction over the pieces, the offsets
of the code are such a placement and end no later than any other
(`OffsetsAreGreedy`).  So what the code accepts is a match; and where there is a
match that it misses, its pieces fit but end early, which leaves the last piece two
places to be in.

`HighestLayerAlwaysWins`, `HighestRuleAlwaysWins`, `RefusalsHaveADefect` and
`DefectsAreRefused`: all of `ConfigResolve`, for any number of drop-ins.  The invariant `Directory` says
that a file is listed once and nothing else is, which `InsertAt` and `RemoveAt`
keep, and from which the collected names can be sorted (`SortedNames`, by
insertion into an ascending list).  The four properties speak of the highest file
of those that set a key, the code of one layer after the other: `Reflects(c, R)`
says what a configuration looks like that has been layered from the files of the
ranks `R`, `LayerStep` adds a rank above all of them, and `LayeredReflects` counts
up to all the drop-ins; layering stops if and only if one of the files has a defect,
which gives the last two.
`AcceptedMaximumIsTiled` joins both halves: for every count of windows up to the
maximum of an accepted configuration, the planner covers exactly every output whose
products fit the word.

**SessionProofs.**  `SessionTyped`, `PausesDouble`, `GivesUpOnBudget` and
`AtMostOneDaemon` for every budget.  The budget rests on the counter of the script
being one ahead of the failed restarts it stands for, which a long run resets on
both sides; the single daemon on the last child being the only one, alive only
between its spawn and its reaping, as long as no signal has come and no write has
failed.  The pause is a
power of two for every length of a row of failures: `PowerStep` gets
`2 ^ (n + 1) = 2 * 2 ^ n` from the number of subsets of a set with one element
more.

**IpcServerProofs.**  `ServerTyped`, `ClientsAreCounted`,
`ServerImplementsChannel` and `AbandonedStayUnrun`, for any number of requests,
clients, slots, backlog and failures.  The refinement mapping
is the identity on `sent`, `outcome` and `ran`; the step that needs an argument is
`Run`: the request must be newer than all that have run.  `NewestInv` carries it:
a client of the batch without a hang-up was still open when the batch was
collected, every earlier request had closed by then, so it was the newest
(`PollStep`); no newer one can join the batch, and what runs from the batch
leaves it.  `EndsInv` and `RanInv` tie the ends of the connections to the
requests; `CountInv` needs `BacklogInv`, since a connection accepted twice would
be counted twice.  An abandoned request has closed its end before it joins a
batch, so it is in every later one with a hang-up and never runs (`UnreadInv`,
`Abandoned`); the property says `[]` of a later `[]`, and is proved from a step
that keeps `Abandoned(n)` for each n.

**IpcSocketProofs.**  `LiveEndpointStays`, `RefusedOnlyIfServed` and
`ServerIsReachable`, for any number of Labwcs and failing calls in any
interleaving.  The first rests on the path being bound once by each process: what
answered when another one started can come back to the path neither between that
one's probe and its `unlink` nor after its `bind` (`FoundInv`).  The second is about
each Labwc that met no other, whatever the rest did: busy processes have met each
other (`BusyHaveMet`), and only busy processes change the path, so what such a one
has seen there is still there (`ProbeInv`).  The third is about sessions in which
nobody met anybody (`NobodyMet`), and says so in the property.

**RuntimeStateProofs.**  `ReportsAreWhole`, `RememberedIsOnDisk`,
`LeftoversAreUsedUp` and `RunningIsCurrent`, for any processes, reports, faults
and container starts.  `StepInv` follows the temporary file of the daemon call by
call: what is renamed is its own report, whole and synced, which also carries the
first theorem over a power failure.  `LeftoverInv` counts: collisions and the
temporary files nobody owns are together no more than the daemons interrupted so
far, since a collision removes the file it met.  `FreshInv` is what identity rests
on: within one start of the container a process id stands for one process, so a
report of this start with the daemon's pid was written by the daemon itself, and
none has the pid of the status command that reads it.

*Only model-checked*: liveness (`EventuallyHealthy`, `ReportSettles`,
`DaemonIsReplaced`, `SlotsAreFreed`, `EveryRequestEnds`, `EventuallyPublished`),
which is out of this prover's reach.  Recursion over data is proved here with an
instance of its own induction each time (the least number not yet reached), so
the recursive operators are all recursive functions.

## 6. Not modelled

JSON encoding and decoding (a bad inventory is `ObserveFails`); the wording of
errors; focus, which no plan depends on; several outputs (the adapter takes the
first); the output mode set by autostart; the image; the integrations.  The
budget of the supervisor is in `Session`, not in `Layoutd`, whose `Restart` is
bounded by the upsets only.  A signal to the supervisor before its trap is
installed ends it without a child and is left out.  A daemon that restarts reads
the layout mode again; its maximum and its window rules are those of the whole
behaviour, though the files they come from could have changed as well.

*IpcServer*: libwayland and the kernel's sockets are external; what a request does
to a window is `Layoutd`'s.  Compositor restarts end with the session.
*RuntimeState*: a rename is taken for durable once it has returned, although the
directory is not synced; pids are not reused within one start of a container;
two daemons at once, which `stop_terminates_child` shows to be possible, are left
out.  *ConfigResolve*: the check of the profile name, the list of sources, keys
whose schema has one value, and rendering; shellctl's `status` prints the
configuration beside what `layoutd status` answers and keeps no state.

## 7. Plan

Done: the planner, the workspace with its title patterns, the adapter's diff, the
daemon with the patch's actions, the server and its socket, the state file, the
supervisor, the configuration; the request channel as an abstract specification
that the server implements and the daemon uses; the promise of the daemon as
another that it implements; a theorem for every invariant and every safety
property of a run that passes.

Left: the parts of §6.  The next ones worth a module are two daemons on one state
file, which `stop_terminates_child` shows to be possible, and a rename that a power
failure can undo.

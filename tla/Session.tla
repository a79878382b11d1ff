------------------------------- MODULE Session -------------------------------
(***************************************************************************)
(* The processes of a session: autostart_wayland, the layoutd supervisor   *)
(* (session/supervise-layoutd) and the daemons it spawns.                  *)
(*                                                                         *)
(* The supervisor is a shell script: a trapped signal is handled between   *)
(* two of its commands, so its steps are its commands, and `line` names    *)
(* the one it runs next.  Times are left out except for the one the        *)
(* program decides on: whether a run of the daemon lasted 60 seconds.      *)
(***************************************************************************)
EXTENDS Integers, FiniteSets

CONSTANTS
  Processes,     \* process ids a daemon can get
  MaxRestarts,   \* 5 in the script
  MaxSignals,    \* how many stop signals a session sees
  MaxFaults      \* how many writes of the supervisor's state files fail

ASSUME BudgetAssumption == MaxRestarts \in Nat /\ MaxSignals \in Nat /\ MaxFaults \in Nat

VARIABLES
  line,          \* "spawn", "record", "wait", "backoff" or "gone"
  restarts,      \* the supervisor's counter
  delay,         \* seconds of the next backoff
  child,         \* the shell's $!: the process spawned last
  layoutd_pid,   \* the child that stop() kills, or Nobody
  long,          \* the present run of the daemon has lasted 60 seconds
  alive,         \* daemons running
  status,        \* layoutd-supervisor.status
  consumer,      \* "running" or "exited"
  signals,       \* stop signals left
  faults,        \* failing writes left
  failures       \* history: restarted runs in a row that died early

supervisor == <<restarts, delay, child, layoutd_pid, long>>
vars == <<line, supervisor, alive, status, consumer, signals, faults, failures>>

Nobody == 0

Init ==
  /\ line = "spawn" /\ restarts = 0 /\ delay = 1
  /\ child = Nobody /\ layoutd_pid = Nobody /\ long = FALSE
  /\ alive = {} /\ status = "none"
  /\ consumer = "running"
  /\ signals = MaxSignals /\ faults = MaxFaults /\ failures = 0

-----------------------------------------------------------------------------
(* The supervisor. *)

Spawn ==
  /\ line = "spawn" /\ line' = "record"
  /\ child' \in Processes \ alive
  /\ alive' = alive \cup {child'}
  /\ long' = FALSE
  /\ UNCHANGED <<restarts, delay, layoutd_pid, status, consumer, signals, faults, failures>>

Record ==
  /\ line = "record" /\ line' = "wait"
  /\ layoutd_pid' = child
  /\ status' = "running"
  /\ UNCHANGED <<restarts, delay, child, long, alive, consumer, signals, faults, failures>>

\* Mutant: a run of 60 seconds does not give the budget back.
BudgetUsed == restarts

\* The restarts used so far, as they count when the daemon has died.
RestartsUsed == IF long THEN 0 ELSE restarts
BackoffDelay == IF long THEN 1 ELSE delay

\* History: the first run of a supervisor and a long run are no failed restart.
CountFailure == failures' = IF long THEN 0 ELSE IF restarts = 0 THEN failures ELSE failures + 1

GiveUp ==
  /\ line = "wait" /\ layoutd_pid \notin alive
  /\ RestartsUsed >= MaxRestarts
  /\ line' = "gone" /\ status' = "failed"
  /\ layoutd_pid' = Nobody
  /\ CountFailure
  /\ UNCHANGED <<restarts, delay, child, long, alive, consumer, signals, faults>>

\* Mutant: `set -e` ends the script when wait returns the status of a crash.
ExitsWithTheDaemon ==
  /\ line = "wait" /\ layoutd_pid \notin alive
  /\ RestartsUsed < MaxRestarts
  /\ line' = "gone"
  /\ UNCHANGED <<supervisor, alive, status, consumer, signals, faults, failures>>

\* Mutant: the budget is never checked before a restart.
ReapForever ==
  /\ line = "wait" /\ layoutd_pid \notin alive
  /\ line' = "backoff" /\ status' = "backoff"
  /\ layoutd_pid' = Nobody
  /\ restarts' = RestartsUsed + 1 /\ delay' = BackoffDelay
  /\ CountFailure
  /\ UNCHANGED <<child, long, alive, consumer, signals, faults>>

Reap ==
  /\ line = "wait" /\ layoutd_pid \notin alive
  /\ RestartsUsed < MaxRestarts
  /\ line' = "backoff" /\ status' = "backoff"
  /\ layoutd_pid' = Nobody
  /\ restarts' = RestartsUsed + 1 /\ delay' = BackoffDelay
  /\ CountFailure
  /\ UNCHANGED <<child, long, alive, consumer, signals, faults>>

\* Mutant: the delay grows by a second at a time.
LinearBackoff ==
  /\ line = "backoff" /\ line' = "spawn"
  /\ delay' = delay + 1
  /\ UNCHANGED <<restarts, child, layoutd_pid, long, alive, status, consumer, signals, faults, failures>>

BackoffEnds ==
  /\ line = "backoff" /\ line' = "spawn"
  /\ delay' = delay * 2
  /\ UNCHANGED <<restarts, child, layoutd_pid, long, alive, status, consumer, signals, faults, failures>>

\* A write fails; the redirection has emptied the file before, or not.
Fault == faults > 0 /\ faults' = faults - 1
StatusLost == Fault /\ status' \in {status, "none"}

\* `set -e`: the script ends at the first write that fails, of its restarts, of
\* the pid of a daemon that goes on, or of what it has waited for.
WriteFails ==
  /\ line \in {"spawn", "record"} \/ (line = "wait" /\ layoutd_pid \notin alive)
  /\ StatusLost /\ line' = "gone"
  /\ UNCHANGED <<supervisor, alive, consumer, signals, failures>>

\* stop(), the trap of HUP, INT and TERM: kill the child it knows and wait for it.
Stop ==
  /\ line # "gone" /\ line' = "gone"
  /\ signals > 0 /\ signals' = signals - 1
  /\ alive' = alive \ {layoutd_pid}
  /\ StatusLost \/ (status' = "stopped" /\ UNCHANGED faults)
  /\ UNCHANGED <<supervisor, consumer, failures>>

-----------------------------------------------------------------------------
(* The daemons and autostart_wayland. *)

\* A crash, a kill or the exit of a daemon on an error of run.
Die(p) ==
  /\ p \in alive /\ alive' = alive \ {p}
  /\ UNCHANGED <<line, supervisor, status, consumer, signals, faults, failures>>

SixtySeconds ==
  /\ line = "wait" /\ layoutd_pid \in alive
  /\ long' = TRUE
  /\ UNCHANGED <<line, restarts, delay, child, layoutd_pid, alive, status, consumer,
                 signals, faults, failures>>

\* autostart waits for the consumer hook and exits with it.
ConsumerExits ==
  /\ consumer = "running" /\ consumer' = "exited"
  /\ UNCHANGED <<line, supervisor, alive, status, signals, faults, failures>>

StartSupervisor ==
  /\ line' = "spawn" /\ restarts' = 0 /\ delay' = 1
  /\ child' = Nobody /\ layoutd_pid' = Nobody /\ long' = FALSE
  /\ failures' = 0

\* Mutant: autostart starts a supervisor without looking for a running one.
AutostartUnchecked ==
  /\ consumer = "exited" /\ consumer' = "running"
  /\ StartSupervisor
  /\ UNCHANGED <<alive, status, signals, faults>>

\* The watchdog reruns autostart, which starts a supervisor if pgrep finds none.
Autostart ==
  /\ consumer = "exited" /\ consumer' = "running"
  /\ IF line = "gone" THEN StartSupervisor ELSE UNCHANGED <<line, supervisor, failures>>
  /\ UNCHANGED <<alive, status, signals, faults>>

Supervise == Spawn \/ Record \/ GiveUp \/ Reap \/ BackoffEnds
Next == \/ Supervise \/ Stop \/ WriteFails
        \/ \E p \in Processes : Die(p)
        \/ SixtySeconds \/ ConsumerExits \/ Autostart

\* The shell keeps executing its commands.
Spec == Init /\ [][Next]_vars /\ WF_vars(Supervise)

-----------------------------------------------------------------------------
(* Properties. *)

TypeOK ==
  /\ line \in {"spawn", "record", "wait", "backoff", "gone"}
  /\ restarts \in 0..MaxRestarts /\ delay \in Nat
  /\ child \in Processes \cup {Nobody} /\ layoutd_pid \in Processes \cup {Nobody}
  /\ long \in BOOLEAN /\ alive \subseteq Processes
  /\ status \in {"none", "running", "backoff", "failed", "stopped"}
  /\ consumer \in {"running", "exited"}
  /\ signals \in 0..MaxSignals /\ faults \in 0..MaxFaults /\ failures \in 0..MaxRestarts

\* docs/layoutd.md:29: the pauses are 1, 2, 4, 8 and 16 seconds, and start
\* again at 1 after a run of 60 seconds; the delay, kept apart from the
\* counter and changed elsewhere, never drifts from it.
BackoffDoubles == line = "backoff" => delay = 2 ^ (restarts - 1)

\* docs/layoutd.md:29: exactly five failed restarts in a row exhaust the
\* budget; the first run and every run of 60 seconds are not counted.  (One that
\* could not write its state leaves whatever an earlier supervisor wrote.)
BudgetIsFailedRestarts ==
  [][line # "gone" /\ line' = "gone" /\ status' = "failed" /\ faults' = faults
       => failures' = MaxRestarts]_vars

\* README.md:7: consumers that exit and are rerun by the watchdog never get
\* the session a second daemon, as long as no supervisor has been stopped or
\* has lost its state files, and with them its daemon.
OneDaemon == signals = MaxSignals /\ faults = MaxFaults => Cardinality(alive) <= 1

\* A daemon that is not running is replaced, unless its supervisor said that
\* it was stopped or has failed, or could not say so.
DaemonIsReplaced ==
  alive = {} ~> \/ alive # {}
                \/ line = "gone" /\ (status \in {"stopped", "failed"} \/ faults < MaxFaults)

\* docs/layoutd.md:29: "Stopping the supervisor terminates its child."
StopTerminatesChild == [][Stop => child \notin alive']_vars
=============================================================================

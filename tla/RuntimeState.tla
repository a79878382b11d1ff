---------------------------- MODULE RuntimeState ----------------------------
(***************************************************************************)
(* The state file: how layoutd publishes its report (write_runtime_state,  *)
(* and the report closure of run) and how `pelagian-layoutd status` reads  *)
(* it (runtime_status_json).  Daemons are killed between any two system    *)
(* calls and replaced, one at a time, by the supervisor.  The state        *)
(* directory outlives the container; process ids are handed out anew.      *)
(***************************************************************************)
EXTENDS Naturals

CONSTANTS
  Pids,        \* process ids of layoutd processes, daemons and status commands
  None,        \* no file, no report
  Healths,     \* what a report can say
  MaxFaults,   \* kills and failed system calls
  MaxAsks,     \* status commands
  MaxBoots     \* starts of the container after the first

\* Reports, with the run and the container of their daemon, and files.
Reports == [pid : Pids, health : Healths, run : Nat, boot : Nat]
Files == [body : {"part", "whole"}, synced : BOOLEAN, report : Reports]

ASSUME RuntimeAssumption ==
  /\ None \notin Pids \cup Reports \cup Files
  /\ {"starting", "healthy"} \subseteq Healths
  /\ MaxFaults \in Nat /\ MaxAsks \in Nat /\ MaxBoots \in Nat

VARIABLES
  file,        \* layoutd.json: None or [body, synced, report]
  temp,        \* tmp-<pid> of every pid: None or the same
  pid,         \* the daemon's, None when there is none
  step,        \* the system call of write_runtime_state it makes next, or "idle"
  health,      \* the report it is publishing
  published,   \* the last report the closure has published, None before that
  asking,      \* the status command's pid, None when there is none
  read,        \* the report it has read
  shown,       \* its last answer: [running, current, report]
  asks,        \* status commands so far
  used,        \* pids of this start of the container
  run, boot,   \* ghosts: how many daemons and containers there have been
  interrupted, \* ghost: daemons that ended before their file was renamed or removed
  collisions,  \* ghost: daemons that failed because of one
  faults       \* faults left

daemon == <<pid, step, health, published, run>>
disk == <<file, temp>>
status == <<asking, read, shown, asks>>
ghosts == <<interrupted, collisions>>
vars == <<disk, daemon, status, used, boot, ghosts, faults>>

Stopped == [running |-> FALSE, current |-> FALSE, report |-> None]

Init ==
  /\ file = None /\ temp = [p \in Pids |-> None]
  /\ pid = None /\ step = "idle" /\ health = "starting" /\ published = None
  /\ asking = None /\ read = None /\ shown = Stopped /\ asks = 0
  /\ used = {} /\ run = 0 /\ boot = 0
  /\ interrupted = 0 /\ collisions = 0 /\ faults = MaxFaults

Fault == faults > 0 /\ faults' = faults - 1

-----------------------------------------------------------------------------
(* The daemon. *)

\* The supervisor starts a daemon, whose first act is to publish "starting".
Start ==
  /\ pid = None
  /\ \E p \in Pids \ used : pid' = p /\ used' = used \cup {p}
  /\ step' = "create" /\ health' = "starting" /\ published' = None
  /\ run' = run + 1
  /\ UNCHANGED <<disk, status, boot, ghosts, faults>>

\* The report closure writes what differs from the last report.
Publish(h) ==
  /\ pid # None /\ step = "idle" /\ published # h
  /\ step' = "create" /\ health' = h
  /\ UNCHANGED <<disk, pid, published, run, status, used, boot, ghosts, faults>>

At(s) == pid # None /\ step = s

Report == [pid |-> pid, health |-> health, run |-> run, boot |-> boot]

Create ==
  /\ At("create") /\ temp[pid] = None
  /\ temp' = [temp EXCEPT ![pid] = [body |-> "part", synced |-> FALSE, report |-> Report]]
  /\ step' = "write"
  /\ UNCHANGED <<file, pid, health, published, run, status, used, boot, ghosts, faults>>

\* create_new finds the file of an earlier process with the same id.
CreateCollides ==
  /\ At("create") /\ temp[pid] # None
  /\ step' = "remove" /\ collisions' = collisions + 1
  /\ UNCHANGED <<disk, pid, health, published, run, status, used, boot, interrupted, faults>>

\* Mutant: the file is not synced before it is renamed.
WriteWithoutSync ==
  /\ At("write")
  /\ temp' = [temp EXCEPT ![pid].body = "whole"]
  /\ step' = "rename"
  /\ UNCHANGED <<file, pid, health, published, run, status, used, boot, ghosts, faults>>

Write ==
  /\ At("write")
  /\ temp' = [temp EXCEPT ![pid].body = "whole"]
  /\ step' = "sync"
  /\ UNCHANGED <<file, pid, health, published, run, status, used, boot, ghosts, faults>>

Sync ==
  /\ At("sync")
  /\ temp' = [temp EXCEPT ![pid].synced = TRUE]
  /\ step' = "rename"
  /\ UNCHANGED <<file, pid, health, published, run, status, used, boot, ghosts, faults>>

\* The first write of a daemon comes before the closure, which remembers only
\* its own and so writes "starting" once more.
FirstWrite == file = None \/ file.report.run # run

Rename ==
  /\ At("rename")
  /\ file' = temp[pid] /\ temp' = [temp EXCEPT ![pid] = None]
  /\ step' = "idle" /\ published' = IF FirstWrite THEN None ELSE health
  /\ UNCHANGED <<pid, health, run, status, used, boot, ghosts, faults>>

CallFails ==
  /\ \E s \in {"create", "write", "sync", "rename"} : At(s)
  /\ Fault /\ step' = "remove"
  /\ UNCHANGED <<disk, pid, health, published, run, status, used, boot, ghosts>>

\* The daemon is no more, and what it remembered is forgotten.
Ends == pid' = None /\ step' = "idle" /\ health' = "starting" /\ published' = None

\* Mutant: a failed publication ends the daemon and leaves its file.
ExitOnly ==
  /\ At("remove")
  /\ Ends
  /\ UNCHANGED <<disk, run, status, used, boot, ghosts, faults>>

\* Mutant: a failed publication is ignored.
CarryOn ==
  /\ At("remove")
  /\ temp' = [temp EXCEPT ![pid] = None]
  /\ step' = "idle" /\ published' = health
  /\ UNCHANGED <<file, pid, health, run, status, used, boot, ghosts, faults>>

\* Whatever failed, the temporary file is removed, the error is returned
\* through the closure and run, and the daemon exits.
Remove ==
  /\ At("remove")
  /\ temp' = [temp EXCEPT ![pid] = None]
  /\ Ends
  /\ UNCHANGED <<file, run, status, used, boot, ghosts, faults>>

\* The daemon ends between the creation of its temporary file and its removal.
Midway == pid # None /\ step \in {"write", "sync", "rename", "remove"}
CountMidway == interrupted' = interrupted + (IF Midway THEN 1 ELSE 0)

\* It is killed; or create_dir_all fails, before anything is created; or the
\* failed publication cannot even remove the file.
Kill ==
  /\ pid # None /\ Fault
  /\ Ends /\ CountMidway
  /\ UNCHANGED <<disk, run, status, used, boot, collisions>>

-----------------------------------------------------------------------------
(* The status command. *)

\* It reads the file, whatever the daemon is doing.
Ask ==
  /\ asking = None /\ asks < MaxAsks
  /\ \E p \in Pids \ used : asking' = p /\ used' = used \cup {p}
  /\ read' = IF file # None /\ file.body = "whole" THEN file.report ELSE None
  /\ asks' = asks + 1
  /\ UNCHANGED <<disk, daemon, shown, boot, ghosts, faults>>

\* Mutant: a stored report is taken for that of a running daemon.
AnyProcess == read # None

\* process_is_layoutd: a process with the stored id runs this executable.
IsLayoutd == read # None /\ read.pid \in {pid, asking}

Answer ==
  /\ asking # None
  /\ shown' = [running |-> IsLayoutd,
               current |-> pid # None /\ read # None /\ read.run = run,
               report |-> read]
  /\ asking' = None /\ read' = None
  /\ UNCHANGED <<disk, daemon, used, boot, asks, ghosts, faults>>

-----------------------------------------------------------------------------
\* What a power failure leaves of a file.
Torn(f) == IF f # None /\ ~f.synced THEN [f EXCEPT !.body = "part"] ELSE f

\* The container starts again: every process is gone and every id is free.
\* The host may have lost what was not synced; a rename is taken for durable.
Boot ==
  /\ boot < MaxBoots /\ boot' = boot + 1
  /\ Ends /\ asking' = None /\ read' = None /\ shown' = Stopped
  /\ used' = {} /\ CountMidway
  /\ \/ UNCHANGED disk
     \/ file' = Torn(file) /\ temp' = [p \in Pids |-> Torn(temp[p])]
  /\ UNCHANGED <<run, asks, collisions, faults>>

-----------------------------------------------------------------------------
Publication ==
  Create \/ CreateCollides \/ Write \/ Sync \/ Rename \/ Remove

Next ==
  \/ Start \/ (\E h \in Healths : Publish(h)) \/ Publication \/ CallFails \/ Kill
  \/ Ask \/ Answer
  \/ Boot

Spec == Init /\ [][Next]_vars

\* The supervisor replaces a dead daemon, and a daemon makes its system calls.
FairSpec == Spec /\ WF_vars(Start) /\ WF_vars(Publication)

-----------------------------------------------------------------------------
(* Properties. *)

\* A reader that opens the file at any moment, also after a power failure,
\* finds a whole report or none (runtime.rs:98).
WholeReports == file # None => file.body = "whole"

\* What the closure remembers as published is what the file says, although
\* calls fail and daemons are killed and leave temporary files: a report that
\* is skipped because nothing changed is on disk (main.rs:49).
PublishedIsOnDisk ==
  pid # None /\ step = "idle" /\ published # None =>
    file # None /\ file.report = [pid |-> pid, health |-> published, run |-> run, boot |-> boot]

\* A temporary file left behind stops one later daemon that gets the same pid,
\* and no second one (runtime.rs:98).
LeftoverStopsOneStart == collisions <= interrupted

\* As long as the container runs, a report shown as running was written by
\* the daemon that runs: not by one that was killed and replaced since, and
\* not by one whose id the status command itself has (runtime.rs:155).
PidIdentity == shown.running /\ ~shown.current => shown.report.boot < boot

\* In the end the file holds a report of the daemon that runs: no sequence of
\* kills, failed calls, leftovers and restarts stops publication for good.
EventuallyPublished == <>[](pid # None /\ file # None /\ file.report.run = run)
=============================================================================

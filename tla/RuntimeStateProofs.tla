------------------------- MODULE RuntimeStateProofs -------------------------
(***************************************************************************)
(* Proofs about the state file, for any processes, reports and bounds: the *)
(* file is whole, it is what the daemon remembers, a report shown as       *)
(* running is the running daemon's, and a file left behind stops one       *)
(* daemon.                                                                 *)
(***************************************************************************)
EXTENDS RuntimeState, FiniteSets, FiniteSetTheorems, TLAPS

Steps == {"idle", "create", "write", "sync", "rename", "remove"}

Typed ==
  /\ file \in Files \cup {None} /\ temp \in [Pids -> Files \cup {None}]
  /\ pid \in Pids \cup {None} /\ asking \in Pids \cup {None}
  /\ read \in Reports \cup {None}
  /\ step \in Steps /\ health \in Healths
  /\ run \in Nat /\ boot \in Nat /\ used \subseteq Pids

\* What has been renamed was written and synced before.
FileInv == file # None => file.body = "whole" /\ file.synced

\* How far the temporary file of the daemon is, and what an idle daemon has
\* achieved.
StepInv ==
  pid # None =>
    /\ step \in {"write", "sync", "rename"} => temp[pid] # None /\ temp[pid].report = Report
    /\ step \in {"sync", "rename"} => temp[pid].body = "whole"
    /\ step = "rename" => temp[pid].synced
    /\ step = "idle" => PublishedIsOnDisk

\* Within one start of the container, an id stands for one process.
IdsInv ==
  /\ pid # None => pid \in used /\ pid # asking
  /\ asking # None => asking \in used

\* A report of this start of the container has an id that was given out, and
\* if it is the daemon's, this daemon wrote it; no status command has it.
Fresh(r) ==
  /\ r.boot <= boot
  /\ r.boot = boot => r.pid \in used /\ r.pid # asking /\ (r.pid = pid => r.run = run)

FreshInv ==
  /\ file # None => Fresh(file.report)
  /\ \A p \in Pids : temp[p] # None => Fresh(temp[p].report)
  /\ read # None => Fresh(read)

IInv == Typed /\ FileInv /\ StepInv /\ IdsInv /\ FreshInv /\ PidIdentity

-----------------------------------------------------------------------------
\* It holds at the start.
LEMMA InitSafe == Init => IInv
BY RuntimeAssumption DEF Init, IInv, Typed, FileInv, StepInv, IdsInv, FreshInv, PidIdentity,
     Stopped, Steps

\* A new daemon has an id that no report of this container start names.
LEMMA StartSafe == IInv /\ Start => IInv'
<1> SUFFICES ASSUME IInv, Start PROVE IInv'
  OBVIOUS
<1>1. PICK p \in Pids \ used : pid' = p /\ used' = used \cup {p}
  BY DEF Start
<1>2. /\ pid = None /\ step' = "create" /\ health' = "starting" /\ run' = run + 1
      /\ UNCHANGED <<file, temp, asking, read, shown, boot>>
  BY DEF Start, disk, status
<1>3. Typed'
  BY <1>1, <1>2, RuntimeAssumption DEF IInv, Typed, Steps
<1>4. FileInv' /\ StepInv' /\ PidIdentity'
  BY <1>1, <1>2 DEF IInv, FileInv, StepInv, PidIdentity
<1>5. IdsInv'
  BY <1>1, <1>2, RuntimeAssumption DEF IInv, Typed, IdsInv
<1>6. ASSUME NEW r \in Reports, Fresh(r) PROVE Fresh(r)'
  BY <1>1, <1>2, <1>6 DEF Fresh
<1>7. FreshInv'
  BY <1>2, <1>6 DEF IInv, Typed, FreshInv, Files
<1> QED BY <1>3, <1>4, <1>5, <1>7 DEF IInv

\* What every step of a daemon that stays alive leaves alone.
Alive == pid # None /\ pid' = pid /\ UNCHANGED <<run, boot, used, asking, read, shown>>

\* Such a step keeps the ids and, if it writes nobody else's report, freshness.
LEMMA AliveSafe ==
  ASSUME IInv, Alive, Typed',
         file' # None => file' = file \/ file' = temp[pid],
         \A p \in Pids : temp'[p] # None =>
           \/ temp[p] # None /\ temp'[p].report = temp[p].report
           \/ temp'[p].report = Report
  PROVE  IdsInv' /\ FreshInv' /\ PidIdentity'
<1>1. /\ pid \in Pids /\ pid \in used /\ pid # asking
      /\ pid' = pid /\ run' = run /\ boot' = boot /\ used' = used /\ asking' = asking
      /\ read' = read /\ shown' = shown /\ run \in Nat /\ boot \in Nat
  BY DEF Alive, IInv, Typed, IdsInv
<1>2. IdsInv' /\ PidIdentity'
  BY <1>1 DEF IInv, IdsInv, PidIdentity
<1>3. ASSUME NEW r, Fresh(r) PROVE Fresh(r)'
  BY <1>1, <1>3 DEF Fresh
<1>4. Fresh(Report)
  BY <1>1 DEF Fresh, Report
<1>5. ASSUME file' # None PROVE Fresh(file.report)'
  <2>1. CASE file' = file
    BY <1>3, <1>5, <2>1 DEF IInv, FreshInv, Fresh
  <2>2. CASE file' = temp[pid]
    BY <1>1, <1>3, <1>5, <2>2 DEF IInv, FreshInv, Fresh
  <2> QED BY <1>5, <2>1, <2>2
<1>6. ASSUME NEW p \in Pids, temp'[p] # None PROVE Fresh(temp[p].report)'
  <2>1. CASE temp[p] # None /\ temp'[p].report = temp[p].report
    BY <1>3, <2>1 DEF IInv, FreshInv, Fresh
  <2>2. CASE temp'[p].report = Report
    BY <1>3, <1>4, <2>2 DEF Fresh
  <2> QED BY <1>6, <2>1, <2>2
<1>7. read' # None => Fresh(read)'
  BY <1>1, <1>3 DEF IInv, FreshInv, Fresh
<1> QED BY <1>2, <1>5, <1>6, <1>7 DEF FreshInv

\* The calls of write_runtime_state, one by one.
LEMMA CallSafe ==
  ASSUME IInv,
         \/ \E h \in Healths : Publish(h)
         \/ Create \/ CreateCollides \/ Write \/ Sync \/ Rename \/ CallFails
  PROVE  IInv'
<1>0. /\ temp \in [Pids -> Files \cup {None}] /\ pid \in Pids \cup {None} /\ health \in Healths
      /\ run \in Nat /\ boot \in Nat
  BY DEF IInv, Typed
<1>1. ASSUME NEW h \in Healths, Publish(h) PROVE IInv'
  <2>1. Alive /\ step' = "create" /\ health' = h /\ UNCHANGED <<file, temp>>
    BY <1>1 DEF Publish, Alive, disk, status
  <2>2. Typed'
    BY <2>1 DEF IInv, Typed, Alive, Steps
  <2>3. FileInv' /\ StepInv'
    BY <2>1 DEF IInv, FileInv, StepInv, Alive
  <2> QED BY <1>0, <2>1, <2>2, <2>3, AliveSafe DEF IInv
<1>2. CASE Create
  <2>1. /\ Alive /\ step' = "write" /\ health' = health /\ file' = file
        /\ temp' = [temp EXCEPT ![pid] = [body |-> "part", synced |-> FALSE, report |-> Report]]
    BY <1>2 DEF Create, At, Alive, status
  <2>2. pid \in Pids /\ [body |-> "part", synced |-> FALSE, report |-> Report] \in Files
    BY <1>0, <2>1 DEF Files, Reports, Report, Alive
  <2>3. temp'[pid].report = Report /\ temp'[pid] # None
        /\ \A p \in Pids \ {pid} : temp'[p] = temp[p]
    BY <1>0, <2>1, <2>2, RuntimeAssumption
  <2>4. Typed'
    BY <2>1, <2>2 DEF IInv, Typed, Alive, Steps
  <2>5. FileInv' /\ StepInv'
    BY <2>1, <2>3 DEF IInv, FileInv, StepInv, Alive, Report
  <2> QED BY <2>1, <2>3, <2>4, <2>5, AliveSafe DEF IInv
<1>3. CASE CreateCollides \/ CallFails
  <2>1. Alive /\ step' = "remove" /\ health' = health /\ UNCHANGED <<file, temp>>
    BY <1>3 DEF CreateCollides, CallFails, At, Alive, disk, status
  <2>2. Typed'
    BY <2>1 DEF IInv, Typed, Alive, Steps
  <2>3. FileInv' /\ StepInv'
    BY <2>1 DEF IInv, FileInv, StepInv, Alive
  <2> QED BY <1>0, <2>1, <2>2, <2>3, AliveSafe DEF IInv
<1>4. CASE Write
  <2>1. /\ Alive /\ step = "write" /\ step' = "sync" /\ health' = health /\ file' = file
        /\ temp' = [temp EXCEPT ![pid].body = "whole"]
    BY <1>4 DEF Write, At, Alive, status
  <2>2. pid \in Pids /\ temp[pid] \in Files /\ temp[pid].report = Report
    BY <1>0, <2>1 DEF IInv, StepInv, Alive
  <2>3. /\ temp'[pid] \in Files /\ temp'[pid].report = Report /\ temp'[pid].body = "whole"
        /\ \A p \in Pids \ {pid} : temp'[p] = temp[p]
    BY <1>0, <2>1, <2>2 DEF Files
  <2>4. Typed'
    BY <2>1, <2>2, <2>3 DEF IInv, Typed, Alive, Steps
  <2>5. FileInv' /\ StepInv'
    BY <2>1, <2>3, RuntimeAssumption DEF IInv, FileInv, StepInv, Alive, Report
  <2> QED BY <2>1, <2>3, <2>4, <2>5, AliveSafe DEF IInv
<1>5. CASE Sync
  <2>1. /\ Alive /\ step = "sync" /\ step' = "rename" /\ health' = health /\ file' = file
        /\ temp' = [temp EXCEPT ![pid].synced = TRUE]
    BY <1>5 DEF Sync, At, Alive, status
  <2>2. pid \in Pids /\ temp[pid] \in Files /\ temp[pid].report = Report
        /\ temp[pid].body = "whole"
    BY <1>0, <2>1 DEF IInv, StepInv, Alive
  <2>3. /\ temp'[pid] \in Files /\ temp'[pid].report = Report /\ temp'[pid].body = "whole"
        /\ temp'[pid].synced = TRUE
        /\ \A p \in Pids \ {pid} : temp'[p] = temp[p]
    BY <1>0, <2>1, <2>2 DEF Files
  <2>4. Typed'
    BY <2>1, <2>2, <2>3 DEF IInv, Typed, Alive, Steps
  <2>5. FileInv' /\ StepInv'
    BY <2>1, <2>3, RuntimeAssumption DEF IInv, FileInv, StepInv, Alive, Report
  <2> QED BY <2>1, <2>3, <2>4, <2>5, AliveSafe DEF IInv
<1>6. CASE Rename
  <2>1. /\ Alive /\ step = "rename" /\ step' = "idle" /\ health' = health
        /\ published' \in {None, health} /\ file' = temp[pid] /\ temp' = [temp EXCEPT ![pid] = None]
    BY <1>6 DEF Rename, At, Alive, status
  <2>2. /\ pid \in Pids /\ temp[pid] \in Files /\ temp[pid] # None
        /\ temp[pid].report = Report /\ temp[pid].body = "whole" /\ temp[pid].synced
    BY <1>0, <2>1 DEF IInv, StepInv, Alive
  <2>3. temp'[pid] = None /\ \A p \in Pids \ {pid} : temp'[p] = temp[p]
    BY <1>0, <2>1, <2>2
  <2>4. Typed'
    BY <2>1, <2>2, <2>3 DEF IInv, Typed, Alive, Steps
  <2>5. FileInv' /\ StepInv'
    BY <2>1, <2>2 DEF FileInv, StepInv, PublishedIsOnDisk, Alive, Report
  <2> QED BY <2>1, <2>3, <2>4, <2>5, AliveSafe DEF IInv
<1> QED BY <1>1, <1>2, <1>3, <1>4, <1>5, <1>6

\* A daemon that ends, its temporary file removed or not, promises nothing.
LEMMA EndSafe == IInv /\ (Remove \/ Kill) => IInv'
<1> SUFFICES ASSUME IInv, Remove \/ Kill PROVE IInv'
  OBVIOUS
<1>1. /\ pid' = None /\ step' = "idle" /\ health' = "starting"
      /\ UNCHANGED <<file, run, asking, read, shown, used, boot>>
      /\ temp' = temp \/ temp' = [temp EXCEPT ![pid] = None]
  BY DEF Remove, Kill, Ends, disk, status
<1>2. \A p \in Pids : temp'[p] = temp[p] \/ temp'[p] = None
  BY <1>1 DEF IInv, Typed
<1>3. Typed'
  BY <1>1, RuntimeAssumption DEF IInv, Typed, Steps
<1>4. FileInv' /\ StepInv' /\ IdsInv' /\ PidIdentity'
  BY <1>1 DEF IInv, FileInv, StepInv, IdsInv, PidIdentity
<1>5. ASSUME NEW r \in Reports, Fresh(r) PROVE Fresh(r)'
  BY <1>1, <1>5, RuntimeAssumption DEF Fresh, Reports
<1>6. FreshInv'
  BY <1>1, <1>2, <1>5 DEF IInv, Typed, FreshInv, Files
<1> QED BY <1>3, <1>4, <1>6 DEF IInv

\* A status command has an id of its own.
LEMMA AskSafe == IInv /\ Ask => IInv'
<1> SUFFICES ASSUME IInv, Ask PROVE IInv'
  OBVIOUS
<1>1. PICK p \in Pids \ used : asking' = p /\ used' = used \cup {p}
  BY DEF Ask
<1>2. /\ UNCHANGED <<file, temp, pid, step, health, published, run, shown, boot>>
      /\ read' = None \/ (file # None /\ read' = file.report)
  BY DEF Ask, disk, daemon
<1>3. Typed'
  BY <1>1, <1>2 DEF IInv, Typed, Files
<1>4. FileInv' /\ StepInv' /\ PidIdentity'
  BY <1>2 DEF IInv, FileInv, StepInv, PidIdentity, PublishedIsOnDisk, Report
<1>5. IdsInv'
  BY <1>1, <1>2 DEF IInv, IdsInv
<1>6. ASSUME NEW r \in Reports, Fresh(r) PROVE Fresh(r)'
  BY <1>1, <1>2, <1>6 DEF Fresh
<1>7. FreshInv'
  BY <1>2, <1>6 DEF IInv, Typed, FreshInv, Files
<1> QED BY <1>3, <1>4, <1>5, <1>7 DEF IInv

\* What it answers: only an id of this container start is that of a process,
\* and then the report is the daemon's.
LEMMA AnswerSafe == IInv /\ Answer => IInv'
<1> SUFFICES ASSUME IInv, Answer PROVE IInv'
  OBVIOUS
<1>1. /\ UNCHANGED <<file, temp, pid, step, health, published, run, used, boot>>
      /\ asking \in Pids /\ asking' = None /\ read' = None
      /\ shown' = [running |-> IsLayoutd,
                   current |-> pid # None /\ read # None /\ read.run = run,
                   report |-> read]
  BY DEF Answer, disk, daemon, IInv, Typed
<1>2. Typed'
  BY <1>1 DEF IInv, Typed
<1>3. FileInv' /\ StepInv' /\ IdsInv'
  BY <1>1, RuntimeAssumption DEF IInv, Typed, FileInv, StepInv, IdsInv, PublishedIsOnDisk, Report
<1>4. ASSUME NEW r \in Reports, Fresh(r) PROVE Fresh(r)'
  BY <1>1, <1>4, RuntimeAssumption DEF Fresh, Reports
<1>5. FreshInv'
  BY <1>1, <1>4 DEF IInv, Typed, FreshInv, Files
<1>6. ASSUME IsLayoutd, ~(pid # None /\ read # None /\ read.run = run) PROVE read.boot < boot
  <2>1. read \in Reports /\ read # None /\ read.pid \in {pid, asking} /\ Fresh(read)
    BY <1>6 DEF IsLayoutd, IInv, Typed, FreshInv
  <2>2. read.pid \in Pids /\ read.boot \in Nat /\ boot \in Nat
    BY <2>1 DEF Reports, IInv, Typed
  <2>3. read.boot # boot
    BY <1>6, <2>1, <2>2, RuntimeAssumption DEF Fresh
  <2> QED BY <2>1, <2>2, <2>3 DEF Fresh
<1>7. PidIdentity'
  BY <1>1, <1>6 DEF PidIdentity
<1> QED BY <1>2, <1>3, <1>5, <1>7 DEF IInv

\* A new container gives its ids out again; what was not synced may be lost,
\* but the reports in the files are older.
LEMMA BootSafe == IInv /\ Boot => IInv'
<1> SUFFICES ASSUME IInv, Boot PROVE IInv'
  OBVIOUS
<1>1. /\ pid' = None /\ step' = "idle" /\ health' = "starting" /\ asking' = None /\ read' = None
      /\ shown' = Stopped /\ used' = {} /\ boot' = boot + 1 /\ run' = run
      /\ \/ file' = file /\ temp' = temp
         \/ file' = Torn(file) /\ temp' = [p \in Pids |-> Torn(temp[p])]
  BY DEF Boot, Ends, disk
<1>2. ASSUME NEW f \in Files \cup {None}
      PROVE  /\ Torn(f) \in Files \cup {None}
             /\ Torn(f) # None => f # None /\ Torn(f).report = f.report
             /\ f # None /\ f.synced => Torn(f) = f
  BY <1>2, RuntimeAssumption DEF Torn, Files
<1>3. /\ file \in Files \cup {None} /\ \A p \in Pids : temp[p] \in Files \cup {None}
      /\ boot \in Nat
  BY DEF IInv, Typed
<1>4. Typed'
  BY <1>1, <1>2, <1>3, RuntimeAssumption DEF IInv, Typed, Steps
<1>5. FileInv'
  BY <1>1, <1>2, <1>3 DEF IInv, FileInv, Torn
<1>6. StepInv' /\ IdsInv' /\ PidIdentity'
  BY <1>1 DEF StepInv, IdsInv, PidIdentity, Stopped
<1>7. ASSUME NEW r \in Reports, Fresh(r) PROVE Fresh(r)'
  BY <1>1, <1>3, <1>7 DEF Fresh, Reports
<1>8. /\ file' # None => file # None /\ file'.report = file.report
      /\ \A p \in Pids : temp'[p] # None => temp[p] # None /\ temp'[p].report = temp[p].report
  BY <1>1, <1>2, <1>3
<1>9. FreshInv'
  BY <1>1, <1>3, <1>7, <1>8 DEF IInv, FreshInv, Files
<1> QED BY <1>4, <1>5, <1>6, <1>9 DEF IInv

-----------------------------------------------------------------------------
(* Files left behind.  A daemon that ends midway leaves at most one, and a *)
(* daemon that collides with one takes it with it.                         *)

\* The temporary files no process is working on.
Abandoned == {p \in Pids : temp[p] # None /\ ~(Midway /\ p = pid)}

LeftoverInv ==
  /\ IsFiniteSet(Abandoned)
  /\ collisions \in Nat /\ interrupted \in Nat
  /\ Cardinality(Abandoned) + collisions <= interrupted

\* A step that leaves nothing new behind and counts nothing.
LEMMA NoNewLeftover ==
  ASSUME LeftoverInv, Abandoned' \subseteq Abandoned, UNCHANGED ghosts
  PROVE  LeftoverInv'
<1>1. /\ IsFiniteSet(Abandoned') /\ Cardinality(Abandoned') <= Cardinality(Abandoned)
      /\ Cardinality(Abandoned) \in Nat /\ Cardinality(Abandoned') \in Nat
  BY FS_Subset, FS_CardinalityType DEF LeftoverInv
<1> QED BY <1>1 DEF LeftoverInv, ghosts

\* A collision is with a file that is no longer left behind afterwards.
LEMMA CollisionUsesUp == IInv /\ LeftoverInv /\ CreateCollides => LeftoverInv'
<1> SUFFICES ASSUME IInv, LeftoverInv, CreateCollides PROVE LeftoverInv'
  OBVIOUS
<1>1. /\ pid \in Pids /\ pid # None /\ step = "create" /\ temp[pid] # None /\ pid' = pid /\ step' = "remove"
      /\ temp' = temp /\ collisions' = collisions + 1 /\ interrupted' = interrupted
  BY DEF CreateCollides, At, IInv, Typed, disk
<1>2. pid \in Abandoned /\ Abandoned' = Abandoned \ {pid}
  <2>1. ~Midway /\ Midway'
    BY <1>1 DEF Midway
  <2>2. \A p : p \in Abandoned <=> p \in Pids /\ temp[p] # None
    BY <2>1 DEF Abandoned
  <2>3. \A p : p \in Abandoned' <=> p \in Pids /\ temp[p] # None /\ p # pid
    BY <1>1, <2>1 DEF Abandoned
  <2> QED BY <1>1, <2>2, <2>3
<1>3. /\ IsFiniteSet(Abandoned') /\ Cardinality(Abandoned') = Cardinality(Abandoned) - 1
      /\ Cardinality(Abandoned) \in Nat /\ Cardinality(Abandoned') \in Nat
  BY <1>2, FS_RemoveElement, FS_CardinalityType DEF LeftoverInv
<1> QED BY <1>1, <1>3 DEF LeftoverInv

\* A daemon that ends midway leaves its own file and no other.
LEMMA EndLeavesOne == IInv /\ LeftoverInv /\ (Kill \/ Boot) => LeftoverInv'
<1> SUFFICES ASSUME IInv, LeftoverInv, Kill \/ Boot PROVE LeftoverInv'
  OBVIOUS
<1>1. /\ pid' = None /\ CountMidway /\ collisions' = collisions
      /\ temp' = temp \/ temp' = [p \in Pids |-> Torn(temp[p])]
  BY DEF Kill, Boot, Ends, disk
<1>2. \A p \in Pids : temp'[p] # None => temp[p] # None
  BY <1>1 DEF Torn
<1>3. CASE Midway
  <2>1. Abandoned' \subseteq Abandoned \cup {pid}
    BY <1>2 DEF Abandoned
  <2>2. interrupted' = interrupted + 1
    BY <1>1, <1>3 DEF CountMidway
  <2>3. /\ IsFiniteSet(Abandoned \cup {pid})
        /\ Cardinality(Abandoned \cup {pid}) <= Cardinality(Abandoned) + 1
        /\ Cardinality(Abandoned) \in Nat
    <3>1. IsFiniteSet(Abandoned) /\ Cardinality(Abandoned) \in Nat
      BY FS_CardinalityType DEF LeftoverInv
    <3>2. /\ IsFiniteSet(Abandoned \cup {pid})
          /\ \/ Cardinality(Abandoned \cup {pid}) = Cardinality(Abandoned)
             \/ Cardinality(Abandoned \cup {pid}) = Cardinality(Abandoned) + 1
      BY <3>1, FS_AddElement
    <3> QED BY <3>1, <3>2
  <2>4. /\ IsFiniteSet(Abandoned') /\ Cardinality(Abandoned') \in Nat
        /\ Cardinality(Abandoned') <= Cardinality(Abandoned \cup {pid})
    BY <2>1, <2>3, FS_Subset, FS_CardinalityType
  <2>5. Cardinality(Abandoned \cup {pid}) \in Nat
    BY <2>3, FS_CardinalityType
  <2> QED BY <1>1, <2>2, <2>3, <2>4, <2>5 DEF LeftoverInv
<1>4. CASE ~Midway
  <2>1. Abandoned' \subseteq Abandoned
    BY <1>2, <1>4 DEF Abandoned
  <2>2. UNCHANGED ghosts
    BY <1>1, <1>4 DEF CountMidway, ghosts, LeftoverInv
  <2> QED BY <2>1, <2>2, NoNewLeftover
<1> QED BY <1>3, <1>4

\* The other calls: the file a daemon creates is its own until it is renamed
\* or removed.
LEMMA CallsLeaveNone ==
  ASSUME IInv, LeftoverInv, Create \/ Write \/ Sync \/ Rename \/ Remove \/ CallFails
  PROVE  LeftoverInv'
<1>1. /\ pid \in Pids /\ pid # None /\ temp \in [Pids -> Files \cup {None}]
      /\ UNCHANGED ghosts
  BY DEF Create, Write, Sync, Rename, Remove, CallFails, At, IInv, Typed, ghosts
<1>2. CASE Create \/ Write \/ Sync
  <2>1. pid' = pid /\ step' \in {"write", "sync", "rename"}
        /\ \A p \in Pids \ {pid} : temp'[p] = temp[p]
    BY <1>1, <1>2 DEF Create, Write, Sync
  <2>2. Abandoned' \subseteq Abandoned
    BY <1>1, <2>1 DEF Abandoned, Midway
  <2> QED BY <1>1, <2>2, NoNewLeftover
<1>3. CASE Rename \/ Remove
  <2>1. temp' = [temp EXCEPT ![pid] = None]
    BY <1>3 DEF Rename, Remove
  <2>2. temp'[pid] = None /\ \A p \in Pids \ {pid} : temp'[p] = temp[p]
    BY <1>1, <2>1
  <2>3. Abandoned' \subseteq Abandoned
    BY <2>2 DEF Abandoned
  <2> QED BY <1>1, <2>3, NoNewLeftover
<1>4. CASE CallFails
  <2>1. temp' = temp /\ pid' = pid /\ step' = "remove"
    BY <1>4 DEF CallFails, disk
  <2>2. Abandoned' \subseteq Abandoned
    BY <1>1, <2>1 DEF Abandoned, Midway
  <2> QED BY <1>1, <2>2, NoNewLeftover
<1> QED BY <1>2, <1>3, <1>4

\* Nor does a step that touches no file.
LEMMA OthersLeaveNone ==
  ASSUME LeftoverInv,
         Start \/ (\E h \in Healths : Publish(h)) \/ Ask \/ Answer \/ UNCHANGED vars
  PROVE  LeftoverInv'
<1>1. temp' = temp /\ UNCHANGED ghosts
  BY DEF Start, Publish, Ask, Answer, vars, disk
<1>2. Midway => Midway' /\ pid' = pid
  BY DEF Start, Publish, Ask, Answer, vars, daemon, Midway
<1>3. Abandoned' \subseteq Abandoned
  BY <1>1, <1>2 DEF Abandoned
<1> QED BY <1>1, <1>3, NoNewLeftover

-----------------------------------------------------------------------------
(* The theorems. *)

\* IInv is inductive: every system call, kill, status command and container
\* start keeps it.
THEOREM Invariance == Spec => []IInv
<1>1. IInv /\ [Next]_vars => IInv'
  <2> SUFFICES ASSUME IInv, [Next]_vars PROVE IInv'
    OBVIOUS
  <2>1. CASE Start
    BY <2>1, StartSafe
  <2>2. CASE (\E h \in Healths : Publish(h)) \/ Create \/ CreateCollides \/ Write \/ Sync
             \/ Rename \/ CallFails
    BY <2>2, CallSafe
  <2>3. CASE Remove \/ Kill
    BY <2>3, EndSafe
  <2>4. CASE Ask
    BY <2>4, AskSafe
  <2>5. CASE Answer
    BY <2>5, AnswerSafe
  <2>6. CASE Boot
    BY <2>6, BootSafe
  <2>7. CASE UNCHANGED vars
    BY <2>7 DEF vars, disk, daemon, status, ghosts, IInv, Typed, FileInv, StepInv, IdsInv,
                FreshInv, Fresh, PidIdentity, PublishedIsOnDisk, Report
  <2> QED BY <2>1, <2>2, <2>3, <2>4, <2>5, <2>6, <2>7 DEF Next, Publication
<1> QED BY <1>1, InitSafe, PTL DEF Spec

\* write_runtime_state: a reader finds a whole report or none, after kills,
\* failed calls and power failures (runtime.rs:98-112).
THEOREM ReportsAreWhole == Spec => []WholeReports
<1>1. IInv => WholeReports
  BY DEF IInv, FileInv, WholeReports
<1> QED BY <1>1, Invariance, PTL

\* The report closure of main.rs: what an idle daemon remembers as published
\* is what the file says.
THEOREM RememberedIsOnDisk == Spec => []PublishedIsOnDisk
<1>1. IInv => PublishedIsOnDisk
  BY DEF IInv, StepInv, PublishedIsOnDisk
<1> QED BY <1>1, Invariance, PTL

\* runtime_status_json: a report shown as running is that of the daemon that
\* ran, unless another container wrote it.
THEOREM RunningIsCurrent == Spec => []PidIdentity
<1>1. IInv => PidIdentity
  BY DEF IInv
<1> QED BY <1>1, Invariance, PTL

\* write_runtime_state with create_new: a temporary file left behind stops one
\* later daemon and no second one (runtime.rs:98-112).
THEOREM LeftoversAreUsedUp == Spec => []LeftoverStopsOneStart
<1>1. Init => LeftoverInv
  <2> SUFFICES ASSUME Init PROVE LeftoverInv
    OBVIOUS
  <2>1. Abandoned = {}
    BY DEF Init, Abandoned
  <2>2. collisions = 0 /\ interrupted = 0
    BY DEF Init
  <2> QED BY <2>1, <2>2, FS_EmptySet DEF LeftoverInv
<1>2. IInv /\ LeftoverInv /\ [Next]_vars => LeftoverInv'
  <2> SUFFICES ASSUME IInv, LeftoverInv, [Next]_vars PROVE LeftoverInv'
    OBVIOUS
  <2>1. CASE Create \/ Write \/ Sync \/ Rename \/ Remove \/ CallFails
    BY <2>1, CallsLeaveNone
  <2>2. CASE CreateCollides
    BY <2>2, CollisionUsesUp
  <2>3. CASE Kill \/ Boot
    BY <2>3, EndLeavesOne
  <2>4. CASE Start \/ (\E h \in Healths : Publish(h)) \/ Ask \/ Answer \/ UNCHANGED vars
    BY <2>4, OthersLeaveNone
  <2> QED BY <2>1, <2>2, <2>3, <2>4 DEF Next, Publication
<1>3. LeftoverInv => LeftoverStopsOneStart
  <2> SUFFICES ASSUME LeftoverInv PROVE LeftoverStopsOneStart
    OBVIOUS
  <2>1. Cardinality(Abandoned) \in Nat
    BY FS_CardinalityType DEF LeftoverInv
  <2> QED BY <2>1 DEF LeftoverInv, LeftoverStopsOneStart
<1> QED BY <1>1, <1>2, <1>3, Invariance, PTL DEF Spec
=============================================================================

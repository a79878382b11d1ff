----------------------------- MODULE IpcSocket -----------------------------
(***************************************************************************)
(* Who owns labwc.sock.  Every Labwc that is started with -i looks for a   *)
(* socket at the path, probes it, replaces it if nobody answers, and takes *)
(* the path away again when it ends, one system call after the other       *)
(* (ipc_init, ipc_finish).  A Labwc can die between any two of them and    *)
(* leaves its socket behind, and nothing keeps two of them from doing this *)
(* at the same time.                                                       *)
(***************************************************************************)
EXTENDS Naturals

CONSTANTS
  Labwcs,       \* processes, each of which runs once
  NoFile,       \* nothing at the path
  Foreign,      \* a file that is no socket, or another user's
  MaxFaults     \* system calls that fail

ASSUME SocketAssumption ==
  /\ NoFile \notin Labwcs /\ Foreign \notin Labwcs /\ NoFile # Foreign
  /\ MaxFaults \in Nat

VARIABLES
  path,         \* what is at socket_path: the socket of a process, or no socket
  step,         \* where a process is in ipc_init or ipc_finish
  socket_owned,
  faults,       \* faults left
  met,          \* history: who began or ended while another one did
  found         \* history: whose socket answered at the path when one started

vars == <<path, step, socket_owned, faults, met, found>>

Init ==
  /\ path \in {NoFile, Foreign}
  /\ step = [l \in Labwcs |-> "new"]
  /\ socket_owned = [l \in Labwcs |-> FALSE]
  /\ faults = MaxFaults /\ met = {} /\ found = [l \in Labwcs |-> NoFile]

\* Between the first system call of ipc_init or ipc_finish and the last one.
Busy(l) == step[l] \notin {"new", "serves", "disabled", "gone"}
BusyOnes == {l \in Labwcs : Busy(l)}

\* l becomes busy as well.
Meets(l) == met' = IF BusyOnes = {} THEN met ELSE met \cup BusyOnes \cup {l}

\* Connections to the socket of l succeed, whether they are accepted or not.
Listens(l) == step[l] \in {"watch", "serves"}
Answers == path \in Labwcs /\ Listens(path)

Goes(l, where) == step' = [step EXCEPT ![l] = where]
Fault == faults > 0 /\ faults' = faults - 1

-----------------------------------------------------------------------------
Start(l) ==
  /\ step[l] = "new"
  /\ Goes(l, "lstat") /\ Meets(l)
  /\ found' = [found EXCEPT ![l] = IF Answers THEN path ELSE NoFile]
  /\ UNCHANGED <<path, socket_owned, faults>>

Lstat(l) ==
  /\ step[l] = "lstat"
  /\ Goes(l, IF path = NoFile THEN "bind" ELSE IF path = Foreign THEN "disabled" ELSE "connect")
  /\ UNCHANGED <<path, socket_owned, faults, met, found>>

\* Mutant: a socket of the same user is replaced without a probe.
ConnectNever(l) ==
  /\ step[l] = "connect"
  /\ Goes(l, "unlink")
  /\ UNCHANGED <<path, socket_owned, faults, met, found>>

\* Mutant: a refused probe is an error like any other.
ConnectOrGiveUp(l) ==
  /\ step[l] = "connect"
  /\ Goes(l, "disabled")
  /\ UNCHANGED <<path, socket_owned, faults, met, found>>

\* The probe: only ECONNREFUSED, a socket nobody listens on, is stale.
Connect(l) ==
  /\ step[l] = "connect"
  /\ Goes(l, IF path \in Labwcs /\ ~Listens(path) THEN "unlink" ELSE "disabled")
  /\ UNCHANGED <<path, socket_owned, faults, met, found>>

Unlink(l) ==
  /\ step[l] = "unlink"
  /\ path' = NoFile
  /\ Goes(l, IF path = NoFile THEN "disabled" ELSE "bind")
  /\ UNCHANGED <<socket_owned, faults, met, found>>

Bind(l) ==
  /\ step[l] = "bind"
  /\ IF path = NoFile
     THEN /\ path' = l /\ Goes(l, "chmod")
          /\ socket_owned' = [socket_owned EXCEPT ![l] = TRUE]
     ELSE /\ Goes(l, "disabled")
          /\ UNCHANGED <<path, socket_owned>>
  /\ UNCHANGED <<faults, met, found>>

Chmod(l) ==
  /\ step[l] = "chmod" /\ Goes(l, "listen")
  /\ UNCHANGED <<path, socket_owned, faults, met, found>>

Listen(l) ==
  /\ step[l] = "listen" /\ Goes(l, "watch")
  /\ UNCHANGED <<path, socket_owned, faults, met, found>>

\* wl_event_loop_add_fd: from here on connections are accepted.
Watch(l) ==
  /\ step[l] = "watch" /\ Goes(l, "serves")
  /\ UNCHANGED <<path, socket_owned, faults, met, found>>

\* A call fails: before the socket is bound there is nothing to undo, after
\* that the descriptor is closed and the path still to be removed.
CallFails(l) ==
  /\ Fault
  /\ \/ step[l] \in {"lstat", "connect", "unlink", "bind"} /\ Goes(l, "disabled")
     \/ step[l] \in {"chmod", "listen", "watch"} /\ Goes(l, "undo")
  /\ UNCHANGED <<path, socket_owned, met, found>>

\* unlink(socket_path), whoever's it is by now; nobody looks at its result.
RemovesPath ==
  \/ path' = NoFile /\ UNCHANGED faults
  \/ Fault /\ UNCHANGED path

\* Mutant: the path is still taken for its own.
UndoKeepsOwned(l) ==
  /\ step[l] = "undo"
  /\ RemovesPath /\ Goes(l, "disabled")
  /\ UNCHANGED <<socket_owned, met, found>>

Undo(l) ==
  /\ step[l] = "undo"
  /\ RemovesPath /\ Goes(l, "disabled")
  /\ socket_owned' = [socket_owned EXCEPT ![l] = FALSE]
  /\ UNCHANGED <<met, found>>

\* ipc_finish closes the descriptor ...
Finish(l) ==
  /\ step[l] \in {"serves", "disabled"}
  /\ Goes(l, "finish") /\ Meets(l)
  /\ UNCHANGED <<path, socket_owned, faults, found>>

\* ... and removes the path if it has bound it.
FinishUnlinks(l) ==
  /\ step[l] = "finish"
  /\ IF socket_owned[l] THEN RemovesPath ELSE UNCHANGED <<path, faults>>
  /\ socket_owned' = [socket_owned EXCEPT ![l] = FALSE]
  /\ Goes(l, "gone")
  /\ UNCHANGED <<met, found>>

\* The process is killed; its descriptors are closed, its path stays.
Die(l) ==
  /\ step[l] \notin {"new", "gone"}
  /\ Goes(l, "gone")
  /\ socket_owned' = [socket_owned EXCEPT ![l] = FALSE]
  /\ UNCHANGED <<path, faults, met, found>>

ipc_init(l) ==
  Lstat(l) \/ Connect(l) \/ Unlink(l) \/ Bind(l) \/ Chmod(l) \/ Listen(l) \/ Watch(l)
    \/ CallFails(l) \/ Undo(l)
ipc_finish(l) == Finish(l) \/ FinishUnlinks(l)

Next == \E l \in Labwcs : Start(l) \/ ipc_init(l) \/ ipc_finish(l) \/ Die(l)

Spec == Init /\ [][Next]_vars

-----------------------------------------------------------------------------
(* Properties. *)

\* A Labwc that accepts connections is the one layoutd reaches at the path,
\* whichever others were refused, failed half-way, ended or died meanwhile, as
\* long as no two of them began or ended at once (patch:580, patch:685).
ServingIsReachable == met = {} => \A l \in Labwcs : step[l] = "serves" => path = l

\* docs/compositor-adapter.md:12, "replaces only a stale same-user socket after
\* refusing a live endpoint": a socket that connections succeed on is removed by
\* nobody, and neither is what is no socket of this user (patch:597).
ReplacesOnlyStale == [][path' # path => ~Answers /\ path # Foreign]_vars

\* What is left of that when Labwcs overlap: the socket that answered when one
\* started is, as long as connections succeed on it, removed neither by its
\* ipc_init nor by its ipc_finish, whatever the others do meanwhile (patch:605,
\* patch:685).
LiveEndpointIsRefused ==
  [][\A l \in Labwcs : path' # path /\ step'[l] # step[l] => ~(Answers /\ path = found[l])]_vars

\* A session is not left without a socket: a Labwc that met no other one on its
\* way, whatever those before it did to each other, gives up only for a failed
\* call, because another one answers or because the file is not its own; the
\* socket of one that died at any step is replaced (patch:597).
DisabledOnlyIfServed ==
  [][\A l \in Labwcs \ met :
       (step'[l] = "disabled" /\ step[l] \notin {"undo", "disabled"} /\ faults' = faults)
         => (Answers \/ path = Foreign)]_vars
=============================================================================

-------------------------- MODULE IpcSocketProofs --------------------------
(***************************************************************************)
(* Proofs about IpcSocket for any number of Labwcs and failures.           *)
(***************************************************************************)
EXTENDS IpcSocket, TLAPS

Steps == {"new", "lstat", "connect", "unlink", "bind", "chmod", "listen", "watch", "undo",
          "serves", "disabled", "finish", "gone"}

TypeOK ==
  /\ path \in Labwcs \cup {NoFile, Foreign}
  /\ step \in [Labwcs -> Steps]
  /\ socket_owned \in [Labwcs -> BOOLEAN]
  /\ faults \in Nat
  /\ met \subseteq Labwcs
  /\ found \in [Labwcs -> Labwcs \cup {NoFile}]

\* Every variable stays in its type.
LEMMA StepTyped ==
  ASSUME TypeOK, [Next]_vars
  PROVE  TypeOK'
<1> USE SocketAssumption DEF TypeOK, Steps, Goes
<1>1. CASE UNCHANGED vars
  BY <1>1 DEF vars
<1>2. ASSUME NEW l \in Labwcs, Start(l) \/ Finish(l) PROVE TypeOK'
  BY <1>2 DEF Start, Finish, Meets, BusyOnes, Answers
<1>3. ASSUME NEW l \in Labwcs, CallFails(l) \/ Undo(l) \/ FinishUnlinks(l) PROVE TypeOK'
  <2>1. Fault => faults' \in Nat
    BY DEF Fault
  <2>2. CASE CallFails(l)
    BY <2>1, <2>2 DEF CallFails
  <2>3. CASE Undo(l)
    BY <2>1, <2>3 DEF Undo, RemovesPath
  <2>4. CASE FinishUnlinks(l)
    BY <2>1, <2>4 DEF FinishUnlinks, RemovesPath
  <2> QED BY <1>3, <2>2, <2>3, <2>4
<1>4. ASSUME NEW l \in Labwcs,
             Lstat(l) \/ Connect(l) \/ Unlink(l) \/ Bind(l) \/ Chmod(l) \/ Listen(l) \/ Watch(l)
               \/ Die(l)
      PROVE  TypeOK'
  BY <1>4 DEF Lstat, Connect, Unlink, Bind, Chmod, Listen, Watch, Die
<1>5. QED
  BY <1>1, <1>2, <1>3, <1>4 DEF Next, ipc_init, ipc_finish

-----------------------------------------------------------------------------
(* Labwcs that met no other one. *)

\* Whoever is busy together with another one has met it.
BusyHaveMet == \A l, m \in Labwcs : Busy(l) /\ Busy(m) /\ l # m => l \in met

\* What one that met nobody has found while it looked for a socket is still
\* there: only busy processes change the path.
ProbeInv ==
  \A l \in Labwcs \ met :
    /\ step[l] \in {"connect", "unlink"} => path \in Labwcs
    /\ step[l] = "bind" => path = NoFile

MetInv == TypeOK /\ BusyHaveMet /\ ProbeInv

\* MetInv is inductive.
LEMMA MetStep ==
  ASSUME MetInv, [Next]_vars
  PROVE  MetInv'
<1>1. TypeOK'
  BY StepTyped DEF MetInv
<1> SUFFICES BusyHaveMet' /\ ProbeInv'
  BY <1>1 DEF MetInv
<1> USE SocketAssumption DEF MetInv, TypeOK, BusyHaveMet, Busy, ProbeInv, Steps, Goes
<1>2. CASE UNCHANGED vars
  BY <1>2 DEF vars
<1>3. ASSUME NEW l \in Labwcs, Start(l) \/ Finish(l) PROVE BusyHaveMet' /\ ProbeInv'
  <2>1. /\ met \subseteq met' /\ path' = path
        /\ \A m \in Labwcs : m # l => step'[m] = step[m]
        /\ step'[l] \in {"lstat", "finish"}
    BY <1>3 DEF Start, Finish, Meets, BusyOnes
  <2>2. \A m \in Labwcs : Busy(m) => m \in met' /\ l \in met'
    BY <1>3 DEF Start, Finish, Meets, BusyOnes
  <2> QED BY <2>1, <2>2
<1>4. ASSUME NEW l \in Labwcs, Chmod(l) \/ Listen(l) \/ Watch(l) \/ CallFails(l) \/ Die(l)
      PROVE  BusyHaveMet' /\ ProbeInv'
  BY <1>4 DEF Chmod, Listen, Watch, CallFails, Die
<1>5. ASSUME NEW l \in Labwcs, Lstat(l) \/ Connect(l) PROVE BusyHaveMet' /\ ProbeInv'
  BY <1>5 DEF Lstat, Connect
<1>6. ASSUME NEW l \in Labwcs, Unlink(l) \/ Bind(l) \/ Undo(l) \/ FinishUnlinks(l)
      PROVE  BusyHaveMet' /\ ProbeInv'
  <2>1. /\ met' = met /\ Busy(l) /\ \A m \in Labwcs : m # l => step'[m] = step[m]
        /\ step'[l] \in {"disabled", "gone", "chmod", "bind"}
        /\ step'[l] = "bind" => path' = NoFile
    BY <1>6 DEF Unlink, Bind, Undo, FinishUnlinks
  <2>2. \A m \in Labwcs \ met : m # l => ~Busy(m)
    BY <2>1
  <2>3. BusyHaveMet'
    BY <2>1
  <2>4. ProbeInv'
    BY <2>1, <2>2
  <2> QED BY <2>3, <2>4
<1>7. QED
  BY <1>2, <1>3, <1>4, <1>5, <1>6 DEF Next, ipc_init, ipc_finish

\* It holds at the start, when nobody is busy.
LEMMA MetInvariant == Spec => []MetInv
<1>1. Init => MetInv
  BY SocketAssumption DEF Init, MetInv, TypeOK, BusyHaveMet, Busy, ProbeInv, Steps
<1> QED BY <1>1, MetStep, PTL DEF Spec

\* ipc_init: a Labwc that met no other one on its way goes without a socket only
\* for a failed call, because another one answers at the path or because the
\* file there is not its own.
THEOREM RefusedOnlyIfServed == Spec => DisabledOnlyIfServed
<1> DEFINE Step ==
      \A l \in Labwcs \ met :
        (step'[l] = "disabled" /\ step[l] \notin {"undo", "disabled"} /\ faults' = faults)
          => (Answers \/ path = Foreign)
<1>1. ASSUME MetInv, [Next]_vars PROVE [Step]_vars
  <2> USE SocketAssumption DEF MetInv, TypeOK, ProbeInv, Steps, Goes, Answers
  <2>1. SUFFICES ASSUME NEW l \in Labwcs \ met, step'[l] = "disabled",
                        step[l] \notin {"undo", "disabled"}, faults' = faults
                 PROVE  Answers \/ path = Foreign
    OBVIOUS
  <2>2. Lstat(l) \/ Connect(l) \/ Unlink(l) \/ Bind(l)
    BY <1>1, <2>1 DEF Next, ipc_init, ipc_finish, Start, Lstat, Connect, Unlink, Bind, Chmod,
       Listen, Watch, CallFails, Fault, Undo, Finish, FinishUnlinks, Die, vars
  <2>3. CASE Lstat(l)
    BY <1>1, <2>1, <2>3 DEF Lstat
  <2>4. CASE Connect(l)
    BY <1>1, <2>1, <2>4 DEF Connect
  <2>5. CASE Unlink(l) \/ Bind(l)
    BY <1>1, <2>1, <2>5 DEF Unlink, Bind
  <2>6. QED
    BY <2>2, <2>3, <2>4, <2>5
<1>2. QED
  BY MetInvariant, <1>1, PTL DEF Spec, DisabledOnlyIfServed

-----------------------------------------------------------------------------
(* A session in which no two of them met. *)

\* The steps at which the socket of a process is bound.
Bound(l) == step[l] \in {"chmod", "listen", "watch", "undo", "serves"}

BoundIsAtPath == \A l \in Labwcs : Bound(l) => path = l
OwnedIsAtPath ==
  \A l \in Labwcs : socket_owned[l] => path = l /\ (Bound(l) \/ step[l] = "finish")

\* What is about to be unlinked belongs to a process that no longer has it.
UnlinksStale ==
  \A l \in Labwcs : step[l] = "unlink" => path # Foreign /\ \A m \in Labwcs : path = m => ~Bound(m)

NobodyMet == met = {} => BoundIsAtPath /\ OwnedIsAtPath /\ UnlinksStale

\* Every system call keeps NobodyMet.
LEMMA NobodyMetStep ==
  ASSUME MetInv, NobodyMet, [Next]_vars
  PROVE  NobodyMet'
<1> SUFFICES ASSUME met' = {} PROVE (BoundIsAtPath /\ OwnedIsAtPath /\ UnlinksStale)'
  BY DEF NobodyMet
<1> USE SocketAssumption
<1>1. met = {}
  BY DEF Next, ipc_init, ipc_finish, Start, Lstat, Connect, Unlink, Bind, Chmod, Listen, Watch,
         CallFails, Undo, Finish, FinishUnlinks, Die, Meets, vars
<1>2. /\ TypeOK /\ BoundIsAtPath /\ OwnedIsAtPath /\ UnlinksStale
      /\ \A l, m \in Labwcs : Busy(l) /\ Busy(m) => l = m
  BY <1>1 DEF NobodyMet, MetInv, BusyHaveMet
<1> USE <1>2 DEF TypeOK, Busy, BoundIsAtPath, Bound, OwnedIsAtPath, UnlinksStale, Steps, Goes
<1>3. CASE UNCHANGED vars
  BY <1>3 DEF vars
<1>4. ASSUME NEW l \in Labwcs, Start(l) \/ Finish(l)
      PROVE  (BoundIsAtPath /\ OwnedIsAtPath /\ UnlinksStale)'
  <2>1. \A m \in Labwcs : ~Busy(m)
    BY <1>1, <1>4 DEF Start, Finish, Meets, BusyOnes
  <2> QED BY <1>4, <2>1 DEF Start, Finish
<1>5. ASSUME NEW l \in Labwcs, Lstat(l) \/ Connect(l)
      PROVE  (BoundIsAtPath /\ OwnedIsAtPath /\ UnlinksStale)'
  BY <1>5 DEF Lstat, Connect, Listens
<1>6. ASSUME NEW l \in Labwcs, Unlink(l)
      PROVE  (BoundIsAtPath /\ OwnedIsAtPath /\ UnlinksStale)'
  BY <1>6 DEF Unlink
<1>7. ASSUME NEW l \in Labwcs, Bind(l)
      PROVE  (BoundIsAtPath /\ OwnedIsAtPath /\ UnlinksStale)'
  BY <1>7 DEF Bind
<1>8. ASSUME NEW l \in Labwcs, Chmod(l) \/ Listen(l) \/ Watch(l) \/ CallFails(l) \/ Die(l)
      PROVE  (BoundIsAtPath /\ OwnedIsAtPath /\ UnlinksStale)'
  BY <1>8 DEF Chmod, Listen, Watch, CallFails, Die
<1>9. ASSUME NEW l \in Labwcs, Undo(l) \/ FinishUnlinks(l)
      PROVE  (BoundIsAtPath /\ OwnedIsAtPath /\ UnlinksStale)'
  BY <1>9 DEF Undo, FinishUnlinks, RemovesPath
<1>10. QED
  BY <1>3, <1>4, <1>5, <1>6, <1>7, <1>8, <1>9 DEF Next, ipc_init, ipc_finish

\* Whichever Labwcs were refused, failed half-way, ended or died meanwhile, one
\* that accepts connections is the one layoutd reaches, as long as no two began
\* or ended at once (ipc_init, ipc_finish).
THEOREM ServerIsReachable == Spec => []ServingIsReachable
<1>1. Init => NobodyMet
  BY SocketAssumption DEF Init, NobodyMet, BoundIsAtPath, Bound, OwnedIsAtPath, UnlinksStale
<1>2. NobodyMet => ServingIsReachable
  BY DEF NobodyMet, BoundIsAtPath, Bound, ServingIsReachable
<1> QED BY MetInvariant, NobodyMetStep, <1>1, <1>2, PTL DEF Spec

-----------------------------------------------------------------------------
(* Labwcs that overlap in any way. *)

\* The steps after bind and listen, from which nobody listens once more.
Listened(l) == step[l] \in {"watch", "serves", "undo", "disabled", "finish", "gone"}

\* What one found when it started has listened, was probed before it is
\* unlinked, and is not what the one has bound itself.
FoundInv ==
  \A l \in Labwcs :
    /\ step[l] = "new" => ~socket_owned[l]
    /\ step[l] \in {"chmod", "listen", "watch", "undo"} => socket_owned[l]
    /\ found[l] \in Labwcs =>
         /\ Listened(found[l])
         /\ step[l] = "unlink" /\ path = found[l] => ~Listens(found[l])
         /\ socket_owned[l] => path # found[l]

SafeInv == TypeOK /\ FoundInv

\* FoundInv is inductive: a process that has listened binds nothing any more.
LEMMA SafeStep ==
  ASSUME SafeInv, [Next]_vars
  PROVE  SafeInv'
<1>1. TypeOK'
  BY StepTyped DEF SafeInv
<1> SUFFICES FoundInv'
  BY <1>1 DEF SafeInv
<1> USE SocketAssumption DEF SafeInv, TypeOK, FoundInv, Listened, Listens, Steps, Goes
<1>2. CASE UNCHANGED vars
  BY <1>2 DEF vars
<1>3. ASSUME NEW l \in Labwcs, Start(l) PROVE FoundInv'
  <2>1. /\ path' = path /\ socket_owned' = socket_owned /\ step'[l] = "lstat"
        /\ \A m \in Labwcs : m # l => step'[m] = step[m] /\ found'[m] = found[m]
        /\ step[l] = "new"
    BY <1>3 DEF Start
  <2>2. found'[l] \in Labwcs => path \in Labwcs /\ Listens(path) /\ found'[l] = path
    BY <1>3 DEF Start, Answers
  <2>3. ~socket_owned[l] /\ TypeOK
    BY <2>1
  <2> QED BY <2>1, <2>2, <2>3
<1>4. ASSUME NEW l \in Labwcs, Lstat(l) \/ Connect(l) PROVE FoundInv'
  BY <1>4 DEF Lstat, Connect
<1>5. ASSUME NEW l \in Labwcs, Unlink(l) PROVE FoundInv'
  BY <1>5 DEF Unlink
<1>6. ASSUME NEW l \in Labwcs, Bind(l) PROVE FoundInv'
  BY <1>6 DEF Bind
<1>7. ASSUME NEW l \in Labwcs, Chmod(l) \/ Listen(l) \/ Watch(l) \/ CallFails(l)
      PROVE  FoundInv'
  BY <1>7 DEF Chmod, Listen, Watch, CallFails
<1>8. ASSUME NEW l \in Labwcs, Undo(l) \/ FinishUnlinks(l) PROVE FoundInv'
  BY <1>8 DEF Undo, FinishUnlinks, RemovesPath
<1>9. ASSUME NEW l \in Labwcs, Finish(l) \/ Die(l) PROVE FoundInv'
  BY <1>9 DEF Finish, Die
<1>10. QED
  BY <1>2, <1>3, <1>4, <1>5, <1>6, <1>7, <1>8, <1>9 DEF Next, ipc_init, ipc_finish

\* The socket that answered when a Labwc started is removed by neither its
\* ipc_init nor its ipc_finish while connections succeed on it, however many
\* others probe, replace and remove sockets meanwhile.
THEOREM LiveEndpointStays == Spec => LiveEndpointIsRefused
<1> DEFINE Step ==
      \A l \in Labwcs : path' # path /\ step'[l] # step[l] => ~(Answers /\ path = found[l])
<1>1. Spec => []SafeInv
  <2>1. Init => SafeInv
    BY SocketAssumption DEF Init, SafeInv, TypeOK, FoundInv, Steps
  <2> QED BY <2>1, SafeStep, PTL DEF Spec
<1>2. ASSUME SafeInv, [Next]_vars PROVE [Step]_vars
  <2> USE SocketAssumption DEF SafeInv, TypeOK, FoundInv, Answers, Goes
  <2>1. SUFFICES ASSUME NEW l \in Labwcs, path' # path, step'[l] # step[l]
                 PROVE  ~(Answers /\ path = found[l])
    OBVIOUS
  <2>2. Unlink(l) \/ Bind(l) \/ Undo(l) \/ FinishUnlinks(l)
    BY <1>2, <2>1 DEF Next, ipc_init, ipc_finish, Start, Lstat, Unlink, Connect, Bind, Chmod,
       Listen, Watch, CallFails, Undo, Finish, FinishUnlinks, Die, vars
  <2>3. CASE Unlink(l)
    BY <1>2, <2>1, <2>3 DEF Unlink
  <2>4. CASE Bind(l)
    BY <1>2, <2>1, <2>4 DEF Bind
  <2>5. CASE Undo(l) \/ FinishUnlinks(l)
    BY <1>2, <2>1, <2>5 DEF Undo, FinishUnlinks, RemovesPath
  <2>6. QED
    BY <2>2, <2>3, <2>4, <2>5
<1>3. QED
  BY <1>1, <1>2, PTL DEF Spec, LiveEndpointIsRefused
=============================================================================

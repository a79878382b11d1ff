---------------------------- MODULE SessionProofs ----------------------------
(***************************************************************************)
(* For every budget and every set of process ids: a session that is not    *)
(* stopped and can write its state has at most one daemon, a supervisor    *)
(* gives up exactly when its budget of failed restarts is used, and each   *)
(* pause is twice the last.                                                *)
(***************************************************************************)
EXTENDS Session, FiniteSetTheorems, TLAPS

\* The counter of the script runs one ahead of the failed restarts it stands for.
BudgetInv ==
  /\ restarts \in 0..MaxRestarts /\ failures \in Nat /\ long \in BOOLEAN
  /\ line # "gone" => failures = IF restarts = 0 THEN 0 ELSE restarts - 1

\* BudgetInv is inductive.
LEMMA BudgetStep == BudgetInv /\ [Next]_vars => BudgetInv'
<1> SUFFICES ASSUME BudgetInv, [Next]_vars PROVE BudgetInv'
  OBVIOUS
<1> USE BudgetAssumption DEF BudgetInv
<1>1. CASE Spawn
  BY <1>1 DEF Spawn
<1>2. CASE Record
  BY <1>2 DEF Record
<1>3. CASE GiveUp
  BY <1>3 DEF GiveUp, CountFailure
<1>4. CASE Reap
  <2>1. /\ restarts' = (IF long THEN 0 ELSE restarts) + 1
        /\ failures' = IF long THEN 0 ELSE IF restarts = 0 THEN failures ELSE failures + 1
        /\ failures = IF restarts = 0 THEN 0 ELSE restarts - 1
        /\ (IF long THEN 0 ELSE restarts) < MaxRestarts
        /\ line' = "backoff" /\ status' = "backoff" /\ long' = long
    BY <1>4 DEF Reap, RestartsUsed, CountFailure
  <2> QED BY <2>1
<1>5. CASE BackoffEnds
  BY <1>5 DEF BackoffEnds
<1>6. CASE Stop
  BY <1>6 DEF Stop, supervisor
<1>7. ASSUME NEW p \in Processes, Die(p) PROVE BudgetInv'
  BY <1>7 DEF Die, supervisor
<1>8. CASE SixtySeconds
  BY <1>8 DEF SixtySeconds
<1>9. CASE ConsumerExits
  BY <1>9 DEF ConsumerExits, supervisor
<1>10. CASE Autostart
  <2>1. CASE line = "gone"
    <3>1. line' = "spawn" /\ restarts' = 0 /\ failures' = 0
      BY <1>10, <2>1 DEF Autostart, StartSupervisor
    <3>2. long' = FALSE
      BY <1>10, <2>1 DEF Autostart, StartSupervisor
    <3>3. long' \in BOOLEAN
      BY <3>2
    <3> QED BY <3>1, <3>3
  <2>2. CASE line # "gone"
    BY <1>10, <2>2 DEF Autostart, supervisor
  <2> QED BY <2>1, <2>2
<1>11. CASE UNCHANGED vars
  BY <1>11 DEF vars, supervisor
<1>12. CASE WriteFails
  BY <1>12 DEF WriteFails, supervisor
<1> QED BY <1>1, <1>2, <1>3, <1>4, <1>5, <1>6, <1>7, <1>8, <1>9, <1>10, <1>11, <1>12
        DEF Next, Supervise

\* The counter and the history agree at the start as well.
LEMMA BudgetInvariant == Spec => []BudgetInv
<1>1. Init => BudgetInv
  <2> SUFFICES ASSUME Init PROVE BudgetInv
    OBVIOUS
  <2>1. long = FALSE /\ line = "spawn"
    BY DEF Init
  <2>2. long \in BOOLEAN
    BY <2>1
  <2>3. restarts = 0 /\ failures = 0 /\ 0 \in 0..MaxRestarts
    BY BudgetAssumption DEF Init
  <2> QED BY <2>1, <2>2, <2>3 DEF BudgetInv
<1> QED BY <1>1, BudgetStep, PTL DEF Spec

-----------------------------------------------------------------------------
(* The pauses.  The powers of two are counted: a set of n elements has 2^n *)
(* subsets.                                                                *)

\* A set and one more element have twice the subsets of the set.
LEMMA SubsetsDouble ==
  ASSUME NEW S, IsFiniteSet(S), NEW x, x \notin S
  PROVE  /\ Cardinality(SUBSET (S \cup {x})) = 2 * Cardinality(SUBSET S)
         /\ Cardinality(SUBSET S) \in Nat
<1> DEFINE Without == SUBSET S
           With == {T \in SUBSET (S \cup {x}) : x \in T}
           add == [T \in Without |-> T \cup {x}]
<1>1. IsFiniteSet(Without) /\ Cardinality(Without) \in Nat
  BY FS_SUBSET, FS_CardinalityType
<1>2. add \in [Without -> With]
  OBVIOUS
<1>3. \A T, U \in Without : add[T] = add[U] => T = U
  <2> SUFFICES ASSUME NEW T \in Without, NEW U \in Without, add[T] = add[U] PROVE T = U
    OBVIOUS
  <2>1. T \cup {x} = U \cup {x} /\ x \notin T /\ x \notin U
    OBVIOUS
  <2> QED BY <2>1
<1>4. \A T \in With : \E U \in Without : add[U] = T
  <2> SUFFICES ASSUME NEW T \in With PROVE \E U \in Without : add[U] = T
    OBVIOUS
  <2>1. T \ {x} \in Without /\ (T \ {x}) \cup {x} = T
    OBVIOUS
  <2> QED BY <2>1
<1>5. add \in Bijection(Without, With)
  BY <1>2, <1>3, <1>4 DEF Bijection, Injection, Surjection, IsInjective
<1>6. ExistsBijection(Without, With)
  BY <1>5 DEF ExistsBijection
<1>7. IsFiniteSet(With) /\ Cardinality(With) = Cardinality(Without)
  BY <1>1, <1>6, FS_Bijection
<1>8. SUBSET (S \cup {x}) = Without \cup With /\ Without \cap With = {}
  OBVIOUS
<1> HIDE DEF Without, With
<1>9. Cardinality({}) = 0
  BY FS_EmptySet
<1>10. Cardinality(Without \cup With) = Cardinality(Without) + Cardinality(With) - Cardinality({})
  <2>1. Cardinality(Without \cup With)
          = Cardinality(Without) + Cardinality(With) - Cardinality(Without \cap With)
    BY <1>1, <1>7, FS_Union
  <2> QED BY <1>8, <2>1
<1>11. Cardinality(Without \cup With) = 2 * Cardinality(Without)
  BY <1>1, <1>7, <1>9, <1>10
<1> QED BY <1>1, <1>8, <1>11, Zenon DEF Without

\* What a doubling does to a power of two.
LEMMA PowerStep ==
  ASSUME NEW n \in Nat
  PROVE  2 ^ n \in Nat /\ 2 ^ (n + 1) = 2 * 2 ^ n
<1>1. /\ IsFiniteSet(1..n) /\ Cardinality(1..n) = n
      /\ IsFiniteSet(1..(n + 1)) /\ Cardinality(1..(n + 1)) = n + 1
  <2>1. 1 \in Int /\ n \in Int /\ n + 1 \in Int
    OBVIOUS
  <2>2. IsFiniteSet(1..n) /\ Cardinality(1..n) = IF 1 > n THEN 0 ELSE n - 1 + 1
    BY <2>1, FS_Interval
  <2>3. /\ IsFiniteSet(1..(n + 1))
        /\ Cardinality(1..(n + 1)) = IF 1 > n + 1 THEN 0 ELSE n + 1 - 1 + 1
    BY <2>1, FS_Interval
  <2> QED BY <2>2, <2>3
<1>2. Cardinality(SUBSET (1..n)) = 2 ^ n /\ Cardinality(SUBSET (1..(n + 1))) = 2 ^ (n + 1)
  BY <1>1, FS_SUBSET, Zenon
<1>3. n + 1 \notin 1..n /\ 1..(n + 1) = (1..n) \cup {n + 1}
  OBVIOUS
<1>4. /\ Cardinality(SUBSET ((1..n) \cup {n + 1})) = 2 * Cardinality(SUBSET (1..n))
      /\ Cardinality(SUBSET (1..n)) \in Nat
  BY <1>1, <1>3, SubsetsDouble
<1> QED BY <1>2, <1>3, <1>4, Zenon

\* Which power of two the delay is.
DelayInv ==
  /\ delay \in Nat /\ restarts \in Nat /\ long \in BOOLEAN
  /\ line = "backoff" => restarts >= 1 /\ delay = 2 ^ (restarts - 1)
  /\ line \in {"spawn", "record", "wait"} => delay = 2 ^ restarts

\* DelayInv is inductive.
LEMMA DelayStep == DelayInv /\ [Next]_vars => DelayInv'
<1> SUFFICES ASSUME DelayInv, [Next]_vars PROVE DelayInv'
  OBVIOUS
<1> USE DEF DelayInv
<1>0. 1 = 2 ^ 0
  OBVIOUS
<1>1. CASE Spawn
  <2>1. FALSE \in BOOLEAN
    OBVIOUS
  <2> QED BY <1>1, <2>1 DEF Spawn
<1>2. CASE Record
  BY <1>2 DEF Record
<1>3. CASE GiveUp
  BY <1>3 DEF GiveUp
<1>4. CASE Reap
  <2>1. line = "wait" /\ line' = "backoff" /\ long' = long
    BY <1>4 DEF Reap
  <2>2. CASE long
    <3>1. restarts' = 1 /\ delay' = 1
      BY <1>4, <2>2 DEF Reap, RestartsUsed, BackoffDelay
    <3>2. restarts' - 1 = 0
      BY <3>1
    <3> QED BY <1>0, <2>1, <3>1, <3>2
  <2>3. CASE ~long
    <3>1. restarts' = restarts + 1 /\ delay' = delay /\ delay = 2 ^ restarts
      BY <1>4, <2>1, <2>3 DEF Reap, RestartsUsed, BackoffDelay
    <3>2. restarts' - 1 = restarts
      BY <3>1
    <3> QED BY <2>1, <3>1, <3>2
  <2> QED BY <2>2, <2>3
<1>5. CASE BackoffEnds
  <2>1. /\ line' = "spawn" /\ delay' = delay * 2 /\ restarts' = restarts /\ long' = long
        /\ restarts >= 1 /\ delay = 2 ^ (restarts - 1)
    BY <1>5 DEF BackoffEnds
  <2>2. PICK n \in Nat : n = restarts - 1
    BY <2>1
  <2>3. delay = 2 ^ n /\ restarts = n + 1
    BY <2>1, <2>2
  <2>4. 2 ^ (n + 1) = 2 * 2 ^ n
    BY PowerStep
  <2>5. delay' = 2 ^ restarts'
    BY <2>1, <2>3, <2>4
  <2> QED BY <2>1, <2>5
<1>6. CASE Stop
  BY <1>6 DEF Stop, supervisor
<1>7. ASSUME NEW p \in Processes, Die(p) PROVE DelayInv'
  BY <1>7 DEF Die, supervisor
<1>8. CASE SixtySeconds
  <2>1. TRUE \in BOOLEAN
    OBVIOUS
  <2> QED BY <1>8, <2>1 DEF SixtySeconds
<1>9. CASE ConsumerExits
  BY <1>9 DEF ConsumerExits, supervisor
<1>10. CASE Autostart
  <2>1. CASE line = "gone"
    <3>1. line' = "spawn" /\ restarts' = 0 /\ delay' = 1 /\ long' = FALSE
      BY <1>10, <2>1 DEF Autostart, StartSupervisor
    <3>2. long' \in BOOLEAN
      BY <3>1
    <3> QED BY <1>0, <3>1, <3>2
  <2>2. CASE line # "gone"
    BY <1>10, <2>2 DEF Autostart, supervisor
  <2> QED BY <2>1, <2>2
<1>11. CASE UNCHANGED vars
  BY <1>11 DEF vars, supervisor
<1>12. CASE WriteFails
  BY <1>12 DEF WriteFails, supervisor
<1> QED BY <1>1, <1>2, <1>3, <1>4, <1>5, <1>6, <1>7, <1>8, <1>9, <1>10, <1>11, <1>12
        DEF Next, Supervise

\* The pauses of the supervisor double with every restart since the last long
\* run, although the delay and the counter are kept and reset apart.
THEOREM PausesDouble == Spec => []BackoffDoubles
<1>1. Init => DelayInv
  <2> SUFFICES ASSUME Init PROVE DelayInv
    OBVIOUS
  <2>1. long = FALSE /\ line = "spawn" /\ restarts = 0 /\ delay = 1 /\ 1 = 2 ^ 0
    BY DEF Init
  <2>2. long \in BOOLEAN
    BY <2>1
  <2> QED BY <2>1, <2>2 DEF DelayInv
<1>2. DelayInv => BackoffDoubles
  BY DEF DelayInv, BackoffDoubles
<1> QED BY <1>1, <1>2, DelayStep, PTL DEF Spec

-----------------------------------------------------------------------------
\* The type invariant holds with the budget: no counter of the script or of
\* the history passes the number of restarts it allows.
LEMMA TypeStep == TypeOK /\ BudgetInv /\ [Next]_vars => TypeOK'
<1> SUFFICES ASSUME TypeOK, BudgetInv, [Next]_vars PROVE TypeOK'
  OBVIOUS
<1> USE BudgetAssumption DEF TypeOK
<1>1. CASE Spawn
  <2>1. long' = FALSE /\ FALSE \in BOOLEAN
    BY <1>1 DEF Spawn
  <2>2. long' \in BOOLEAN
    BY <2>1
  <2>3. /\ child' \in Processes /\ alive' \subseteq Processes /\ line' = "record"
        /\ UNCHANGED <<restarts, delay, layoutd_pid, status, consumer, signals, faults, failures>>
    BY <1>1 DEF Spawn
  <2> QED BY <2>2, <2>3
<1>2. CASE Record
  BY <1>2 DEF Record
<1>3. CASE GiveUp
  <2>1. failures' \in 0..MaxRestarts
    BY <1>3 DEF GiveUp, CountFailure, BudgetInv
  <2> QED BY <1>3, <2>1 DEF GiveUp
<1>4. CASE Reap
  <2>1. failures' \in 0..MaxRestarts
    BY <1>4 DEF Reap, CountFailure, BudgetInv
  <2>2. restarts' \in 0..MaxRestarts /\ delay' \in Nat
    BY <1>4 DEF Reap, RestartsUsed, BackoffDelay
  <2> QED BY <1>4, <2>1, <2>2 DEF Reap
<1>5. CASE BackoffEnds
  <2>1. delay' \in Nat
    BY <1>5 DEF BackoffEnds
  <2> QED BY <1>5, <2>1 DEF BackoffEnds
<1>6. CASE Stop
  <2>1. alive' \subseteq Processes /\ signals' \in 0..MaxSignals
    BY <1>6 DEF Stop
  <2>2. faults' \in 0..MaxFaults /\ status' \in {status, "none", "stopped"}
    BY <1>6 DEF Stop, StatusLost, Fault
  <2> QED BY <1>6, <2>1, <2>2 DEF Stop, supervisor
<1>7. ASSUME NEW p \in Processes, Die(p) PROVE TypeOK'
  BY <1>7 DEF Die, supervisor
<1>8. CASE SixtySeconds
  <2>1. TRUE \in BOOLEAN
    OBVIOUS
  <2> QED BY <1>8, <2>1 DEF SixtySeconds
<1>9. CASE ConsumerExits
  BY <1>9 DEF ConsumerExits, supervisor
<1>10. CASE Autostart
  <2>1. CASE line = "gone"
    <3>1. /\ line' = "spawn" /\ restarts' = 0 /\ delay' = 1 /\ failures' = 0 /\ child' = Nobody
          /\ layoutd_pid' = Nobody /\ consumer' = "running" /\ UNCHANGED <<alive, status, signals, faults>>
      BY <1>10, <2>1 DEF Autostart, StartSupervisor
    <3>2. long' = FALSE /\ FALSE \in BOOLEAN
      BY <1>10, <2>1 DEF Autostart, StartSupervisor
    <3>3. long' \in BOOLEAN
      BY <3>2
    <3> QED BY <3>1, <3>3
  <2>2. CASE line # "gone"
    BY <1>10, <2>2 DEF Autostart, supervisor
  <2> QED BY <2>1, <2>2
<1>11. CASE UNCHANGED vars
  BY <1>11 DEF vars, supervisor
<1>12. CASE WriteFails
  <2>1. faults' \in 0..MaxFaults /\ status' \in {status, "none"}
    BY <1>12 DEF WriteFails, StatusLost, Fault
  <2> QED BY <1>12, <2>1 DEF WriteFails, supervisor
<1> QED BY <1>1, <1>2, <1>3, <1>4, <1>5, <1>6, <1>7, <1>8, <1>9, <1>10, <1>11, <1>12
        DEF Next, Supervise

\* The variables of the script and of autostart stay within their types, and
\* the restarts and their history within the budget.
THEOREM SessionTyped == Spec => []TypeOK
<1>1. Init => TypeOK
  <2> SUFFICES ASSUME Init PROVE TypeOK
    OBVIOUS
  <2>1. long = FALSE /\ FALSE \in BOOLEAN
    BY DEF Init
  <2>2. long \in BOOLEAN
    BY <2>1
  <2> QED BY <2>2, BudgetAssumption DEF Init, TypeOK
<1> QED BY <1>1, BudgetInvariant, TypeStep, PTL DEF Spec

\* A supervisor that ends with "failed" has seen exactly MaxRestarts failed
\* restarts in a row, whatever the mix of short and long runs was before.
THEOREM GivesUpOnBudget == Spec => BudgetIsFailedRestarts
<1> DEFINE Step == line # "gone" /\ line' = "gone" /\ status' = "failed" /\ faults' = faults
                     => failures' = MaxRestarts
<1>1. ASSUME BudgetInv, TypeOK, [Next]_vars PROVE [Step]_vars
  <2> SUFFICES ASSUME line # "gone", line' = "gone", status' = "failed", faults' = faults
               PROVE  failures' = MaxRestarts
    OBVIOUS
  <2>1. GiveUp
    BY <1>1 DEF Next, Supervise, Spawn, Record, Reap, BackoffEnds, Stop, WriteFails, StatusLost,
                Fault, Die, SixtySeconds, ConsumerExits, Autostart, StartSupervisor, vars, TypeOK
  <2>2. (restarts = MaxRestarts /\ ~long) \/ MaxRestarts = 0
    BY <1>1, <2>1, BudgetAssumption DEF GiveUp, RestartsUsed, BudgetInv
  <2> QED BY <1>1, <2>1, <2>2, BudgetAssumption DEF GiveUp, CountFailure, BudgetInv
<1> QED BY <1>1, BudgetInvariant, SessionTyped, PTL DEF Spec, BudgetIsFailedRestarts

-----------------------------------------------------------------------------
\* While no signal has come and no write has failed, the only daemon there can be is the last child,
\* and only between its spawn and its reaping.
DaemonInv ==
  /\ signals <= MaxSignals /\ signals \in Nat /\ faults <= MaxFaults /\ faults \in Nat
  /\ signals = MaxSignals /\ faults = MaxFaults =>
       /\ alive \subseteq {child}
       /\ line \notin {"record", "wait"} => alive = {}
       /\ line = "wait" => layoutd_pid = child

\* DaemonInv is inductive.
LEMMA DaemonStep == DaemonInv /\ [Next]_vars => DaemonInv'
<1> SUFFICES ASSUME DaemonInv, [Next]_vars PROVE DaemonInv'
  OBVIOUS
<1> USE BudgetAssumption DEF DaemonInv
<1>1. CASE Spawn
  BY <1>1 DEF Spawn
<1>2. CASE Record
  BY <1>2 DEF Record
<1>3. CASE GiveUp
  BY <1>3 DEF GiveUp
<1>4. CASE Reap
  BY <1>4 DEF Reap
<1>5. CASE BackoffEnds
  BY <1>5 DEF BackoffEnds
<1>6. CASE Stop
  BY <1>6 DEF Stop, StatusLost, Fault
<1>7. ASSUME NEW p \in Processes, Die(p) PROVE DaemonInv'
  BY <1>7 DEF Die, supervisor
<1>8. CASE SixtySeconds
  BY <1>8 DEF SixtySeconds
<1>9. CASE ConsumerExits
  BY <1>9 DEF ConsumerExits, supervisor
<1>10. CASE Autostart
  BY <1>10 DEF Autostart, StartSupervisor, supervisor
<1>11. CASE UNCHANGED vars
  BY <1>11 DEF vars, supervisor
<1>12. CASE WriteFails
  BY <1>12 DEF WriteFails, StatusLost, Fault
<1> QED BY <1>1, <1>2, <1>3, <1>4, <1>5, <1>6, <1>7, <1>8, <1>9, <1>10, <1>11, <1>12
        DEF Next, Supervise

\* autostart_wayland and the supervisor never run two daemons in a session
\* that no signal has stopped and whose state files can be written, however
\* often the consumer is restarted.
THEOREM AtMostOneDaemon == Spec => []OneDaemon
<1>1. Init => DaemonInv
  BY BudgetAssumption DEF Init, DaemonInv
<1>2. DaemonInv => OneDaemon
  <2> SUFFICES ASSUME DaemonInv, signals = MaxSignals, faults = MaxFaults
               PROVE  Cardinality(alive) <= 1
    BY DEF OneDaemon
  <2>1. alive \subseteq {child}
    BY DEF DaemonInv
  <2>2. IsFiniteSet({child}) /\ Cardinality({child}) = 1
    BY FS_Singleton
  <2> QED BY <2>1, <2>2, FS_Subset
<1> QED BY <1>1, <1>2, DaemonStep, PTL DEF Spec

=============================================================================

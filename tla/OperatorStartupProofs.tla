----------------------- MODULE OperatorStartupProofs -----------------------
(***************************************************************************)
(* Proofs about OperatorStartup, for any set of pods and any budgets.      *)
(*                                                                         *)
(* The lock alone does not make OneActive inductive: a lock may be removed *)
(* by the collector or by deleteLeader.  LeaderInv adds that a process has *)
(* a pod object for as long as it runs, so that the collector never takes  *)
(* the lock of a running process, and that no process is about to delete   *)
(* a leader while every node has been reporting.                           *)
(***************************************************************************)
EXTENDS OperatorStartup, TLAPS

\* The processes that have passed Become.
Leading == Started \cup {"configure"}

LeaderInv ==
    losses = 0 =>
        /\ notReady = {}
        /\ \A p \in Pods : proc[p].pc \in Leading => lock = p
        /\ \A p \in Pods : proc[p].pc \notin {"deletePod", "deleteLock"}
        /\ \A p \in Pods : proc[p].pc # "down" => podState[p] \in {"running", "terminating"}

PolicyInv ==
    losses = 0 =>
        \A p \in Pods, o \in Objects :
            proc[p].result[o] = "ok" => Active(p) /\ object[o] = Wanted(p)

LEMMA DownType == Down \in Procs
BY DEF Down, Procs, Specs, Objects

LEMMA SeenType ==
    ASSUME NEW r \in Procs, NEW l \in Candidate, NEW s \in Pods \cup {NoPod}
    PROVE  [r EXCEPT !.pc = l, !.seen = s] \in Procs
BY DEF Procs

LEMMA FetchedType ==
    ASSUME NEW p \in Pods, NEW o \in Objects, Typed
    PROVE  Fetched(p, o) \in Procs
<1>1. proc[p] \in Procs /\ object[o] \in Specs
  BY DEF Typed
<1>2. PutLabel[o] \in Started
  BY DEF PutLabel, Objects, Started
<1> QED
  BY <1>1, <1>2 DEF Fetched, Procs

LEMMA EnsuredType ==
    ASSUME NEW p \in Pods, NEW o \in Objects, Typed,
           NEW outcome \in {"ok", "failed"}
    PROVE  Ensured(p, o, outcome) \in Procs
<1>1. proc[p] \in Procs
  BY DEF Typed
<1>2. AfterEnsure[o] \in Started
  BY DEF AfterEnsure, Objects, Started
<1> QED
  BY <1>1, <1>2 DEF Ensured, Procs, Specs

LEMMA EditedType ==
    ASSUME NEW r \in Procs, NEW o \in Objects
    PROVE  [r EXCEPT !.result[o] = "edited"] \in Procs
BY DEF Procs

LEMMA StaleType ==
    ASSUME NEW q \in Pods, NEW o \in Objects, Typed
    PROVE  Stale(q, o) \in Procs
<1>1. proc[q] \in Procs
  BY DEF Typed
<1> QED
  BY <1>1 DEF Stale, Procs

\* Every variable has its type in every behaviour of the start-up.
LEMMA TypedInvariant == Spec => []Typed
<1>1. Init => Typed
  <2> SUFFICES ASSUME Init PROVE Typed
    OBVIOUS
  <2>1. proc \in [Pods -> Procs]
    BY DownType DEF Init
  <2>2. object \in [Objects -> Specs]
    BY DEF Init, Specs
  <2> QED
    BY <2>1, <2>2, BudgetAssumption DEF Init, Typed
<1>2. Typed /\ [Next]_vars => Typed'
  <2> SUFFICES ASSUME Typed, [Next]_vars PROVE Typed'
    OBVIOUS
  <2> USE PodsAssumption, BudgetAssumption
  <2>0. CASE UNCHANGED vars
    BY <2>0 DEF Typed, vars
  <2>a. ASSUME NEW p \in Pods, NEW l \in Candidate \cup Started \cup {"configure"}, Goto(p, l)
        PROVE  proc' \in [Pods -> Procs]
    BY <2>a DEF Typed, Goto, Procs
  <2>b. ASSUME NEW p \in Pods, Exit(p) PROVE proc' \in [Pods -> Procs]
    BY <2>b, DownType DEF Typed, Exit
  <2>c. ASSUME NEW p \in Pods, Retry(p) PROVE proc' \in [Pods -> Procs]
    <3>1. [proc[p] EXCEPT !.pc = "create", !.seen = NoPod] \in Procs
      <4>1. proc[p] \in Procs /\ lock \in Pods \cup {NoPod}
        BY DEF Typed
      <4>2. "create" \in Candidate /\ "inspect" \in Candidate
        BY DEF Candidate
      <4> QED
        BY <4>1, <4>2, SeenType
    <3> QED
      BY <2>c, <3>1 DEF Typed, Retry
  <2>d. ASSUME Fault \/ NoFault PROVE faults' \in 0 .. MaxFaults
    BY <2>d DEF Fault, NoFault, Typed
  <2>1. ASSUME NEW p \in Pods, Lookup(p) PROVE Typed'
    BY <2>1, <2>a, <2>b, <2>d DEF Lookup, Typed, podVars, Candidate
  <2>2. ASSUME NEW p \in Pods, Create(p) PROVE Typed'
    BY <2>2, <2>a, <2>b, <2>d DEF Create, Typed, podVars, Candidate
  <2>3. ASSUME NEW p \in Pods, Refresh(p) PROVE Typed'
    <3>1. [proc[p] EXCEPT !.pc = "inspect", !.seen = lock] \in Procs
      <4>1. proc[p] \in Procs /\ lock \in Pods \cup {NoPod}
        BY DEF Typed
      <4>2. "create" \in Candidate /\ "inspect" \in Candidate
        BY DEF Candidate
      <4> QED
        BY <4>1, <4>2, SeenType
    <3> QED
      BY <2>3, <2>a, <2>b, <2>d, <3>1 DEF Refresh, Typed, podVars, Candidate
  <2>4. ASSUME NEW p \in Pods, Inspect(p) PROVE Typed'
    BY <2>4, <2>a, <2>b, <2>c, <2>d DEF Inspect, Typed, podVars, Candidate
  <2>5. ASSUME NEW p \in Pods, CheckNode(p) PROVE Typed'
    BY <2>5, <2>a, <2>c, <2>d DEF CheckNode, Typed, podVars, Candidate
  <2>6. ASSUME NEW p \in Pods, EvictLeader(p) PROVE Typed'
    BY <2>6, <2>c, <2>d DEF EvictLeader, DeleteSeen, Typed
  <2>7. ASSUME NEW p \in Pods, DeleteLeaderPod(p) PROVE Typed'
    BY <2>7, <2>a, <2>b, <2>d DEF DeleteLeaderPod, DeleteSeen, Typed, Candidate
  <2>8. ASSUME NEW p \in Pods, DeleteLeaderLock(p) PROVE Typed'
    BY <2>8, <2>b, <2>c, <2>d DEF DeleteLeaderLock, Typed, podVars
  <2>9. ASSUME NEW p \in Pods, Configure(p) PROVE Typed'
    BY <2>9, <2>a, <2>b, <2>d DEF Configure, Typed, podVars, Started
  <2>10. ASSUME NEW p \in Pods, Crash(p) PROVE Typed'
    BY <2>10, <2>b, <2>d DEF Crash, Typed, podVars
  <2>11. ASSUME NEW p \in Pods, NEW o \in Objects, EnsureGet(p, o) PROVE Typed'
    <3>2. proc' \in [Pods -> Procs]
      <4>1. CASE proc' = [proc EXCEPT ![p] = Fetched(p, o)]
        BY <4>1, FetchedType DEF Typed
      <4>2. CASE \E r \in {"ok", "failed"} : proc' = [proc EXCEPT ![p] = Ensured(p, o, r)]
        BY <4>2, EnsuredType DEF Typed
      <4> QED
        BY <2>11, <4>1, <4>2 DEF EnsureGet
    <3> QED
      BY <2>11, <2>d, <3>2 DEF EnsureGet, Typed, podVars
  <2>12. ASSUME NEW p \in Pods, NEW o \in Objects, EnsurePut(p, o) PROVE Typed'
    <3>1. proc' \in [Pods -> Procs]
      BY <2>12, EnsuredType, StaleType DEF EnsurePut, Typed
    <3>2. object' \in [Objects -> Specs]
      BY <2>12 DEF EnsurePut, Typed, Wanted, Specs
    <3>3. Fault \/ NoFault
      BY <2>12 DEF EnsurePut
    <3> QED
      BY <2>12, <2>d, <3>1, <3>2, <3>3 DEF EnsurePut, Typed, podVars
  <2>13. ASSUME NEW p \in Pods, Kubelet(p) PROVE Typed'
    BY <2>13, <2>a, <2>b
    DEF Kubelet, StartContainer, StopContainer, RemovePod, Typed, podVars,
        processVars, Candidate
  <2>14. ASSUME NEW p \in Pods, Environment(p) PROVE Typed'
    BY <2>14, <2>b
    DEF Environment, CreatePod, DeletePod, EvictPod, LoseNode, NodeBack, Typed,
        podVars, processVars
  <2>15. ASSUME NEW o \in Objects, Edit(o) PROVE Typed'
    <3>1. \A q \in Pods : [Stale(q, o) EXCEPT !.result[o] = "edited"] \in Procs
      BY StaleType, EditedType
    <3>2. proc' \in [Pods -> Procs]
      BY <2>15, <3>1, StaleType DEF Edit
    <3>3. object' \in [Objects -> Specs]
      BY <2>15 DEF Edit, Typed, Specs
    <3>4. edits' \in 0 .. MaxEdits
      BY <2>15 DEF Edit, Typed
    <3>5. UNCHANGED <<podState, bad, notReady, losses, lock, faults>>
      BY <2>15 DEF Edit, podVars
    <3> QED
      BY <3>2, <3>3, <3>4, <3>5 DEF Typed
  <2>16. CASE CollectLock
    BY <2>16 DEF CollectLock, Typed, podVars, processVars
  <2> QED
    BY <2>0, <2>1, <2>2, <2>3, <2>4, <2>5, <2>6, <2>7, <2>8, <2>9, <2>10, <2>11,
       <2>12, <2>13, <2>14, <2>15, <2>16
    DEF Next, ProcessStep, Become, EnsureAdmissionPolicy
<1> QED
  BY <1>1, <1>2, PTL DEF Spec

(***************************************************************************)
(* Where the processes are.                                                *)
(***************************************************************************)

\* Where the processes are after a step of p.
Moves(p, label) ==
    \A q \in Pods : proc'[q].pc = IF q = p THEN label ELSE proc[q].pc

LEMMA MovesFacts ==
    ASSUME Typed, NEW p \in Pods
    PROVE  /\ \A l \in Candidate \cup Started \cup {"configure"} :
                 Goto(p, l) => Moves(p, l)
           /\ Retry(p) => Moves(p, "create")
           /\ Exit(p) => Moves(p, "down")
<1>1. proc \in [Pods -> Procs]
  BY DEF Typed
<1>2. ASSUME NEW l, Goto(p, l) PROVE Moves(p, l)
  BY <1>1, <1>2 DEF Goto, Moves, Procs
<1>3. ASSUME Retry(p) PROVE Moves(p, "create")
  <2>1. [proc[p] EXCEPT !.pc = "create", !.seen = NoPod].pc = "create"
    BY <1>1 DEF Procs
  <2> QED
    BY <1>1, <1>3, <2>1 DEF Retry, Moves
<1>4. ASSUME Exit(p) PROVE Moves(p, "down")
  BY <1>1, <1>4 DEF Exit, Down, Moves
<1> QED
  BY <1>2, <1>3, <1>4

LEMMA EnsureMoves ==
    ASSUME Typed, NEW p \in Pods, NEW o \in Objects
    PROVE  /\ EnsureGet(p, o) => Moves(p, PutLabel[o]) \/ Moves(p, AfterEnsure[o])
           /\ EnsurePut(p, o) => Moves(p, AfterEnsure[o])
<1>1. proc \in [Pods -> Procs]
  BY DEF Typed
<1>2. \A r : Ensured(p, o, r).pc = AfterEnsure[o]
  BY <1>1 DEF Ensured, Procs
<1>3. Fetched(p, o).pc = PutLabel[o]
  BY <1>1 DEF Fetched, Procs
<1>4. \A q \in Pods : Stale(q, o).pc = proc[q].pc
  BY <1>1 DEF Stale, Procs
<1>5. ASSUME NEW r, proc' = [proc EXCEPT ![p] = r] PROVE Moves(p, r.pc)
  BY <1>1, <1>5 DEF Moves
<1>6. EnsureGet(p, o) => Moves(p, PutLabel[o]) \/ Moves(p, AfterEnsure[o])
  BY <1>2, <1>3, <1>5 DEF EnsureGet
<1>7. ASSUME EnsurePut(p, o) PROVE Moves(p, AfterEnsure[o])
  <2>1. CASE \E r \in {"ok", "failed"} : proc' = [proc EXCEPT ![p] = Ensured(p, o, r)]
    <3>1. PICK r \in {"ok", "failed"} : proc' = [proc EXCEPT ![p] = Ensured(p, o, r)]
      BY <2>1
    <3>2. Moves(p, Ensured(p, o, r).pc)
      BY <1>5, <3>1
    <3> QED
      BY <1>2, <3>2
  <2>2. CASE \E r \in {"ok", "failed"} :
               proc' = [q \in Pods |-> IF q = p THEN Ensured(p, o, r) ELSE Stale(q, o)]
    BY <2>2, <1>2, <1>4 DEF Moves
  <2> QED
    BY <1>7, <2>1, <2>2 DEF EnsurePut
<1> QED
  BY <1>6, <1>7

\* Every step keeps the processes equipped.
LEMMA EquippedStep ==
    ASSUME Typed, Equipped, [Next]_vars
    PROVE  Equipped'
<1>p. /\ podState \in [Pods -> {"none", "running", "evicted", "terminating", "gone"}]
      /\ proc \in [Pods -> Procs]
  BY DEF Typed
<1>i. \A p \in Pods : /\ podState[p] = "none" => proc[p].pc = "down"
                      /\ proc[p].pc \in Started => p \notin bad
  BY DEF Equipped, Active
<1>. USE DEF podVars, processVars
<1>m. ASSUME NEW p \in Pods, NEW l, Moves(p, l),
             l \in Started => p \notin bad,
             l # "down" => podState[p] # "none",
             bad' = bad,
             \A q \in Pods : podState'[q] = "none" => podState[q] = "none"
      PROVE  Equipped'
  BY <1>m, <1>i DEF Moves, Equipped, Active, Started
<1>s. ASSUME NEW p \in Pods, proc[p].pc # "down" PROVE podState[p] # "none"
  BY <1>i, <1>s
<1>1. ASSUME NEW p \in Pods,
             Lookup(p) \/ Create(p) \/ Inspect(p) \/ CheckNode(p) \/ EvictLeader(p)
                 \/ DeleteLeaderPod(p) \/ DeleteLeaderLock(p)
      PROVE  Equipped'
  <2>1. /\ podState[p] # "none" /\ bad' = bad
        /\ \A q \in Pods : podState'[q] = "none" => podState[q] = "none"
    BY <1>1, <1>p, <1>s
       DEF Lookup, Create, Inspect, CheckNode, EvictLeader, DeleteLeaderPod,
           DeleteLeaderLock, DeleteSeen
  <2>2. \E l \in (Candidate \cup {"configure", "down"}) : Moves(p, l)
    BY <1>1, MovesFacts
       DEF Lookup, Create, Inspect, CheckNode, EvictLeader, DeleteLeaderPod,
           DeleteLeaderLock, Candidate
  <2>. QED
    BY <1>m, <2>1, <2>2 DEF Candidate, Started
<1>2. ASSUME NEW p \in Pods, Refresh(p) PROVE Equipped'
  <2>1. [proc[p] EXCEPT !.pc = "inspect", !.seen = lock].pc = "inspect"
    BY <1>p DEF Procs
  <2>2. Moves(p, "create") \/ Moves(p, "inspect")
    BY <1>2, <1>p, <2>1, MovesFacts DEF Refresh, Candidate, Moves
  <2>. QED
    BY <1>2, <1>m, <1>s, <2>2 DEF Refresh, Started
<1>3. ASSUME NEW p \in Pods, Configure(p) \/ Crash(p) PROVE Equipped'
  <2>1. Moves(p, "down") \/ (Moves(p, "getPolicy") /\ p \notin bad)
    BY <1>3, MovesFacts DEF Configure, Crash, Started
  <2>. QED
    BY <1>3, <1>m, <1>s, <2>1 DEF Configure, Crash, Started
<1>4. ASSUME NEW p \in Pods, NEW o \in Objects, EnsureGet(p, o) \/ EnsurePut(p, o)
      PROVE  Equipped'
  <2>1. proc[p].pc \in Started /\ PutLabel[o] \in Started /\ AfterEnsure[o] \in Started
    BY <1>4 DEF EnsureGet, EnsurePut, GetLabel, PutLabel, AfterEnsure, Objects, Started
  <2>2. \E l \in Started : Moves(p, l)
    BY <1>4, <2>1, EnsureMoves
  <2>. QED
    BY <1>4, <1>i, <1>m, <1>s, <2>1, <2>2 DEF EnsureGet, EnsurePut, Started
<1>5. ASSUME NEW p \in Pods, Kubelet(p) PROVE Equipped'
  <2>1. CASE StartContainer(p)
    BY <1>m, <2>1, MovesFacts DEF StartContainer, Candidate, Started
  <2>2. CASE StopContainer(p)
    BY <1>m, <2>2, MovesFacts DEF StopContainer, Started
  <2>3. CASE RemovePod(p)
    BY <1>i, <1>p, <2>3 DEF RemovePod, Equipped, Active
  <2>. QED
    BY <1>5, <2>1, <2>2, <2>3 DEF Kubelet
<1>6. ASSUME NEW p \in Pods, Environment(p) PROVE Equipped'
  <2>1. CASE CreatePod(p)
    <3>1. proc[p].pc \notin Started /\ \A q \in Pods : q # p => (q \in bad' => q \in bad)
      BY <1>i, <2>1 DEF CreatePod, Started
    <3>. QED
      BY <1>i, <1>p, <2>1, <3>1 DEF CreatePod, Equipped, Active
  <2>2. CASE DeletePod(p) \/ LoseNode(p) \/ NodeBack(p)
    BY <1>i, <1>p, <2>2 DEF DeletePod, LoseNode, NodeBack, Equipped, Active
  <2>3. CASE EvictPod(p)
    BY <1>m, <1>p, <2>3, MovesFacts DEF EvictPod, Started
  <2>. QED
    BY <1>6, <2>1, <2>2, <2>3 DEF Environment
<1>7. ASSUME NEW o \in Objects, Edit(o) PROVE Equipped'
  <2>1. \A q \in Pods : /\ Stale(q, o).pc = proc[q].pc
                        /\ [Stale(q, o) EXCEPT !.result[o] = "edited"].pc = proc[q].pc
    BY <1>p DEF Stale, Procs
  <2>2. \A q \in Pods : proc'[q].pc = proc[q].pc
    BY <1>7, <2>1 DEF Edit
  <2>. QED
    BY <1>7, <1>i, <2>2 DEF Edit, Equipped, Active
<1>8. CASE CollectLock
  BY <1>8, <1>i DEF CollectLock, Equipped, Active
<1>9. CASE UNCHANGED vars
  BY <1>9, <1>i DEF vars, Equipped, Active
<1>. QED
  BY <1>1, <1>2, <1>3, <1>4, <1>5, <1>6, <1>7, <1>8, <1>9
     DEF Next, ProcessStep, Become, EnsureAdmissionPolicy

\* Every variable keeps its type, and no manager runs without the variables that
\* main requires, for any number of pods and any budgets, lost nodes included.
THEOREM StartupTypeCorrect == Spec => []TypeOK
<1>1. Init => Equipped
  <2>1. Init => bad = {} /\ \A p \in Pods : proc[p] = Down
    BY DEF Init
  <2>2. Down.pc = "down"
    BY DEF Down
  <2>. QED
    BY <2>1, <2>2 DEF Equipped
<1>2. Typed /\ Equipped /\ [Next]_vars => Equipped'
  BY EquippedStep
<1>3. Typed /\ Equipped => TypeOK
  BY DEF TypeOK
<1>. QED
  BY <1>1, <1>2, <1>3, TypedInvariant, PTL DEF Spec

(***************************************************************************)
(* The lock.                                                               *)
(***************************************************************************)

\* What the lock promises of process p.
Safe(p) ==
    /\ proc[p].pc \in Leading => lock = p
    /\ proc[p].pc \notin {"deletePod", "deleteLock"}
    /\ proc[p].pc # "down" => podState[p] \in {"running", "terminating"}

LEMMA LeaderInvariant == Spec => [](Typed /\ LeaderInv)
<1>1. Init => LeaderInv
  BY DEF Init, LeaderInv, Down, Leading, Started
<1>2. Typed /\ LeaderInv /\ [Next]_vars => LeaderInv'
  <2> SUFFICES ASSUME Typed, LeaderInv, [Next]_vars
               PROVE  losses' = 0 => notReady' = {} /\ \A p \in Pods : Safe(p)'
    BY DEF LeaderInv, Safe
  <2> HAVE losses' = 0
  <2>l. losses = 0 /\ \A p \in Pods : ~LoseNode(p)
    <3>1. losses \in Nat
      BY DEF Typed
    <3>2. \A p \in Pods : LoseNode(p) => losses' = losses + 1
      BY DEF LoseNode
    <3>3. \/ UNCHANGED losses
          \/ \E p \in Pods : LoseNode(p)
      BY DEF Next, vars, ProcessStep, Become, Lookup, Create, Refresh, Inspect,
         CheckNode, EvictLeader, DeleteLeaderPod, DeleteLeaderLock, Configure, Crash,
         EnsureAdmissionPolicy, EnsureGet, EnsurePut, Kubelet, StartContainer,
         StopContainer, RemovePod, Environment, CreatePod, DeletePod, EvictPod,
         NodeBack, Edit, CollectLock, podVars
    <3> QED
      BY <3>1, <3>2, <3>3
  <2>i. notReady = {} /\ \A p \in Pods : Safe(p)
    BY <2>l DEF LeaderInv, Safe
  <2> DEFINE Goal == notReady' = {} /\ \A p \in Pods : Safe(p)'
  <2> SUFFICES Goal
    OBVIOUS
  <2>p. podState \in [Pods -> {"none", "running", "evicted", "terminating", "gone"}]
    BY DEF Typed
  <2> HIDE DEF LeaderInv, Typed
  <2>0. CASE UNCHANGED vars
    BY <2>0, <2>i DEF vars, Safe
  <2>m. ASSUME NEW p \in Pods, NEW l \in Candidate \cup Started \cup {"configure", "down"},
               Moves(p, l), l \notin {"deletePod", "deleteLock"},
               l \in Leading => lock = p, l # "down" => proc[p].pc # "down",
               UNCHANGED <<podState, notReady, lock>>
        PROVE  Goal
    BY <2>m, <2>i DEF Moves, Safe
  <2>1. ASSUME NEW p \in Pods, Lookup(p) PROVE Goal
    BY <2>1, <2>m, MovesFacts DEF Lookup, podVars, Leading, Started, Candidate
  <2>2. ASSUME NEW p \in Pods, Create(p) PROVE Goal
    <3>1. CASE lock = NoPod /\ lock' = p
      <4>1. \A q \in Pods : proc[q].pc \notin Leading
        BY <2>i, <3>1, PodsAssumption DEF Safe
      <4>2. Moves(p, "configure") \/ Moves(p, "down")
        BY <2>2, <3>1, MovesFacts DEF Create, Candidate
      <4> QED
        BY <2>2, <2>i, <3>1, <4>1, <4>2 DEF Create, Moves, Safe, podVars
    <3>2. CASE UNCHANGED lock
      BY <2>2, <3>2, <2>m, MovesFacts, PodsAssumption
      DEF Create, podVars, Leading, Started, Candidate
    <3> QED
      BY <2>2, <3>1, <3>2 DEF Create
  <2>3. ASSUME NEW p \in Pods, Refresh(p) PROVE Goal
    <3>1. Moves(p, "create") \/ Moves(p, "inspect")
      <4>1. ASSUME proc' = [proc EXCEPT ![p] = [@ EXCEPT !.pc = "inspect", !.seen = lock]]
            PROVE  Moves(p, "inspect")
        <5>1. proc \in [Pods -> Procs]
          BY DEF Typed
        <5>2. [proc[p] EXCEPT !.pc = "inspect", !.seen = lock].pc = "inspect"
          BY <5>1 DEF Procs
        <5> QED
          BY <4>1, <5>1, <5>2 DEF Moves
      <4> QED
        BY <2>3, <4>1, MovesFacts DEF Refresh, Candidate
    <3> QED
      BY <2>3, <2>m, <3>1 DEF Refresh, podVars, Leading, Started, Candidate
  <2>4. ASSUME NEW p \in Pods, Inspect(p) PROVE Goal
    BY <2>4, <2>m, MovesFacts DEF Inspect, podVars, Leading, Started, Candidate
  <2>5. ASSUME NEW p \in Pods, CheckNode(p) PROVE Goal
    <3>1. Moves(p, "create")
      BY <2>5, <2>i, MovesFacts DEF CheckNode
    <3> QED
      BY <2>5, <2>m, <3>1 DEF CheckNode, podVars, Leading, Started, Candidate
  <2>6. ASSUME NEW p \in Pods, EvictLeader(p) PROVE Goal
    <3>1. Moves(p, "create") /\ proc[p].pc = "evict" /\ UNCHANGED <<notReady, lock>>
      BY <2>6, MovesFacts DEF EvictLeader
    <3>2. \A q \in Pods : podState'[q] \in {podState[q], "terminating"}
      BY <2>6, <2>p DEF EvictLeader, DeleteSeen
    <3> QED
      BY <2>i, <3>1, <3>2 DEF Moves, Safe, Leading, Started
  <2>7. ASSUME NEW p \in Pods, DeleteLeaderPod(p) \/ DeleteLeaderLock(p) PROVE FALSE
    BY <2>7, <2>i DEF DeleteLeaderPod, DeleteLeaderLock, Safe
  <2>9. ASSUME NEW p \in Pods, Configure(p) PROVE Goal
    <3>1. lock = p
      BY <2>9, <2>i DEF Configure, Safe, Leading
    <3> QED
      BY <2>9, <2>m, <3>1, MovesFacts DEF Configure, podVars, Started
  <2>10. ASSUME NEW p \in Pods, Crash(p) PROVE Goal
    BY <2>10, <2>m, MovesFacts DEF Crash, podVars, Leading, Started
  <2>11. ASSUME NEW p \in Pods, NEW o \in Objects, EnsureGet(p, o) \/ EnsurePut(p, o)
         PROVE  Goal
    <3>1. proc[p].pc \in Started /\ PutLabel[o] \in Started /\ AfterEnsure[o] \in Started
      BY <2>11 DEF EnsureGet, EnsurePut, GetLabel, PutLabel, AfterEnsure, Objects, Started
    <3>2. lock = p
      BY <2>i, <3>1 DEF Safe, Leading
    <3>3. \E l \in Started : Moves(p, l)
      BY <2>11, <3>1, EnsureMoves
    <3> QED
      BY <2>11, <2>m, <3>1, <3>2, <3>3 DEF EnsureGet, EnsurePut, podVars, Started
  <2>13. ASSUME NEW p \in Pods, Kubelet(p) PROVE Goal
    <3>1. CASE StartContainer(p)
      <4>1. Moves(p, "lookup")
        BY <3>1, MovesFacts DEF StartContainer, Candidate
      <4> QED
        BY <3>1, <2>i, <4>1 DEF StartContainer, Moves, Safe, podVars, Leading, Started
    <3>2. CASE StopContainer(p)
      BY <3>2, <2>m, MovesFacts DEF StopContainer, podVars, Leading, Started
    <3>3. CASE RemovePod(p)
      BY <3>3, <2>i, <2>p DEF RemovePod, Safe
    <3> QED
      BY <2>13, <3>1, <3>2, <3>3 DEF Kubelet
  <2>14. ASSUME NEW p \in Pods, Environment(p) PROVE Goal
    <3>1. CASE CreatePod(p) \/ DeletePod(p)
      BY <3>1, <2>i, <2>p DEF CreatePod, DeletePod, Safe
    <3>2. CASE EvictPod(p)
      <4>1. Moves(p, "down")
        BY <3>2, MovesFacts DEF EvictPod
      <4> QED
        BY <3>2, <2>i, <2>p, <4>1 DEF EvictPod, Moves, Safe, Leading, Started
    <3>3. CASE NodeBack(p)
      BY <3>3, <2>i DEF NodeBack
    <3> QED
      BY <2>14, <2>l, <3>1, <3>2, <3>3 DEF Environment
  <2>15. ASSUME NEW o \in Objects, Edit(o) PROVE Goal
    <3>1. \A q \in Pods : /\ Stale(q, o).pc = proc[q].pc
                          /\ [Stale(q, o) EXCEPT !.result[o] = "edited"].pc = proc[q].pc
      BY DEF Typed, Stale, Procs
    <3>2. \A q \in Pods : proc'[q].pc = proc[q].pc
      BY <2>15, <3>1 DEF Edit
    <3> QED
      BY <2>15, <2>i, <3>2 DEF Edit, Safe, podVars
  <2>16. CASE CollectLock
    <3>1. \A q \in Pods : proc[q].pc \notin Leading
      BY <2>16, <2>i DEF CollectLock, Safe, Leading, Started
    <3> QED
      BY <2>16, <2>i, <3>1 DEF CollectLock, Safe, podVars
  <2> QED
    BY <2>0, <2>1, <2>2, <2>3, <2>4, <2>5, <2>6, <2>7, <2>9, <2>10, <2>11,
       <2>13, <2>14, <2>15, <2>16
    DEF Next, ProcessStep, Become, EnsureAdmissionPolicy
<1> QED
  BY <1>1, <1>2, TypedInvariant, PTL DEF Spec

\* At most one process runs the reconciler, for any number of pods, unless a
\* node has stopped reporting.
THEOREM OneActiveHolds == Spec => []OneActive
<1>1. LeaderInv => OneActive
  BY DEF LeaderInv, OneActive, Active, Leading
<1> QED
  BY <1>1, LeaderInvariant, PTL

(***************************************************************************)
(* The admission objects.                                                  *)
(***************************************************************************)

\* A process that is not at work on the objects keeps or forgets its results.
LEMMA ResultFacts ==
    ASSUME Typed, NEW p \in Pods, NEW q \in Pods
    PROVE  /\ \A l \in Candidate \cup Started \cup {"configure"} :
                 Goto(p, l) => proc'[q].result = proc[q].result
           /\ Retry(p) => proc'[q].result = proc[q].result
           /\ Exit(p) => \A o \in Objects :
                 proc'[q].result[o] = "ok" => q # p /\ proc'[q] = proc[q]
<1>1. proc \in [Pods -> Procs]
  BY DEF Typed
<1>2. ASSUME NEW l, Goto(p, l) PROVE proc'[q].result = proc[q].result
  BY <1>1, <1>2 DEF Goto, Procs
<1>3. ASSUME Retry(p) PROVE proc'[q].result = proc[q].result
  <2>1. [proc[p] EXCEPT !.pc = "create", !.seen = NoPod].result = proc[p].result
    BY <1>1 DEF Procs
  <2> QED
    BY <1>1, <1>3, <2>1 DEF Retry
<1>4. ASSUME Exit(p), NEW o \in Objects, proc'[q].result[o] = "ok"
      PROVE  q # p /\ proc'[q] = proc[q]
  BY <1>1, <1>4 DEF Exit, Down
<1> QED
  BY <1>2, <1>3, <1>4

\* What a start has ensured, only the leader or an administrator changes.
LEMMA PolicyInvariant == Spec => []PolicyInv
<1>1. Init => PolicyInv
  BY DEF Init, PolicyInv, Down, Objects
<1>2. Typed /\ LeaderInv /\ PolicyInv /\ [Next]_vars /\ LeaderInv' => PolicyInv'
  <2> SUFFICES ASSUME Typed, LeaderInv, PolicyInv, [Next]_vars, LeaderInv', losses' = 0,
                      NEW q \in Pods, NEW o \in Objects, proc'[q].result[o] = "ok"
               PROVE  proc'[q].pc \in Started /\ object'[o] = Wanted(q)
    BY DEF PolicyInv, Active
  <2> DEFINE Goal == proc'[q].pc \in Started /\ object'[o] = Wanted(q)
  <2>l. losses = 0
    <3>1. losses \in Nat
      BY DEF Typed
    <3>2. losses' = losses \/ losses' = losses + 1
      BY DEF Next, vars, ProcessStep, Become, Lookup, Create, Refresh, Inspect,
         CheckNode, EvictLeader, DeleteLeaderPod, DeleteLeaderLock, Configure, Crash,
         EnsureAdmissionPolicy, EnsureGet, EnsurePut, Kubelet, StartContainer,
         StopContainer, RemovePod, Environment, CreatePod, DeletePod, EvictPod,
         LoseNode, NodeBack, Edit, CollectLock, podVars
    <3> QED
      BY <3>1, <3>2
  <2>i. proc[q].result[o] = "ok" => proc[q].pc \in Started /\ object[o] = Wanted(q)
    BY <2>l DEF PolicyInv, Active
  <2>t. proc \in [Pods -> Procs] /\ object \in [Objects -> Specs]
    BY DEF Typed
  <2> HIDE DEF Typed, LeaderInv, PolicyInv
  <2>u. ASSUME UNCHANGED object, proc'[q] = proc[q] PROVE Goal
    BY <2>u, <2>i
  <2>x. ASSUME NEW p \in Pods, UNCHANGED object, Exit(p) PROVE Goal
    BY <2>x, <2>i, ResultFacts
  <2>g. ASSUME NEW p \in Pods, NEW l \in Candidate \cup Started \cup {"configure"},
               UNCHANGED object, proc[p].pc \notin Started,
               Moves(p, l), proc'[q].result = proc[q].result
        PROVE  Goal
    BY <2>g, <2>i DEF Moves
  <2>0. CASE UNCHANGED vars
    BY <2>0, <2>u DEF vars
  <2>1. ASSUME NEW p \in Pods, Lookup(p) \/ Create(p) \/ Configure(p) PROVE Goal
    <3>1. proc[p].pc \notin Started /\ UNCHANGED object
      BY <2>1 DEF Lookup, Create, Configure, Started
    <3>2. Exit(p) \/ \E l \in Candidate \cup Started \cup {"configure"} : Goto(p, l)
      BY <2>1 DEF Lookup, Create, Configure, Candidate, Started
    <3> QED
      BY <3>1, <3>2, <2>x, <2>g, MovesFacts, ResultFacts
  <2>2. ASSUME NEW p \in Pods, Inspect(p) \/ CheckNode(p) \/ EvictLeader(p) \/ DeleteLeaderPod(p)
                               \/ DeleteLeaderLock(p)
        PROVE  Goal
    <3>1. proc[p].pc \notin Started /\ UNCHANGED object
      BY <2>2 DEF Inspect, CheckNode, EvictLeader, DeleteLeaderPod, DeleteLeaderLock, Started
    <3>2. Exit(p) \/ Retry(p) \/ \E l \in Candidate : Goto(p, l)
      BY <2>2 DEF Inspect, CheckNode, EvictLeader, DeleteLeaderPod, DeleteLeaderLock, Candidate
    <3>3. "create" \in Candidate
      BY DEF Candidate
    <3> QED
      BY <3>1, <3>2, <3>3, <2>x, <2>g, MovesFacts, ResultFacts
  <2>3. ASSUME NEW p \in Pods, Refresh(p) PROVE Goal
    <3>1. proc[p].pc \notin Started /\ UNCHANGED object
      BY <2>3 DEF Refresh, Started
    <3>2. CASE Goto(p, "create")
      <4>1. "create" \in Candidate
        BY DEF Candidate
      <4> QED
        BY <3>1, <3>2, <4>1, <2>g, MovesFacts, ResultFacts
    <3>3. CASE proc' = [proc EXCEPT ![p] = [@ EXCEPT !.pc = "inspect", !.seen = lock]]
      <4>1. [proc[p] EXCEPT !.pc = "inspect", !.seen = lock].result = proc[p].result
        BY <2>t DEF Procs
      <4> QED
        BY <3>1, <3>3, <4>1, <2>t, <2>i
    <3> QED
      BY <2>3, <3>2, <3>3 DEF Refresh
  <2>4. ASSUME NEW p \in Pods, Crash(p) \/ StopContainer(p) \/ EvictPod(p) PROVE Goal
    BY <2>4, <2>x DEF Crash, StopContainer, EvictPod, processVars
  <2>5. ASSUME NEW p \in Pods, StartContainer(p) PROVE Goal
    <3>1. "lookup" \in Candidate /\ "down" \notin Started
      BY DEF Candidate, Started
    <3> QED
      BY <2>5, <3>1, <2>g, MovesFacts, ResultFacts DEF StartContainer, processVars
  <2>6. ASSUME NEW p \in Pods, RemovePod(p) \/ CreatePod(p) \/ DeletePod(p) \/ LoseNode(p)
                               \/ NodeBack(p)
        PROVE  Goal
    BY <2>6, <2>u DEF RemovePod, CreatePod, DeletePod, LoseNode, NodeBack, processVars
  <2>7. CASE CollectLock
    BY <2>7, <2>u DEF CollectLock, processVars
  <2>8. ASSUME NEW p \in Pods, NEW c \in Objects, EnsureGet(p, c) PROVE Goal
    <3>1. UNCHANGED object
      BY <2>8 DEF EnsureGet
    <3>2. CASE p # q
      BY <2>8, <3>1, <3>2, <2>t, <2>u DEF EnsureGet
    <3>3. CASE p = q
      <4>1. AfterEnsure[c] \in Started /\ PutLabel[c] \in Started
        BY DEF AfterEnsure, PutLabel, Objects, Started
      <4>2. CASE proc' = [proc EXCEPT ![p] = Fetched(p, c)]
        <5>1. Fetched(p, c).result = proc[p].result /\ Fetched(p, c).pc = PutLabel[c]
          BY <2>t DEF Fetched, Procs
        <5> QED
          BY <3>1, <3>3, <4>1, <4>2, <5>1, <2>t, <2>i
      <4>3. ASSUME NEW r \in {"ok", "failed"}, proc' = [proc EXCEPT ![p] = Ensured(p, c, r)],
                   r = "ok" => object[c] = Wanted(p)
            PROVE  Goal
        <5>1. /\ Ensured(p, c, r).pc = AfterEnsure[c]
              /\ Ensured(p, c, r).result = [proc[p].result EXCEPT ![c] = r]
          BY <2>t DEF Ensured, Procs
        <5>2. proc[p].result \in [Objects -> {"todo", "ok", "failed", "edited"}]
          BY <2>t DEF Procs
        <5>3. proc'[q].pc = AfterEnsure[c] /\ proc'[q].result = [proc[p].result EXCEPT ![c] = r]
          BY <3>3, <4>3, <5>1, <2>t
        <5>4. CASE c = o
          BY <3>1, <3>3, <4>1, <4>3, <5>2, <5>3, <5>4
        <5>5. CASE c # o
          BY <3>1, <3>3, <4>1, <5>2, <5>3, <5>5, <2>i
        <5> QED
          BY <5>4, <5>5
      <4> QED
        BY <2>8, <4>2, <4>3 DEF EnsureGet
    <3> QED
      BY <3>2, <3>3
  <2>9. ASSUME NEW p \in Pods, NEW c \in Objects, EnsurePut(p, c) PROVE Goal
    <3>1. proc[p].pc \in Started /\ AfterEnsure[c] \in Started
      BY <2>9 DEF EnsurePut, AfterEnsure, PutLabel, Objects, Started
    <3>2. proc[q].pc \in Started => p = q
      BY <2>l, <3>1 DEF LeaderInv, Leading
    <3>3. CASE p # q
      <4>1. proc'[q] = proc[q] \/ proc'[q] = Stale(q, c)
        BY <2>9, <3>3, <2>t DEF EnsurePut
      <4>2. Stale(q, c).result = proc[q].result
        BY <2>t DEF Stale, Procs
      <4> QED
        BY <3>2, <3>3, <4>1, <4>2, <2>i
    <3>4. CASE p = q
      <4>1. PICK r \in {"ok", "failed"} :
               /\ proc'[q] = Ensured(p, c, r)
               /\ r = "ok" => object' = [object EXCEPT ![c] = Wanted(p)]
               /\ object' = object \/ object' = [object EXCEPT ![c] = Wanted(p)]
        <5>1. CASE proc' = [proc EXCEPT ![p] = Ensured(p, c, "failed")] /\ UNCHANGED object
          BY <3>4, <5>1, <2>t
        <5>2. CASE \E r \in {"ok", "failed"} :
                /\ object' = [object EXCEPT ![c] = Wanted(p)]
                /\ proc' = [s \in Pods |-> IF s = p THEN Ensured(p, c, r) ELSE Stale(s, c)]
          BY <3>4, <5>2
        <5> QED
          BY <2>9, <5>1, <5>2 DEF EnsurePut
      <4>2. /\ Ensured(p, c, r).pc = AfterEnsure[c]
            /\ Ensured(p, c, r).result = [proc[p].result EXCEPT ![c] = r]
        BY <2>t DEF Ensured, Procs
      <4>3. proc[p].result \in [Objects -> {"todo", "ok", "failed", "edited"}]
        BY <2>t DEF Procs
      <4>4. CASE c = o
        BY <3>1, <3>4, <4>1, <4>2, <4>3, <4>4, <2>t
      <4>5. CASE c # o
        BY <3>1, <3>4, <4>1, <4>2, <4>3, <4>5, <2>i, <2>t
      <4> QED
        BY <4>4, <4>5
    <3> QED
      BY <3>3, <3>4
  <2>10. ASSUME NEW c \in Objects, Edit(c) PROVE Goal
    <3>1. /\ Stale(q, c).pc = proc[q].pc
          /\ Stale(q, c).result = proc[q].result
      BY <2>t DEF Stale, Procs
    <3>2. Stale(q, c) \in Procs
      BY StaleType
    <3>3. /\ [Stale(q, c) EXCEPT !.result[c] = "edited"].pc = proc[q].pc
          /\ [Stale(q, c) EXCEPT !.result[c] = "edited"].result
                = [proc[q].result EXCEPT ![c] = "edited"]
      BY <3>1, <3>2 DEF Procs
    <3>4. proc[q].result \in [Objects -> {"todo", "ok", "failed", "edited"}]
      BY <2>t DEF Procs
    <3>5. \E s : object' = [object EXCEPT ![c] = s]
      BY <2>10 DEF Edit
    <3>6. CASE proc[q].result[c] = "ok"
      <4>1. proc'[q] = [Stale(q, c) EXCEPT !.result[c] = "edited"]
        BY <2>10, <3>6 DEF Edit
      <4> QED
        BY <3>3, <3>4, <3>5, <4>1, <2>i, <2>t
    <3>7. CASE proc[q].result[c] # "ok"
      <4>1. proc'[q] = Stale(q, c)
        BY <2>10, <3>7 DEF Edit
      <4> QED
        BY <3>1, <3>5, <3>7, <4>1, <2>i, <2>t
    <3> QED
      BY <3>6, <3>7
  <2> QED
    BY <2>0, <2>1, <2>2, <2>3, <2>4, <2>5, <2>6, <2>7, <2>8, <2>9, <2>10
    DEF Next, ProcessStep, Become, EnsureAdmissionPolicy, Kubelet, Environment
<1> QED
  BY <1>1, <1>2, LeaderInvariant, PTL DEF Spec

\* What a start has ensured stays as its release wants it while its process
\* runs, for any number of pods and releases that start and stop around it.
THEOREM EnsuredStaysHolds == Spec => []EnsuredStays
<1>1. PolicyInv => EnsuredStays
  BY DEF PolicyInv, EnsuredStays
<1> QED
  BY <1>1, PolicyInvariant, PTL
=============================================================================

-------------------------- MODULE OperatorStartup --------------------------
(***************************************************************************)
(* The start of the operator: main takes the leader lock (leader.Become),  *)
(* reads its environment, sets the manager up and starts it; next to the   *)
(* reconciler the manager runs ensureAdmissionPolicy once.  Several pods   *)
(* of the Deployment may exist at a time (a rollout, an eviction, a lost   *)
(* node), each with at most one operator process.                          *)
(*                                                                         *)
(* One action per API request.  The two admission objects are abstracted   *)
(* to the release whose spec they carry, their resourceVersion to whether  *)
(* a process's copy is still the current one.                              *)
(***************************************************************************)
EXTENDS Naturals

CONSTANTS
    Pods,        \* the operator's pods; a Deployment does not reuse a name
    NoPod,       \* no owner of the lock
    Old,         \* pods of the older of two releases
    MaxFaults,   \* bound: failed requests and crashes
    MaxEdits,    \* bound: edits of the admission objects by an administrator
    MaxLosses    \* bound: nodes that stop reporting

ASSUME PodsAssumption   == NoPod \notin Pods /\ Old \subseteq Pods
ASSUME BudgetAssumption == MaxFaults \in Nat /\ MaxEdits \in Nat /\ MaxLosses \in Nat

VARIABLES
    podState,  \* the Pod objects
    bad,       \* pods whose environment misses a variable main requires
    notReady,  \* pods on a node whose Ready condition is not True
    lock,      \* the pod that owns the ConfigMap must-gather-operator-lock
    proc,      \* the process of each pod
    object,    \* ValidatingAdmissionPolicy and its binding, by release
    faults, edits, losses   \* the budgets used

vars == <<podState, bad, notReady, lock, proc, object, faults, edits, losses>>

Objects == {"policy", "binding"}
Specs   == {"none", "old", "new", "edited"}

\* blockMustGatherRestrictedNamespacesPolicy and its binding, as the release
\* of pod p spells them.
Wanted(p) == IF p \in Old THEN "old" ELSE "new"

GetLabel == [policy |-> "getPolicy", binding |-> "getBinding"]
PutLabel == [policy |-> "putPolicy", binding |-> "putBinding"]

\* Mutant: the binding is left out.
AfterEnsureNoBinding == [policy |-> "serving", binding |-> "serving"]

\* The binding is ensured whatever became of the policy.
AfterEnsure == [policy |-> "getBinding", binding |-> "serving"]

\* Where a process is between Become, the set-up and mgr.Start.
Candidate == {"lookup", "create", "refresh", "inspect", "node", "evict",
              "deletePod", "deleteLock"}
Started   == {"getPolicy", "putPolicy", "getBinding", "putBinding", "serving"}

\* seen is the owner of the lock as last read, copy and fresh the object as
\* last read, result what became of each object in this start.
Procs ==
    [pc : Candidate \cup Started \cup {"down", "configure"},
     seen : Pods \cup {NoPod}, copy : Specs, fresh : BOOLEAN,
     result : [Objects -> {"todo", "ok", "failed", "edited"}]]

Down == [pc |-> "down", seen |-> NoPod, copy |-> "none", fresh |-> FALSE,
         result |-> [o \in Objects |-> "todo"]]

Active(p) == proc[p].pc \in Started

Init ==
    /\ podState = [p \in Pods |-> "none"]
    /\ bad = {} /\ notReady = {}
    /\ lock = NoPod
    /\ proc = [p \in Pods |-> Down]
    /\ object \in {[o \in Objects |-> s] : s \in {"none", "old"}}
    /\ faults = 0 /\ edits = 0 /\ losses = 0

(***************************************************************************)
(* Steps of a process.  os.Exit(1) leaves the restart to the kubelet.      *)
(***************************************************************************)
Goto(p, label) == proc' = [proc EXCEPT ![p].pc = label]
Retry(p)       == proc' = [proc EXCEPT ![p] = [@ EXCEPT !.pc = "create", !.seen = NoPod]]
Exit(p)        == proc' = [proc EXCEPT ![p] = Down]

NoFault == UNCHANGED faults
Fault   == faults < MaxFaults /\ faults' = faults + 1

podVars == <<podState, bad, notReady, losses>>

\* Mutant: any lock is taken for one's own.
LookupAnyLock(p) ==
    /\ proc[p].pc = "lookup"
    /\ Goto(p, IF lock # NoPod THEN "configure" ELSE "create") /\ NoFault
    /\ UNCHANGED <<podVars, lock, object, edits>>

\* myOwnerRef and the first Get: a restarted container finds its own lock.
Lookup(p) ==
    /\ proc[p].pc = "lookup"
    /\ \/ lock = p /\ Goto(p, "configure") /\ NoFault
       \/ lock # p /\ Goto(p, "create") /\ NoFault
       \/ Exit(p) /\ Fault
    /\ UNCHANGED <<podVars, lock, object, edits>>

\* Only one ConfigMap of the name can exist.  The answer may be lost.
Create(p) ==
    /\ proc[p].pc = "create"
    /\ \/ lock = NoPod /\ lock' = p /\ Goto(p, "configure") /\ NoFault
       \/ lock # NoPod /\ UNCHANGED lock /\ Goto(p, "refresh") /\ NoFault
       \/ UNCHANGED lock /\ Exit(p) /\ Fault
       \/ lock = NoPod /\ lock' = p /\ Exit(p) /\ Fault
    /\ UNCHANGED <<podVars, object, edits>>

\* Any error of this Get is taken for a lock that is gone.
Refresh(p) ==
    /\ proc[p].pc = "refresh"
    /\ \/ lock = NoPod /\ Goto(p, "create") /\ NoFault
       \/ /\ lock # NoPod /\ NoFault
          /\ proc' = [proc EXCEPT ![p] = [@ EXCEPT !.pc = "inspect", !.seen = lock]]
       \/ Goto(p, "create") /\ Fault
    /\ UNCHANGED <<podVars, lock, object, edits>>

\* The leader's pod: gone (the collector will remove the lock), evicted and
\* not yet deleted, or there, in which case its node is looked at.
Inspect(p) ==
    /\ proc[p].pc = "inspect"
    /\ LET leader == podState[proc[p].seen] IN
       \/ leader = "gone" /\ Retry(p) /\ NoFault
       \/ leader = "evicted" /\ Goto(p, "evict") /\ NoFault
       \/ leader \in {"running", "terminating"} /\ Goto(p, "node") /\ NoFault
       \/ Exit(p) /\ Fault
    /\ UNCHANGED <<podVars, lock, object, edits>>

\* isNotReadyNode; a node that cannot be read counts as ready.
CheckNode(p) ==
    /\ proc[p].pc = "node"
    /\ \/ proc[p].seen \in notReady /\ Goto(p, "deletePod") /\ NoFault
       \/ proc[p].seen \notin notReady /\ Retry(p) /\ NoFault
       \/ Retry(p) /\ Fault
    /\ UNCHANGED <<podVars, lock, object, edits>>

\* Delete of a pod by name, for a pod that is there.
DeleteSeen(p) ==
    /\ podState[proc[p].seen] # "gone"
    /\ podState' = [podState EXCEPT ![proc[p].seen] = "terminating"]

\* Mutant: the evicted pod is left to others.
EvictLeaderWaits(p) ==
    /\ proc[p].pc = "evict"
    /\ Retry(p) /\ NoFault
    /\ UNCHANGED <<podVars, lock, object, edits>>

\* The evicted pod is deleted; an error is only logged.
EvictLeader(p) ==
    /\ proc[p].pc = "evict"
    /\ Retry(p)
    /\ \/ DeleteSeen(p) /\ NoFault
       \/ podState[proc[p].seen] = "gone" /\ UNCHANGED podState /\ NoFault
       \/ UNCHANGED podState /\ Fault
    /\ UNCHANGED <<bad, notReady, losses, lock, object, edits>>

\* deleteLeader, first the pod: every error ends the process.
DeleteLeaderPod(p) ==
    /\ proc[p].pc = "deletePod"
    /\ \/ DeleteSeen(p) /\ Goto(p, "deleteLock") /\ NoFault
       \/ podState[proc[p].seen] = "gone" /\ UNCHANGED podState /\ Exit(p) /\ NoFault
       \/ UNCHANGED podState /\ Exit(p) /\ Fault
    /\ UNCHANGED <<bad, notReady, losses, lock, object, edits>>

\* deleteLeader, then the lock: by name, whoever owns it by now.
DeleteLeaderLock(p) ==
    /\ proc[p].pc = "deleteLock"
    /\ \/ lock # NoPod /\ lock' = NoPod /\ Retry(p) /\ NoFault
       \/ lock = NoPod /\ UNCHANGED lock /\ Exit(p) /\ NoFault
       \/ UNCHANGED lock /\ Exit(p) /\ Fault
       \/ lock # NoPod /\ lock' = NoPod /\ Exit(p) /\ Fault
    /\ UNCHANGED <<podVars, object, edits>>

\* Mutant: a variable that is not set is taken for an empty one.
ConfigureUnchecked(p) ==
    /\ proc[p].pc = "configure"
    /\ \/ Goto(p, "getPolicy") /\ NoFault
       \/ Exit(p) /\ Fault
    /\ UNCHANGED <<podVars, lock, object, edits>>

\* The namespace, the image and the service account from the environment, the
\* controller, the health checks, then mgr.Start.
Configure(p) ==
    /\ proc[p].pc = "configure"
    /\ \/ p \in bad /\ Exit(p) /\ NoFault
       \/ p \notin bad /\ Goto(p, "getPolicy") /\ NoFault
       \/ Exit(p) /\ Fault
    /\ UNCHANGED <<podVars, lock, object, edits>>

\* The process dies, or the manager stops with an error.
Crash(p) ==
    /\ proc[p].pc # "down"
    /\ Exit(p) /\ Fault
    /\ UNCHANGED <<podVars, lock, object, edits>>

(***************************************************************************)
(* ensureVAP and ensureVAPBinding: Get past the cache, then Create or      *)
(* Update.  An error is logged and not retried before the next start.      *)
(***************************************************************************)

\* What is recorded for object o when the step of p that ensures it is over.
Ensured(p, o, outcome) ==
    [proc[p] EXCEPT !.pc = AfterEnsure[o], !.result[o] = outcome,
                    !.copy = "none", !.fresh = FALSE]

\* Create and Update start from what was read.
Fetched(p, o) ==
    [proc[p] EXCEPT !.pc = PutLabel[o], !.copy = object[o], !.fresh = TRUE]

\* Mutant: an object that exists is not compared.
EnsureGetNoUpdate(p, o) ==
    /\ proc[p].pc = GetLabel[o]
    /\ \/ object[o] # "none" /\ proc' = [proc EXCEPT ![p] = Ensured(p, o, "ok")]
       \/ /\ object[o] = "none"
          /\ proc' = [proc EXCEPT ![p] = Fetched(p, o)]
    /\ NoFault
    /\ UNCHANGED <<podVars, lock, object, edits>>

EnsureGet(p, o) ==
    /\ proc[p].pc = GetLabel[o]
    /\ \/ /\ object[o] = Wanted(p) /\ NoFault
          /\ proc' = [proc EXCEPT ![p] = Ensured(p, o, "ok")]
       \/ /\ object[o] # Wanted(p) /\ NoFault
          /\ proc' = [proc EXCEPT ![p] = Fetched(p, o)]
       \/ Fault /\ proc' = [proc EXCEPT ![p] = Ensured(p, o, "failed")]
    /\ UNCHANGED <<podVars, lock, object, edits>>

\* The other processes' copies of object o are no longer current.
Stale(q, o) ==
    [proc[q] EXCEPT !.fresh = (@ /\ proc[q].pc # PutLabel[o])]

\* Create is refused if the object exists, Update if it has changed.
Accepted(p, o) ==
    IF proc[p].copy = "none" THEN object[o] = "none" ELSE proc[p].fresh

EnsurePut(p, o) ==
    /\ proc[p].pc = PutLabel[o]
    /\ \/ /\ ~Accepted(p, o) /\ NoFault
          /\ proc' = [proc EXCEPT ![p] = Ensured(p, o, "failed")]
          /\ UNCHANGED object
       \/ /\ Fault
          /\ proc' = [proc EXCEPT ![p] = Ensured(p, o, "failed")]
          /\ UNCHANGED object
       \/ \E outcome \in {"ok", "failed"} :
             /\ Accepted(p, o)
             /\ IF outcome = "ok" THEN NoFault ELSE Fault
             /\ object' = [object EXCEPT ![o] = Wanted(p)]
             /\ proc' = [q \in Pods |-> IF q = p THEN Ensured(p, o, outcome)
                                                 ELSE Stale(q, o)]
    /\ UNCHANGED <<podVars, lock, edits>>

\* An administrator changes or deletes one of the objects.
Edit(o) ==
    /\ edits < MaxEdits /\ edits' = edits + 1
    /\ \E s \in {"none", "edited"} \ {object[o]} : object' = [object EXCEPT ![o] = s]
    /\ proc' = [q \in Pods |->
                  IF proc[q].result[o] = "ok"
                  THEN [Stale(q, o) EXCEPT !.result[o] = "edited"]
                  ELSE Stale(q, o)]
    /\ UNCHANGED <<podVars, lock, faults>>

(***************************************************************************)
(* Pods, nodes and the garbage collector.                                  *)
(***************************************************************************)
processVars == <<object, faults, edits>>

CreatePod(p) ==
    /\ podState[p] = "none"
    /\ podState' = [podState EXCEPT ![p] = "running"]
    /\ bad' \in {bad, bad \cup {p}}
    /\ UNCHANGED <<notReady, lock, proc, processVars, losses>>

\* The kubelet starts the container of a pod, and again whenever it exits.
StartContainer(p) ==
    /\ podState[p] = "running" /\ proc[p].pc = "down"
    /\ Goto(p, "lookup")
    /\ UNCHANGED <<podVars, lock, processVars>>

\* A rollout, a drain or a user deletes the pod.
DeletePod(p) ==
    /\ podState[p] \in {"running", "evicted"}
    /\ podState' = [podState EXCEPT ![p] = "terminating"]
    /\ UNCHANGED <<bad, notReady, lock, proc, processVars, losses>>

StopContainer(p) ==
    /\ podState[p] \in {"terminating", "gone"} /\ proc[p].pc # "down"
    /\ Exit(p)
    /\ UNCHANGED <<podVars, lock, processVars>>

\* The object goes once the container has stopped, or by force from a node
\* that does not report.
RemovePod(p) ==
    /\ podState[p] = "terminating"
    /\ proc[p].pc = "down" \/ p \in notReady
    /\ podState' = [podState EXCEPT ![p] = "gone"]
    /\ UNCHANGED <<bad, notReady, lock, proc, processVars, losses>>

\* The kubelet stops the container and marks the pod as Failed, Evicted.
EvictPod(p) ==
    /\ podState[p] = "running" /\ p \notin notReady
    /\ podState' = [podState EXCEPT ![p] = "evicted"]
    /\ Exit(p)
    /\ UNCHANGED <<bad, notReady, lock, processVars, losses>>

\* A node stops reporting, its processes go on, and it may come back.
LoseNode(p) ==
    /\ losses < MaxLosses /\ podState[p] \in {"running", "terminating"}
    /\ p \notin notReady
    /\ notReady' = notReady \cup {p} /\ losses' = losses + 1
    /\ UNCHANGED <<podState, bad, lock, proc, processVars>>

NodeBack(p) ==
    /\ p \in notReady
    /\ notReady' = notReady \ {p}
    /\ UNCHANGED <<podState, bad, lock, proc, processVars, losses>>

CollectLock ==
    /\ lock # NoPod /\ podState[lock] = "gone"
    /\ lock' = NoPod
    /\ UNCHANGED <<podVars, proc, processVars>>

Become(p) ==
    \/ Lookup(p) \/ Create(p) \/ Refresh(p) \/ Inspect(p) \/ CheckNode(p)
    \/ EvictLeader(p) \/ DeleteLeaderPod(p) \/ DeleteLeaderLock(p)

EnsureAdmissionPolicy(p) == \E o \in Objects : EnsureGet(p, o) \/ EnsurePut(p, o)

ProcessStep(p) == Become(p) \/ Configure(p) \/ EnsureAdmissionPolicy(p)

Kubelet(p) == StartContainer(p) \/ StopContainer(p) \/ RemovePod(p)

Environment(p) ==
    CreatePod(p) \/ DeletePod(p) \/ EvictPod(p) \/ LoseNode(p) \/ NodeBack(p)

Next ==
    \/ \E p \in Pods : ProcessStep(p) \/ Crash(p) \/ Kubelet(p) \/ Environment(p)
    \/ \E o \in Objects : Edit(o)
    \/ CollectLock

Spec == Init /\ [][Next]_vars

\* On nodes that report the processes run and the kubelet does its work; the
\* collector collects.  Faults, edits and losses are bounded, so they stop.
FairSpec ==
    /\ Spec
    /\ \A p \in Pods : WF_vars(p \notin notReady /\ ProcessStep(p))
    /\ \A p \in Pods : WF_vars(p \notin notReady /\ Kubelet(p))
    /\ WF_vars(CollectLock)

(***************************************************************************)
(* Properties.                                                             *)
(***************************************************************************)

\* Every variable has its type.
Typed ==
    /\ podState \in [Pods -> {"none", "running", "evicted", "terminating", "gone"}]
    /\ bad \subseteq Pods /\ notReady \subseteq Pods
    /\ lock \in Pods \cup {NoPod}
    /\ proc \in [Pods -> Procs]
    /\ object \in [Objects -> Specs]
    /\ faults \in 0 .. MaxFaults /\ edits \in 0 .. MaxEdits /\ losses \in 0 .. MaxLosses

\* Every process is that of a pod, and one whose manager runs has every variable
\* main requires.
Equipped ==
    \A p \in Pods :
        /\ podState[p] = "none" => proc[p].pc = "down"
        /\ Active(p) => p \notin bad

\* Every variable keeps its type, and no manager is started, by whichever way
\* its process came to the lock, without the namespace, the image and the service
\* account that the reconciler uses.
TypeOK == Typed /\ Equipped

\* There is at most one process whose manager runs, and with it one reconciler,
\* through restarts, evictions, rollouts and lost answers.  Only a node that
\* stops reporting may break it: its lock is taken while its process goes on.
OneActive ==
    losses = 0 => \A p, q \in Pods : Active(p) /\ Active(q) => p = q

\* What a start has ensured without an error holds for as long as it runs and
\* no administrator interferes: no process of another release that is still
\* stopping, or is starting, puts its own policy or binding in place.
EnsuredStays ==
    losses = 0 =>
        \A p \in Pods, o \in Objects :
            proc[p].result[o] = "ok" => object[o] = Wanted(p)

\* The restricted namespaces are closed as the release of p wants it.
InForce(p) == \A o \in Objects : object[o] = Wanted(p)

\* Once requests no longer fail and nobody edits the objects, a start puts both
\* in force, whatever an earlier start left half done.
StartRepairsPolicy ==
    \A p \in Pods :
        proc[p].pc = "getPolicy" /\ faults = MaxFaults /\ edits = MaxEdits
            ~> InForce(p) \/ ~Active(p) \/ losses > 0

\* Some pod is running, and those that are run with a good environment on
\* nodes that report.
Healthy ==
    /\ \E p \in Pods : podState[p] = "running"
    /\ \A p \in Pods : podState[p] = "running" => p \notin bad \cup notReady

\* While that is so the operator does not stay without a leader: the lock of a
\* pod that was deleted, evicted or lost with its node is passed on.
LeaderEmerges ==
    <>[]Healthy => []<>(\E p \in Pods : Active(p) /\ podState[p] = "running")
=============================================================================

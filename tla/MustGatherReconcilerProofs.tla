--------------------- MODULE MustGatherReconcilerProofs ---------------------
(***************************************************************************)
(* Machine-checked proofs about MustGatherReconciler, for every value of   *)
(* its constants: any number of MustGathers, Jobs, faults, restarts and    *)
(* edits, any backoffLimit, stale caches, relists and foreign Jobs.        *)
(***************************************************************************)
EXTENDS MustGatherReconciler, TLAPS

(***************************************************************************)
(* Type correctness.                                                       *)
(***************************************************************************)

\* A pod only runs while the Job may still fail once more, and a completion is
\* only handled for a Job with a verdict; with these TypeOK is inductive.
TypeInv ==
    /\ TypeOK
    /\ job.active => job.failed <= BackoffLimit
    /\ pc = "complete" => Verdict(seen) \in {"Completed", "Failed"}

USE BoundsAssumption, SwitchAssumption, SpecAssumption, ErrorsAssumption

\* The empty objects and the newly made ones have their types.
LEMMA NewObjects ==
    /\ NoMG \in MustGathers
    /\ NoJob \in Jobs
    /\ \A u \in 0 .. MaxUID, r \in BOOLEAN, o \in BOOLEAN : NewMG(u, r, o) \in MustGathers
    /\ \A j \in 0 .. MaxJobs, u \in 0 .. MaxUID : NewJob(j, u) \in Jobs
BY DEF NoMG, NoJob, NewMG, NewJob, MustGathers, Jobs

\* The worker's part of TypeOK.
WorkerOK ==
    /\ pc \in Labels /\ queued \in BOOLEAN
    /\ inst \in MustGathers /\ instCur \in BOOLEAN /\ seen \in Jobs

\* Wherever Reconcile goes on, its locals have their types.
LEMMA ProceedType ==
    ASSUME NEW label \in (Labels \ {"complete"}) \cup {"retry"}, NEW copy \in MustGathers,
           NEW current \in BOOLEAN, NEW theJob \in Jobs,
           queued \in BOOLEAN, Proceed(label, copy, current, theJob)
    PROVE  WorkerOK' /\ pc' # "complete"
<1>1. pc' \in Labels /\ pc' # "complete"
  BY DEF Proceed, Labels
<1>2. queued' \in BOOLEAN /\ instCur' \in BOOLEAN
  BY DEF Proceed
<1>3. inst' \in MustGathers /\ seen' \in Jobs
  BY NewObjects DEF Proceed
<1> QED BY <1>1, <1>2, <1>3 DEF WorkerOK

\* A fault uses one unit of its budget.
LEMMA FaultType ==
    ASSUME TypeOK, Fault
    PROVE  faults' \in 0 .. MaxFaults /\ restarts' = restarts /\ touches' = touches
BY DEF TypeOK, Fault

\* A PUT keeps the types when what it stores has its type.
LEMMA PutType ==
    ASSUME TypeInv, NEW ok \in BOOLEAN, NEW local \in MustGathers, NEW stored \in MustGathers,
           NEW onOk \in (Labels \ {"complete"}) \cup {"retry"},
           NEW onError \in (Labels \ {"complete"}) \cup {"retry"},
           Put(ok, local, stored, onOk, onError)
    PROVE  TypeInv'
<1>1. WorkerOK' /\ pc' # "complete"
  <2>1. CASE Proceed(onOk, stored, TRUE, seen)
    BY <2>1, ProceedType DEF TypeInv, TypeOK
  <2>2. CASE Proceed(onError, local, instCur, seen)
    BY <2>2, ProceedType DEF TypeInv, TypeOK
  <2>3. CASE Proceed(onError, local, FALSE, seen)
    BY <2>3, ProceedType DEF TypeInv, TypeOK
  <2> QED BY <2>1, <2>2, <2>3 DEF Put
<1>2. mg' \in MustGathers /\ mgCacheCur' \in BOOLEAN
  BY DEF Put, TypeInv, TypeOK
<1>3. faults' \in 0 .. MaxFaults /\ restarts' = restarts /\ touches' = touches
  BY FaultType DEF Put, TypeInv, TypeOK, budgetVars
<1> QED
  BY <1>1, <1>2, <1>3 DEF Put, TypeInv, TypeOK, WorkerOK, metricVars, histVars

\* A step that only moves the worker on keeps the types.
LEMMA MovesType ==
    ASSUME TypeInv, NEW label \in (Labels \ {"complete"}) \cup {"retry"}, NEW theJob \in Jobs,
           Moves(label, theJob), UNCHANGED budgetVars \/ Fault
    PROVE  TypeInv'
<1>1. WorkerOK' /\ pc' # "complete"
  BY ProceedType DEF Moves, TypeInv, TypeOK
<1>2. faults' \in 0 .. MaxFaults /\ restarts' = restarts /\ touches' = touches
  BY FaultType DEF TypeInv, TypeOK, budgetVars
<1> QED
  BY <1>1, <1>2 DEF Moves, TypeInv, TypeOK, WorkerOK, objVars, metricVars, histVars

\* The actions that write the status: what they write and where they go.
LEMMA StatusStep ==
    ASSUME TypeInv,
           ManageSuccess \/ ManageError \/ UpdateStatus \/ HandleJobCompletion
             \/ SetValidationFailureStatus
    PROVE  \E st \in {"none", "Completed", "Failed"}, c \in {"nil", "false", "true"},
              onOk \in {"idle", "retry", "cleanupGet"}, onError \in {"retry", "manageError"} :
              PutStatus(st, c, onOk, onError)
<1>1. inst.status \in {"none", "Completed", "Failed"} /\ inst.completed \in {"nil", "false", "true"}
  BY DEF TypeInv, TypeOK, MustGathers
<1>2. CASE ManageSuccess
  BY <1>1, <1>2 DEF ManageSuccess
<1>3. CASE ManageError
  BY <1>1, <1>3 DEF ManageError
<1>4. CASE UpdateStatus
  BY <1>1, <1>4 DEF UpdateStatus
<1>5. CASE HandleJobCompletion
  <2>1. Verdict(seen) \in {"Completed", "Failed"}
    BY <1>5 DEF HandleJobCompletion, TypeInv
  <2> QED BY <1>5, <2>1 DEF HandleJobCompletion
<1>6. CASE SetValidationFailureStatus
  BY <1>6 DEF SetValidationFailureStatus
<1> QED BY <1>2, <1>3, <1>4, <1>5, <1>6

\* Every action of the worker keeps the types.
LEMMA WorkerType == ASSUME TypeInv, ReconcileStep PROVE TypeInv'
<1> USE DEF TypeInv
<1>1. CASE Dequeue
  BY <1>1 DEF Dequeue, TypeOK, Labels, objVars, metricVars, histVars, budgetVars
<1>2. CASE Fetch
  <2>1. Branch(mgCache) \in Labels \ {"complete"}
    BY DEF Branch, Labels, TypeOK, MustGathers
  <2>2. WorkerOK' /\ pc' # "complete"
    <3>1. CASE Proceed(Branch(mgCache), mgCache, mgCacheCur, seen)
      BY <3>1, <2>1, ProceedType DEF TypeOK
    <3>2. CASE Proceed("retry", inst, instCur, seen)
      BY <3>2, ProceedType DEF TypeOK
    <3> QED BY <3>1, <3>2, <1>2 DEF Fetch
  <2>3. faults' \in 0 .. MaxFaults /\ restarts' = restarts /\ touches' = touches
    BY <1>2, FaultType DEF Fetch, TypeOK, budgetVars
  <2> QED
    BY <1>2, <2>2, <2>3 DEF Fetch, WorkerOK, TypeOK, objVars, metricVars, histVars
<1>3. CASE AddFinalizer
  <2>1. [inst EXCEPT !.fin = TRUE] \in MustGathers /\ [mg EXCEPT !.fin = TRUE] \in MustGathers
    BY DEF TypeOK, MustGathers
  <2>2. instCur \in BOOLEAN /\ "idle" \in Labels \ {"complete"}
    BY DEF TypeOK, Labels
  <2> QED BY <1>3, <2>1, <2>2, PutType DEF AddFinalizer
<1>4. CASE EnsurePrerequisites
  <2>1. seen \in Jobs /\ {"lookupJob", "manageError"} \subseteq Labels \ {"complete"}
    BY DEF TypeOK, Labels
  <2> QED BY <1>4, <2>1, MovesType DEF EnsurePrerequisites
<1>5. CASE LookupJob
  <2>1. CASE Moves("manageError", seen) /\ Fault
    <3>1. seen \in Jobs /\ "manageError" \in Labels \ {"complete"}
      BY DEF TypeOK, Labels
    <3> QED BY <2>1, <3>1, MovesType
  <2>2. CASE ~(Moves("manageError", seen) /\ Fault)
    <3> DEFINE v == Verdict(jobCache)
    <3>1. v \in {"absent", "running", "Completed", "Failed"}
      BY DEF Verdict
    <3>2. WorkerOK' /\ (pc' = "complete" => Verdict(seen)' \in {"Completed", "Failed"})
      <4> HIDE DEF v
      <4>1. CASE v = "absent"
        <5>1. Proceed("preflight", inst, instCur, jobCache)
          BY <1>5, <2>2, <4>1 DEF LookupJob, v
        <5> QED BY <5>1, ProceedType DEF TypeOK, Labels
      <4>2. CASE v = "running"
        <5>1. Proceed("updateStatus", inst, instCur, jobCache)
          BY <1>5, <2>2, <4>2 DEF LookupJob, v
        <5> QED BY <5>1, ProceedType DEF TypeOK, Labels
      <4>3. CASE v \in {"Completed", "Failed"}
        <5>1. Proceed("complete", inst, instCur, jobCache)
          BY <1>5, <2>2, <4>3 DEF LookupJob, v
        <5>2. /\ pc' = "complete" /\ queued' = queued /\ inst' = inst
              /\ instCur' = instCur /\ seen' = jobCache
          BY <5>1 DEF Proceed, TypeOK
        <5>3. Verdict(seen)' = v
          BY <5>2 DEF v, Verdict
        <5> QED BY <5>2, <5>3, <4>3 DEF WorkerOK, TypeOK, Labels
      <4> QED BY <3>1, <4>1, <4>2, <4>3
    <3>3. errors' \in 0 .. MaxErrors
      BY <1>5, <2>2 DEF LookupJob, TypeOK
    <3> QED
      BY <1>5, <2>2, <3>2, <3>3 DEF LookupJob, WorkerOK, TypeOK, objVars, histVars, budgetVars
  <2> QED BY <2>1, <2>2
<1>6. CASE Preflight
  <2>1. seen \in Jobs /\ {"createJob", "reject", "manageError"} \subseteq Labels \ {"complete"}
    BY DEF TypeOK, Labels
  <2> QED BY <1>6, <2>1, MovesType DEF Preflight, GetJobFromInstance, CheckPrerequisites
<1>7. CASE CreateJob
  <2>1. {"manageSuccess", "manageError"} \subseteq Labels \ {"complete"}
    BY DEF Labels
  <2>2. WorkerOK' /\ pc' # "complete"
    <3>1. CASE Proceed("manageSuccess", inst, instCur, seen)
      BY <3>1, <2>1, ProceedType DEF TypeOK
    <3>2. CASE Proceed("manageError", inst, instCur, seen)
      BY <3>2, <2>1, ProceedType DEF TypeOK
    <3> QED BY <3>1, <3>2, <1>7 DEF CreateJob
  <2>3. faults' \in 0 .. MaxFaults /\ restarts' = restarts /\ touches' = touches
    BY <1>7, FaultType DEF CreateJob, TypeOK, budgetVars
  <2>4. /\ job' \in Jobs /\ (job'.active => job'.failed <= BackoffLimit)
        /\ lastJob' \in 0 .. MaxJobs /\ created' \in [UIDs -> Nat]
    <3>1. CASE StoreJob /\ lastJob < MaxJobs
      <4>1. lastJob + 1 \in 0 .. MaxJobs /\ inst.uid \in 0 .. MaxUID
        BY <3>1 DEF TypeOK, MustGathers
      <4>2. job' \in Jobs /\ ~job'.active
        BY <3>1, <4>1, NewObjects DEF StoreJob, NewJob
      <4>3. created' \in [UIDs -> Nat]
        <5>1. \A u \in UIDs : created[u] + 1 \in Nat
          BY DEF TypeOK
        <5> QED BY <3>1, <5>1 DEF StoreJob, TypeOK
      <4> QED BY <3>1, <4>1, <4>2, <4>3 DEF StoreJob
    <3>2. CASE UNCHANGED <<job, lastJob, created>>
      BY <3>2 DEF TypeOK
    <3> QED BY <3>1, <3>2, <1>7 DEF CreateJob
  <2>5. total' \in 0 .. MaxJobs + 1
    BY <1>7 DEF CreateJob, TypeOK
  <2> QED
    BY <1>7, <2>2, <2>3, <2>4, <2>5 DEF CreateJob, WorkerOK, TypeOK
<1>8. CASE ManageSuccess \/ ManageError \/ UpdateStatus \/ HandleJobCompletion
           \/ SetValidationFailureStatus
  <2>1. PICK st \in {"none", "Completed", "Failed"}, c \in {"nil", "false", "true"},
             onOk \in {"idle", "retry", "cleanupGet"}, onError \in {"retry", "manageError"} :
             PutStatus(st, c, onOk, onError)
    BY <1>8, StatusStep
  <2>4. /\ onOk \in (Labels \ {"complete"}) \cup {"retry"}
        /\ onError \in (Labels \ {"complete"}) \cup {"retry"}
    BY DEF Labels
  <2>2. /\ [inst EXCEPT !.status = st, !.completed = c] \in MustGathers
        /\ [mg EXCEPT !.status = st, !.completed = c] \in MustGathers
    BY DEF TypeOK, MustGathers
  <2>3. (instCur /\ c # "nil") \in BOOLEAN
    OBVIOUS
  <2> QED BY <2>1, <2>2, <2>3, <2>4, PutType DEF PutStatus
<1>9. CASE CleanupGet
  <2>1. /\ seen \in Jobs /\ jobCache \in Jobs
        /\ {"deletePods", AfterCleanup, CleanupError} \subseteq (Labels \ {"complete"}) \cup {"retry"}
    BY DEF TypeOK, Labels, AfterCleanup, CleanupError
  <2> QED BY <1>9, <2>1, MovesType DEF CleanupGet
<1>10. CASE DeletePods
  <2>1. {"deleteJob", CleanupError} \subseteq (Labels \ {"complete"}) \cup {"retry"}
    BY DEF Labels, CleanupError
  <2>2. WorkerOK' /\ pc' # "complete"
    <3>1. CASE Proceed("deleteJob", inst, instCur, seen)
      BY <3>1, <2>1, ProceedType DEF TypeOK
    <3>2. CASE Proceed(CleanupError, inst, instCur, seen)
      BY <3>2, <2>1, ProceedType DEF TypeOK
    <3> QED BY <3>1, <3>2, <1>10 DEF DeletePods
  <2>3. faults' \in 0 .. MaxFaults /\ restarts' = restarts /\ touches' = touches
    BY <1>10, FaultType DEF DeletePods, TypeOK, budgetVars
  <2>4. pods' \subseteq JobUIDs
    BY <1>10 DEF DeletePods, TypeOK
  <2> QED
    BY <1>10, <2>2, <2>3, <2>4 DEF DeletePods, WorkerOK, TypeOK, metricVars, histVars
<1>11. CASE DeleteJob
  <2>1. {"releaseCA", CleanupError} \subseteq (Labels \ {"complete"}) \cup {"retry"}
    BY DEF Labels, CleanupError
  <2>2. WorkerOK' /\ pc' # "complete"
    <3>1. CASE Proceed("releaseCA", inst, instCur, seen)
      BY <3>1, <2>1, ProceedType DEF TypeOK
    <3>2. CASE Proceed(CleanupError, inst, instCur, seen)
      BY <3>2, <2>1, ProceedType DEF TypeOK
    <3> QED BY <3>1, <3>2, <1>11 DEF DeleteJob
  <2>3. faults' \in 0 .. MaxFaults /\ restarts' = restarts /\ touches' = touches
    BY <1>11, FaultType DEF DeleteJob, TypeOK, budgetVars
  <2>4. job' \in Jobs /\ (job'.active => job'.failed <= BackoffLimit)
    BY <1>11 DEF DeleteJob, TypeOK, Jobs
  <2> QED
    BY <1>11, <2>2, <2>3, <2>4 DEF DeleteJob, WorkerOK, TypeOK, metricVars, histVars
<1>12. CASE ReleaseCA
  <2>1. seen \in Jobs /\ {AfterCleanup, CleanupError} \subseteq (Labels \ {"complete"}) \cup {"retry"}
    BY DEF TypeOK, Labels, AfterCleanup, CleanupError
  <2> QED BY <1>12, <2>1, MovesType DEF ReleaseCA
<1>13. CASE RemoveFinalizer
  <2>1. [inst EXCEPT !.fin = FALSE] \in MustGathers /\ instCur \in BOOLEAN
    BY DEF TypeOK, MustGathers
  <2>2. {"idle", "manageError"} \subseteq Labels \ {"complete"}
    BY DEF Labels
  <2> QED BY <1>13, <2>1, <2>2, NewObjects, PutType DEF RemoveFinalizer
<1> QED
  BY <1>1, <1>2, <1>3, <1>4, <1>5, <1>6, <1>7, <1>8, <1>9, <1>10, <1>11, <1>12, <1>13
     DEF ReconcileStep

\* Every action of the cluster keeps the types.
LEMMA ClusterType == ASSUME TypeInv, ClusterNext PROVE TypeInv'
<1> USE DEF TypeInv
<1>1. CASE SyncMG
  <2>1. queued' \in BOOLEAN
    BY <1>1 DEF SyncMG
  <2> QED BY <1>1, <2>1 DEF SyncMG, TypeOK, Verdict, metricVars, histVars, budgetVars
<1>2. CASE SyncJob
  <2>1. jobCache' \in Jobs
    <3>1. NewJob(job.uid, job.owner) \in Jobs
      BY NewObjects DEF TypeOK, Jobs
    <3> QED BY <1>2, <3>1, NewObjects DEF SyncJob, UpdateJobCache, TypeOK
  <2>2. queued' \in BOOLEAN
    BY <1>2 DEF SyncJob, UpdateJobCache, TypeOK
  <2> QED BY <1>2, <2>1, <2>2 DEF SyncJob, TypeOK, Verdict, metricVars, histVars, budgetVars
<1>3. CASE UserCreate
  <2>1. mg' \in MustGathers
    <3>1. lastUID + 1 \in 0 .. MaxUID
      BY <1>3 DEF UserCreate, TypeOK
    <3> QED BY <1>3, <3>1, NewObjects DEF UserCreate
  <2>2. lastUID' \in 0 .. MaxUID
    BY <1>3 DEF UserCreate, TypeOK
  <2> QED BY <1>3, <2>1, <2>2 DEF UserCreate, TypeOK, Verdict, metricVars, budgetVars
<1>4. CASE UserDelete
  <2>1. mg' \in MustGathers
    BY <1>4, NewObjects DEF UserDelete, TypeOK, MustGathers
  <2> QED BY <1>4, <2>1 DEF UserDelete, TypeOK, Verdict, metricVars, histVars, budgetVars
<1>5. CASE UserTouch
  <2>1. touches' \in 0 .. MaxTouches
    BY <1>5 DEF UserTouch, TypeOK
  <2> QED BY <1>5, <2>1 DEF UserTouch, TypeOK, Verdict, metricVars, histVars
<1>6. CASE UserDeleteJob
  <2>1. job' \in Jobs /\ ~job'.active
    BY <1>6, NewObjects DEF UserDeleteJob, NoJob, NewJob
  <2> QED BY <1>6, <2>1 DEF UserDeleteJob, TypeOK, Verdict, workerVars, metricVars, histVars, budgetVars
<1>7. CASE UserCreateJob
  <2>1. lastJob + 1 \in 0 .. MaxJobs /\ 0 \in 0 .. MaxUID
    BY <1>7 DEF UserCreateJob, TypeOK
  <2>2. job' \in Jobs /\ ~job'.active
    BY <1>7, <2>1, NewObjects DEF UserCreateJob, NewJob
  <2> QED BY <1>7, <2>1, <2>2 DEF UserCreateJob, TypeOK, Verdict, workerVars, metricVars, budgetVars
<1>8. CASE JobController \/ Collector
  <2>1. JobStep
    BY <1>8 DEF JobController, Collector, StartPod, PodFails, PodSucceeds, JobCompletes,
                FinishJobDelete, CollectJob
  <2>2. job' \in Jobs /\ (job'.active => job'.failed <= BackoffLimit)
    <3>1. CASE StartPod
      BY <3>1 DEF StartPod, TypeOK, Jobs
    <3>2. CASE PodFails
      <4>1. job \in Jobs /\ job.failed + 1 \in 0 .. BackoffLimit + 1
        BY <3>2 DEF PodFails, TypeOK, Jobs
      <4> QED BY <3>2, <4>1 DEF PodFails, Jobs
    <3>3. CASE PodSucceeds
      BY <3>3 DEF PodSucceeds, TypeOK, Jobs
    <3>4. CASE JobCompletes
      BY <3>4 DEF JobCompletes, TypeOK, Jobs
    <3>5. CASE Collector
      BY <3>5, NewObjects DEF Collector, FinishJobDelete, CollectJob, NoJob, NewJob
    <3> QED BY <1>8, <3>1, <3>2, <3>3, <3>4, <3>5 DEF JobController
  <2>3. pods' \subseteq JobUIDs
    <3>1. job.uid # 0 => job.uid \in JobUIDs
      BY DEF TypeOK, Jobs, JobUIDs
    <3> QED
      BY <1>8, <3>1 DEF JobController, Collector, StartPod, PodFails, PodSucceeds, JobCompletes,
                FinishJobDelete, CollectJob, TypeOK
  <2>4. gathered' \subseteq UIDs
    <3>1. job.owner # 0 => job.owner \in UIDs
      BY DEF TypeOK, Jobs, UIDs
    <3> QED
      BY <1>8, <3>1 DEF JobController, Collector, StartPod, PodFails, PodSucceeds, JobCompletes,
                FinishJobDelete, CollectJob, TypeOK
  <2> QED
    BY <2>1, <2>2, <2>3, <2>4 DEF JobStep, TypeOK, Verdict, workerVars, metricVars, budgetVars
<1> QED
  BY <1>1, <1>2, <1>3, <1>4, <1>5, <1>6, <1>7, <1>8 DEF ClusterNext, User

\* The restart of the operator keeps the types.
LEMMA RestartType == ASSUME TypeInv, Restart PROVE TypeInv'
<1>1. restarts' \in 0 .. MaxRestarts
  BY DEF TypeInv, TypeOK, Restart
<1>2. pc' \in Labels /\ pc' # "complete" /\ queued' \in BOOLEAN
  BY DEF Restart, Labels
<1> QED BY <1>1, <1>2, NewObjects DEF TypeInv, TypeOK, Restart, metricVars, histVars

\* The strengthened type invariant is an invariant of the specification.
THEOREM TypeInvariant == Spec => []TypeInv
<1>1. Init => TypeInv
  <2> SUFFICES ASSUME Init PROVE TypeInv
    OBVIOUS
  <2>1. /\ total \in 0 .. MaxJobs + 1 /\ errors \in 0 .. MaxErrors
        /\ lastUID \in 0 .. MaxUID /\ lastJob \in 0 .. MaxJobs
        /\ faults \in 0 .. MaxFaults /\ restarts \in 0 .. MaxRestarts
        /\ touches \in 0 .. MaxTouches
    BY DEF Init
  <2>2. created \in [UIDs -> Nat]
    BY DEF Init
  <2>3. pc \in Labels /\ pc # "complete" /\ ~job.active
    BY DEF Init, Labels, NoJob, NewJob
  <2> QED BY <2>1, <2>2, <2>3, NewObjects DEF Init, TypeInv, TypeOK
<1>2. TypeInv /\ [Next]_vars => TypeInv'
  <2> SUFFICES ASSUME TypeInv, [Next]_vars PROVE TypeInv'
    OBVIOUS
  <2>1. CASE Next
    BY <2>1, WorkerType, ClusterType, RestartType DEF Next
  <2>2. CASE UNCHANGED vars
    BY <2>2 DEF vars, objVars, workerVars, metricVars, histVars, budgetVars, TypeInv, TypeOK, Verdict
  <2> QED BY <2>1, <2>2
<1> QED BY <1>1, <1>2, PTL DEF Spec

\* Every variable of Reconcile and of the cluster keeps its type.
THEOREM TypeCorrect == Spec => []TypeOK
BY TypeInvariant, PTL DEF TypeInv

(***************************************************************************)
(* The finalizer guards the creation of Jobs.                              *)
(***************************************************************************)

\* The labels at which LabelInv says something about the instance.
Committed == {"prerequisites", "lookupJob", "preflight", "createJob"}
Special   == Committed \cup {"removeFinalizer", "idle", "fetch"}

\* What Proceed does with the worker's copy of the instance.
LEMMA ProceedCopy ==
    ASSUME NEW label, NEW copy, NEW current \in BOOLEAN, NEW theJob,
           Proceed(label, copy, current, theJob)
    PROVE  \/ pc' = "idle" /\ inst' = NoMG /\ instCur' = FALSE
           \/ pc' = label /\ inst' = copy /\ instCur' = current
              /\ label # "idle" /\ label # "retry"
BY DEF Proceed

\* NoMG says nothing about the object.
LEMMA NoMGFacts == NoMG.uid = 0 /\ ~NoMG.deleting /\ ~NoMG.fin
BY DEF NoMG, NewMG

\* A status write keeps what ties the copies to the object.
LEMMA StatusFinalizer ==
    ASSUME TypeInv, FinalizerInv, NEW st, NEW c, NEW onOk, NEW onError,
           PutStatus(st, c, onOk, onError),
           onOk \notin Special \ {"idle"}, onError \notin Special \ {"idle"}
    PROVE  FinalizerInv'
<1> DEFINE local  == [inst EXCEPT !.status = st, !.completed = c]
           stored == [mg EXCEPT !.status = st, !.completed = c]
<1>1. /\ local.uid = inst.uid /\ local.deleting = inst.deleting
      /\ local.retain = inst.retain /\ local.fin = inst.fin
      /\ stored.uid = mg.uid /\ stored.deleting = mg.deleting
      /\ stored.retain = mg.retain /\ stored.fin = mg.fin
  BY DEF TypeInv, TypeOK, MustGathers
<1>2. Put(instCur /\ c # "nil", local, stored, onOk, onError)
  BY DEF PutStatus
<1>3. /\ UNCHANGED <<mgCache, job, jobCache, lastUID>>
      /\ \/ mg' = mg /\ mgCacheCur' = mgCacheCur
         \/ mg' = stored /\ mgCacheCur' = FALSE /\ instCur
  BY <1>2 DEF Put, histVars
<1>4. \/ pc' = "idle" /\ inst' = NoMG /\ instCur' = FALSE
      \/ /\ pc' \notin Special
         /\ \/ inst' = stored /\ instCur' = TRUE /\ mg' = stored /\ instCur
            \/ inst' = local /\ instCur' = instCur /\ mg' = mg
            \/ inst' = local /\ instCur' = FALSE
  <2> HIDE DEF local, stored
  <2>1. instCur \in BOOLEAN
    BY DEF TypeInv, TypeOK
  <2>2. CASE mg' = stored /\ instCur /\ Proceed(onOk, stored, TRUE, seen)
    BY <2>2 DEF Special, Proceed
  <2>3. CASE mg' = mg /\ Proceed(onError, local, instCur, seen)
    BY <2>1, <2>3, ProceedCopy DEF Special
  <2>4. CASE Proceed(onError, local, FALSE, seen)
    BY <2>4 DEF Special, Proceed
  <2> QED BY <1>2, <2>2, <2>3, <2>4 DEF Put
<1> HIDE DEF local, stored
<1>5. CurrentCopies'
  BY <1>1, <1>3, <1>4, NoMGFacts DEF FinalizerInv, CurrentCopies, TypeInv, TypeOK
<1>6. GuardedCopies'
  BY <1>1, <1>3, <1>4, NoMGFacts DEF FinalizerInv, CurrentCopies, GuardedCopies, Guarded
<1>7. DeletionSeen'
  BY <1>1, <1>3, <1>4, NoMGFacts DEF FinalizerInv, CurrentCopies, DeletionSeen
<1>8. LabelInv'
  BY <1>4 DEF LabelInv, Special, Committed
<1> QED BY <1>5, <1>6, <1>7, <1>8 DEF FinalizerInv

\* So does a step that leaves the object and the caches alone and takes the
\* worker, with the same copy, to a label that demands nothing new.
LEMMA LocalFinalizer ==
    ASSUME TypeInv, FinalizerInv,
           UNCHANGED <<mg, mgCache, mgCacheCur, jobCache, lastUID>>,
           job'.owner <= lastUID,
           \/ pc' = "idle" /\ inst' = NoMG /\ instCur' = FALSE
           \/ /\ inst' = inst /\ instCur' = instCur
              /\ pc' \in Committed => Guarded(inst)
              /\ pc' = "removeFinalizer" => inst.deleting
              /\ pc' \notin {"idle", "fetch"}
    PROVE  FinalizerInv'
<1>1. CurrentCopies'
  BY NoMGFacts DEF FinalizerInv, CurrentCopies, TypeInv, TypeOK
<1>2. GuardedCopies'
  BY NoMGFacts DEF FinalizerInv, GuardedCopies, Guarded
<1>3. DeletionSeen'
  BY NoMGFacts DEF FinalizerInv, CurrentCopies, DeletionSeen
<1>4. LabelInv'
  BY DEF LabelInv, Committed, Guarded
<1> QED BY <1>1, <1>2, <1>3, <1>4 DEF FinalizerInv

\* Every action of the worker keeps FinalizerInv.
LEMMA WorkerFinalizer == ASSUME TypeInv, FinalizerInv, ReconcileStep PROVE FinalizerInv'
<1> USE DEF FinalizerInv
<1>0. /\ instCur \in BOOLEAN /\ mgCacheCur \in BOOLEAN /\ job.owner <= lastUID
      /\ mg \in MustGathers /\ mgCache \in MustGathers /\ inst \in MustGathers
  BY DEF CurrentCopies, TypeInv, TypeOK
<1>1. CASE Dequeue
  BY <1>1 DEF Dequeue, CurrentCopies, GuardedCopies, DeletionSeen, LabelInv, objVars, histVars, Guarded
<1>2. CASE Fetch
  <2>1. UNCHANGED <<mg, mgCache, mgCacheCur, job, jobCache, lastUID>>
    BY <1>2 DEF Fetch, objVars, histVars
  <2>2. \/ pc' = "idle" /\ inst' = NoMG /\ instCur' = FALSE
        \/ /\ pc' = Branch(mgCache) /\ inst' = mgCache /\ instCur' = mgCacheCur
           /\ pc' # "idle"
    BY <1>0, <1>2 DEF Fetch, Proceed
  <2>3. CASE pc' = "idle" /\ inst' = NoMG /\ instCur' = FALSE
    BY <1>0, <2>1, <2>3, LocalFinalizer
  <2>4. CASE /\ pc' = Branch(mgCache) /\ inst' = mgCache /\ instCur' = mgCacheCur
             /\ pc' # "idle"
    <3>1. /\ mgCache.uid # 0
          /\ pc' \in Committed => Guarded(mgCache)
          /\ pc' = "removeFinalizer" => mgCache.deleting
          /\ pc' # "fetch"
      <4>1. mgCache.deleting \in BOOLEAN /\ mgCache.fin \in BOOLEAN
            /\ mgCache.retain \in BOOLEAN /\ mgCache.opSA \in BOOLEAN
        BY <1>0 DEF MustGathers
      <4>2. CASE mgCache.uid = 0
        BY <2>4, <4>2 DEF Branch
      <4>3. CASE mgCache.uid # 0
        BY <2>4, <4>1, <4>3 DEF Branch, Committed, Guarded
      <4> QED BY <4>2, <4>3
    <3>2. CurrentCopies'
      BY <1>0, <2>1, <2>4, <3>1 DEF CurrentCopies
    <3>3. GuardedCopies' /\ DeletionSeen'
      BY <2>1, <2>4 DEF GuardedCopies, DeletionSeen, Guarded
    <3>4. LabelInv'
      BY <2>4, <3>1 DEF LabelInv, Committed, Guarded
    <3> QED BY <3>2, <3>3, <3>4
  <2> QED BY <2>2, <2>3, <2>4
<1>3. CASE AddFinalizer
  <2>1. /\ pc' = "idle" /\ inst' = NoMG /\ instCur' = FALSE
        /\ UNCHANGED <<mgCache, job, jobCache, lastUID>>
    BY <1>3 DEF AddFinalizer, Put, Proceed, histVars
  <2>2. \/ mg' = mg /\ mgCacheCur' = mgCacheCur
        \/ mg' = [mg EXCEPT !.fin = TRUE] /\ mgCacheCur' = FALSE
    BY <1>3 DEF AddFinalizer, Put
  <2>3. mg'.uid = mg.uid /\ mg'.deleting = mg.deleting /\ (mg.fin => mg'.fin)
    BY <1>0, <2>2 DEF MustGathers
  <2>4. CurrentCopies'
    BY <2>1, <2>2, <2>3, NoMGFacts DEF CurrentCopies, TypeInv, TypeOK
  <2>5. GuardedCopies' /\ DeletionSeen'
    BY <2>1, <2>3, NoMGFacts DEF GuardedCopies, DeletionSeen, Guarded
  <2>6. LabelInv'
    BY <2>1 DEF LabelInv
  <2> QED BY <2>4, <2>5, <2>6
<1>4. CASE EnsurePrerequisites
  <2>1. Guarded(inst)
    BY <1>4 DEF EnsurePrerequisites, LabelInv
  <2>2. UNCHANGED <<mg, mgCache, mgCacheCur, job, jobCache, lastUID>>
    BY <1>4 DEF EnsurePrerequisites, Moves, objVars, histVars
  <2>3. inst' = inst /\ instCur' = instCur /\ pc' \in {"lookupJob", "manageError"}
    BY <1>0, <1>4 DEF EnsurePrerequisites, Moves, Proceed
  <2> QED BY <1>0, <2>1, <2>2, <2>3, LocalFinalizer DEF Committed
<1>5. CASE LookupJob
  <2>1. Guarded(inst)
    BY <1>5 DEF LookupJob, LabelInv
  <2>2. UNCHANGED <<mg, mgCache, mgCacheCur, job, jobCache, lastUID>>
    BY <1>5 DEF LookupJob, Moves, objVars, histVars
  <2>3. /\ inst' = inst /\ instCur' = instCur
        /\ pc' \in {"preflight", "updateStatus", "complete", "manageError"}
    <3>1. CASE Moves("manageError", seen)
      BY <1>0, <3>1 DEF Moves, Proceed
    <3>2. CASE ~Moves("manageError", seen)
      BY <1>0, <1>5, <3>2 DEF LookupJob, Proceed
    <3> QED BY <3>1, <3>2
  <2> QED BY <1>0, <2>1, <2>2, <2>3, LocalFinalizer DEF Committed
<1>6. CASE Preflight
  <2>1. Guarded(inst)
    BY <1>6 DEF Preflight, GetJobFromInstance, CheckPrerequisites, LabelInv
  <2>2. UNCHANGED <<mg, mgCache, mgCacheCur, job, jobCache, lastUID>>
    BY <1>6 DEF Preflight, GetJobFromInstance, CheckPrerequisites, Moves, objVars, histVars
  <2>3. \/ pc' = "idle" /\ inst' = NoMG /\ instCur' = FALSE
        \/ /\ inst' = inst /\ instCur' = instCur
           /\ pc' \in {"createJob", "reject", "manageError"}
    BY <1>0, <1>6 DEF Preflight, GetJobFromInstance, CheckPrerequisites, Moves, Proceed
  <2> QED BY <1>0, <2>1, <2>2, <2>3, LocalFinalizer DEF Committed
<1>7. CASE CreateJob
  <2>1. UNCHANGED <<mg, mgCache, mgCacheCur, jobCache, lastUID>>
    BY <1>7 DEF CreateJob
  <2>2. inst' = inst /\ instCur' = instCur /\ pc' \in {"manageSuccess", "manageError"}
    BY <1>0, <1>7 DEF CreateJob, Proceed
  <2>3. job'.owner <= lastUID
    <3>1. CASE job' = NewJob(lastJob + 1, inst.uid)
      BY <3>1 DEF NewJob, CurrentCopies
    <3>2. CASE job' = job
      BY <1>0, <3>2
    <3> QED BY <1>7, <3>1, <3>2 DEF CreateJob, StoreJob
  <2> QED BY <2>1, <2>2, <2>3, LocalFinalizer DEF Committed
<1>8. CASE ManageSuccess \/ ManageError \/ UpdateStatus \/ HandleJobCompletion
           \/ SetValidationFailureStatus
  <2>1. PICK st \in {"none", "Completed", "Failed"}, c \in {"nil", "false", "true"},
             onOk \in {"idle", "retry", "cleanupGet"}, onError \in {"retry", "manageError"} :
             PutStatus(st, c, onOk, onError)
    BY <1>8, StatusStep
  <2>2. onOk \notin Special \ {"idle"} /\ onError \notin Special \ {"idle"}
    BY DEF Special, Committed
  <2> QED BY <2>1, <2>2, StatusFinalizer
<1>9. CASE CleanupGet \/ DeletePods \/ DeleteJob \/ ReleaseCA
  <2>1. UNCHANGED <<mg, mgCache, mgCacheCur, jobCache, lastUID>>
    BY <1>9 DEF CleanupGet, DeletePods, DeleteJob, ReleaseCA, Moves, objVars, histVars
  <2>2. job'.owner = job.owner
    BY <1>9 DEF CleanupGet, DeletePods, DeleteJob, ReleaseCA, Moves, objVars, TypeInv, TypeOK, Jobs
  <2>3. \/ pc' = "idle" /\ inst' = NoMG /\ instCur' = FALSE
        \/ /\ inst' = inst /\ instCur' = instCur
           /\ \/ pc' \in {"deletePods", "deleteJob", "releaseCA", "manageError"}
              \/ pc' = "removeFinalizer" /\ inst.deleting
    <3>1. \E label \in {"deletePods", "deleteJob", "releaseCA", AfterCleanup, CleanupError} : \E j :
             Proceed(label, inst, instCur, j)
      BY <1>9 DEF CleanupGet, DeletePods, DeleteJob, ReleaseCA, Moves
    <3> QED BY <1>0, <3>1 DEF Proceed, AfterCleanup, CleanupError
  <2> QED BY <1>0, <2>1, <2>2, <2>3, LocalFinalizer DEF Committed
<1>10. CASE RemoveFinalizer
  <2>1. UNCHANGED <<mgCache, job, jobCache, lastUID>> /\ inst.deleting
    BY <1>10 DEF RemoveFinalizer, Put, histVars, LabelInv
  <2> DEFINE local == [inst EXCEPT !.fin = FALSE]
  <2>2. local.uid = inst.uid /\ local.deleting = inst.deleting /\ local.retain = inst.retain
    BY <1>0 DEF MustGathers
  <2>3. \/ pc' = "idle" /\ inst' = NoMG /\ instCur' = FALSE
        \/ /\ pc' = "manageError" /\ inst' = local
           /\ instCur' = FALSE \/ (instCur' = instCur /\ mg' = mg)
    BY <1>0, <1>10 DEF RemoveFinalizer, Put, Proceed
  <2>4. \/ mg' = mg /\ mgCacheCur' = mgCacheCur
        \/ mg' = NoMG /\ mgCacheCur' = FALSE /\ instCur
    BY <1>10 DEF RemoveFinalizer, Put
  <2> HIDE DEF local
  <2>5. CurrentCopies'
    <3>1. lastUID \in Nat
      BY DEF TypeInv, TypeOK
    <3>2. mg'.uid \in {0, lastUID'} /\ (mgCacheCur' => mgCache' = mg')
      BY <2>1, <2>4, NoMGFacts DEF CurrentCopies
    <3>3. inst'.uid <= lastUID'
      BY <2>1, <2>2, <2>3, <3>1, NoMGFacts DEF CurrentCopies
    <3>4. instCur' => /\ inst'.uid = mg'.uid /\ inst'.uid # 0
                      /\ inst'.deleting = mg'.deleting /\ inst'.retain = mg'.retain
      BY <1>0, <2>2, <2>3 DEF CurrentCopies
    <3> QED BY <2>1, <3>2, <3>3, <3>4 DEF CurrentCopies
  <2>6. GuardedCopies'
    <3>1. mg' = NoMG => ~Guarded(mgCache)
      BY <2>1, <2>4, NoMGFacts DEF CurrentCopies, GuardedCopies, DeletionSeen, Guarded
    <3>2. ~Guarded(inst')
      BY <2>1, <2>2, <2>3, NoMGFacts DEF Guarded
    <3> QED BY <2>1, <2>4, <3>1, <3>2 DEF GuardedCopies, Guarded
  <2>7. DeletionSeen'
    BY <2>1, <2>2, <2>3, <2>4, NoMGFacts DEF DeletionSeen
  <2>8. LabelInv'
    BY <2>3 DEF LabelInv
  <2> QED BY <2>5, <2>6, <2>7, <2>8
<1> QED
  BY <1>1, <1>2, <1>3, <1>4, <1>5, <1>6, <1>7, <1>8, <1>9, <1>10 DEF ReconcileStep

\* Every action of the cluster keeps FinalizerInv.
LEMMA ClusterFinalizer == ASSUME TypeInv, FinalizerInv, ClusterNext PROVE FinalizerInv'
<1> USE DEF FinalizerInv
<1>0. /\ lastUID \in Nat /\ mg \in MustGathers /\ job \in Jobs
  BY DEF TypeInv, TypeOK
<1>1. CASE SyncMG
  <2>1. mgCache' = mg /\ mgCacheCur' /\ UNCHANGED <<mg, job, jobCache, pc, inst, instCur, lastUID>>
    BY <1>1 DEF SyncMG, histVars
  <2>2. CurrentCopies'
    BY <1>0, <2>1 DEF CurrentCopies
  <2>3. GuardedCopies' /\ DeletionSeen' /\ LabelInv'
    BY <2>1 DEF GuardedCopies, DeletionSeen, LabelInv, Guarded
  <2> QED BY <2>2, <2>3
<1>2. CASE SyncJob
  <2>1. UNCHANGED <<mg, mgCache, mgCacheCur, job, pc, inst, instCur, lastUID>>
    BY <1>2 DEF SyncJob, histVars
  <2>2. jobCache'.owner \in {0, job.owner}
    BY <1>2 DEF SyncJob, UpdateJobCache, NoJob, NewJob
  <2> QED
    BY <1>0, <2>1, <2>2 DEF CurrentCopies, GuardedCopies, DeletionSeen, LabelInv, Guarded
<1>3. CASE UserCreate
  <2>1. PICK r, o : mg' = NewMG(lastUID + 1, r, o)
    BY <1>3 DEF UserCreate
  <2>2. mg'.uid = lastUID + 1 /\ ~mg'.deleting
    BY <2>1 DEF NewMG
  <2>3. /\ mg.uid = 0 /\ lastUID' = lastUID + 1 /\ ~mgCacheCur' /\ ~instCur'
        /\ UNCHANGED <<mgCache, job, jobCache, pc, inst>>
    BY <1>3 DEF UserCreate
  <2>4. CurrentCopies'
    BY <1>0, <2>2, <2>3 DEF CurrentCopies, TypeInv, TypeOK, MustGathers, Jobs
  <2>5. GuardedCopies' /\ LabelInv'
    BY <2>3 DEF GuardedCopies, LabelInv, Guarded
  <2>6. DeletionSeen'
    <3>1. mgCache.uid # mg'.uid /\ inst.uid # mg'.uid
      BY <1>0, <2>2 DEF CurrentCopies, TypeInv, TypeOK, MustGathers
    <3> QED BY <2>2, <2>3, <3>1 DEF DeletionSeen
  <2> QED BY <2>4, <2>5, <2>6
<1>4. CASE UserDelete
  <2>1. /\ mg.uid # 0 /\ ~mgCacheCur' /\ ~instCur'
        /\ UNCHANGED <<mgCache, job, jobCache, pc, inst, lastUID>>
    BY <1>4 DEF UserDelete, histVars
  <2>2. \/ mg'.uid = mg.uid /\ mg'.fin /\ mg'.deleting
        \/ mg' = NoMG /\ ~mg.fin
    BY <1>0, <1>4 DEF UserDelete, MustGathers
  <2>3. CurrentCopies'
    BY <2>1, <2>2, NoMGFacts DEF CurrentCopies
  <2>4. GuardedCopies' /\ LabelInv'
    BY <2>1, <2>2 DEF GuardedCopies, LabelInv, Guarded
  <2>5. DeletionSeen'
    BY <2>1, <2>2, NoMGFacts DEF DeletionSeen
  <2> QED BY <2>3, <2>4, <2>5
<1>5. CASE UserTouch
  BY <1>5 DEF UserTouch, histVars, CurrentCopies, GuardedCopies, DeletionSeen, LabelInv, Guarded
<1>6. CASE UserDeleteJob \/ UserCreateJob \/ JobController \/ Collector
  <2>1. UNCHANGED <<mg, mgCache, mgCacheCur, jobCache, pc, inst, instCur, lastUID>>
    BY <1>6 DEF UserDeleteJob, UserCreateJob, JobController, Collector, StartPod, PodFails,
                PodSucceeds, JobCompletes, FinishJobDelete, CollectJob, JobStep, workerVars, histVars
  <2>2. job'.owner \in {job.owner, 0}
    <3>1. CASE UserDeleteJob \/ UserCreateJob \/ Collector
      BY <3>1 DEF UserDeleteJob, UserCreateJob, Collector, FinishJobDelete, CollectJob, NoJob, NewJob
    <3>2. CASE JobController
      BY <1>0, <3>2 DEF JobController, StartPod, PodFails, PodSucceeds, JobCompletes, Jobs
    <3> QED BY <1>6, <3>1, <3>2
  <2>3. CurrentCopies'
    BY <1>0, <2>1, <2>2 DEF CurrentCopies
  <2>4. GuardedCopies' /\ DeletionSeen' /\ LabelInv'
    BY <2>1 DEF GuardedCopies, DeletionSeen, LabelInv, Guarded
  <2> QED BY <2>3, <2>4
<1> QED BY <1>1, <1>2, <1>3, <1>4, <1>5, <1>6 DEF ClusterNext, User

\* So does the restart of the operator.
LEMMA RestartFinalizer == ASSUME TypeInv, FinalizerInv, Restart PROVE FinalizerInv'
<1>1. /\ mgCache' = mg /\ jobCache' = job /\ inst' = NoMG /\ ~instCur' /\ pc' = "idle"
      /\ UNCHANGED <<mg, job, lastUID>>
  BY DEF Restart, histVars
<1>2. CurrentCopies'
  BY <1>1, NoMGFacts DEF FinalizerInv, CurrentCopies, TypeInv, TypeOK
<1>3. GuardedCopies' /\ DeletionSeen' /\ LabelInv'
  BY <1>1, NoMGFacts DEF FinalizerInv, GuardedCopies, DeletionSeen, LabelInv, Guarded
<1> QED BY <1>2, <1>3 DEF FinalizerInv

\* A copy that passes the finalizer check of Reconcile proves, however stale
\* it is, that the object exists and still has the finalizer.
THEOREM FinalizerInvariant == Spec => []FinalizerInv
<1>1. Init => FinalizerInv
  BY NoMGFacts DEF Init, FinalizerInv, CurrentCopies, GuardedCopies, DeletionSeen, LabelInv,
                   Guarded, NoJob, NewJob
<1>2. TypeInv /\ FinalizerInv /\ [Next]_vars => FinalizerInv'
  <2> SUFFICES ASSUME TypeInv, FinalizerInv, [Next]_vars PROVE FinalizerInv'
    OBVIOUS
  <2>1. CASE Next
    BY <2>1, WorkerFinalizer, ClusterFinalizer, RestartFinalizer DEF Next
  <2>2. CASE UNCHANGED vars
    BY <2>2 DEF vars, objVars, workerVars, histVars, FinalizerInv, CurrentCopies,
                GuardedCopies, DeletionSeen, LabelInv, Guarded
  <2> QED BY <2>1, <2>2
<1> QED BY <1>1, <1>2, TypeInvariant, PTL DEF Spec

\* Which steps create a Job, and for whom.
LEMMA CreationStep ==
    ASSUME TypeInv, [Next]_vars, lastJob' # lastJob, job'.owner # 0
    PROVE  pc = "createJob" /\ job'.owner = inst.uid
<1>1. CASE CreateJob
  BY <1>1 DEF CreateJob, StoreJob, NewJob
<1>2. CASE UserCreateJob
  BY <1>2 DEF UserCreateJob, NewJob
<1>3. CASE ~CreateJob /\ ~UserCreateJob
  <2>1. ~ReconcileStep
    BY <1>3 DEF ReconcileStep, Dequeue, Fetch, AddFinalizer, EnsurePrerequisites, LookupJob,
         Preflight, ManageSuccess, ManageError, UpdateStatus, HandleJobCompletion,
         SetValidationFailureStatus, CleanupGet, DeletePods, DeleteJob, ReleaseCA,
         RemoveFinalizer, PutStatus, Put, Moves, histVars
  <2>2. ~Restart /\ ~(UNCHANGED vars)
    BY DEF Restart, vars, histVars
  <2>3. ~ClusterNext
    BY <1>3 DEF ClusterNext, User, JobController, Collector, SyncMG, SyncJob, UserCreate,
         UserDelete, UserTouch, UserDeleteJob, StartPod, PodFails, PodSucceeds, JobCompletes,
         FinishJobDelete, CollectJob, JobStep, histVars
  <2> QED BY <2>1, <2>2, <2>3 DEF Next
<1> QED BY <1>1, <1>2, <1>3

\* Reconcile creates a Job only for a MustGather that exists and carries the
\* finalizer at that moment: no Job is started that the finalizer's cleanup
\* would not see.
THEOREM JobsCreatedUnderFinalizer == Spec => JobCreatedUnderFinalizer
<1>1. TypeInv /\ FinalizerInv /\ [Next]_vars
        => [lastJob' # lastJob /\ job'.owner # 0 => mg.uid = job'.owner /\ mg.fin]_vars
  <2> SUFFICES ASSUME TypeInv, FinalizerInv, [Next]_vars, lastJob' # lastJob, job'.owner # 0
               PROVE  mg.uid = job'.owner /\ mg.fin
    OBVIOUS
  <2>1. pc = "createJob" /\ job'.owner = inst.uid
    BY CreationStep
  <2>2. Guarded(inst)
    BY <2>1 DEF FinalizerInv, LabelInv
  <2> QED BY <2>1, <2>2 DEF FinalizerInv, GuardedCopies
<1> QED BY <1>1, TypeInvariant, FinalizerInvariant, PTL DEF Spec, JobCreatedUnderFinalizer
=============================================================================

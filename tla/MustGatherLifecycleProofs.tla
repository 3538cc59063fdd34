---------------------- MODULE MustGatherLifecycleProofs ----------------------
(***************************************************************************)
(* The ownership of Jobs, and the refinement: MustGatherReconciler         *)
(* implements MustGatherLifecycle, for any number of MustGathers, Jobs,    *)
(* faults, restarts and edits.                                             *)
(***************************************************************************)
EXTENDS MustGatherReconcilerProofs

(***************************************************************************)
(* What a step of the worker does to the objects, its copy and its place.  *)
(***************************************************************************)

\* The fields of a MustGather that the life cycle shows.
SameLife(m, n) ==
    /\ m.uid = n.uid /\ m.fin = n.fin
    /\ m.deleting = n.deleting /\ m.retain = n.retain

SameCopy(m, n) == m.uid = n.uid /\ m.deleting = n.deleting /\ m.retain = n.retain

JobPart ==
    \/ UNCHANGED <<job, lastJob>>
    \/ /\ pc = "createJob" /\ job.uid = 0
       /\ job' = NewJob(lastJob + 1, inst.uid) /\ lastJob' = lastJob + 1
    \/ /\ pc = "deleteJob" /\ job.uid # 0
       /\ job' = [job EXCEPT !.terminating = TRUE] /\ UNCHANGED lastJob

MGPart ==
    \/ SameLife(mg', mg)
    \/ pc = "addFinalizer" /\ instCur /\ mg' = [mg EXCEPT !.fin = TRUE]
    \/ pc = "removeFinalizer" /\ instCur /\ mg' = NoMG

\* How the worker comes to the labels of the cleanup.
Follows ==
    /\ pc' \notin {"idle", "fetch", "addFinalizer"}
    /\ pc' = "cleanupGet" => ~inst.retain
    /\ pc' = "deletePods" =>
          pc = "cleanupGet" /\ jobCache.uid # 0 /\ jobCache.owner = inst.uid
    /\ pc' = "deleteJob" => pc = "deletePods"
    /\ pc' = "releaseCA" => pc = "deleteJob" /\ job'.terminating
    /\ pc' = "removeFinalizer" =>
          \/ pc = "releaseCA"
          \/ /\ pc = "cleanupGet" /\ seen' = jobCache
             /\ ~(jobCache.uid # 0 /\ jobCache.owner = inst.uid)

CopyPart ==
    \/ pc' \in {"idle", "fetch"} /\ inst' = NoMG
    \/ /\ pc = "fetch" /\ inst' = mgCache /\ mgCache.uid # 0
       /\ pc' = Branch(mgCache) /\ pc' # "idle"
    \/ pc \notin {"idle", "fetch"} /\ SameCopy(inst', inst) /\ Follows

WorkerShape ==
    /\ UNCHANGED <<mgCache, jobCache, lastUID>>
    /\ JobPart /\ MGPart /\ CopyPart

\* A status write stores what the worker's copy shows of the life cycle.
LEMMA StatusShape ==
    ASSUME TypeInv, FinalizerInv, NEW st, NEW c, NEW onOk, NEW onError,
           PutStatus(st, c, onOk, onError), pc \notin {"idle", "fetch"},
           \/ onOk \in {"idle", "retry"}
           \/ onOk = "cleanupGet" /\ ~inst.retain,
           onError \in {"retry", "manageError"}
    PROVE  WorkerShape
<1> DEFINE local  == [inst EXCEPT !.status = st, !.completed = c]
           stored == [mg EXCEPT !.status = st, !.completed = c]
<1>1. SameCopy(local, inst) /\ SameLife(stored, mg)
  BY DEF TypeInv, TypeOK, MustGathers, SameCopy, SameLife
<1>2. Put(instCur /\ c # "nil", local, stored, onOk, onError)
  BY DEF PutStatus
<1>3. UNCHANGED <<mgCache, job, jobCache, lastUID, lastJob>> /\ (mg' = mg \/ mg' = stored)
  BY <1>2 DEF Put, histVars
<1>4. instCur => SameCopy(stored, inst)
  BY <1>1 DEF SameCopy, SameLife, FinalizerInv, CurrentCopies
<1> HIDE DEF local, stored
<1>5. CopyPart
  <2>1. CASE instCur /\ Proceed(onOk, stored, TRUE, seen)
    <3>1. CASE onOk \in {"idle", "retry"}
      BY <2>1, <3>1 DEF Proceed, CopyPart
    <3>2. CASE onOk = "cleanupGet" /\ ~inst.retain
      <4>1. pc' = "cleanupGet" /\ inst' = stored
        BY <2>1, <3>2 DEF Proceed
      <4>2. SameCopy(inst', inst)
        BY <1>4, <2>1, <4>1
      <4>3. Follows
        BY <3>2, <4>1 DEF Follows
      <4> QED BY <4>2, <4>3 DEF CopyPart
    <3> QED BY <3>1, <3>2
  <2>2. CASE \E cur : Proceed(onError, local, cur, seen)
    <3>1. \/ pc' = "idle" /\ inst' = NoMG
          \/ pc' = "manageError" /\ inst' = local
      BY <2>2 DEF Proceed
    <3> QED BY <1>1, <3>1 DEF CopyPart, Follows
  <2> QED BY <1>2, <2>1, <2>2 DEF Put
<1>6. MGPart
  BY <1>1, <1>3 DEF MGPart, SameLife
<1> QED BY <1>3, <1>5, <1>6 DEF WorkerShape, JobPart

\* A step that leaves the objects alone.
LEMMA MovesShape ==
    ASSUME UNCHANGED <<mg, mgCache, job, jobCache, lastUID, lastJob>>, pc \notin {"idle", "fetch"},
           \/ pc' = "idle" /\ inst' = NoMG
           \/ inst' = inst /\ Follows
    PROVE  WorkerShape
BY DEF WorkerShape, JobPart, MGPart, CopyPart, SameLife, SameCopy

\* Every step of the worker has this shape.
LEMMA WorkerSteps == ASSUME TypeInv, FinalizerInv, ReconcileStep PROVE WorkerShape
<1>1. CASE Dequeue
  <2>1. inst = NoMG
    BY <1>1 DEF Dequeue, FinalizerInv, LabelInv
  <2> QED
    BY <1>1, <2>1 DEF Dequeue, objVars, histVars, WorkerShape, JobPart, MGPart, CopyPart, SameLife
<1>2. CASE Fetch
  <2>1. UNCHANGED <<mg, mgCache, job, jobCache, lastUID, lastJob>> /\ pc = "fetch"
    BY <1>2 DEF Fetch, objVars, histVars
  <2>2. \/ pc' = "idle" /\ inst' = NoMG
        \/ pc' = Branch(mgCache) /\ inst' = mgCache /\ pc' # "idle"
    BY <1>2 DEF Fetch, Proceed
  <2>3. Branch(mgCache) # "idle" => mgCache.uid # 0
    BY DEF Branch
  <2> QED BY <2>1, <2>2, <2>3 DEF WorkerShape, JobPart, MGPart, CopyPart, SameLife
<1>3. CASE AddFinalizer
  <2>1. /\ pc' = "idle" /\ inst' = NoMG /\ pc = "addFinalizer"
        /\ UNCHANGED <<mgCache, job, jobCache, lastUID, lastJob>>
    BY <1>3 DEF AddFinalizer, Put, Proceed, histVars
  <2>2. mg' = mg \/ (instCur /\ mg' = [mg EXCEPT !.fin = TRUE])
    BY <1>3 DEF AddFinalizer, Put
  <2> QED BY <2>1, <2>2 DEF WorkerShape, JobPart, MGPart, CopyPart, SameLife
<1>4. CASE EnsurePrerequisites
  <2>1. UNCHANGED <<mg, mgCache, job, jobCache, lastUID, lastJob>> /\ pc = "prerequisites"
    BY <1>4 DEF EnsurePrerequisites, Moves, objVars, histVars
  <2>2. inst' = inst /\ pc' \in {"lookupJob", "manageError"}
    BY <1>4 DEF EnsurePrerequisites, Moves, Proceed
  <2> QED BY <2>1, <2>2, MovesShape DEF Follows
<1>5. CASE LookupJob
  <2>1. UNCHANGED <<mg, mgCache, job, jobCache, lastUID, lastJob>> /\ pc = "lookupJob"
    BY <1>5 DEF LookupJob, Moves, objVars, histVars
  <2>2. inst' = inst /\ pc' \in {"preflight", "updateStatus", "complete", "manageError"}
    <3>1. CASE Moves("manageError", seen)
      BY <3>1 DEF Moves, Proceed
    <3>2. CASE ~Moves("manageError", seen)
      BY <1>5, <3>2 DEF LookupJob, Proceed
    <3> QED BY <3>1, <3>2
  <2> QED BY <2>1, <2>2, MovesShape DEF Follows
<1>6. CASE Preflight
  <2>1. UNCHANGED <<mg, mgCache, job, jobCache, lastUID, lastJob>> /\ pc = "preflight"
    BY <1>6 DEF Preflight, GetJobFromInstance, CheckPrerequisites, Moves, objVars, histVars
  <2>2. \/ pc' = "idle" /\ inst' = NoMG
        \/ inst' = inst /\ pc' \in {"createJob", "reject", "manageError"}
    BY <1>6 DEF Preflight, GetJobFromInstance, CheckPrerequisites, Moves, Proceed
  <2> QED BY <2>1, <2>2, MovesShape DEF Follows
<1>7. CASE CreateJob
  <2>1. UNCHANGED <<mg, mgCache, jobCache, lastUID>> /\ pc = "createJob"
    BY <1>7 DEF CreateJob
  <2>2. inst' = inst /\ pc' \in {"manageSuccess", "manageError"}
    BY <1>7 DEF CreateJob, Proceed
  <2>3. \/ UNCHANGED <<job, lastJob>>
        \/ job.uid = 0 /\ job' = NewJob(lastJob + 1, inst.uid) /\ lastJob' = lastJob + 1
    BY <1>7 DEF CreateJob, StoreJob
  <2> QED
    BY <2>1, <2>2, <2>3
       DEF WorkerShape, JobPart, MGPart, CopyPart, Follows, SameLife, SameCopy
<1>8. CASE ManageSuccess
  BY <1>8, StatusShape DEF ManageSuccess
<1>9. CASE ManageError
  BY <1>9, StatusShape DEF ManageError
<1>10. CASE UpdateStatus
  BY <1>10, StatusShape DEF UpdateStatus
<1>11. CASE HandleJobCompletion
  <2>1. inst.retain \in BOOLEAN
    BY DEF TypeInv, TypeOK, MustGathers
  <2>2. CASE inst.retain
    <3>1. PutStatus(Verdict(seen), "true", "idle", "manageError")
      BY <1>11, <2>2 DEF HandleJobCompletion
    <3> QED BY <1>11, <3>1, StatusShape DEF HandleJobCompletion
  <2>3. CASE ~inst.retain
    <3>1. PutStatus(Verdict(seen), "true", "cleanupGet", "manageError")
      BY <1>11, <2>3 DEF HandleJobCompletion
    <3> QED BY <1>11, <2>3, <3>1, StatusShape DEF HandleJobCompletion
  <2> QED BY <2>1, <2>2, <2>3
<1>12. CASE SetValidationFailureStatus
  BY <1>12, StatusShape DEF SetValidationFailureStatus
<1>13. CASE CleanupGet
  <2>1. UNCHANGED <<mg, mgCache, job, jobCache, lastUID, lastJob>> /\ pc = "cleanupGet"
    BY <1>13 DEF CleanupGet, Moves, objVars, histVars
  <2>2. \/ pc' = "idle" /\ inst' = NoMG
        \/ inst' = inst /\ pc' = "manageError"
        \/ /\ inst' = inst /\ pc' = "deletePods"
           /\ jobCache.uid # 0 /\ jobCache.owner = inst.uid
        \/ /\ inst' = inst /\ pc' = "removeFinalizer" /\ seen' = jobCache
           /\ ~(jobCache.uid # 0 /\ jobCache.owner = inst.uid)
    <3>1. CASE Moves(CleanupError, seen)
      BY <3>1 DEF Moves, Proceed, CleanupError
    <3>2. CASE /\ FreshJobRead
               /\ Moves(IF jobCache.uid # 0 /\ jobCache.owner = inst.uid
                        THEN "deletePods" ELSE AfterCleanup, jobCache)
      BY <3>2 DEF Moves, Proceed, AfterCleanup
    <3> QED BY <1>13, <3>1, <3>2 DEF CleanupGet
  <2> QED BY <2>1, <2>2, MovesShape DEF Follows
<1>14. CASE DeletePods
  <2>1. UNCHANGED <<mg, mgCache, job, jobCache, lastUID, lastJob>> /\ pc = "deletePods"
    BY <1>14 DEF DeletePods, histVars
  <2>2. \/ pc' = "idle" /\ inst' = NoMG
        \/ inst' = inst /\ pc' \in {"deleteJob", "manageError"}
    <3>1. Proceed("deleteJob", inst, instCur, seen) \/ Proceed(CleanupError, inst, instCur, seen)
      BY <1>14 DEF DeletePods
    <3> QED BY <3>1 DEF Proceed, CleanupError
  <2> QED BY <2>1, <2>2, MovesShape DEF Follows
<1>15. CASE DeleteJob
  <2>1. UNCHANGED <<mg, mgCache, jobCache, lastUID, lastJob>> /\ pc = "deleteJob"
    BY <1>15 DEF DeleteJob, histVars
  <2>2. job' = job \/ (job.uid # 0 /\ job' = [job EXCEPT !.terminating = TRUE])
    BY <1>15 DEF DeleteJob
  <2>3. \/ pc' = "idle" /\ inst' = NoMG
        \/ inst' = inst /\ pc' = "manageError"
        \/ inst' = inst /\ pc' = "releaseCA" /\ job'.terminating
    <3>1. CASE Proceed(CleanupError, inst, instCur, seen)
      BY <3>1 DEF Proceed, CleanupError
    <3>2. CASE /\ job' = [job EXCEPT !.terminating = TRUE]
               /\ Proceed("releaseCA", inst, instCur, seen)
      BY <3>2 DEF Proceed, TypeInv, TypeOK, Jobs
    <3> QED BY <1>15, <3>1, <3>2 DEF DeleteJob
  <2> QED
    BY <2>1, <2>2, <2>3
       DEF WorkerShape, JobPart, MGPart, CopyPart, Follows, SameLife, SameCopy
<1>16. CASE ReleaseCA
  <2>1. UNCHANGED <<mg, mgCache, job, jobCache, lastUID, lastJob>> /\ pc = "releaseCA"
    BY <1>16 DEF ReleaseCA, Moves, objVars, histVars
  <2>2. \/ pc' = "idle" /\ inst' = NoMG
        \/ inst' = inst /\ pc' \in {"removeFinalizer", "manageError"}
    BY <1>16 DEF ReleaseCA, Moves, Proceed, AfterCleanup, CleanupError
  <2> QED BY <2>1, <2>2, MovesShape DEF Follows
<1>17. CASE RemoveFinalizer
  <2>1. UNCHANGED <<mgCache, job, jobCache, lastUID, lastJob>> /\ pc = "removeFinalizer"
    BY <1>17 DEF RemoveFinalizer, Put, histVars
  <2>2. mg' = mg \/ (instCur /\ mg' = NoMG)
    BY <1>17 DEF RemoveFinalizer, Put
  <2>3. \/ pc' = "idle" /\ inst' = NoMG
        \/ pc' = "manageError" /\ inst' = [inst EXCEPT !.fin = FALSE]
    BY <1>17 DEF RemoveFinalizer, Put, Proceed
  <2>4. SameCopy([inst EXCEPT !.fin = FALSE], inst)
    BY DEF TypeInv, TypeOK, MustGathers, SameCopy
  <2> QED
    BY <2>1, <2>2, <2>3, <2>4 DEF WorkerShape, JobPart, MGPart, CopyPart, Follows, SameLife
<1> QED
  BY <1>1, <1>2, <1>3, <1>4, <1>5, <1>6, <1>7, <1>8, <1>9, <1>10, <1>11, <1>12, <1>13,
     <1>14, <1>15, <1>16, <1>17 DEF ReconcileStep

(***************************************************************************)
(* What a step of the cluster does to them, and a restart.                 *)
(***************************************************************************)
JobKept == job'.uid = job.uid /\ job'.owner = job.owner /\ job'.terminating = job.terminating

Undisturbed == UNCHANGED <<mgCache, jobCache, pc, inst, seen, lastUID>>

Created ==
    /\ mg.uid = 0 /\ lastUID' = lastUID + 1
    /\ \E r \in BOOLEAN, o \in BOOLEAN : mg' = NewMG(lastUID + 1, r, o)
    /\ UNCHANGED <<mgCache, job, jobCache, pc, inst, seen, lastJob>>

Deleted ==
    /\ mg.uid # 0 /\ ~mg.deleting
    /\ mg' = IF mg.fin THEN [mg EXCEPT !.deleting = TRUE] ELSE NoMG
    /\ Undisturbed /\ UNCHANGED <<job, lastJob>>

Collected == job' = NoJob /\ (job.terminating \/ job.owner # mg.uid)

\* A user deletes the Job, or creates one of the name.
Meddled ==
    /\ ForeignJobs /\ Undisturbed /\ UNCHANGED mg
    /\ \/ job' = NoJob
       \/ job.uid = 0 /\ job' = NewJob(lastJob + 1, 0)

SyncedJob ==
    /\ \/ jobCache'.uid = job.uid /\ jobCache'.owner = job.owner
       \/ jobCache.uid # job.uid /\ jobCache' = NoJob
    /\ UNCHANGED <<mg, mgCache, job, pc, inst, seen, lastUID, lastJob>>

ClusterShape ==
    \/ mgCache' = mg /\ UNCHANGED <<mg, job, jobCache, pc, inst, seen, lastUID, lastJob>>
    \/ SyncedJob
    \/ Created
    \/ Deleted
    \/ Undisturbed /\ UNCHANGED <<mg, lastJob>> /\ (JobKept \/ Collected)
    \/ Meddled

RestartShape ==
    /\ mgCache' = mg /\ jobCache' = job /\ inst' = NoMG /\ pc' = "idle"
    /\ UNCHANGED <<mg, job, lastUID, lastJob>>

\* Every step of the cluster has this shape.
LEMMA ClusterSteps == ASSUME TypeInv, ClusterNext PROVE ClusterShape
<1>1. CASE SyncMG
  BY <1>1 DEF SyncMG, histVars, ClusterShape
<1>2. CASE SyncJob
  <2>1. \/ jobCache'.uid = job.uid /\ jobCache'.owner = job.owner
        \/ jobCache.uid # job.uid /\ jobCache' = NoJob
    BY <1>2 DEF SyncJob, UpdateJobCache, NewJob
  <2> QED BY <1>2, <2>1 DEF SyncJob, histVars, ClusterShape, SyncedJob
<1>3. CASE UserCreate
  <2>1. \E r \in BOOLEAN, o \in BOOLEAN : mg' = NewMG(lastUID + 1, r, o)
    BY <1>3, SpecAssumption DEF UserCreate
  <2> QED BY <1>3, <2>1 DEF UserCreate, ClusterShape, Created
<1>4. CASE UserDelete
  BY <1>4 DEF UserDelete, histVars, ClusterShape, Deleted, Undisturbed
<1>5. CASE UserTouch
  BY <1>5 DEF UserTouch, histVars, ClusterShape, Undisturbed, JobKept
<1>6. CASE UserDeleteJob \/ UserCreateJob
  BY <1>6 DEF UserDeleteJob, UserCreateJob, workerVars, histVars, ClusterShape, Meddled,
              Undisturbed
<1>7. CASE JobController
  <2>1. Undisturbed /\ UNCHANGED <<mg, lastJob>>
    BY <1>7 DEF JobController, StartPod, PodFails, PodSucceeds, JobCompletes, JobStep,
                workerVars, Undisturbed
  <2>2. JobKept
    BY <1>7 DEF JobController, StartPod, PodFails, PodSucceeds, JobCompletes, JobKept,
                TypeInv, TypeOK, Jobs
  <2> QED BY <2>1, <2>2 DEF ClusterShape
<1>8. CASE Collector
  BY <1>8 DEF Collector, FinishJobDelete, CollectJob, JobStep, workerVars, ClusterShape,
              Undisturbed, Collected
<1> QED
  BY <1>1, <1>2, <1>3, <1>4, <1>5, <1>6, <1>7, <1>8 DEF ClusterNext, User

\* The shape of every step.
LEMMA Steps ==
    ASSUME TypeInv, FinalizerInv, [Next]_vars
    PROVE  WorkerShape \/ ClusterShape \/ RestartShape
<1>1. CASE ReconcileStep
  BY <1>1, WorkerSteps
<1>2. CASE ClusterNext
  BY <1>2, ClusterSteps
<1>3. CASE Restart
  BY <1>3 DEF Restart, histVars, RestartShape
<1>4. CASE UNCHANGED vars
  BY <1>4 DEF vars, objVars, workerVars, histVars, ClusterShape, Undisturbed, JobKept
<1> QED BY <1>1, <1>2, <1>3, <1>4 DEF Next

(***************************************************************************)
(* The cleanup never deletes the Job of another MustGather.                *)
(***************************************************************************)

\* Past its fetch the worker has an instance.
HasInst == pc \notin {"idle", "fetch"} => inst.uid # 0

\* UIDs are numbers.
LEMMA Numbers ==
    ASSUME TypeInv
    PROVE  /\ mg.uid \in Nat /\ mgCache.uid \in Nat /\ inst.uid \in Nat
           /\ job.uid \in Nat /\ job.owner \in Nat
           /\ jobCache.uid \in Nat /\ jobCache.owner \in Nat
           /\ lastUID \in Nat /\ lastJob \in Nat
BY DEF TypeInv, TypeOK, MustGathers, Jobs

\* The worker keeps OwnerInv.
LEMMA WorkerOwner ==
    ASSUME TypeInv, FinalizerInv, HasInst, OwnerInv, WorkerShape
    PROVE  HasInst' /\ OwnerInv'
<1> USE DEF OwnerInv
<1>0. mgCache' = mgCache /\ jobCache' = jobCache
  BY DEF WorkerShape
<1>1. HasInst'
  BY NoMGFacts DEF HasInst, WorkerShape, CopyPart, SameCopy
<1>2. \/ inst'.uid = 0
      \/ inst'.uid = mgCache.uid /\ pc = "fetch"
      \/ inst'.uid = inst.uid /\ pc \notin {"idle", "fetch"}
  BY NoMGFacts DEF WorkerShape, CopyPart, SameCopy
<1>3. \/ job'.uid = job.uid /\ job'.owner = job.owner
      \/ pc = "createJob" /\ job'.uid = lastJob + 1 /\ job'.owner = inst.uid
  BY DEF WorkerShape, JobPart, NewJob, TypeInv, TypeOK, Jobs
<1>4. pc' \in {"deletePods", "deleteJob"} =>
        \/ pc = "cleanupGet" /\ jobCache.owner = inst.uid /\ inst'.uid = inst.uid
        \/ pc = "deletePods" /\ inst'.uid = inst.uid
  <2>1. Branch(mgCache) \notin {"deletePods", "deleteJob"}
    BY DEF Branch, TypeInv, TypeOK, MustGathers
  <2> QED BY <2>1 DEF WorkerShape, CopyPart, SameCopy, Follows
<1>5. CASE job'.uid = job.uid /\ job'.owner = job.owner
  BY <1>0, <1>1, <1>2, <1>4, <1>5, Numbers DEF HasInst
<1>6. CASE pc = "createJob" /\ job'.uid = lastJob + 1 /\ job'.owner = inst.uid
  <2>1. inst.uid # 0
    BY <1>6 DEF HasInst
  <2> QED BY <1>0, <1>1, <1>2, <1>4, <1>6, <2>1, Numbers
<1> QED BY <1>1, <1>3, <1>5, <1>6

\* So do the cluster and a restart.
LEMMA OthersOwner ==
    ASSUME TypeInv, FinalizerInv, HasInst, OwnerInv, ClusterShape \/ RestartShape
    PROVE  HasInst' /\ OwnerInv'
<1> USE DEF OwnerInv
<1>1. HasInst'
  BY DEF HasInst, ClusterShape, RestartShape, SyncedJob, Created, Deleted, Undisturbed, Meddled
<1>2. mg.uid # 0 => job.owner <= mg.uid /\ jobCache.owner <= mg.uid /\ inst.uid <= mg.uid
  BY DEF FinalizerInv, CurrentCopies
<1>3. CASE mgCache' = mg /\ UNCHANGED <<mg, job, jobCache, pc, inst, seen, lastUID, lastJob>>
  BY <1>1, <1>2, <1>3
<1>4. CASE SyncedJob
  BY <1>1, <1>4, Numbers DEF SyncedJob, NoJob, NewJob
<1>5. CASE Created \/ Deleted
  BY <1>1, <1>5 DEF Created, Deleted, Undisturbed
<1>6. CASE Undisturbed /\ (JobKept \/ Collected \/ Meddled)
  <2>1. \/ job'.uid = job.uid /\ job'.owner = job.owner
        \/ job'.owner = 0
    BY <1>6 DEF JobKept, Collected, Meddled, NoJob, NewJob
  <2> QED BY <1>1, <1>6, <2>1, Numbers DEF Undisturbed
<1>7. CASE RestartShape
  BY <1>1, <1>2, <1>7, NoMGFacts, Numbers DEF RestartShape
<1> QED BY <1>3, <1>4, <1>5, <1>6, <1>7 DEF ClusterShape, Meddled

\* Owners only get younger from the Job cache to the API server, and none is
\* younger than the instance that the worker or the cache holds, however stale
\* the caches are and whatever users do to the Job.
THEOREM OwnerInvariant == Spec => [](OwnerInv /\ HasInst)
<1>1. Init => OwnerInv /\ HasInst
  BY NoMGFacts DEF Init, OwnerInv, HasInst, NoJob, NewJob
<1>2. TypeInv /\ FinalizerInv /\ OwnerInv /\ HasInst /\ [Next]_vars => (OwnerInv /\ HasInst)'
  BY Steps, WorkerOwner, OthersOwner
<1> QED BY <1>1, <1>2, TypeInvariant, FinalizerInvariant, PTL DEF Spec

\* A cleanup never deletes the Job of another MustGather, although ownership was
\* checked on a cached copy, the deletion is by name, and the name may have been
\* used again.
THEOREM OwnJobDeleted == Spec => DeletesOnlyOwnJob
<1>1. OwnerInv => [pc = "deleteJob" /\ job'.terminating /\ ~job.terminating
                     => job.owner \in {0, inst.uid}]_vars
  BY DEF OwnerInv
<1> QED BY <1>1, OwnerInvariant, PTL DEF DeletesOnlyOwnJob

(***************************************************************************)
(* The reconciler implements the life cycle.                               *)
(***************************************************************************)

\* The Job of the instance has been stopped.
Gone == job.owner # inst.uid \/ job.terminating

\* What the object says of itself: a deletion waits for the finalizer, and a
\* MustGather that has a Job has the finalizer.
ObjectInv ==
    /\ mg.uid = 0 => ~mg.fin /\ ~mg.deleting /\ ~mg.retain
    /\ mg.uid # 0 /\ job.owner = mg.uid => mg.fin
    /\ mg.deleting => mg.fin

\* The copies of the object agree with it on the spec.
RetainInv ==
    \A m \in {mgCache, inst} : m.uid = mg.uid /\ mg.uid # 0 => m.retain = mg.retain

\* What the cleanup has done where it stands.
CleanupInv ==
    /\ pc = "addFinalizer" => ~inst.deleting
    /\ pc \in {"cleanupGet", "deletePods", "deleteJob", "releaseCA"} => ~inst.retain
    /\ pc = "releaseCA" => Gone
    /\ pc = "removeFinalizer" => inst.retain \/ Gone \/ seen.uid # job.uid

\* A cached Job of the UID of the present one is a copy of it, and UIDs are
\* handed out in order.
CacheInv ==
    /\ job.uid <= lastJob /\ jobCache.uid <= lastJob
    /\ jobCache.uid = 0 => jobCache.owner = 0
    /\ jobCache.uid = job.uid => jobCache.owner = job.owner

LifeInv == ObjectInv /\ RetainInv /\ CleanupInv /\ CacheInv

\* The fields of the objects are Booleans.
LEMMA Booleans ==
    ASSUME TypeInv
    PROVE  /\ mg.fin \in BOOLEAN /\ mg.deleting \in BOOLEAN /\ mg.retain \in BOOLEAN
           /\ inst.deleting \in BOOLEAN /\ inst.retain \in BOOLEAN
           /\ mgCache.deleting \in BOOLEAN /\ mgCache.retain \in BOOLEAN
           /\ mgCache.fin \in BOOLEAN /\ mgCache.opSA \in BOOLEAN
           /\ job.terminating \in BOOLEAN
BY DEF TypeInv, TypeOK, MustGathers, Jobs

\* What a step of the worker does to a MustGather.
LEMMA WorkerObject ==
    ASSUME TypeInv, FinalizerInv, WorkerShape
    PROVE  \/ SameLife(mg', mg)
           \/ /\ pc = "addFinalizer" /\ instCur
              /\ mg'.uid = mg.uid /\ mg'.fin = TRUE
              /\ mg'.deleting = mg.deleting /\ mg'.retain = mg.retain
           \/ /\ pc = "removeFinalizer" /\ instCur
              /\ mg'.uid = 0 /\ mg'.fin = FALSE /\ mg'.deleting = FALSE /\ mg'.retain = FALSE
<1>1. NoMG.retain = FALSE /\ NoMG.uid = 0 /\ NoMG.deleting = FALSE /\ NoMG.fin = FALSE
  BY DEF NoMG, NewMG
<1>2. mg \in MustGathers
  BY DEF TypeInv, TypeOK
<1>3. CASE pc = "addFinalizer" /\ instCur /\ mg' = [mg EXCEPT !.fin = TRUE]
  BY <1>2, <1>3 DEF MustGathers
<1>4. CASE pc = "removeFinalizer" /\ instCur /\ mg' = NoMG
  BY <1>1, <1>4
<1> QED BY <1>3, <1>4 DEF WorkerShape, MGPart

\* What it does to the Job.
LEMMA WorkerJob ==
    ASSUME TypeInv, WorkerShape
    PROVE  \/ JobKept
           \/ /\ pc = "createJob" /\ job.uid = 0
              /\ job'.uid = lastJob + 1 /\ lastJob' = lastJob + 1
              /\ job'.owner = inst.uid /\ ~job'.terminating
           \/ /\ pc = "deleteJob" /\ job.uid # 0
              /\ job'.uid = job.uid /\ job'.owner = job.owner /\ job'.terminating
<1>1. CASE job' = job
  BY <1>1 DEF JobKept
<1>2. CASE /\ pc = "createJob" /\ job.uid = 0
           /\ job' = NewJob(lastJob + 1, inst.uid) /\ lastJob' = lastJob + 1
  BY <1>2 DEF NewJob
<1>3. CASE pc = "deleteJob" /\ job.uid # 0 /\ job' = [job EXCEPT !.terminating = TRUE]
  BY <1>3 DEF TypeInv, TypeOK, Jobs
<1> QED BY <1>1, <1>2, <1>3 DEF WorkerShape, JobPart

\* The worker keeps LifeInv.
LEMMA WorkerLife ==
    ASSUME TypeInv, FinalizerInv, OwnerInv, HasInst, LifeInv, WorkerShape
    PROVE  LifeInv'
<1> USE DEF LifeInv
<1>1. ObjectInv'
  <2>1. pc = "createJob" => mg.uid = inst.uid /\ mg.fin /\ SameLife(mg', mg)
    BY WorkerObject DEF FinalizerInv, LabelInv, GuardedCopies, Guarded
  <2>2. pc = "addFinalizer" => job'.owner = job.owner
    BY WorkerJob DEF JobKept
  <2> QED
    BY <2>1, <2>2, WorkerObject, WorkerJob DEF ObjectInv, SameLife, JobKept, FinalizerInv, CurrentCopies
<1>2. RetainInv'
  <2>1. mgCache' = mgCache
    BY DEF WorkerShape
  <2>2. \/ inst' = NoMG
        \/ inst' = mgCache
        \/ SameCopy(inst', inst)
    BY DEF WorkerShape, CopyPart
  <2>3. mg'.uid # 0 => mg'.uid = mg.uid /\ mg'.retain = mg.retain
    BY WorkerObject DEF SameLife
  <2> QED BY <2>1, <2>2, <2>3, NoMGFacts DEF RetainInv, SameCopy
<1>3. CleanupInv'
  <2>1. CASE pc' \in {"idle", "fetch"}
    BY <2>1 DEF CleanupInv
  <2>2. CASE /\ pc = "fetch" /\ inst' = mgCache /\ mgCache.uid # 0
             /\ pc' = Branch(mgCache)
    <3>1. /\ pc' = "addFinalizer" => ~mgCache.deleting
          /\ pc' \notin {"deletePods", "deleteJob", "releaseCA"}
          /\ pc' = "cleanupGet" => ~mgCache.retain
          /\ pc' = "removeFinalizer" => mgCache.retain
      BY <2>2, Booleans DEF Branch
    <3> QED BY <2>2, <3>1 DEF CleanupInv
  <2>3. CASE pc \notin {"idle", "fetch"} /\ SameCopy(inst', inst) /\ Follows
    <3>1. pc' \notin {"addFinalizer"} /\ inst'.retain = inst.retain /\ inst'.uid = inst.uid
      BY <2>3 DEF SameCopy, Follows
    <3>2. pc' \in {"cleanupGet", "deletePods", "deleteJob", "releaseCA"} => ~inst'.retain
      BY <2>3, <3>1 DEF CleanupInv, Follows
    <3>3. pc' = "releaseCA" => Gone'
      BY <2>3 DEF Follows, Gone
    <3>4. pc' = "removeFinalizer" => Gone' \/ seen'.uid # job'.uid
      <4>1. pc' = "removeFinalizer" => Gone \/ seen'.uid # job.uid
        <5>1. CASE pc = "releaseCA"
          BY <5>1 DEF CleanupInv
        <5>2. CASE /\ pc = "cleanupGet" /\ seen' = jobCache
                   /\ ~(jobCache.uid # 0 /\ jobCache.owner = inst.uid)
          BY <5>2 DEF Gone, CacheInv, HasInst
        <5> QED BY <2>3, <5>1, <5>2 DEF Follows
      <4>2. pc' = "removeFinalizer" => pc \in {"releaseCA", "cleanupGet"}
        BY <2>3 DEF Follows
      <4> QED BY <3>1, <4>1, <4>2, WorkerJob DEF Gone, JobKept
    <3> QED BY <3>1, <3>2, <3>3, <3>4 DEF CleanupInv
  <2> QED BY <2>1, <2>2, <2>3 DEF WorkerShape, CopyPart
<1>4. CacheInv'
  <2>1. jobCache' = jobCache
    BY DEF WorkerShape
  <2>2. \/ job'.uid = job.uid /\ job'.owner = job.owner /\ lastJob' = lastJob
        \/ job'.uid = lastJob + 1 /\ lastJob' = lastJob + 1
    BY DEF WorkerShape, JobPart, NewJob, TypeInv, TypeOK, Jobs
  <2> QED BY <2>1, <2>2, Numbers DEF CacheInv
<1> QED BY <1>1, <1>2, <1>3, <1>4

\* So do the cluster and a restart.
LEMMA OthersLife ==
    ASSUME ~ForeignJobs, TypeInv, FinalizerInv, OwnerInv, HasInst, LifeInv,
           ClusterShape \/ RestartShape
    PROVE  LifeInv'
<1> USE DEF LifeInv
<1>0. /\ ~NoMG.retain /\ NoMG.uid = 0 /\ ~NoMG.deleting /\ ~NoMG.fin
      /\ NoJob.owner = 0 /\ NoJob.uid = 0
  BY DEF NoMG, NewMG, NoJob, NewJob
<1>1. CASE UNCHANGED <<mg, job>>
  <2>1. ObjectInv'
    BY <1>1 DEF ObjectInv
  <2>2. \/ pc' = "idle"
        \/ pc' = pc /\ inst' = inst /\ seen' = seen
    BY DEF ClusterShape, RestartShape, SyncedJob, Created, Deleted, Undisturbed, Meddled
  <2>3. RetainInv'
    BY <1>0, <1>1 DEF RetainInv, ClusterShape, RestartShape, SyncedJob, Created, Deleted,
                      Undisturbed, Meddled
  <2>4. CacheInv'
    <3>1. CASE jobCache' = jobCache /\ lastJob' = lastJob
      BY <1>1, <3>1 DEF CacheInv
    <3>2. CASE SyncedJob
      BY <1>0, <3>2, Numbers DEF SyncedJob, CacheInv, OwnerInv
    <3>3. CASE RestartShape
      BY <3>3 DEF RestartShape, CacheInv, OwnerInv
    <3> QED BY <3>1, <3>2, <3>3 DEF ClusterShape, Created, Deleted, Undisturbed, Meddled
  <2> QED BY <1>1, <2>1, <2>2, <2>3, <2>4 DEF CleanupInv, Gone
<1>2. CASE Created
  <2>1. PICK r \in BOOLEAN, o \in BOOLEAN : mg' = NewMG(lastUID + 1, r, o)
    BY <1>2 DEF Created
  <2>2. mg'.uid = lastUID + 1 /\ ~mg'.deleting
    BY <2>1 DEF NewMG
  <2>3. mg'.uid # 0 /\ mg'.uid \notin {mgCache.uid, inst.uid, job.owner}
    BY <2>2, Numbers DEF FinalizerInv, CurrentCopies
  <2> QED
    BY <1>2, <2>2, <2>3 DEF Created, ObjectInv, RetainInv, CleanupInv, CacheInv, Gone
<1>3. CASE Deleted
  <2>1. UNCHANGED <<mgCache, jobCache, pc, inst, seen, job, lastJob>> /\ mg.uid # 0
    BY <1>3 DEF Deleted, Undisturbed
  <2>2. \/ mg'.uid = mg.uid /\ mg'.fin /\ mg'.retain = mg.retain
        \/ mg' = NoMG
    BY <1>3 DEF Deleted, TypeInv, TypeOK, MustGathers
  <2> QED
    BY <1>0, <2>1, <2>2 DEF ObjectInv, RetainInv, CleanupInv, CacheInv, Gone
<1>4. CASE Undisturbed /\ UNCHANGED <<mg, lastJob>> /\ (JobKept \/ Collected)
  <2>1. \/ /\ job'.uid = job.uid /\ job'.owner = job.owner
           /\ job'.terminating = job.terminating
        \/ job'.owner = 0 /\ job'.uid = 0
    BY <1>0, <1>4 DEF JobKept, Collected
  <2>2. ObjectInv' /\ RetainInv'
    BY <1>4, <2>1 DEF ObjectInv, RetainInv, Undisturbed
  <2>3. pc \notin {"idle", "fetch"} =>
          (Gone => Gone') /\ (seen.uid # job.uid => Gone' \/ seen'.uid # job'.uid)
    BY <1>4, <2>1 DEF Gone, HasInst, Undisturbed
  <2>4. CleanupInv'
    BY <1>4, <2>3 DEF CleanupInv, Undisturbed
  <2>5. CacheInv'
    BY <1>4, <2>1, Numbers DEF CacheInv, Undisturbed
  <2> QED BY <2>2, <2>4, <2>5
<1> QED BY <1>1, <1>2, <1>3, <1>4 DEF ClusterShape, RestartShape, SyncedJob, Meddled

\* LifeInv holds in every state.
LEMMA LifeInvariant == ASSUME ~ForeignJobs PROVE Spec => []LifeInv
<1>1. Init => LifeInv
  <2>1. /\ ~NoMG.retain /\ NoMG.uid = 0 /\ ~NoMG.deleting /\ ~NoMG.fin
        /\ NoJob.uid = 0 /\ NoJob.owner = 0
    BY DEF NoMG, NewMG, NoJob, NewJob
  <2> QED BY <2>1 DEF Init, LifeInv, ObjectInv, RetainInv, CleanupInv, CacheInv
<1>2. TypeInv /\ FinalizerInv /\ OwnerInv /\ HasInst /\ LifeInv /\ [Next]_vars => LifeInv'
  BY Steps, WorkerLife, OthersLife
<1> QED BY <1>1, <1>2, TypeInvariant, FinalizerInvariant, OwnerInvariant, PTL DEF Spec

\* What the life cycle shows of the Job.
Shown == jobCache.uid = job.uid /\ ~Overlooked

Gather == IF mg.uid = 0 \/ job.owner # mg.uid THEN "none"
          ELSE IF job.terminating THEN "stopping"
          ELSE IF Shown THEN "known" ELSE "started"

\* The gather of the present MustGather is under way.
Gathering == mg.uid # 0 /\ job.owner = mg.uid /\ ~job.terminating

\* A step that changes neither the MustGather nor that is none in the life cycle.
LEMMA LifeStutters ==
    ASSUME SameLife(mg', mg), lastUID' = lastUID, Gather' = Gather
    PROVE  UNCHANGED Lifecycle!vars
BY DEF Lifecycle!vars, SameLife, Gather, Shown

\* A step that keeps the MustGather and the Job is none, or the operator gets to
\* know of the gather.
LEMMA KeptRefines ==
    ASSUME SameLife(mg', mg), lastUID' = lastUID, JobKept, Gathering /\ Shown => Shown'
    PROVE  [Lifecycle!Next]_(Lifecycle!vars)
<1>1. CASE Gather' = Gather
  BY <1>1, LifeStutters
<1>2. CASE Gather' # Gather
  <2>1. Gather = "started" /\ Gather' = "known"
    BY <1>2 DEF Gather, Gathering, JobKept, SameLife
  <2>2. Lifecycle!Notice
    BY <2>1 DEF Lifecycle!Notice, Gather, Shown, SameLife
  <2> QED BY <2>2 DEF Lifecycle!Next
<1> QED BY <1>1, <1>2

\* A worker with an instance younger than no Job of the present MustGather has
\* that MustGather.
LEMMA OwnerIsInst ==
    ASSUME TypeInv, FinalizerInv, OwnerInv, mg.uid # 0, job.owner = mg.uid, inst.uid # 0
    PROVE  inst.uid = mg.uid
<1>1. job.owner <= inst.uid /\ inst.uid <= lastUID /\ mg.uid = lastUID
  BY DEF OwnerInv, FinalizerInv, CurrentCopies
<1> QED BY <1>1, Numbers

\* The worker overlooks no gather that the cache shows.
LEMMA WorkerShows ==
    ASSUME TypeInv, FinalizerInv, OwnerInv, HasInst, LifeInv, WorkerShape, JobKept,
           Gathering, Shown
    PROVE  Shown'
<1> USE DEF LifeInv
<1>1. jobCache' = jobCache /\ job'.uid = job.uid
  BY DEF WorkerShape, JobKept
<1> SUFFICES ASSUME pc' = "removeFinalizer", ~inst'.retain, seen'.uid # job.uid
             PROVE  FALSE
  BY <1>1 DEF Shown, Overlooked
<1>2. CASE pc = "fetch" /\ inst' = mgCache /\ pc' = Branch(mgCache)
  BY <1>2, Booleans DEF Branch
<1>3. CASE pc \notin {"idle", "fetch"} /\ Follows
  <2>1. CASE pc = "releaseCA"
    <3>1. inst.uid = mg.uid
      BY <1>3, OwnerIsInst DEF HasInst, Gathering
    <3> QED BY <2>1, <3>1 DEF CleanupInv, Gone, Gathering
  <2>2. CASE pc = "cleanupGet" /\ seen' = jobCache
    BY <2>2 DEF Shown
  <2> QED BY <1>3, <2>1, <2>2 DEF Follows
<1> QED BY <1>2, <1>3 DEF WorkerShape, CopyPart

\* Every step of the worker is a step of the life cycle, or none.
LEMMA WorkerRefines ==
    ASSUME TypeInv, FinalizerInv, OwnerInv, HasInst, LifeInv, WorkerShape
    PROVE  [Lifecycle!Next]_(Lifecycle!vars)
<1> USE DEF LifeInv
<1>0. lastUID' = lastUID
  BY DEF WorkerShape
<1>1. CASE SameLife(mg', mg) /\ JobKept
  BY <1>0, <1>1, KeptRefines, WorkerShows
<1>2. CASE /\ SameLife(mg', mg)
           /\ pc = "createJob" /\ job.uid = 0
           /\ job'.uid = lastJob + 1
           /\ job'.owner = inst.uid /\ ~job'.terminating
  <2>1. mg.uid = inst.uid /\ mg.fin /\ mg.uid # 0
    BY <1>2 DEF FinalizerInv, LabelInv, GuardedCopies, Guarded
  <2>2. Gather = "none"
    BY <1>2, <2>1 DEF Gather, OwnerInv
  <2>3. Gather' = "started"
    <3>1. jobCache'.uid # job'.uid
      BY <1>2, Numbers DEF CacheInv, WorkerShape
    <3> QED BY <1>2, <2>1, <3>1 DEF Gather, Shown, SameLife
  <2>4. Lifecycle!Start
    BY <1>0, <1>2, <2>1, <2>2, <2>3 DEF Lifecycle!Start, Gather, Shown, SameLife
  <2> QED BY <2>4 DEF Lifecycle!Next
<1>3. CASE /\ SameLife(mg', mg)
           /\ pc = "deleteJob" /\ job.uid # 0
           /\ job'.uid = job.uid /\ job'.owner = job.owner /\ job'.terminating
  <2>1. job.owner \in {0, inst.uid} /\ inst.uid # 0 /\ ~inst.retain
    BY <1>3 DEF OwnerInv, HasInst, CleanupInv
  <2>2. CASE ~Gathering
    <3>1. Gather' = Gather
      BY <1>3, <2>2, Booleans DEF Gather, Gathering, SameLife
    <3> QED BY <1>0, <1>3, <3>1, LifeStutters
  <2>3. CASE Gathering
    <3>1. ~mg.retain
      BY <2>1, <2>3, Booleans DEF RetainInv, Gathering
    <3>2. Gather \in {"started", "known"} /\ Gather' = "stopping"
      BY <1>3, <2>3 DEF Gather, Gathering, SameLife
    <3>3. Lifecycle!Stop
      BY <1>0, <1>3, <3>1, <3>2 DEF Lifecycle!Stop, Gather, Shown, SameLife
    <3> QED BY <3>3 DEF Lifecycle!Next
  <2> QED BY <2>2, <2>3
<1>4. CASE /\ pc = "addFinalizer" /\ instCur
           /\ mg'.uid = mg.uid /\ mg'.fin = TRUE
           /\ mg'.deleting = mg.deleting /\ mg'.retain = mg.retain
  <2>1. mg.uid # 0 /\ ~mg.deleting
    BY <1>4, Booleans DEF FinalizerInv, CurrentCopies, CleanupInv
  <2>2. JobKept
    BY <1>4, WorkerJob
  <2>3. CASE mg.fin
    <3>1. SameLife(mg', mg)
      BY <1>4, <2>3, Booleans DEF SameLife
    <3> QED BY <2>2, <3>1, <1>1
  <2>4. CASE ~mg.fin
    <3>1. Gather = "none" /\ Gather' = "none"
      BY <1>4, <2>1, <2>2, <2>4 DEF Gather, ObjectInv, JobKept
    <3>2. Lifecycle!Protect
      BY <1>0, <1>4, <2>1, <2>4, <3>1 DEF Lifecycle!Protect, Gather, Shown
    <3> QED BY <3>2 DEF Lifecycle!Next
  <2> QED BY <2>3, <2>4
<1>5. CASE /\ pc = "removeFinalizer" /\ instCur
           /\ mg'.uid = 0 /\ mg'.fin = FALSE /\ mg'.deleting = FALSE /\ mg'.retain = FALSE
  <2>1. /\ mg.uid = inst.uid /\ mg.uid # 0 /\ mg.deleting /\ mg.fin
        /\ inst.retain = mg.retain
    BY <1>5 DEF FinalizerInv, CurrentCopies, LabelInv, ObjectInv
  <2>2. Gather = "known" => mg.retain
    BY <1>5, <2>1 DEF Gather, Shown, Overlooked, CleanupInv, Gone
  <2>3. Gather' = "none"
    BY <1>5 DEF Gather
  <2>4. Lifecycle!Release
    BY <1>0, <1>5, <2>1, <2>2, <2>3 DEF Lifecycle!Release, Lifecycle!Vanish, Gather, Shown
  <2> QED BY <2>4 DEF Lifecycle!Next
<1> QED
  BY <1>1, <1>2, <1>3, <1>4, <1>5, WorkerObject, WorkerJob

\* So is every step of the cluster and a restart.
LEMMA OthersRefine ==
    ASSUME ~ForeignJobs, TypeInv, FinalizerInv, OwnerInv, HasInst, LifeInv,
           ClusterShape \/ RestartShape
    PROVE  [Lifecycle!Next]_(Lifecycle!vars)
<1> USE DEF LifeInv
<1>0. /\ ~NoMG.retain /\ NoMG.uid = 0 /\ ~NoMG.deleting /\ ~NoMG.fin
      /\ NoJob.owner = 0
  BY DEF NoMG, NewMG, NoJob, NewJob
<1>1. CASE UNCHANGED <<mg, job, lastUID>>
  <2>1. Shown => Shown'
    <3>1. CASE pc' = "idle" /\ jobCache' = job
      BY <1>1, <3>1 DEF Shown, Overlooked
    <3>2. CASE UNCHANGED <<pc, inst, seen>> /\ (jobCache.uid = job.uid => jobCache'.uid = job.uid)
      BY <1>1, <3>2 DEF Shown, Overlooked
    <3> QED
      BY <1>1, <3>1, <3>2 DEF ClusterShape, RestartShape, SyncedJob, Created, Deleted,
           Undisturbed, Meddled
  <2> QED BY <1>1, <2>1, KeptRefines DEF SameLife, JobKept
<1>2. CASE Created
  <2>1. PICK r \in BOOLEAN, o \in BOOLEAN : mg' = NewMG(lastUID + 1, r, o)
    BY <1>2 DEF Created
  <2>2. /\ mg'.uid = lastUID + 1 /\ ~mg'.deleting /\ ~mg'.fin /\ mg'.retain = r
        /\ mg'.fin = FALSE /\ mg'.deleting = FALSE
    BY <2>1 DEF NewMG
  <2>3. job'.owner # mg'.uid /\ lastUID' = lastUID + 1
    BY <1>2, <2>2, Numbers DEF Created, FinalizerInv, CurrentCopies
  <2>4. Gather = "none" /\ Gather' = "none"
    BY <1>2, <2>3 DEF Gather, Created
  <2>5. mg.uid = 0 /\ mg.fin = FALSE /\ mg.deleting = FALSE
    BY <1>2, Booleans DEF Created, ObjectInv
  <2>6. Lifecycle!Create
    BY <2>2, <2>3, <2>4, <2>5 DEF Lifecycle!Create, Gather, Shown
  <2> QED BY <2>6 DEF Lifecycle!Next
<1>3. CASE Deleted
  <2>1. mg.uid # 0 /\ ~mg.deleting /\ UNCHANGED <<job, jobCache, pc, inst, seen, lastUID>>
    BY <1>3 DEF Deleted, Undisturbed
  <2>2. CASE mg.fin
    <3>1. /\ mg'.uid = mg.uid /\ mg'.fin = mg.fin /\ mg'.retain = mg.retain
          /\ mg'.deleting = TRUE
      BY <1>3, <2>2 DEF Deleted, TypeInv, TypeOK, MustGathers
    <3>2. Gather' = Gather
      BY <2>1, <3>1 DEF Gather, Shown, Overlooked
    <3>3. Lifecycle!Delete
      BY <2>1, <2>2, <3>1, <3>2 DEF Lifecycle!Delete, Gather, Shown
    <3> QED BY <3>3 DEF Lifecycle!Next
  <2>3. CASE ~mg.fin
    <3>1. mg' = NoMG
      BY <1>3, <2>3 DEF Deleted
    <3>2. Gather = "none" /\ Gather' = "none"
      BY <1>0, <2>1, <2>3, <3>1 DEF Gather, ObjectInv
    <3>3. mg'.uid = 0 /\ mg'.fin = FALSE /\ mg'.deleting = FALSE /\ mg'.retain = FALSE
      BY <3>1 DEF NoMG, NewMG
    <3>4. Lifecycle!Withdraw
      BY <2>1, <2>3, <3>2, <3>3 DEF Lifecycle!Withdraw, Lifecycle!Vanish, Gather, Shown
    <3> QED BY <3>4 DEF Lifecycle!Next
  <2> QED BY <2>2, <2>3
<1>4. CASE Undisturbed /\ UNCHANGED mg /\ JobKept
  <2>1. Shown => Shown'
    BY <1>4 DEF Shown, Overlooked, Undisturbed, JobKept
  <2> QED BY <1>4, <2>1, KeptRefines DEF Undisturbed, SameLife
<1>5. CASE Undisturbed /\ UNCHANGED mg /\ Collected
  <2>1. SameLife(mg', mg) /\ lastUID' = lastUID /\ Gather' = "none"
    BY <1>0, <1>5 DEF SameLife, Undisturbed, Gather, Collected
  <2>2. CASE Gather = "none"
    BY <2>1, <2>2, LifeStutters
  <2>3. CASE Gather # "none"
    <3>1. Gather = "stopping"
      BY <1>5, <2>3 DEF Gather, Collected
    <3>2. Lifecycle!Stopped
      BY <2>1, <3>1 DEF Lifecycle!Stopped, Gather, Shown, SameLife
    <3> QED BY <3>2 DEF Lifecycle!Next
  <2> QED BY <2>2, <2>3
<1> QED
  BY <1>1, <1>2, <1>3, <1>4, <1>5 DEF ClusterShape, RestartShape, SyncedJob, Meddled

\* The reconciler, with its caches stale or not, its conflicts, failures and
\* restarts, implements the life cycle its user sees: a gather is only started
\* under the finalizer, never stopped if it is to be retained, and the finalizer
\* is only removed when the gather that the cache shows has been stopped or is
\* retained.
THEOREM LifecycleImplemented ==
    ASSUME ~ForeignJobs
    PROVE  Spec => ImplementsLifecycle
<1>1. Init => Lifecycle!Init
  BY DEF Init, Lifecycle!Init, NoMG, NewMG
<1>2. TypeInv /\ FinalizerInv /\ OwnerInv /\ HasInst /\ LifeInv /\ [Next]_vars
        => [Lifecycle!Next]_(Lifecycle!vars)
  BY Steps, WorkerRefines, OthersRefine
<1> QED
  BY <1>1, <1>2, TypeInvariant, FinalizerInvariant, OwnerInvariant, LifeInvariant, PTL
     DEF Spec, ImplementsLifecycle, Lifecycle!Spec
=============================================================================

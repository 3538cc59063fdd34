----------------------- MODULE MustGatherOutcomeProofs -----------------------
(***************************************************************************)
(* What the reconciler reports: the verdict, for any number of Jobs,       *)
(* faults, restarts and edits.                                             *)
(***************************************************************************)
EXTENDS MustGatherLifecycleProofs

\* The steps that write the status.
StatusWrite ==
    ManageSuccess \/ ManageError \/ UpdateStatus \/ HandleJobCompletion
        \/ SetValidationFailureStatus

\* A copy of a Job that shows success is of a Job whose owner has gathered.
Honest(j) == j.succeeded => j.owner \in gathered

\* So is a copy of a MustGather that shows it Completed.
VerdictInv ==
    /\ job.uid # 0 => job.owner # 0
    /\ \A j \in {job, jobCache, seen} : Honest(j)
    /\ \A m \in {mg, mgCache, inst} : m.status = "Completed" => m.uid \in gathered

\* The empty objects claim nothing.
LEMMA NothingClaimed ==
    /\ NoMG.status # "Completed" /\ ~NoJob.succeeded /\ NoJob.uid = 0
    /\ \A u, o : ~NewJob(u, o).succeeded /\ NewJob(u, o).owner = o
    /\ \A u, r, o : NewMG(u, r, o).status # "Completed"
BY DEF NoMG, NewMG, NoJob, NewJob

\* A status write reports what the worker's copy or the Job it has seen shows.
LEMMA StatusVerdict ==
    ASSUME TypeInv, FinalizerInv, VerdictInv, NEW st, NEW c, NEW onOk, NEW onError,
           PutStatus(st, c, onOk, onError), st = "Completed" => inst.uid \in gathered
    PROVE  VerdictInv'
<1> DEFINE local  == [inst EXCEPT !.status = st, !.completed = c]
           stored == [mg EXCEPT !.status = st, !.completed = c]
<1>1. /\ local.uid = inst.uid /\ local.status = st
      /\ stored.uid = mg.uid /\ stored.status = st
  BY DEF TypeInv, TypeOK, MustGathers
<1>2. Put(instCur /\ c # "nil", local, stored, onOk, onError)
  BY DEF PutStatus
<1> HIDE DEF local, stored
<1>3. /\ UNCHANGED <<mgCache, job, jobCache, gathered>>
      /\ seen' \in {seen, NoJob}
      /\ mg' = mg \/ (instCur /\ mg' = stored)
      /\ inst' \in {NoMG, local} \/ (instCur /\ inst' = stored)
  BY <1>2 DEF Put, Proceed, histVars
<1>4. instCur => mg.uid = inst.uid
  BY DEF FinalizerInv, CurrentCopies
<1>5. mg'.status = "Completed" => mg'.uid \in gathered
  BY <1>1, <1>3, <1>4 DEF VerdictInv
<1>6. inst'.status = "Completed" => inst'.uid \in gathered
  BY <1>1, <1>3, <1>4, NothingClaimed DEF VerdictInv
<1> QED BY <1>3, <1>5, <1>6, NothingClaimed DEF VerdictInv, Honest

\* What the other steps of the worker keep.
LEMMA MovesVerdict ==
    ASSUME VerdictInv, UNCHANGED <<mgCache, jobCache, gathered>>,
           seen' \in {seen, NoJob, jobCache},
           (mg'.status = mg.status /\ mg'.uid = mg.uid) \/ mg' = NoMG,
           (inst'.status = inst.status /\ inst'.uid = inst.uid) \/ inst' \in {NoMG, mgCache},
           \/ /\ job'.uid = job.uid /\ job'.owner = job.owner
              /\ job'.succeeded = job.succeeded
           \/ job'.owner # 0 /\ ~job'.succeeded
    PROVE  VerdictInv'
BY NothingClaimed DEF VerdictInv, Honest

\* The worker keeps VerdictInv: with one MustGather, a Job it has seen succeed
\* is the instance's own.
LEMMA WorkerVerdict ==
    ASSUME MaxUID = 1, TypeInv, FinalizerInv, HasInst, VerdictInv, ReconcileStep
    PROVE  VerdictInv'
<1>0. inst.status = "Completed" => inst.uid \in gathered
  BY DEF VerdictInv
<1>1. CASE ManageSuccess
  BY <1>0, <1>1, StatusVerdict DEF ManageSuccess
<1>2. CASE ManageError
  BY <1>0, <1>2, StatusVerdict DEF ManageError
<1>3. CASE UpdateStatus
  BY <1>0, <1>3, StatusVerdict DEF UpdateStatus
<1>4. CASE HandleJobCompletion
  <2>1. Verdict(seen) = "Completed" => seen.succeeded
    BY DEF Verdict
  <2>2. inst.uid = 1 /\ gathered \subseteq {1}
    BY <1>4 DEF HandleJobCompletion, HasInst, TypeInv, TypeOK, MustGathers, UIDs
  <2>3. Verdict(seen) = "Completed" => inst.uid \in gathered
    BY <2>1, <2>2 DEF VerdictInv, Honest
  <2> QED BY <1>4, <2>3, StatusVerdict DEF HandleJobCompletion
<1>5. CASE SetValidationFailureStatus
  <2>1. "Failed" = "Completed" => inst.uid \in gathered
    OBVIOUS
  <2> QED BY <1>5, <2>1, StatusVerdict DEF SetValidationFailureStatus
<1>6. CASE ~StatusWrite
  <2>1. UNCHANGED <<mgCache, jobCache>>
    BY WorkerSteps DEF WorkerShape
  <2>2. gathered' = gathered /\ seen' \in {seen, NoJob, jobCache}
    BY <1>6 DEF ReconcileStep, StatusWrite, Dequeue, Fetch, AddFinalizer, EnsurePrerequisites,
         LookupJob, Preflight, GetJobFromInstance, CheckPrerequisites, CreateJob, CleanupGet,
         DeletePods, DeleteJob, ReleaseCA, RemoveFinalizer, Put, Moves, Proceed, histVars
  <2>3. (mg'.status = mg.status /\ mg'.uid = mg.uid) \/ mg' = NoMG
    BY <1>6 DEF ReconcileStep, StatusWrite, Dequeue, Fetch, AddFinalizer, EnsurePrerequisites,
         LookupJob, Preflight, CreateJob, CleanupGet, DeletePods, DeleteJob, ReleaseCA,
         RemoveFinalizer, Put, Moves, objVars, TypeInv, TypeOK, MustGathers
  <2>4. (inst'.status = inst.status /\ inst'.uid = inst.uid) \/ inst' \in {NoMG, mgCache}
    BY <1>6 DEF ReconcileStep, StatusWrite, Dequeue, Fetch, AddFinalizer, EnsurePrerequisites,
         LookupJob, Preflight, CreateJob, CleanupGet, DeletePods, DeleteJob, ReleaseCA,
         RemoveFinalizer, Put, Moves, Proceed, TypeInv, TypeOK, MustGathers
  <2>5. \/ /\ job'.uid = job.uid /\ job'.owner = job.owner
           /\ job'.succeeded = job.succeeded
        \/ job'.owner # 0 /\ ~job'.succeeded
    <3>1. CASE job' = job \/ job' = [job EXCEPT !.terminating = TRUE]
      BY <3>1 DEF TypeInv, TypeOK, Jobs
    <3>2. CASE pc = "createJob" /\ job' = NewJob(lastJob + 1, inst.uid)
      BY <3>2, NothingClaimed DEF HasInst
    <3> QED BY <3>1, <3>2, WorkerSteps DEF WorkerShape, JobPart
  <2> QED BY <2>1, <2>2, <2>3, <2>4, <2>5, MovesVerdict
<1> QED BY <1>1, <1>2, <1>3, <1>4, <1>5, <1>6 DEF StatusWrite

\* So do the cluster and a restart.
LEMMA OthersVerdict ==
    ASSUME ~ForeignJobs, TypeInv, VerdictInv, ClusterNext \/ Restart
    PROVE  VerdictInv'
<1>1. CASE Restart
  BY <1>1, NothingClaimed DEF Restart, histVars, VerdictInv, Honest
<1>2. CASE SyncMG \/ UserTouch
  BY <1>2 DEF SyncMG, UserTouch, histVars, VerdictInv, Honest
<1>3. CASE SyncJob
  <2>1. UNCHANGED <<mg, mgCache, inst, job, seen, gathered>>
    BY <1>3 DEF SyncJob, histVars
  <2>2. jobCache' = job \/ ~jobCache'.succeeded
    BY <1>3, NothingClaimed DEF SyncJob, UpdateJobCache
  <2> QED BY <2>1, <2>2 DEF VerdictInv, Honest
<1>4. CASE UserCreate
  <2>1. UNCHANGED <<mgCache, inst, job, jobCache, seen, gathered>> /\ mg'.status # "Completed"
    BY <1>4, NothingClaimed DEF UserCreate
  <2> QED BY <2>1 DEF VerdictInv, Honest
<1>5. CASE UserDelete
  <2>1. UNCHANGED <<mgCache, inst, job, jobCache, seen, gathered>>
    BY <1>5 DEF UserDelete, histVars
  <2>2. (mg'.status = mg.status /\ mg'.uid = mg.uid) \/ mg' = NoMG
    BY <1>5 DEF UserDelete, TypeInv, TypeOK, MustGathers
  <2> QED BY <2>1, <2>2, NothingClaimed DEF VerdictInv, Honest
<1>6. CASE UserDeleteJob \/ UserCreateJob
  BY <1>6 DEF UserDeleteJob, UserCreateJob
<1>7. CASE JobController \/ Collector
  <2>1. UNCHANGED <<mg, mgCache, inst, jobCache, seen>>
    BY <1>7 DEF JobController, Collector, StartPod, PodFails, PodSucceeds, JobCompletes,
                FinishJobDelete, CollectJob, JobStep, workerVars
  <2>2. gathered \subseteq gathered'
    BY <1>7 DEF JobController, Collector, StartPod, PodFails, PodSucceeds, JobCompletes,
                FinishJobDelete, CollectJob
  <2>3. (job'.uid # 0 => job'.owner # 0) /\ (job'.succeeded => job'.owner \in gathered')
    <3>1. CASE PodSucceeds
      <4>1. job.uid # 0
        BY <3>1 DEF PodSucceeds, TypeInv, TypeOK, JobUIDs
      <4> QED BY <3>1, <4>1 DEF PodSucceeds, VerdictInv, TypeInv, TypeOK, Jobs
    <3>2. CASE StartPod \/ PodFails \/ JobCompletes
      BY <2>2, <3>2 DEF StartPod, PodFails, JobCompletes, VerdictInv, Honest, TypeInv, TypeOK, Jobs
    <3>3. CASE Collector
      BY <3>3, NothingClaimed DEF Collector, FinishJobDelete, CollectJob
    <3> QED BY <1>7, <3>1, <3>2, <3>3 DEF JobController
  <2> QED BY <2>1, <2>2, <2>3 DEF VerdictInv, Honest
<1> QED BY <1>1, <1>2, <1>3, <1>4, <1>5, <1>6, <1>7 DEF ClusterNext, User

\* A MustGather reported as Completed had a Job of its own that succeeded, when
\* its name is used once and only the operator creates Jobs of that name: through
\* stale caches, relists, failed requests and restarts.
THEOREM CompletedIsOwn ==
    ASSUME MaxUID = 1, ~ForeignJobs
    PROVE  Spec => []CompletedMeansOwnGather
<1>1. Init => VerdictInv
  BY NothingClaimed DEF Init, VerdictInv, Honest
<1>2. TypeInv /\ FinalizerInv /\ HasInst /\ VerdictInv /\ [Next]_vars => VerdictInv'
  <2> SUFFICES ASSUME TypeInv, FinalizerInv, HasInst, VerdictInv, [Next]_vars
               PROVE  VerdictInv'
    OBVIOUS
  <2>1. CASE UNCHANGED vars
    BY <2>1 DEF vars, objVars, workerVars, histVars, VerdictInv, Honest
  <2> QED BY <2>1, WorkerVerdict, OthersVerdict DEF Next
<1>3. VerdictInv => CompletedMeansOwnGather
  BY DEF VerdictInv, CompletedMeansOwnGather
<1> QED
  BY <1>1, <1>2, <1>3, TypeInvariant, FinalizerInvariant, OwnerInvariant, PTL DEF Spec
=============================================================================

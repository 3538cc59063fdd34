------------------------ MODULE MustGatherReconciler ------------------------
(***************************************************************************)
(* MustGatherReconciler.Reconcile (controllers/mustgather), run by the one *)
(* worker of the controller over the cluster of MustGatherCluster.         *)
(*                                                                         *)
(* Every request to the API server is a step of its own, and so is every   *)
(* cached read whose result is used later: all that happens in the cluster *)
(* meanwhile happens between them.  A request is answered, refused, or     *)
(* fails after it may have been applied.                                   *)
(***************************************************************************)
EXTENDS MustGatherCluster

CONSTANT MaxErrors   \* bound: the error counter saturates here

ASSUME ErrorsAssumption == MaxErrors \in Nat

Labels == {"idle", "fetch", "addFinalizer", "prerequisites", "lookupJob",
           "preflight", "createJob", "manageSuccess", "updateStatus",
           "complete", "reject", "manageError", "cleanupGet", "deletePods",
           "deleteJob", "releaseCA", "removeFinalizer"}

Init ==
    /\ mg = NoMG /\ mgCache = NoMG /\ mgCacheCur = TRUE
    /\ job = NoJob /\ jobCache = NoJob /\ pods = {}
    /\ queued = FALSE /\ pc = "idle"
    /\ inst = NoMG /\ instCur = FALSE /\ seen = NoJob
    /\ total = 0 /\ errors = 0
    /\ lastUID = 0 /\ lastJob = 0
    /\ created = [u \in UIDs |-> 0] /\ gathered = {}
    /\ faults = 0 /\ restarts = 0 /\ touches = 0

(***************************************************************************)
(* The shape of a step.                                                    *)
(***************************************************************************)

\* Where Reconcile goes on, with which copies of the objects: "idle" returns
\* without an error, "retry" returns an error, which requeues the name.
Proceed(label, copy, current, theJob) ==
    LET returns == label \in {"idle", "retry"}
    IN  /\ pc'      = IF returns THEN "idle" ELSE label
        /\ queued'  = (queued \/ label = "retry")
        /\ inst'    = IF returns THEN NoMG ELSE copy
        /\ instCur' = (current /\ ~returns)
        /\ seen'    = IF returns THEN NoJob ELSE theJob

Fault ==
    /\ faults < MaxFaults
    /\ faults' = faults + 1
    /\ UNCHANGED <<restarts, touches>>

\* A PUT of the MustGather made from inst: local is what inst becomes, stored
\* what the API server stores if it accepts the request.
Put(accepted, local, stored, onOk, onError) ==
    /\ \/ /\ accepted
          /\ mg' = stored /\ mgCacheCur' = FALSE
          /\ Proceed(onOk, stored, TRUE, seen)
          /\ UNCHANGED budgetVars
       \/ /\ ~accepted
          /\ Proceed(onError, local, instCur, seen)
          /\ UNCHANGED <<mg, mgCacheCur, budgetVars>>
       \/ /\ Fault
          /\ Proceed(onError, local, instCur, seen)
          /\ UNCHANGED <<mg, mgCacheCur>>
       \/ /\ Fault
          /\ accepted
          /\ mg' = stored /\ mgCacheCur' = FALSE
          /\ Proceed(onError, local, FALSE, seen)
    /\ UNCHANGED <<mgCache, job, jobCache, pods, metricVars, histVars>>

\* Status().Update(instance).  The CRD requires status.completed, which a nil
\* pointer leaves out of the request.
PutStatus(status, completed, onOk, onError) ==
    Put(instCur /\ completed # "nil",
        [inst EXCEPT !.status = status, !.completed = completed],
        [mg EXCEPT !.status = status, !.completed = completed],
        onOk, onError)

\* A step that only moves the worker on.
Moves(label, theJob) ==
    /\ Proceed(label, inst, instCur, theJob)
    /\ UNCHANGED <<objVars, errors, total, histVars>>

(***************************************************************************)
(* Reconcile: fetch the instance and branch on its metadata.               *)
(***************************************************************************)
Dequeue ==
    /\ pc = "idle"
    /\ queued
    /\ queued' = FALSE
    /\ pc' = "fetch"
    /\ UNCHANGED <<objVars, inst, instCur, seen, metricVars, histVars, budgetVars>>

\* Mutant: no pass of its own for the finalizer.
BranchWithoutFinalizer(m) ==
    CASE m.uid = 0                                     -> "idle"
      [] m.uid # 0 /\ m.deleting /\ ~m.fin             -> "idle"
      [] m.uid # 0 /\ m.deleting /\ m.fin /\ ~m.retain -> "cleanupGet"
      [] m.uid # 0 /\ m.deleting /\ m.fin /\ m.retain  -> "removeFinalizer"
      [] m.uid # 0 /\ ~m.deleting /\ m.opSA            -> "reject"
      [] m.uid # 0 /\ ~m.deleting /\ ~m.opSA           -> "prerequisites"

\* The branch Reconcile takes for the instance it has read.
Branch(m) ==
    CASE m.uid = 0                                      -> "idle"
      [] m.uid # 0 /\ m.deleting /\ ~m.fin              -> "idle"
      [] m.uid # 0 /\ m.deleting /\ m.fin /\ ~m.retain  -> "cleanupGet"
      [] m.uid # 0 /\ m.deleting /\ m.fin /\ m.retain   -> "removeFinalizer"
      [] m.uid # 0 /\ ~m.deleting /\ ~m.fin             -> "addFinalizer"
      [] m.uid # 0 /\ ~m.deleting /\ m.fin /\ m.opSA    -> "reject"
      [] m.uid # 0 /\ ~m.deleting /\ m.fin /\ ~m.opSA   -> "prerequisites"

Fetch ==
    /\ pc = "fetch"
    /\ \/ /\ Proceed(Branch(mgCache), mgCache, mgCacheCur, seen)
          /\ UNCHANGED budgetVars
       \/ /\ Fault
          /\ Proceed("retry", inst, instCur, seen)
    /\ UNCHANGED <<objVars, metricVars, histVars>>

\* Mutant: the error of the Update is logged and Reconcile goes on.
AddFinalizerGoesOn ==
    /\ pc = "addFinalizer"
    /\ Put(instCur, [inst EXCEPT !.fin = TRUE], [mg EXCEPT !.fin = TRUE],
           "idle", "prerequisites")

AddFinalizer ==
    /\ pc = "addFinalizer"
    /\ Put(instCur, [inst EXCEPT !.fin = TRUE], [mg EXCEPT !.fin = TRUE],
           "idle", "retry")

\* ensureTrustedCAConfigMap and the lookup of the obfuscation ConfigMap.
EnsurePrerequisites ==
    /\ pc = "prerequisites"
    /\ \/ Moves("lookupJob", seen) /\ UNCHANGED budgetVars
       \/ Moves("manageError", seen) /\ Fault

(***************************************************************************)
(* The Job is looked up by name, in the cache.                             *)
(***************************************************************************)

\* Mutant: a Job that is not active and has not failed counts as done.
VerdictIdleIsDone(j) ==
    CASE j.uid = 0                               -> "absent"
      [] j.uid # 0 /\ j.active                   -> "running"
      [] j.uid # 0 /\ ~j.active /\ j.failed <= BackoffLimit -> "Completed"
      [] OTHER                                   -> "Failed"

\* Mutant: the Job controller would start another pod.
VerdictOneTooFew(j) ==
    CASE j.uid = 0                             -> "absent"
      [] j.uid # 0 /\ j.active                 -> "running"
      [] j.uid # 0 /\ ~j.active /\ j.succeeded -> "Completed"
      [] j.uid # 0 /\ ~j.active /\ ~j.succeeded /\ j.failed >= BackoffLimit -> "Failed"
      [] OTHER                                 -> "running"

\* What Reconcile makes of the Job it has read.
Verdict(j) ==
    CASE j.uid = 0                             -> "absent"
      [] j.uid # 0 /\ j.active                 -> "running"
      [] j.uid # 0 /\ ~j.active /\ j.succeeded -> "Completed"
      [] j.uid # 0 /\ ~j.active /\ ~j.succeeded /\ j.failed > BackoffLimit -> "Failed"
      [] OTHER                                 -> "running"

\* A cached read is fresh unless caches may lag.
FreshJobRead == CacheLag \/ jobCache = job

LookupJob ==
    /\ pc = "lookupJob"
    /\ \/ LET verdict == Verdict(jobCache)
          IN  /\ FreshJobRead
              /\ Proceed(CASE verdict = "absent"  -> "preflight"
                           [] verdict = "running" -> "updateStatus"
                           [] OTHER               -> "complete",
                         inst, instCur, jobCache)
              /\ errors' = IF verdict = "Failed" /\ errors < MaxErrors
                           THEN errors + 1 ELSE errors
              /\ UNCHANGED <<objVars, total, histVars, budgetVars>>
       \/ Moves("manageError", seen) /\ Fault

(***************************************************************************)
(* No Job: validate, then create it.                                       *)
(***************************************************************************)

\* How getJobFromInstance ends: the Job, an ImageStream tag that is missing or
\* not pullable, or no OPERATOR_IMAGE.
GetJobFromInstance == {"createJob", "reject", "manageError"}

\* How the checks of the ServiceAccount, the Secret and the SFTP login end: a
\* missing ServiceAccount or Secret field and a failed login are a verdict, a
\* missing Secret is an error of the instance, a failed Get an error to retry.
CheckPrerequisites == {"createJob", "reject", "manageError", "retry"}

\* The first that fails decides.  Errors that are retried are faults: what they
\* miss turns up in the end.
Preflight ==
    /\ pc = "preflight"
    /\ \E outcome \in GetJobFromInstance \cup CheckPrerequisites :
          /\ Moves(outcome, seen)
          /\ \/ outcome \in {"createJob", "reject"} /\ UNCHANGED budgetVars
             \/ outcome \in {"manageError", "retry"} /\ Fault

\* The Job the API server stores: its controller reference is instance.
StoreJob ==
    /\ job' = NewJob(lastJob + 1, inst.uid)
    /\ lastJob' = lastJob + 1
    /\ created' = [created EXCEPT ![inst.uid] = @ + 1]

\* Mutant: the counter is incremented before the outcome is known.
CreateJobCountsAttempts ==
    /\ pc = "createJob"
    /\ total' = IF total <= MaxJobs THEN total + 1 ELSE total
    /\ \/ /\ job.uid = 0 /\ lastJob < MaxJobs
          /\ StoreJob
          /\ Proceed("manageSuccess", inst, instCur, seen)
       \/ /\ job.uid # 0 \/ lastJob = MaxJobs
          /\ Proceed("manageError", inst, instCur, seen)
          /\ UNCHANGED <<job, lastJob, created>>
    /\ UNCHANGED <<mg, mgCache, mgCacheCur, jobCache, pods, errors, lastUID,
                   gathered, budgetVars>>

\* CreateResourceIfNotExists takes AlreadyExists for success, and the counter
\* is incremented either way.  A fault may hide a create that was applied.
CreateJob ==
    /\ pc = "createJob"
    /\ \/ /\ job.uid = 0 /\ lastJob < MaxJobs
          /\ StoreJob
          /\ total' = IF total <= MaxJobs THEN total + 1 ELSE total
          /\ Proceed("manageSuccess", inst, instCur, seen)
          /\ UNCHANGED budgetVars
       \/ /\ job.uid # 0
          /\ total' = IF total <= MaxJobs THEN total + 1 ELSE total
          /\ Proceed("manageSuccess", inst, instCur, seen)
          /\ UNCHANGED <<job, lastJob, created, budgetVars>>
       \/ /\ job.uid = 0 /\ lastJob = MaxJobs
          /\ Proceed("manageError", inst, instCur, seen)
          /\ UNCHANGED <<job, lastJob, created, total, budgetVars>>
       \/ /\ Fault
          /\ Proceed("manageError", inst, instCur, seen)
          /\ \/ UNCHANGED <<job, lastJob, created>>
             \/ job.uid = 0 /\ lastJob < MaxJobs /\ StoreJob
          /\ UNCHANGED total
    /\ UNCHANGED <<mg, mgCache, mgCacheCur, jobCache, pods, errors, lastUID,
                   gathered>>

(***************************************************************************)
(* Status writes.                                                          *)
(***************************************************************************)
ManageSuccess ==
    /\ pc = "manageSuccess"
    /\ PutStatus(inst.status, inst.completed, "idle", "retry")

ManageError ==
    /\ pc = "manageError"
    /\ PutStatus(inst.status, inst.completed, "retry", "retry")

UpdateStatus ==
    /\ pc = "updateStatus"
    /\ PutStatus(inst.status, IF seen.complete THEN "true" ELSE "false",
                 "idle", "retry")

\* Mutant: the verdict is taken from a second read of the cache.
HandleJobCompletionReadsAgain ==
    /\ pc = "complete"
    /\ PutStatus(Verdict(jobCache), "true",
                 IF inst.retain THEN "idle" ELSE "cleanupGet", "manageError")

\* handleJobCompletion: the status first, then the cleanup.
HandleJobCompletion ==
    /\ pc = "complete"
    /\ PutStatus(Verdict(seen), "true",
                 IF inst.retain THEN "idle" ELSE "cleanupGet", "manageError")

SetValidationFailureStatus ==
    /\ pc = "reject"
    /\ PutStatus("Failed", "true", "idle", "manageError")

(***************************************************************************)
(* cleanupMustGatherResources, called for a deleted instance (then the     *)
(* finalizer is removed) and after completion.                             *)
(***************************************************************************)
AfterCleanup == IF inst.deleting THEN "removeFinalizer" ELSE "idle"

\* Mutants: a failed cleanup is ignored, at deletion or after completion.
CleanupErrorDropsFinalizer == IF inst.deleting THEN "removeFinalizer" ELSE "manageError"
CleanupErrorIsLogged       == IF inst.deleting THEN "retry" ELSE "idle"

CleanupError == IF inst.deleting THEN "retry" ELSE "manageError"

\* Mutant: whatever Job has the name is taken for the instance's own.
CleanupGetAnyOwner ==
    /\ pc = "cleanupGet"
    /\ \/ /\ FreshJobRead
          /\ Moves(IF jobCache.uid # 0 THEN "deletePods" ELSE AfterCleanup, jobCache)
          /\ UNCHANGED budgetVars
       \/ Moves(CleanupError, seen) /\ Fault

CleanupGet ==
    /\ pc = "cleanupGet"
    /\ \/ /\ FreshJobRead
          /\ Moves(IF jobCache.uid # 0 /\ jobCache.owner = inst.uid
                   THEN "deletePods" ELSE AfterCleanup, jobCache)
          /\ UNCHANGED budgetVars
       \/ Moves(CleanupError, seen) /\ Fault

\* The pods are listed in the cache by the Job's UID, then deleted one by one.
DeletePods ==
    /\ pc = "deletePods"
    /\ \E left \in {pods, pods \ {seen.uid}} :
        /\ pods' = left
        /\ \/ /\ seen.uid \in left => CacheLag
              /\ Proceed("deleteJob", inst, instCur, seen)
              /\ UNCHANGED budgetVars
           \/ /\ Fault
              /\ Proceed(CleanupError, inst, instCur, seen)
    /\ UNCHANGED <<mg, mgCache, mgCacheCur, job, jobCache, metricVars, histVars>>

\* Delete by name, whatever Job now has it; NotFound is an error here.
DeleteJob ==
    /\ pc = "deleteJob"
    /\ \/ /\ job.uid # 0
          /\ job' = [job EXCEPT !.terminating = TRUE]
          /\ Proceed("releaseCA", inst, instCur, seen)
          /\ UNCHANGED budgetVars
       \/ /\ job.uid = 0
          /\ Proceed(CleanupError, inst, instCur, seen)
          /\ UNCHANGED <<job, budgetVars>>
       \/ /\ Fault
          /\ \/ UNCHANGED job
             \/ job.uid # 0 /\ job' = [job EXCEPT !.terminating = TRUE]
          /\ Proceed(CleanupError, inst, instCur, seen)
    /\ UNCHANGED <<mg, mgCache, mgCacheCur, jobCache, pods, metricVars, histVars>>

\* cleanupTrustedCAConfigMap.
ReleaseCA ==
    /\ pc = "releaseCA"
    /\ \/ Moves(AfterCleanup, seen) /\ UNCHANGED budgetVars
       \/ Moves(CleanupError, seen) /\ Fault

\* Mutant: an Update that fails is not retried.
RemoveFinalizerGivesUp ==
    /\ pc = "removeFinalizer"
    /\ Put(instCur, [inst EXCEPT !.fin = FALSE], NoMG, "idle", "idle")

\* With its last finalizer the object goes.
RemoveFinalizer ==
    /\ pc = "removeFinalizer"
    /\ Put(instCur, [inst EXCEPT !.fin = FALSE], NoMG, "idle", "manageError")

(***************************************************************************)
(* The operator dies and a new process takes over: the locals are lost,    *)
(* the informers list, and a MustGather that exists is a Create event.     *)
(***************************************************************************)
Restart ==
    /\ restarts < MaxRestarts
    /\ restarts' = restarts + 1
    /\ mgCache' = mg /\ mgCacheCur' = TRUE
    /\ jobCache' = job
    /\ pc' = "idle"
    /\ queued' = (mg.uid # 0)
    /\ inst' = NoMG /\ instCur' = FALSE /\ seen' = NoJob
    /\ UNCHANGED <<mg, job, pods, metricVars, histVars, faults, touches>>

ReconcileStep ==
    \/ Dequeue \/ Fetch \/ AddFinalizer \/ EnsurePrerequisites \/ LookupJob
    \/ Preflight \/ CreateJob \/ ManageSuccess \/ ManageError \/ UpdateStatus
    \/ HandleJobCompletion \/ SetValidationFailureStatus
    \/ CleanupGet \/ DeletePods \/ DeleteJob \/ ReleaseCA \/ RemoveFinalizer

Next == ReconcileStep \/ Restart \/ ClusterNext

Spec == Init /\ [][Next]_vars

\* The worker runs while there is work, the watches deliver and the collector
\* collects.  Gather pods are assumed to end: without mustGatherTimeout nothing
\* in the operator makes them.
Fairness ==
    /\ WF_vars(ReconcileStep)
    /\ WF_vars(SyncMG) /\ WF_vars(SyncJob)
    /\ WF_vars(StartPod) /\ WF_vars(PodFails \/ PodSucceeds)
    /\ WF_vars(JobCompletes) /\ WF_vars(Collector)

FairSpec == Spec /\ Fairness

(***************************************************************************)
(* Safety.                                                                 *)
(***************************************************************************)

\* Every variable keeps its type; in particular the failures of a Job never
\* exceed backoffLimit + 1 and no step of Reconcile leaves its labels.
TypeOK ==
    /\ mg \in MustGathers /\ mgCache \in MustGathers /\ inst \in MustGathers
    /\ mgCacheCur \in BOOLEAN /\ instCur \in BOOLEAN /\ queued \in BOOLEAN
    /\ job \in Jobs /\ jobCache \in Jobs /\ seen \in Jobs
    /\ pods \subseteq JobUIDs
    /\ pc \in Labels
    /\ total \in 0 .. MaxJobs + 1 /\ errors \in 0 .. MaxErrors
    /\ lastUID \in 0 .. MaxUID /\ lastJob \in 0 .. MaxJobs
    /\ created \in [UIDs -> Nat] /\ gathered \subseteq UIDs
    /\ faults \in 0 .. MaxFaults /\ restarts \in 0 .. MaxRestarts
    /\ touches \in 0 .. MaxTouches

\* A gather Job is only ever created while its MustGather still exists and
\* carries the finalizer, however stale the worker's copy is: Reconcile adds
\* the finalizer in a pass of its own and only it removes the finalizer, so a
\* CR deleted between the fetch and the create still has its cleanup ahead.
JobCreatedUnderFinalizer ==
    [][lastJob' # lastJob /\ job'.owner # 0
        => mg.uid = job'.owner /\ mg.fin]_vars

\* The Job that cleanupMustGatherResources deletes, by name and without a UID
\* precondition, is never the gather of another MustGather, although ownership
\* was checked on a cached copy and the name may have been used again since.  A
\* Job that nobody's MustGather owns (owner 0), put by a user in the place of
\* the one that was checked, is deleted.
DeletesOnlyOwnJob ==
    [][pc = "deleteJob" /\ job'.terminating /\ ~job.terminating
        => job.owner \in {0, inst.uid}]_vars

\* The cleanup has looked for the Job in a cache that did not have it.
Overlooked == pc = "removeFinalizer" /\ ~inst.retain /\ seen.uid # job.uid

\* The MustGather and its Job as their user sees them.
Lifecycle == INSTANCE MustGatherLifecycle WITH
    uid    <- mg.uid, protected <- mg.fin, deleting <- mg.deleting,
    retain <- mg.retain,
    last   <- lastUID,
    gather <- IF mg.uid = 0 \/ job.owner # mg.uid THEN "none"
              ELSE IF job.terminating THEN "stopping"
              ELSE IF jobCache.uid = job.uid /\ ~Overlooked THEN "known"
              ELSE "started"

\* The operator implements that life cycle, its reads stale or not: a gather is
\* only started for a MustGather that is there and has the finalizer, only
\* stopped if it need not be retained, and the finalizer goes only after the
\* gather has been stopped, or is retained, or was not yet in the cache when
\* the cleanup looked for it.
ImplementsLifecycle == Lifecycle!Spec

\* From the moment Reconcile takes the Job of a MustGather that is not deleted
\* for finished, however old the copy it has read, no pod of it is started: no
\* replacement appears between the deletion of its pods and its own, which
\* would orphan it.  Holds for a name used once.  The cleanup of a deleted
\* MustGather, which may stop a gather that runs, has no such guarantee.
NoPodOutlivesFinishedJob ==
    [][~inst.deleting /\ pc \in {"complete", "cleanupGet", "deletePods", "deleteJob"}
        => pods' \subseteq pods]_vars

\* A MustGather reported as Completed had a Job of its own that succeeded.
CompletedMeansOwnGather == mg.status = "Completed" => mg.uid \in gathered

\* Whenever MetricMustGatherTotal counts a gather there is one: the create may
\* have been answered with AlreadyExists, but what exists then is a Job of this
\* MustGather, and it is not on its way out.  Holds for a name used once.  A Job
\* that the cache does not show yet is counted a second time.
CountedGatherExists ==
    [][total' # total => job'.owner = inst.uid /\ ~job'.terminating]_vars

\* One MustGather is one gather: at most one Job is ever created for it.
GatherAtMostOnce == \A u \in UIDs : created[u] <= 1

\* A deletion that the informer has delivered is never dropped: the name is
\* queued, or the pass under way has read the deletion.  Such a pass ends with
\* the object gone or with an error, which requeues the name: conflicts, failed
\* requests, crashes and a name deleted and used again change nothing of that.
DeletionRemembered ==
    mg.deleting /\ mgCacheCur
        => queued \/ pc = "fetch" \/ (inst.deleting /\ inst.uid = mg.uid)

\* Nothing will wake the operator: no name is queued and no event is due.
AtRest == pc = "idle" /\ ~queued /\ mgCacheCur /\ jobCache = job

\* The operator only rests when it may: its MustGather waits for a gather that
\* will still report, or has its verdict and no Job left to clean up.  No Job's
\* end is lost although Create and Delete events of Jobs are dropped.  Holds for
\* a name used once: a MustGather created again that takes the Job of its
\* predecessor for its own rests for ever once that Job is collected.
RestIsSettled ==
    AtRest /\ mg.uid # 0
        => /\ ~mg.deleting
           /\ \/ Verdict(job) = "running"
              \/ /\ mg.completed = "true"
                 /\ job.uid = 0 \/ job.terminating \/ mg.retain

(***************************************************************************)
(* Why the action properties hold: what ties the worker's copies and the   *)
(* caches to the API server.                                               *)
(***************************************************************************)

\* UIDs are handed out in order and a current copy is a copy of the object.
CurrentCopies ==
    /\ mg.uid \in {0, lastUID}
    /\ \A u \in {mgCache.uid, inst.uid, job.owner, jobCache.owner} : u <= lastUID
    /\ mgCacheCur => mgCache = mg
    /\ instCur => /\ inst.uid = mg.uid /\ inst.uid # 0
                  /\ inst.deleting = mg.deleting /\ inst.retain = mg.retain

\* A copy that shows the finalizer on an object not deleted, however old, is
\* of the object that exists, and the object still has the finalizer.
Guarded(m) == m.uid # 0 /\ m.fin /\ ~m.deleting

GuardedCopies ==
    \A m \in {mgCache, inst} : Guarded(m) => m.uid = mg.uid /\ mg.fin

\* A deletion that the worker has seen is in the cache and in the API server.
DeletionSeen ==
    /\ inst.deleting /\ inst.uid = mgCache.uid => mgCache.deleting
    /\ inst.deleting /\ inst.uid = mg.uid => mg.deleting
    /\ mgCache.deleting /\ mgCache.uid = mg.uid => mg.deleting
    /\ \A m \in {mg, mgCache, inst} : m.uid = 0 => ~m.deleting

\* What Reconcile has established about its instance where it stands.
LabelInv ==
    /\ pc \in {"prerequisites", "lookupJob", "preflight", "createJob"}
          => Guarded(inst)
    /\ pc = "removeFinalizer" => inst.deleting
    /\ pc \in {"idle", "fetch"} => inst = NoMG

\* The inductive invariant behind JobCreatedUnderFinalizer: a copy that lets
\* Reconcile pass the finalizer check proves that the finalizer is still there.
FinalizerInv == CurrentCopies /\ GuardedCopies /\ DeletionSeen /\ LabelInv

\* The inductive invariant behind DeletesOnlyOwnJob: owners only get younger
\* from the Job cache to the API server, and none is younger than the instance
\* the worker or the cache holds.
OwnerInv ==
    /\ job.uid = 0 => job.owner = 0
    /\ job.owner # 0 => jobCache.owner <= job.owner
    /\ \A m \in {mgCache, inst} :
          m.uid # 0 => job.owner <= m.uid /\ jobCache.owner <= m.uid
    /\ mgCache.uid # 0 => inst.uid <= mgCache.uid
    /\ pc \in {"deletePods", "deleteJob"} => job.owner \in {0, inst.uid}

(***************************************************************************)
(* Liveness.                                                               *)
(***************************************************************************)

\* A deleted MustGather goes in the end: failures of the cleanup, conflicts
\* and crashes only delay the removal of the finalizer.
DeletionCompletes ==
    \A u \in UIDs : (mg.uid = u /\ mg.deleting) ~> (mg.uid # u)

\* A MustGather comes to a verdict (status.completed is set to true) unless it
\* is deleted first: no wake-up is lost although Job Create events are ignored.
GatherConcludes ==
    \A u \in UIDs :
        (mg.uid = u) ~> (mg.uid # u \/ mg.deleting \/ mg.completed = "true")

\* A Job that succeeded is removed, unless it is retained: the cleanup that
\* failed or was cut off after the status was written is taken up again.  Holds
\* while a Job is first seen through the watch: a Job that a relist first shows
\* finished is a Create event, which is dropped.
FinishedJobCleanedUp ==
    \A j \in JobUIDs :
        (job.uid = j /\ job.succeeded /\ job.owner = mg.uid /\ ~mg.retain)
            ~> (job.uid # j)
=============================================================================

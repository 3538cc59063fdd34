------------------------- MODULE MustGatherCluster -------------------------
(***************************************************************************)
(* The cluster around the reconciler of must-gather-operator, for ONE      *)
(* namespaced name: the MustGather object and the Job of that name in the  *)
(* API server, the informer caches the reconciler reads them through, the  *)
(* Job controller, the garbage collector and the user.                     *)
(*                                                                         *)
(* The resourceVersion of the MustGather is abstracted to two booleans:    *)
(* mgCacheCur (the cache holds the API server's version) and instCur (the  *)
(* worker's copy does).  An update is accepted exactly when the copy it is *)
(* made from is current, so nothing else about the number matters.         *)
(***************************************************************************)
EXTENDS Naturals

CONSTANTS
    BackoffLimit,  \* spec.backoffLimit of the Job (3 in template.go)
    Retains,       \* the values of spec.retainResourcesOnCompletion explored
    OperatorSAs,   \* whether the CR names the operator's own service account
    CacheLag,      \* may a cached read of the Job or its pods be stale?
    Relists,       \* may a Job first be seen by a relist, already advanced?
    ForeignJobs,   \* may the user delete the Job or create one of this name?
    MaxUID,        \* bound: MustGathers created under the name
    MaxJobs,       \* bound: Jobs created under the name (a quota)
    MaxFaults,     \* bound: failed requests and failed prerequisites
    MaxRestarts,   \* bound: operator crashes
    MaxTouches     \* bound: metadata edits of the MustGather by others

ASSUME BoundsAssumption ==
    /\ BackoffLimit \in Nat /\ MaxUID \in Nat /\ MaxJobs \in Nat
    /\ MaxFaults \in Nat /\ MaxRestarts \in Nat /\ MaxTouches \in Nat
ASSUME SwitchAssumption ==
    CacheLag \in BOOLEAN /\ Relists \in BOOLEAN /\ ForeignJobs \in BOOLEAN
ASSUME SpecAssumption == Retains \subseteq BOOLEAN /\ OperatorSAs \subseteq BOOLEAN

VARIABLES
    mg,            \* the MustGather in the API server
    mgCache,       \* the MustGather in the informer cache
    mgCacheCur,    \* mgCache has the resourceVersion of mg
    job,           \* the Job in the API server
    jobCache,      \* the Job in the informer cache
    pods,          \* UIDs of the Jobs that have Pod objects
    queued,        \* the name is in the work queue (or dirty, while processed)
    pc,            \* where the only worker is in Reconcile
    inst,          \* the worker's copy of the MustGather ("instance")
    instCur,       \* inst has the resourceVersion of mg
    seen,          \* the worker's copy of the Job ("existingJob", "tmpJob")
    total,         \* increments of MetricMustGatherTotal
    errors,        \* increments of MetricMustGatherErrors
    lastUID,       \* the MustGathers created so far are 1 .. lastUID
    lastJob,       \* the Jobs created so far are 1 .. lastJob
    created,       \* history: the number of Jobs created for each MustGather
    gathered,      \* history: the MustGathers one of whose own Jobs succeeded
    faults, restarts, touches   \* the budgets used

objVars    == <<mg, mgCache, mgCacheCur, job, jobCache, pods>>
workerVars == <<queued, pc, inst, instCur, seen>>
metricVars == <<total, errors>>
histVars   == <<lastUID, lastJob, created, gathered>>
budgetVars == <<faults, restarts, touches>>
vars == <<objVars, workerVars, metricVars, histVars, budgetVars>>

(***************************************************************************)
(* Objects.  UID 0 stands for "no such object".                            *)
(***************************************************************************)
UIDs    == 1 .. MaxUID
JobUIDs == 1 .. MaxJobs

\* api/v1: deletionTimestamp, the finalizer, status.status, status.completed
\* ("nil" when the pointer is nil) and the two fields of spec Reconcile tests.
MustGathers ==
    [uid : 0 .. MaxUID, deleting : BOOLEAN, fin : BOOLEAN,
     status : {"none", "Completed", "Failed"},
     completed : {"nil", "false", "true"},
     retain : BOOLEAN, opSA : BOOLEAN]

NewMG(u, retain, opSA) ==
    [uid |-> u, deleting |-> FALSE, fin |-> FALSE, status |-> "none",
     completed |-> "nil", retain |-> retain, opSA |-> opSA]

NoMG == NewMG(0, FALSE, FALSE)

\* The owner is the UID of the controlling MustGather, 0 for a foreign Job;
\* complete stands for status.completionTime being set.
Jobs ==
    [uid : 0 .. MaxJobs, owner : 0 .. MaxUID, active : BOOLEAN,
     succeeded : BOOLEAN, failed : 0 .. BackoffLimit + 1,
     complete : BOOLEAN, terminating : BOOLEAN]

NewJob(u, owner) ==
    [uid |-> u, owner |-> owner, active |-> FALSE, succeeded |-> FALSE,
     failed |-> 0, complete |-> FALSE, terminating |-> FALSE]

NoJob == NewJob(0, 0)

JobStatus(j) == <<j.active, j.succeeded, j.failed, j.complete>>

(***************************************************************************)
(* The informers.                                                          *)
(***************************************************************************)

\* resourceGenerationOrFinalizerChangedPredicate: only UpdateFunc is set, so
\* Create and Delete events pass; a deletionTimestamp bumps the generation.
MGEventPasses(old, new) ==
    \/ old.uid # new.uid
    \/ old.deleting # new.deleting
    \/ old.fin # new.fin

\* The cache catches up with the MustGather of the API server.
SyncMG ==
    /\ ~mgCacheCur
    /\ mgCache' = mg
    /\ mgCacheCur' = TRUE
    /\ queued' = (queued \/ MGEventPasses(mgCache, mg))
    /\ UNCHANGED <<mg, job, jobCache, pods, pc, inst, instCur, seen,
                   metricVars, histVars, budgetVars>>

\* Mutant: a predicate that looks at Succeeded only misses a failed Job.
JobEventPassesOnSuccessOnly(old, new) ==
    /\ old.uid # 0 /\ new.uid # 0
    /\ old.succeeded # new.succeeded
    /\ new.owner # 0

\* isStateUpdated: only an Update event that changes the status wakes the
\* owner; a Job without a controlling MustGather maps to no request.
JobEventPasses(old, new) ==
    /\ old.uid # 0 /\ new.uid # 0
    /\ JobStatus(old) # JobStatus(new)
    /\ new.owner # 0

\* The cached Job moves to version j by an Update event.
UpdateJobCache(j) ==
    /\ jobCache' = j
    /\ queued' = (queued \/ JobEventPasses(jobCache, j))

\* Through the watch a Job that went is a Delete event and a new one a Create
\* event that shows it as it was created: isStateUpdated drops both.  A relist
\* goes from any Job to the one there is now, which is an Update of its name.
SyncJob ==
    /\ jobCache # job
    /\ \/ jobCache.uid = job.uid /\ UpdateJobCache(job)
       \/ /\ jobCache.uid # job.uid
          /\ jobCache' = IF jobCache.uid = 0 THEN NewJob(job.uid, job.owner) ELSE NoJob
          /\ UNCHANGED queued
       \/ Relists /\ UpdateJobCache(job)
    /\ UNCHANGED <<mg, mgCache, mgCacheCur, job, pods, pc, inst, instCur, seen,
                   metricVars, histVars, budgetVars>>

(***************************************************************************)
(* The user.  A write by anyone else makes every copy of the object stale. *)
(***************************************************************************)
UserCreate ==
    /\ mg.uid = 0
    /\ lastUID < MaxUID
    /\ lastUID' = lastUID + 1
    /\ \E retain \in Retains, opSA \in OperatorSAs :
          mg' = NewMG(lastUID + 1, retain, opSA)
    /\ mgCacheCur' = FALSE
    /\ instCur' = FALSE
    /\ UNCHANGED <<mgCache, job, jobCache, pods, queued, pc, inst, seen,
                   metricVars, lastJob, created, gathered, budgetVars>>

\* Without the finalizer the object goes at once.
UserDelete ==
    /\ mg.uid # 0
    /\ ~mg.deleting
    /\ mg' = IF mg.fin THEN [mg EXCEPT !.deleting = TRUE] ELSE NoMG
    /\ mgCacheCur' = FALSE
    /\ instCur' = FALSE
    /\ UNCHANGED <<mgCache, job, jobCache, pods, queued, pc, inst, seen,
                   metricVars, histVars, budgetVars>>

\* A label or an annotation changes: only the resourceVersion moves.
UserTouch ==
    /\ mg.uid # 0
    /\ touches < MaxTouches
    /\ touches' = touches + 1
    /\ mgCacheCur' = FALSE
    /\ instCur' = FALSE
    /\ UNCHANGED <<mg, mgCache, job, jobCache, pods, queued, pc, inst, seen,
                   metricVars, histVars, faults, restarts>>

\* kubectl delete job: background propagation takes the pods along.
UserDeleteJob ==
    /\ ForeignJobs
    /\ job.uid # 0
    /\ job' = NoJob
    /\ pods' = pods \ {job.uid}
    /\ UNCHANGED <<mg, mgCache, mgCacheCur, jobCache, workerVars, metricVars,
                   histVars, budgetVars>>

UserCreateJob ==
    /\ ForeignJobs
    /\ job.uid = 0
    /\ lastJob < MaxJobs
    /\ lastJob' = lastJob + 1
    /\ job' = NewJob(lastJob + 1, 0)
    /\ UNCHANGED <<mg, mgCache, mgCacheCur, jobCache, pods, workerVars,
                   metricVars, lastUID, created, gathered, budgetVars>>

(***************************************************************************)
(* The Job controller (restartPolicy Never: one pod at a time, each failed *)
(* pod counted, no pod after backoffLimit + 1 failures).                   *)
(***************************************************************************)
JobStep ==
    UNCHANGED <<mg, mgCache, mgCacheCur, jobCache, workerVars, metricVars,
                lastUID, lastJob, created, budgetVars>>

StartPod ==
    /\ job.uid # 0
    /\ ~job.terminating /\ ~job.active /\ ~job.succeeded
    /\ job.failed <= BackoffLimit
    /\ job' = [job EXCEPT !.active = TRUE]
    /\ pods' = pods \cup {job.uid}
    /\ UNCHANGED gathered
    /\ JobStep

\* A pod that is deleted while it runs counts as failed too.
PodFails ==
    /\ job.active
    /\ job' = [job EXCEPT !.active = FALSE, !.failed = job.failed + 1]
    /\ UNCHANGED <<pods, gathered>>
    /\ JobStep

PodSucceeds ==
    /\ job.active
    /\ job.uid \in pods
    /\ job' = [job EXCEPT !.active = FALSE, !.succeeded = TRUE]
    /\ gathered' = gathered \cup ({job.owner} \ {0})
    /\ UNCHANGED pods
    /\ JobStep

\* The Complete condition and completionTime follow in a later status update.
JobCompletes ==
    /\ job.succeeded /\ ~job.complete
    /\ job' = [job EXCEPT !.complete = TRUE]
    /\ UNCHANGED <<pods, gathered>>
    /\ JobStep

(***************************************************************************)
(* The garbage collector.  Delete of a batch/v1 Job with no propagation    *)
(* policy orphans the pods: the Job stays, terminating, until that is done.*)
(***************************************************************************)
FinishJobDelete ==
    /\ job.terminating
    /\ job' = NoJob
    /\ UNCHANGED <<pods, gathered>>
    /\ JobStep

\* A Job whose owner is gone is deleted in the background, with its pods.
CollectJob ==
    /\ job.uid # 0 /\ ~job.terminating
    /\ job.owner # 0 /\ job.owner # mg.uid
    /\ job' = NoJob
    /\ pods' = pods \ {job.uid}
    /\ UNCHANGED gathered
    /\ JobStep

JobController == StartPod \/ PodFails \/ PodSucceeds \/ JobCompletes
Collector     == FinishJobDelete \/ CollectJob
User == UserCreate \/ UserDelete \/ UserTouch \/ UserDeleteJob \/ UserCreateJob

ClusterNext == SyncMG \/ SyncJob \/ User \/ JobController \/ Collector
=============================================================================

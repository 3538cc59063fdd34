----------------------------- MODULE TrustedCA -----------------------------
(***************************************************************************)
(* The copy of the trusted CA ConfigMap in a namespace other than the      *)
(* operator's, shared by all MustGathers of that namespace through its     *)
(* owner references: ensureTrustedCAConfigMap, called in every pass of     *)
(* Reconcile, and cleanupTrustedCAConfigMap, called after the Job of an    *)
(* instance has been deleted, with the passes around them.                 *)
(*                                                                         *)
(* A MustGather is its UID, and is followed from the pass that gave it its *)
(* finalizer.  The ConfigMap is read from the informer's cache, which may  *)
(* be any number of versions old.  As in MustGatherCluster, a              *)
(* resourceVersion is abstracted to whether a copy is current.  What a     *)
(* stale read of the MustGather or of its Job does is the subject of       *)
(* MustGatherReconciler; of it this module keeps only the Job that a       *)
(* cleanup overlooks, because that cleanup does not release the ConfigMap. *)
(* In the operator's own namespace both functions return at once and there *)
(* is nothing to model.                                                    *)
(***************************************************************************)
EXTENDS Naturals, FiniteSets

CONSTANTS
    CRs,          \* the MustGathers of the namespace
    MaxFaults,    \* bound: failed requests, unreadable source ConfigMap
    MaxRestarts,  \* bound: operator crashes
    MaxEvents     \* bound: status events of Jobs, besides that of their end

ASSUME CAAssumption ==
    /\ IsFiniteSet(CRs)
    /\ MaxFaults \in Nat /\ MaxRestarts \in Nat /\ MaxEvents \in Nat

VARIABLES
    cm,           \* the ConfigMap in the API server
    cmCache,      \* the ConfigMap in the informer cache
    cmCacheCur,   \* cmCache has the resourceVersion of cm
    phase,        \* how far each MustGather is
    retain,       \* the MustGathers with retainResourcesOnCompletion
    deleting,     \* the MustGathers with a deletionTimestamp
    queued,       \* the MustGathers in the work queue
    pc, cr,       \* where the only worker is, and for which MustGather
    dying,        \* the instance it fetched has a deletionTimestamp
    copy,         \* the worker's copy of the ConfigMap
    copyCur,      \* copy has the resourceVersion of cm
    misled,       \* history: see Misses and Overlooks
    faults, restarts, events   \* the budgets used

vars == <<cm, cmCache, cmCacheCur, phase, retain, deleting, queued, pc, cr, dying,
          copy, copyCur, misled, faults, restarts, events>>

NoCM == [present |-> FALSE, owners |-> {}]
CM(owners) == [present |-> TRUE, owners |-> owners]

ConfigMaps == {NoCM} \cup {CM(o) : o \in SUBSET CRs}

\* "none": not created yet; "new": no Job; "running": its Job exists and
\* mounts the ConfigMap; "finished": its Job has ended; "kept": so it has, and
\* the retained MustGather says so; "terminating": its Job was deleted and is
\* still there; "cleared": that Job is gone; "rejected": validation failed;
\* "gone": deleted.
Phases == {"none", "new", "running", "finished", "kept", "terminating", "cleared",
           "rejected", "gone"}

HasJob(c) == phase[c] \in {"running", "finished", "kept", "terminating"}

Labels == {"idle", "ensureRead", "ensureCreate", "ensureUpdate", "lookup",
           "createJob", "complete", "cleanupGet", "deleteJob", "releaseRead",
           "releaseDelete", "releaseUpdate", "removeFinalizer"}

Init ==
    /\ cm = NoCM /\ cmCache = NoCM /\ cmCacheCur = TRUE
    /\ phase = [c \in CRs |-> "none"] /\ retain = {} /\ deleting = {} /\ queued = {}
    /\ pc = "idle" /\ cr \in CRs /\ dying = FALSE /\ copy = NoCM /\ copyCur = FALSE
    /\ misled = {}
    /\ faults = 0 /\ restarts = 0 /\ events = 0

(***************************************************************************)
(* The cluster.                                                            *)
(***************************************************************************)
workerVars == <<pc, cr, dying, copy>>
cmVars     == <<cm, cmCache, cmCacheCur, copyCur, misled>>
budgetVars == <<faults, restarts, events>>

SyncCM ==
    /\ ~cmCacheCur
    /\ cmCache' = cm /\ cmCacheCur' = TRUE
    /\ UNCHANGED <<cm, phase, retain, deleting, queued, workerVars, copyCur, misled,
                   budgetVars>>

UserCreate(c) ==
    /\ phase[c] = "none"
    /\ phase' = [phase EXCEPT ![c] = "new"]
    /\ retain' \in {retain, retain \cup {c}}
    /\ queued' = queued \cup {c}
    /\ UNCHANGED <<cmVars, deleting, workerVars, budgetVars>>

UserDelete(c) ==
    /\ phase[c] \notin {"none", "gone"} /\ c \notin deleting
    /\ deleting' = deleting \cup {c}
    /\ queued' = queued \cup {c}
    /\ UNCHANGED <<cmVars, phase, retain, workerVars, budgetVars>>

JobFinishes(c) ==
    /\ phase[c] = "running"
    /\ phase' = [phase EXCEPT ![c] = "finished"]
    /\ queued' = queued \cup {c}
    /\ UNCHANGED <<cmVars, retain, deleting, workerVars, budgetVars>>

\* The status of a Job changes otherwise.
JobEvent(c) ==
    /\ HasJob(c)
    /\ events < MaxEvents
    /\ events' = events + 1
    /\ queued' = queued \cup {c}
    /\ UNCHANGED <<cmVars, phase, retain, deleting, workerVars, faults, restarts>>

\* A deleted Job goes; its Delete event is dropped.
JobGoes(c) ==
    /\ phase[c] = "terminating"
    /\ phase' = [phase EXCEPT ![c] = "cleared"]
    /\ UNCHANGED <<cmVars, retain, deleting, queued, workerVars, budgetVars>>

\* The garbage collector drops references to owners that are gone, and the
\* ConfigMap with the last of its owners.
Gone == {c \in CRs : phase[c] = "gone"}

CollectCM ==
    /\ cm.present /\ cm.owners \cap Gone # {}
    /\ cm' = IF cm.owners \subseteq Gone THEN NoCM ELSE CM(cm.owners \ Gone)
    /\ cmCacheCur' = FALSE /\ copyCur' = FALSE
    /\ UNCHANGED <<cmCache, phase, retain, deleting, queued, workerVars, misled,
                   budgetVars>>

(***************************************************************************)
(* The worker.                                                             *)
(***************************************************************************)
Fault == faults < MaxFaults /\ faults' = faults + 1 /\ UNCHANGED <<restarts, events>>

\* Reconcile goes on at label; "retry" returns an error for cr.
Proceed(label) ==
    /\ pc' = IF label = "retry" THEN "idle" ELSE label
    /\ queued' = IF label = "retry" THEN queued \cup {cr} ELSE queued
    /\ UNCHANGED <<retain, deleting, cr, dying>>

\* A write of the ConfigMap: answered, refused, or failed after it may have
\* been applied.
Write(accepted, new, onOk) ==
    /\ \/ /\ accepted
          /\ cm' = new /\ cmCacheCur' = FALSE
          /\ Proceed(onOk)
          /\ UNCHANGED budgetVars
       \/ /\ ~accepted
          /\ Proceed("retry")
          /\ UNCHANGED <<cm, cmCacheCur, budgetVars>>
       \/ /\ Fault
          /\ \/ UNCHANGED <<cm, cmCacheCur>>
             \/ accepted /\ cm' = new /\ cmCacheCur' = FALSE
          /\ Proceed("retry")
    /\ copy' = NoCM /\ copyCur' = FALSE
    /\ UNCHANGED <<cmCache, phase>>

\* A request about the MustGather or its Job: answered, or failed after it may
\* have been applied.
Request(newPhase, onOk) ==
    /\ \/ /\ phase' = [phase EXCEPT ![cr] = newPhase]
          /\ Proceed(onOk)
          /\ UNCHANGED budgetVars
       \/ /\ Fault
          /\ phase' \in {phase, [phase EXCEPT ![cr] = newPhase]}
          /\ Proceed("retry")
    /\ UNCHANGED <<cmVars, copy>>

\* A read from the cache, and where Reconcile goes on after it.
Read(label) ==
    \/ Proceed(label) /\ UNCHANGED budgetVars
    \/ Fault /\ Proceed("retry")

\* A read of the ConfigMap; the copy lives until the write that is based on it.
ReadCM(label) ==
    /\ Read(label)
    /\ IF pc' \in {"ensureUpdate", "releaseDelete", "releaseUpdate"}
       THEN copy' = cmCache /\ copyCur' = cmCacheCur
       ELSE copy' = NoCM /\ copyCur' = FALSE
    /\ UNCHANGED <<cm, cmCache, cmCacheCur, phase>>

\* Mutant: an instance that is not found is reconciled all the same.
ReconcileSkipsNotFound(c) ==
    /\ pc = "idle" /\ c \in queued
    /\ queued' = queued \ {c}
    /\ cr' = c /\ dying' = (c \in deleting /\ phase[c] # "gone")
    /\ pc' = CASE ~dying'                 -> "ensureRead"
               [] dying' /\ c \notin retain -> "cleanupGet"
               [] dying' /\ c \in retain    -> "removeFinalizer"
    /\ UNCHANGED <<cmVars, phase, retain, deleting, copy, budgetVars>>

\* The instance is fetched.  A deleted one is cleaned up, unless its resources
\* are retained, and then loses its finalizer; any other goes through
\* ensureTrustedCAConfigMap first, whatever its phase.
Reconcile(c) ==
    /\ pc = "idle" /\ c \in queued
    /\ cr' = c /\ dying' = (c \in deleting)
    /\ \/ /\ queued' = queued \ {c}
          /\ pc' = CASE phase[c] = "gone"                                     -> "idle"
                     [] phase[c] # "gone" /\ c \notin deleting               -> "ensureRead"
                     [] phase[c] # "gone" /\ c \in deleting /\ c \notin retain -> "cleanupGet"
                     [] phase[c] # "gone" /\ c \in deleting /\ c \in retain    -> "removeFinalizer"
          /\ UNCHANGED budgetVars
       \/ /\ Fault
          /\ UNCHANGED <<queued, pc>>
    /\ UNCHANGED <<cmVars, phase, retain, deleting, copy>>

\* The outdated copy shows a reference that the ConfigMap no longer has, and so
\* none is added.
Misses == cr \in cmCache.owners /\ cr \notin cm.owners

\* The source ConfigMap, then the copy in the namespace of the instance.
EnsureRead ==
    /\ pc = "ensureRead"
    /\ ReadCM(CASE ~cmCache.present                            -> "ensureCreate"
                [] cmCache.present /\ cr \in cmCache.owners    -> "lookup"
                [] cmCache.present /\ cr \notin cmCache.owners -> "ensureUpdate")
    /\ misled' = IF Misses /\ pc' = "lookup" THEN misled \cup {cr} ELSE misled

\* Mutant: a ConfigMap that already exists ends the pass without an error.
EnsureCreateGivesUp ==
    /\ pc = "ensureCreate"
    /\ \/ ~cm.present /\ Write(TRUE, CM({cr}), "lookup")
       \/ /\ cm.present /\ Proceed("idle")
          /\ UNCHANGED <<cm, cmCache, cmCacheCur, phase, copy, copyCur, budgetVars>>
    /\ misled' = misled \ cm'.owners

EnsureCreate ==
    /\ pc = "ensureCreate"
    /\ Write(~cm.present, CM({cr}), "lookup")
    /\ misled' = misled \ cm'.owners

\* Mutant: the reference replaces the ones that are there.
EnsureUpdateReplaces ==
    /\ pc = "ensureUpdate"
    /\ Write(copyCur, CM({cr}), "lookup")
    /\ misled' = misled \ cm'.owners

EnsureUpdate ==
    /\ pc = "ensureUpdate"
    /\ Write(copyCur, CM(copy.owners \cup {cr}), "lookup")
    /\ misled' = misled \ cm'.owners

\* The Job is looked up.  A finished one is completed, one that was deleted
\* too; a running one is left alone and the status is refreshed.
LookUpJob ==
    /\ pc = "lookup"
    /\ Read(CASE ~HasJob(cr)                            -> "createJob"
              [] phase[cr] = "running"                  -> "idle"
              [] HasJob(cr) /\ phase[cr] # "running"    -> "complete")
    /\ UNCHANGED <<cmVars, phase, copy>>

\* The instance is validated and its Job created; the status is written last.
CreateJob ==
    /\ pc = "createJob"
    /\ \E p \in {"running", "rejected"} : Request(p, "idle")

\* handleJobCompletion: the status, which a deletion since the fetch makes
\* conflict, and then the cleanup unless the resources are retained.
Complete ==
    /\ pc = "complete"
    /\ \/ /\ cr \notin deleting
          /\ IF cr \in retain THEN Request("kept", "idle") ELSE Request(phase[cr], "cleanupGet")
       \/ /\ cr \in deleting
          /\ Proceed("retry")
          /\ UNCHANGED <<cmVars, phase, copy, budgetVars>>

\* Where the pass goes on when the cleanup has succeeded.
AfterCleanup == IF dying THEN "removeFinalizer" ELSE "idle"

\* The Job to clean up; a lagging cache may not show a running one yet.
CleanupGet ==
    /\ pc = "cleanupGet"
    /\ \/ HasJob(cr) /\ Read("deleteJob")
       \/ phase[cr] \notin {"finished", "kept", "terminating"} /\ Read(AfterCleanup)
    /\ UNCHANGED <<cmVars, phase, copy>>

\* The pods and then the Job are deleted; a Job that is gone is an error.
DeleteJob ==
    /\ pc = "deleteJob"
    /\ \/ HasJob(cr) /\ Request("terminating", "releaseRead")
       \/ /\ ~HasJob(cr)
          /\ Proceed("retry")
          /\ UNCHANGED <<cmVars, phase, copy, budgetVars>>

\* Mutant: other owners are not looked for.
ReleaseReadAlwaysDeletes ==
    /\ pc = "releaseRead"
    /\ ReadCM(IF cmCache.present THEN "releaseDelete" ELSE AfterCleanup)
    /\ UNCHANGED misled

\* Mutant: the references are counted before the instance's own is left out.
ReleaseReadCountsOwn ==
    /\ pc = "releaseRead"
    /\ ReadCM(CASE ~cmCache.present                             -> AfterCleanup
                [] cmCache.present /\ cmCache.owners = {}        -> "releaseDelete"
                [] cmCache.present /\ cmCache.owners # {}        -> "releaseUpdate")
    /\ UNCHANGED misled

\* cleanupTrustedCAConfigMap.
ReleaseRead ==
    /\ pc = "releaseRead"
    /\ ReadCM(CASE ~cmCache.present                                    -> AfterCleanup
                [] cmCache.present /\ cmCache.owners \subseteq {cr}    -> "releaseDelete"
                [] cmCache.present /\ ~(cmCache.owners \subseteq {cr}) -> "releaseUpdate")
    /\ UNCHANGED misled

\* The other owners that lose the ConfigMap because the outdated copy does not
\* show their references.
Overlooks == (cm.owners \ cm'.owners) \ (copy.owners \cup {cr})

\* Delete by name, with no precondition; NotFound is an error.
ReleaseDelete ==
    /\ pc = "releaseDelete"
    /\ Write(cm.present, NoCM, AfterCleanup)
    /\ misled' = misled \cup Overlooks

ReleaseUpdate ==
    /\ pc = "releaseUpdate"
    /\ Write(copyCur, CM(copy.owners \ {cr}), AfterCleanup)
    /\ UNCHANGED misled

\* Mutant: a failed update of the finalizers is only logged.
RemoveFinalizerGivesUp ==
    /\ pc = "removeFinalizer"
    /\ \/ phase' = [phase EXCEPT ![cr] = "gone"] /\ UNCHANGED budgetVars
       \/ phase' = phase /\ Fault
    /\ Proceed("idle")
    /\ UNCHANGED <<cmVars, copy>>

RemoveFinalizer ==
    /\ pc = "removeFinalizer"
    /\ Request("gone", "idle")

\* The operator dies; the new process lists everything.
Restart ==
    /\ restarts < MaxRestarts
    /\ restarts' = restarts + 1
    /\ cmCache' = cm /\ cmCacheCur' = TRUE
    /\ pc' = "idle" /\ copy' = NoCM /\ copyCur' = FALSE
    /\ queued' = {c \in CRs : phase[c] \notin {"none", "gone"}}
    /\ UNCHANGED <<cm, phase, retain, deleting, cr, dying, misled, faults, events>>

WorkerStep ==
    \/ \E c \in CRs : Reconcile(c)
    \/ EnsureRead \/ EnsureCreate \/ EnsureUpdate
    \/ LookUpJob \/ CreateJob \/ Complete
    \/ CleanupGet \/ DeleteJob \/ ReleaseRead \/ ReleaseDelete \/ ReleaseUpdate
    \/ RemoveFinalizer

ClusterStep ==
    \/ SyncCM \/ CollectCM
    \/ \E c \in CRs : \/ UserCreate(c) \/ UserDelete(c)
                      \/ JobFinishes(c) \/ JobEvent(c) \/ JobGoes(c)

Next == WorkerStep \/ ClusterStep \/ Restart

Spec == Init /\ [][Next]_vars

\* The queue is served in order (a name is taken before one queued later, here:
\* every queued name is taken in the end) and the watch delivers.
FairSpec ==
    /\ Spec
    /\ WF_vars(WorkerStep) /\ WF_vars(SyncCM) /\ WF_vars(CollectCM)
    /\ \A c \in CRs : SF_vars(Reconcile(c))

(***************************************************************************)
(* Properties.                                                             *)
(***************************************************************************)

\* Every variable keeps its type; a copy that is called current is one; and the
\* MustGather in the worker's hand exists, since nobody else removes its
\* finalizer.
TypeOK ==
    /\ cm \in ConfigMaps /\ cmCache \in ConfigMaps /\ copy \in ConfigMaps
    /\ phase \in [CRs -> Phases] /\ queued \subseteq CRs /\ misled \subseteq CRs
    /\ retain \subseteq CRs /\ deleting \subseteq CRs /\ dying \in BOOLEAN
    /\ pc \in Labels /\ cr \in CRs
    /\ cmCacheCur => cmCache = cm
    /\ copyCur => copy = cm
    /\ pc # "idle" => phase[cr] \notin {"none", "gone"}

\* docs/design/controller.md:21: the cleanup deletes the ConfigMap only when its
\* MustGather was the last owner.  The owners are counted in a copy from the
\* cache and the Delete has no precondition.
DeletedOnlyByLastOwner ==
    [][pc = "releaseDelete" /\ cm.present /\ ~cm'.present
        => cm.owners \subseteq {cr}]_vars

\* The Job of a MustGather, whose pods mount the ConfigMap, never runs without
\* it and without a reference that keeps it: neither the cleanup of other
\* MustGathers nor a failed request, a crash or the garbage collector takes it
\* away.  The exceptions are the MustGathers that an outdated cached copy has
\* wronged and that have not been ensured again since.
BundleWhileRunning ==
    \A c \in CRs : phase[c] = "running" => c \in cm.owners \/ c \in misled

\* The ConfigMap always has an owner: one without would never be collected and
\* would stay in the user's namespace for good.
NeverUnowned == cm.present => cm.owners # {}

\* No pass of one MustGather and no write of the collector takes the reference
\* of another that still exists, whatever happened between reading the ConfigMap
\* and writing it; except for the deletion of the ConfigMap, and then the copy
\* did not show that reference.
KeepsOtherOwners ==
    [][\A c \in cm.owners \ cm'.owners :
          \/ c = cr \/ phase[c] = "gone"
          \/ pc = "releaseDelete" /\ c \notin copy.owners]_vars

\* What a MustGather still waits for: its Job, the cleanup of it, its deletion.
Unfinished(c) ==
    phase[c] \in {"new", "finished"} \/ (c \in deleting /\ phase[c] # "gone")

\* A MustGather that waits for its Job, for the verdict on a finished one or for
\* its deletion is queued or being reconciled: no conflict on the ConfigMap, no
\* failed request and no crash makes the operator forget it.
NobodyForgotten ==
    \A c \in CRs : Unfinished(c) => c \in queued \/ (pc # "idle" /\ cr = c)

\* A MustGather gets past the ConfigMap: conflicts with other MustGathers, the
\* collector's writes and outdated copies only delay its Job.
EveryGatherStarts ==
    \A c \in CRs : (phase[c] = "new" /\ c \in queued)
        ~> (phase[c] \in {"running", "rejected"} \/ c \in deleting)
=============================================================================

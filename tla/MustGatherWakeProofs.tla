------------------------ MODULE MustGatherWakeProofs ------------------------
(***************************************************************************)
(* That the operator forgets nothing: a deletion that was delivered stays  *)
(* on its mind, and when it rests nothing is left to be done.  These are   *)
(* the safety halves of DeletionCompletes and GatherConcludes, proved for  *)
(* every bound, with stale caches, faults, crashes and edits by others.    *)
(***************************************************************************)
EXTENDS MustGatherOutcomeProofs

(***************************************************************************)
(* What one step of the worker does, as far as wake-ups depend on it.      *)
(***************************************************************************)

\* The object, its status apart.
SameSelf(m, n) == SameLife(m, n) /\ m.opSA = n.opSA

\* Reconcile returns, without an error or with one, or goes on.
Returns == pc' = "idle" /\ inst' = NoMG /\ queued' = queued
Retries == pc' = "idle" /\ inst' = NoMG /\ queued'

Goes(label) ==
    /\ pc' = label /\ queued' = queued
    /\ SameCopy(inst', inst)
    /\ inst'.fin => inst.fin \/ (inst.uid = mg.uid /\ mg.fin)
    /\ inst'.opSA = inst.opSA \/ (inst.uid = mg.uid /\ inst'.opSA = mg.opSA)

Finishes == IF inst.deleting THEN Goes("removeFinalizer") ELSE Returns
Fails    == IF inst.deleting THEN Retries ELSE Goes("manageError")

\* A Job that may still report, and one that has a verdict.
Open(j) == Verdict(j) = "running"
Over(j) == Verdict(j) \in {"Completed", "Failed"}

Quiet == UNCHANGED <<mgCache, job, jobCache, lastUID>>

Begins == pc = "idle" /\ queued /\ pc' = "fetch" /\ inst' = inst /\ Quiet /\ mg' = mg

Fetches ==
    /\ pc = "fetch" /\ Quiet /\ mg' = mg
    /\ \/ Retries
       \/ Branch(mgCache) = "idle" /\ Returns
       \/ /\ Branch(mgCache) # "idle" /\ pc' = Branch(mgCache)
          /\ inst' = mgCache /\ instCur' = mgCacheCur /\ queued' = queued

Protects ==
    /\ pc = "addFinalizer" /\ Quiet
    /\ \/ Retries /\ (mg' = mg \/ (instCur /\ mg' = [mg EXCEPT !.fin = TRUE]))
       \/ Returns /\ instCur /\ mg' = [mg EXCEPT !.fin = TRUE]

Advances ==
    /\ Quiet /\ mg' = mg
    /\ \/ pc = "prerequisites" /\ (Goes("lookupJob") \/ Goes("manageError"))
       \/ /\ pc = "lookupJob"
          /\ \/ Goes("manageError")
             \/ jobCache.uid = 0 /\ Goes("preflight")
             \/ Open(jobCache) /\ Goes("updateStatus")
             \/ Over(jobCache) /\ Goes("complete")
       \/ pc = "preflight" /\ (Goes("createJob") \/ Goes("reject") \/ Goes("manageError") \/ Retries)
       \/ /\ pc = "cleanupGet"
          /\ \/ jobCache.uid # 0 /\ Goes("deletePods")
             \/ ~(jobCache.uid # 0 /\ jobCache.owner = inst.uid) /\ Finishes
             \/ Fails
       \/ pc = "deletePods" /\ (Goes("deleteJob") \/ Fails)
       \/ pc = "releaseCA" /\ (Finishes \/ Fails)

Starts ==
    /\ pc = "createJob" /\ UNCHANGED <<mg, mgCache, jobCache, lastUID>>
    /\ \/ /\ job.uid = 0 /\ job' = NewJob(lastJob + 1, inst.uid)
          /\ Goes("manageSuccess") \/ Goes("manageError")
       \/ job' = job /\ job.uid # 0 /\ Goes("manageSuccess")
       \/ job' = job /\ Goes("manageError")

Stops ==
    /\ pc = "deleteJob" /\ UNCHANGED <<mg, mgCache, jobCache, lastUID>>
    /\ \/ /\ job.uid # 0 /\ job' = [job EXCEPT !.terminating = TRUE]
          /\ Goes("releaseCA") \/ Fails
       \/ job' = job /\ Fails

Reports ==
    /\ Quiet /\ SameSelf(mg', mg)
    /\ \/ pc \in {"updateStatus", "manageSuccess"} /\ (Retries \/ Returns)
       \/ pc = "manageError" /\ Retries
       \/ pc \in {"complete", "reject"} /\ Goes("manageError")
       \/ /\ pc = "complete" /\ instCur /\ mg'.completed = "true"
          /\ IF inst.retain THEN Returns ELSE Goes("cleanupGet")
       \/ pc = "reject" /\ mg'.completed = "true" /\ Returns

Releases ==
    /\ pc = "removeFinalizer" /\ Quiet
    /\ \/ instCur /\ mg' = NoMG /\ (Returns \/ Goes("manageError"))
       \/ mg' = mg /\ Goes("manageError")

WorkerEffect ==
    \/ Begins \/ Fetches \/ Protects \/ Advances \/ Starts \/ Stops \/ Reports \/ Releases

\* Wherever Reconcile goes on with its copy, it returns or goes there.
LEMMA ProceedEffect ==
    ASSUME TypeInv, NEW label, NEW current, NEW theJob, Proceed(label, inst, current, theJob)
    PROVE  /\ label = "idle" => Returns
           /\ label = "retry" => Retries
           /\ label \notin {"idle", "retry"} => Goes(label)
<1>1. queued \in BOOLEAN /\ inst.opSA = inst.opSA
  BY DEF TypeInv, TypeOK
<1>2. CASE label = "idle"
  BY <1>1, <1>2 DEF Proceed, Returns
<1>3. CASE label = "retry"
  BY <1>3 DEF Proceed, Retries
<1>4. CASE label \notin {"idle", "retry"}
  <2>1. pc' = label /\ inst' = inst /\ queued' = queued
    BY <1>1, <1>4 DEF Proceed
  <2> QED BY <1>4, <2>1 DEF Goes, SameCopy
<1> QED BY <1>2, <1>3, <1>4

\* A status write is stored or not, and Reconcile knows it was or does not.
LEMMA StatusEffect ==
    ASSUME TypeInv, FinalizerInv, NEW st, NEW c, NEW onOk, NEW onError,
           PutStatus(st, c, onOk, onError)
    PROVE  /\ Quiet /\ SameSelf(mg', mg)
           /\ \/ /\ onError = "retry" => Retries
                 /\ onError = "manageError" => Goes("manageError")
              \/ /\ instCur /\ mg'.completed = c
                 /\ onOk = "retry" => Retries
                 /\ onOk = "idle" => Returns
                 /\ onOk = "cleanupGet" => Goes("cleanupGet")
<1> DEFINE local  == [inst EXCEPT !.status = st, !.completed = c]
           stored == [mg EXCEPT !.status = st, !.completed = c]
<1>1. /\ SameSelf(local, inst) /\ SameSelf(stored, mg) /\ stored.completed = c
      /\ SameSelf(mg, mg)
  BY DEF TypeInv, TypeOK, MustGathers, SameLife, SameSelf
<1>2. Put(instCur /\ c # "nil", local, stored, onOk, onError) /\ queued \in BOOLEAN
  BY DEF PutStatus, TypeInv, TypeOK
<1> HIDE DEF local, stored
<1>3. Quiet
  BY <1>2 DEF Put, Quiet, histVars
<1>4. SameSelf(mg', mg)
  BY <1>1, <1>2 DEF Put
<1>5. CASE instCur /\ mg' = stored /\ Proceed(onOk, stored, TRUE, seen)
  <2>1. inst.uid = mg.uid /\ inst.deleting = mg.deleting /\ inst.retain = mg.retain
    BY <1>5 DEF FinalizerInv, CurrentCopies
  <2>2. CASE onOk \in {"idle", "retry"}
    BY <1>1, <1>2, <1>3, <1>4, <1>5, <2>2 DEF Proceed, Returns, Retries
  <2>3. CASE onOk \notin {"idle", "retry"}
    <3>1. pc' = onOk /\ inst' = stored /\ queued' = queued
      BY <1>2, <1>5, <2>3 DEF Proceed
    <3>2. Goes(onOk)
      BY <1>1, <2>1, <3>1 DEF Goes, SameSelf, SameLife, SameCopy
    <3> QED BY <1>1, <1>3, <1>4, <1>5, <2>3, <3>2
  <2> QED BY <2>2, <2>3
<1>6. ASSUME NEW current, Proceed(onError, local, current, seen)
      PROVE  /\ onError = "retry" => Retries
             /\ onError = "manageError" => Goes("manageError")
  <2>1. CASE onError = "retry"
    BY <1>6, <2>1 DEF Proceed, Retries
  <2>2. CASE onError = "manageError"
    <3>1. pc' = "manageError" /\ inst' = local /\ queued' = queued
      BY <1>2, <1>6, <2>2 DEF Proceed
    <3> QED BY <1>1, <2>2, <3>1 DEF Goes, SameSelf, SameLife, SameCopy
  <2> QED BY <2>1, <2>2
<1>7. \/ instCur /\ mg' = stored /\ Proceed(onOk, stored, TRUE, seen)
      \/ Proceed(onError, local, instCur, seen)
      \/ Proceed(onError, local, FALSE, seen)
  BY <1>2 DEF Put
<1>8. CASE Proceed(onError, local, instCur, seen)
  BY <1>3, <1>4, <1>6, <1>8
<1>9. CASE Proceed(onError, local, FALSE, seen)
  BY <1>3, <1>4, <1>6, <1>9
<1> QED BY <1>5, <1>7, <1>8, <1>9

\* The verdicts Reconcile tells apart.
LEMMA Verdicts ==
    ASSUME NEW j
    PROVE  /\ Verdict(j) = "absent" => j.uid = 0
           /\ Verdict(j) \in {"absent", "running", "Completed", "Failed"}
BY DEF Verdict

\* A step that only moves the worker on does what its label says.
LEMMA MovesEffect ==
    ASSUME TypeInv, NEW label, NEW theJob, Moves(label, theJob)
    PROVE  /\ Quiet /\ mg' = mg
           /\ label = "idle" => Returns
           /\ label = "retry" => Retries
           /\ label \notin {"idle", "retry"} => Goes(label)
<1>1. Quiet /\ mg' = mg
  BY DEF Moves, Quiet, objVars, histVars
<1>2. Proceed(label, inst, instCur, theJob)
  BY DEF Moves
<1> QED BY <1>1, <1>2, ProceedEffect

\* How a cleanup ends and how it fails.
LEMMA CleanupLabels ==
    ASSUME TypeInv
    PROVE  /\ inst.deleting => AfterCleanup = "removeFinalizer" /\ CleanupError = "retry"
           /\ ~inst.deleting => AfterCleanup = "idle" /\ CleanupError = "manageError"
BY DEF AfterCleanup, CleanupError

\* Every step of the worker has one of these effects.
LEMMA WorkerEffects == ASSUME TypeInv, FinalizerInv, ReconcileStep PROVE WorkerEffect
<1>0. queued \in BOOLEAN
  BY DEF TypeInv, TypeOK
<1>1. CASE Dequeue
  BY <1>1 DEF Dequeue, objVars, histVars, WorkerEffect, Begins, Quiet
<1>2. CASE Fetch
  <2>1. pc = "fetch" /\ Quiet /\ mg' = mg
    BY <1>2 DEF Fetch, Quiet, objVars, histVars
  <2>2. CASE Proceed(Branch(mgCache), mgCache, mgCacheCur, seen)
    <3>1. Branch(mgCache) # "retry" /\ mgCacheCur \in BOOLEAN
      BY Booleans DEF Branch, TypeInv, TypeOK
    <3>2. CASE Branch(mgCache) = "idle"
      BY <1>0, <2>1, <2>2, <3>2 DEF Proceed, Returns, WorkerEffect, Fetches
    <3>3. CASE Branch(mgCache) # "idle"
      BY <1>0, <2>1, <2>2, <3>1, <3>3 DEF Proceed, WorkerEffect, Fetches
    <3> QED BY <3>2, <3>3
  <2>3. CASE Proceed("retry", inst, instCur, seen)
    BY <2>1, <2>3, ProceedEffect DEF WorkerEffect, Fetches
  <2> QED BY <1>2, <2>2, <2>3 DEF Fetch
<1>3. CASE AddFinalizer
  <2> DEFINE local == [inst EXCEPT !.fin = TRUE]
             stored == [mg EXCEPT !.fin = TRUE]
  <2>1. pc = "addFinalizer" /\ Put(instCur, local, stored, "idle", "retry")
    BY <1>3 DEF AddFinalizer
  <2> HIDE DEF local, stored
  <2>2. Quiet
    BY <2>1 DEF Put, Quiet, histVars
  <2>3. \/ Retries /\ (mg' = mg \/ (instCur /\ mg' = stored))
        \/ Returns /\ instCur /\ mg' = stored
    BY <1>0, <2>1 DEF Put, Proceed, Retries, Returns
  <2> QED BY <2>1, <2>2, <2>3 DEF WorkerEffect, Protects, stored
<1>4. CASE EnsurePrerequisites
  BY <1>4, MovesEffect DEF EnsurePrerequisites, WorkerEffect, Advances
<1>5. CASE LookupJob
  <2>1. pc = "lookupJob"
    BY <1>5 DEF LookupJob
  <2>2. CASE Moves("manageError", seen)
    BY <2>1, <2>2, MovesEffect DEF WorkerEffect, Advances
  <2>3. CASE ~Moves("manageError", seen)
    <3> DEFINE v == Verdict(jobCache)
    <3>1. /\ Proceed(CASE v = "absent"  -> "preflight"
                       [] v = "running" -> "updateStatus"
                       [] OTHER         -> "complete", inst, instCur, jobCache)
          /\ Quiet /\ mg' = mg
      BY <1>5, <2>3 DEF LookupJob, Quiet, objVars, histVars
    <3>2. /\ v = "absent" => jobCache.uid = 0
          /\ v \in {"absent", "running", "Completed", "Failed"}
      BY Verdicts
    <3>3. (v = "running") = Open(jobCache) /\ (v \in {"Completed", "Failed"}) = Over(jobCache)
      BY DEF Open, Over
    <3> HIDE DEF v
    <3>4. CASE v = "absent"
      <4>1. Goes("preflight")
        BY <3>1, <3>4, ProceedEffect
      <4> QED BY <2>1, <3>1, <3>2, <3>4, <4>1 DEF WorkerEffect, Advances
    <3>5. CASE v = "running"
      <4>1. Goes("updateStatus")
        BY <3>1, <3>5, ProceedEffect
      <4> QED BY <2>1, <3>1, <3>3, <3>5, <4>1 DEF WorkerEffect, Advances
    <3>6. CASE v \in {"Completed", "Failed"}
      <4>1. Goes("complete")
        BY <3>1, <3>6, ProceedEffect
      <4> QED BY <2>1, <3>1, <3>3, <3>6, <4>1 DEF WorkerEffect, Advances
    <3> QED BY <3>2, <3>4, <3>5, <3>6
  <2> QED BY <2>2, <2>3
<1>6. CASE Preflight
  <2>1. PICK outcome \in {"createJob", "reject", "manageError", "retry"} : Moves(outcome, seen)
    BY <1>6 DEF Preflight, GetJobFromInstance, CheckPrerequisites
  <2>2. pc = "preflight"
    BY <1>6 DEF Preflight
  <2> QED BY <2>1, <2>2, MovesEffect DEF WorkerEffect, Advances
<1>7. CASE CreateJob
  <2>1. pc = "createJob" /\ UNCHANGED <<mg, mgCache, jobCache, lastUID>>
    BY <1>7 DEF CreateJob
  <2>2. /\ Proceed("manageSuccess", inst, instCur, seen) => Goes("manageSuccess")
        /\ Proceed("manageError", inst, instCur, seen) => Goes("manageError")
    BY ProceedEffect
  <2>3. \/ /\ job.uid = 0 /\ job' = NewJob(lastJob + 1, inst.uid)
           /\ Goes("manageSuccess") \/ Goes("manageError")
        \/ job' = job /\ job.uid # 0 /\ Goes("manageSuccess")
        \/ job' = job /\ Goes("manageError")
    BY <1>7, <2>2 DEF CreateJob, StoreJob
  <2> QED BY <2>1, <2>3 DEF WorkerEffect, Starts
<1>8. CASE ManageSuccess
  BY <1>8, StatusEffect DEF ManageSuccess, WorkerEffect, Reports
<1>9. CASE ManageError
  BY <1>9, StatusEffect DEF ManageError, WorkerEffect, Reports
<1>10. CASE UpdateStatus
  BY <1>10, StatusEffect DEF UpdateStatus, WorkerEffect, Reports
<1>11. CASE HandleJobCompletion
  <2>1. CASE inst.retain
    BY <1>11, <2>1, StatusEffect DEF HandleJobCompletion, WorkerEffect, Reports
  <2>2. CASE ~inst.retain
    BY <1>11, <2>2, StatusEffect DEF HandleJobCompletion, WorkerEffect, Reports
  <2> QED BY <2>1, <2>2
<1>12. CASE SetValidationFailureStatus
  BY <1>12, StatusEffect DEF SetValidationFailureStatus, WorkerEffect, Reports
<1>13. CASE CleanupGet
  <2> DEFINE ours == jobCache.uid # 0 /\ jobCache.owner = inst.uid
  <2>1. /\ pc = "cleanupGet"
        /\ \/ Moves(IF ours THEN "deletePods" ELSE AfterCleanup, jobCache)
           \/ Moves(CleanupError, seen)
    BY <1>13 DEF CleanupGet
  <2>2. CASE Moves(CleanupError, seen)
    BY <2>1, <2>2, CleanupLabels, MovesEffect DEF WorkerEffect, Advances, Fails
  <2>3. CASE ours /\ Moves("deletePods", jobCache)
    BY <2>1, <2>3, MovesEffect DEF WorkerEffect, Advances
  <2>4. CASE ~ours /\ Moves(AfterCleanup, jobCache)
    BY <2>1, <2>4, CleanupLabels, MovesEffect DEF WorkerEffect, Advances, Finishes
  <2> QED BY <2>1, <2>2, <2>3, <2>4
<1>14. CASE DeletePods
  <2>1. pc = "deletePods" /\ Quiet /\ mg' = mg
    BY <1>14 DEF DeletePods, Quiet, histVars
  <2>2. CASE Proceed("deleteJob", inst, instCur, seen)
    BY <2>1, <2>2, ProceedEffect DEF WorkerEffect, Advances
  <2>3. CASE Proceed(CleanupError, inst, instCur, seen)
    BY <2>1, <2>3, CleanupLabels, ProceedEffect DEF WorkerEffect, Advances, Fails
  <2> QED BY <1>14, <2>2, <2>3 DEF DeletePods
<1>15. CASE DeleteJob
  <2>1. pc = "deleteJob" /\ UNCHANGED <<mg, mgCache, jobCache, lastUID>>
    BY <1>15 DEF DeleteJob, histVars
  <2>2. /\ Proceed("releaseCA", inst, instCur, seen) => Goes("releaseCA")
        /\ Proceed(CleanupError, inst, instCur, seen) => Fails
    BY CleanupLabels, ProceedEffect DEF Fails
  <2> DEFINE stopped == [job EXCEPT !.terminating = TRUE]
  <2>3. \/ /\ job.uid # 0 /\ job' = stopped
           /\ Goes("releaseCA") \/ Fails
        \/ job' = job /\ Fails
    <3> HIDE DEF stopped
    <3>1. \/ job.uid # 0 /\ job' = stopped /\ Proceed("releaseCA", inst, instCur, seen)
          \/ job' = job /\ Proceed(CleanupError, inst, instCur, seen)
          \/ job.uid # 0 /\ job' = stopped /\ Proceed(CleanupError, inst, instCur, seen)
      BY <1>15 DEF DeleteJob, stopped
    <3> QED BY <2>2, <3>1
  <2> QED BY <2>1, <2>3 DEF WorkerEffect, Stops
<1>16. CASE ReleaseCA
  <2>1. pc = "releaseCA" /\ (Moves(AfterCleanup, seen) \/ Moves(CleanupError, seen))
    BY <1>16 DEF ReleaseCA
  <2>2. CASE Moves(AfterCleanup, seen)
    BY <2>1, <2>2, CleanupLabels, MovesEffect DEF WorkerEffect, Advances, Finishes
  <2>3. CASE Moves(CleanupError, seen)
    BY <2>1, <2>3, CleanupLabels, MovesEffect DEF WorkerEffect, Advances, Fails
  <2> QED BY <2>1, <2>2, <2>3
<1>17. CASE RemoveFinalizer
  <2> DEFINE local == [inst EXCEPT !.fin = FALSE]
  <2>1. pc = "removeFinalizer" /\ Put(instCur, local, NoMG, "idle", "manageError")
    BY <1>17 DEF RemoveFinalizer
  <2>2. SameCopy(local, inst) /\ ~local.fin /\ local.opSA = inst.opSA
    BY DEF TypeInv, TypeOK, MustGathers, SameCopy
  <2> HIDE DEF local
  <2>3. Quiet
    BY <2>1 DEF Put, Quiet, histVars
  <2>4. \/ instCur /\ mg' = NoMG /\ Returns
        \/ /\ mg' = mg \/ (instCur /\ mg' = NoMG)
           /\ pc' = "manageError" /\ inst' = local /\ queued' = queued
    BY <1>0, <2>1 DEF Put, Proceed, Returns
  <2>5. pc' = "manageError" /\ inst' = local /\ queued' = queued => Goes("manageError")
    BY <2>2 DEF Goes
  <2> QED BY <2>1, <2>3, <2>4, <2>5 DEF WorkerEffect, Releases
<1> QED
  BY <1>1, <1>2, <1>3, <1>4, <1>5, <1>6, <1>7, <1>8, <1>9, <1>10, <1>11, <1>12, <1>13,
     <1>14, <1>15, <1>16, <1>17 DEF ReconcileStep

(***************************************************************************)
(* A deletion is remembered.                                               *)
(***************************************************************************)

\* Where a pass over a deleted MustGather may be.
DelLabels == {"cleanupGet", "deletePods", "deleteJob", "releaseCA", "removeFinalizer",
              "manageError"}

\* The cache shows that the object is being deleted.
Delivered == mgCache.deleting /\ mgCache.uid = mg.uid

\* What deletes waits for the finalizer, a pass over it is in its cleanup, and
\* a deletion that was delivered is queued or worked on, current or not.
DelInv ==
    /\ mg.deleting => mg.fin
    /\ mgCache.deleting => mgCache.fin
    /\ inst.deleting => pc \in DelLabels
    /\ Delivered => queued \/ pc = "fetch" \/ (inst.deleting /\ inst.uid = mg.uid)

\* A pass over a deleted MustGather stays with it until the object is gone or
\* the name is queued again; other passes do not turn into one.
LEMMA DeletionPass ==
    ASSUME TypeInv, FinalizerInv, DelInv, WorkerEffect
    PROVE  /\ mgCache' = mgCache
           /\ queued => queued' \/ pc' = "fetch"
           /\ inst'.deleting => inst' = mgCache \/ inst.deleting
           /\ inst'.deleting => pc' \in DelLabels
           /\ inst.deleting =>
                 \/ mg'.uid = 0
                 \/ pc' = "idle" /\ queued'
                 \/ inst'.deleting /\ inst'.uid = inst.uid
<1>0. NoMG.deleting = FALSE /\ NoMG.uid = 0 /\ inst.deleting \in BOOLEAN
  BY Booleans DEF NoMG, NewMG
<1>1. pc \in {"idle", "fetch"} => ~inst.deleting
  BY <1>0 DEF FinalizerInv, LabelInv
<1>2. CASE Begins
  BY <1>1, <1>2 DEF Begins, Quiet
<1>3. CASE Fetches
  <2>1. mgCache' = mgCache /\ ~inst.deleting
    BY <1>1, <1>3 DEF Fetches, Quiet
  <2>2. CASE Retries \/ Returns
    BY <1>0, <2>1, <2>2 DEF Retries, Returns
  <2>3. CASE Branch(mgCache) # "idle" /\ pc' = Branch(mgCache) /\ inst' = mgCache /\ queued' = queued
    <3>1. mgCache.deleting => Branch(mgCache) \in DelLabels \cup {"idle"}
      BY Booleans DEF Branch, DelLabels
    <3> QED BY <2>1, <2>3, <3>1
  <2> QED BY <1>3, <2>2, <2>3 DEF Fetches
<1>4. CASE Protects
  BY <1>0, <1>4 DEF Protects, Quiet, Retries, Returns, DelInv, DelLabels
<1>5. CASE Advances
  BY <1>0, <1>5 DEF Advances, Quiet, Retries, Returns, Goes, Finishes, Fails, SameCopy,
                    DelInv, DelLabels
<1>6. CASE Starts
  BY <1>6 DEF Starts, Goes, SameCopy, DelInv, DelLabels
<1>7. CASE Stops
  BY <1>0, <1>7 DEF Stops, Retries, Goes, Fails, SameCopy, DelInv, DelLabels
<1>8. CASE Reports
  BY <1>0, <1>8 DEF Reports, Quiet, Retries, Returns, Goes, SameCopy, DelInv, DelLabels
<1>9. CASE Releases
  BY <1>0, <1>9 DEF Releases, Quiet, Returns, Goes, SameCopy, DelInv, DelLabels
<1> QED BY <1>2, <1>3, <1>4, <1>5, <1>6, <1>7, <1>8, <1>9 DEF WorkerEffect

\* What a step of the worker does to the object.
LEMMA WorkerOwn ==
    ASSUME TypeInv, FinalizerInv, WorkerEffect
    PROVE  \/ mg'.uid = mg.uid /\ mg'.deleting = mg.deleting /\ (mg.fin => mg'.fin)
           \/ mg'.uid = 0 /\ mg'.deleting = FALSE
<1>0. NoMG.deleting = FALSE /\ NoMG.uid = 0 /\ mg \in MustGathers
  BY DEF NoMG, NewMG, TypeInv, TypeOK
<1>1. CASE Protects
  <2>1. CASE mg' = mg
    BY <2>1
  <2>2. CASE mg' = [mg EXCEPT !.fin = TRUE]
    BY <1>0, <2>2 DEF MustGathers
  <2> QED BY <1>1, <2>1, <2>2 DEF Protects
<1>2. CASE Reports
  BY <1>2 DEF Reports, SameSelf, SameLife
<1>3. CASE ~Protects /\ ~Reports
  BY <1>0, <1>3 DEF WorkerEffect, Begins, Fetches, Advances, Starts, Stops, Releases
<1> QED BY <1>1, <1>2, <1>3

\* The worker keeps DelInv.
LEMMA WorkerDel == ASSUME TypeInv, FinalizerInv, DelInv, WorkerEffect PROVE DelInv'
<1>1. mgCache' = mgCache /\ mgCache.uid \in Nat
  BY DeletionPass, Numbers
<1>2. (mg.deleting => mg.fin)' /\ (mgCache.deleting => mgCache.fin)'
  BY <1>1, WorkerOwn DEF DelInv
<1>3. (inst.deleting => pc \in DelLabels)'
  BY DeletionPass
<1>4. Delivered' => (queued \/ pc = "fetch" \/ (inst.deleting /\ inst.uid = mg.uid))'
  <2> SUFFICES ASSUME Delivered'
               PROVE  queued' \/ pc' = "fetch" \/ (inst'.deleting /\ inst'.uid = mg'.uid)
    OBVIOUS
  <2>1. mgCache.uid # 0
    BY <1>1 DEF Delivered, FinalizerInv, DeletionSeen
  <2>2. mg'.uid = mg.uid /\ mg.uid # 0 /\ Delivered
    BY <1>1, <2>1, WorkerOwn DEF Delivered
  <2>3. CASE queued
    BY <2>3, DeletionPass
  <2>4. CASE pc = "fetch"
    <3>1. Fetches
      BY <2>4 DEF WorkerEffect, Begins, Fetches, Protects, Advances, Starts, Stops, Reports, Releases
    <3>2. Branch(mgCache) # "idle"
      BY <2>2, <2>1, Booleans DEF Delivered, DelInv, Branch
    <3> QED BY <2>2, <3>1, <3>2 DEF Fetches, Retries, Delivered
  <2>5. CASE inst.deleting /\ inst.uid = mg.uid
    BY <2>2, <2>5, DeletionPass
  <2> QED BY <2>2, <2>3, <2>4, <2>5 DEF DelInv
<1> QED BY <1>2, <1>3, <1>4 DEF DelInv

\* An event of the Job takes no name off the queue.
LEMMA SyncJobQueue == ASSUME SyncJob, queued PROVE queued'
<1>1. CASE UpdateJobCache(job)
  BY <1>1 DEF UpdateJobCache
<1>2. CASE queued' = queued
  BY <1>2
<1> QED BY <1>1, <1>2 DEF SyncJob

\* The cluster and a restart keep DelInv: the deletion is an event that passes
\* the predicate, and a new process lists what is there.
LEMMA OthersDel == ASSUME TypeInv, FinalizerInv, DelInv, ClusterNext \/ Restart PROVE DelInv'
<1>0. /\ NoMG.deleting = FALSE /\ NoMG.uid = 0 /\ mg \in MustGathers
      /\ mgCache.uid \in Nat /\ lastUID \in Nat
  BY Numbers DEF NoMG, NewMG, TypeInv, TypeOK
<1>1. CASE Restart
  BY <1>0, <1>1 DEF Restart, DelInv, Delivered, FinalizerInv, DeletionSeen
<1>2. CASE SyncMG
  <2>1. UNCHANGED <<mg, pc, inst>> /\ mgCache' = mg
    BY <1>2 DEF SyncMG
  <2>2. queued => queued'
    BY <1>2 DEF SyncMG
  <2>3. mg.deleting /\ ~Delivered => queued'
    BY <1>2, Booleans DEF SyncMG, MGEventPasses, Delivered
  <2> QED BY <2>1, <2>2, <2>3 DEF DelInv, Delivered
<1>3. CASE SyncJob
  <2>1. UNCHANGED <<mg, mgCache, pc, inst>>
    BY <1>3 DEF SyncJob
  <2>2. queued => queued'
    BY <1>3, SyncJobQueue
  <2> QED BY <2>1, <2>2 DEF DelInv, Delivered
<1>4. CASE UserCreate
  <2>1. UNCHANGED <<mgCache, pc, inst, queued>> /\ mg'.uid = lastUID + 1 /\ mg'.deleting = FALSE
    BY <1>4 DEF UserCreate, NewMG
  <2>2. mgCache.uid # mg'.uid
    BY <1>0, <2>1 DEF FinalizerInv, CurrentCopies
  <2> QED BY <2>1, <2>2 DEF DelInv, Delivered
<1>5. CASE UserDelete
  <2>1. UNCHANGED <<mgCache, pc, inst, queued>> /\ ~mg.deleting /\ mg.uid # 0
    BY <1>5 DEF UserDelete
  <2>2. \/ mg'.uid = mg.uid /\ mg'.fin = mg.fin /\ mg.fin
        \/ mg'.uid = 0 /\ mg'.deleting = FALSE
    BY <1>0, <1>5 DEF UserDelete, MustGathers
  <2>3. ~Delivered'
    BY <2>1, <2>2 DEF Delivered, FinalizerInv, DeletionSeen
  <2> QED BY <2>1, <2>2, <2>3 DEF DelInv
<1>6. CASE UserTouch \/ UserDeleteJob \/ UserCreateJob \/ JobController \/ Collector
  <2>1. UNCHANGED <<mg, mgCache, pc, inst, queued>>
    BY <1>6 DEF UserTouch, UserDeleteJob, UserCreateJob, JobController, Collector, StartPod,
                PodFails, PodSucceeds, JobCompletes, FinishJobDelete, CollectJob, JobStep, workerVars
  <2> QED BY <2>1 DEF DelInv, Delivered
<1> QED BY <1>1, <1>2, <1>3, <1>4, <1>5, <1>6 DEF ClusterNext, User

\* DelInv is an invariant, with foreign Jobs, relists and stale caches.
LEMMA DelInvariant == Spec => []DelInv
<1>1. Init => DelInv
  BY NoMGFacts DEF Init, DelInv, Delivered
<1>2. TypeInv /\ FinalizerInv /\ DelInv /\ [Next]_vars => DelInv'
  <2> SUFFICES ASSUME TypeInv, FinalizerInv, DelInv, [Next]_vars PROVE DelInv'
    OBVIOUS
  <2>1. CASE UNCHANGED vars
    BY <2>1 DEF vars, objVars, workerVars, DelInv, Delivered
  <2> QED BY <2>1, WorkerEffects, WorkerDel, OthersDel DEF Next
<1> QED BY <1>1, <1>2, TypeInvariant, FinalizerInvariant, PTL DEF Spec

\* A deletion the informer has delivered is never dropped: until the object is
\* gone the name is queued or a pass that has read the deletion is under way,
\* whatever fails, crashes, lags or is created under the name again.
THEOREM DeletionKept == Spec => []DeletionRemembered
<1>1. FinalizerInv /\ DelInv => DeletionRemembered
  BY DEF FinalizerInv, CurrentCopies, DelInv, Delivered, DeletionRemembered
<1> QED BY <1>1, FinalizerInvariant, DelInvariant, PTL

(***************************************************************************)
(* What the steps of the others do.  From here on one MustGather is        *)
(* created, and only the operator creates and deletes Jobs of the name.    *)
(***************************************************************************)

\* The Job controller never takes a verdict back.
JobRuns == JobKept /\ (Over(job) => Over(job'))

\* The Job that goes was being deleted or lost its owner.
JobGoes == job.uid # 0 /\ job' = NoJob /\ (job.terminating \/ job.owner # mg.uid)

\* A Job without a UID, and one just made.
LEMMA NewVerdicts ==
    /\ NoJob.uid = 0 /\ NoJob.owner = 0 /\ NoJob.terminating = FALSE
    /\ \A u, o : /\ NewJob(u, o).uid = u /\ NewJob(u, o).owner = o
                 /\ NewJob(u, o).terminating = FALSE
    /\ \A j \in Jobs : /\ j.uid = 0 => ~Open(j) /\ ~Over(j)
                       /\ j.uid # 0 => Open(j) \/ Over(j)
                       /\ ~(Open(j) /\ Over(j))
    /\ \A u, o : u # 0 => Open(NewJob(u, o))
<1>1. /\ NoJob.uid = 0 /\ NoJob.owner = 0 /\ NoJob.terminating = FALSE
      /\ \A u, o : /\ NewJob(u, o).uid = u /\ NewJob(u, o).owner = o
                   /\ NewJob(u, o).terminating = FALSE
  BY DEF NoJob, NewJob
<1>2. \A j \in Jobs : /\ j.uid = 0 => ~Open(j) /\ ~Over(j)
                      /\ j.uid # 0 => Open(j) \/ Over(j)
                      /\ ~(Open(j) /\ Over(j))
  <2> SUFFICES ASSUME NEW j \in Jobs
               PROVE  /\ j.uid = 0 => ~Open(j) /\ ~Over(j)
                      /\ j.uid # 0 => Open(j) \/ Over(j)
                      /\ ~(Open(j) /\ Over(j))
    OBVIOUS
  <2>1. CASE j.uid = 0
    BY <2>1 DEF Open, Over, Verdict
  <2>2. CASE j.uid # 0
    BY <2>2 DEF Open, Over, Verdict
  <2> QED BY <2>1, <2>2
<1>3. \A u, o : u # 0 => Open(NewJob(u, o))
  <2> SUFFICES ASSUME NEW u, NEW o, u # 0 PROVE Open(NewJob(u, o))
    OBVIOUS
  <2>1. /\ NewJob(u, o).uid # 0 /\ ~NewJob(u, o).active /\ ~NewJob(u, o).succeeded
        /\ ~(NewJob(u, o).failed > BackoffLimit)
    BY BoundsAssumption DEF NewJob
  <2> QED BY <2>1 DEF Open, Verdict
<1> QED BY <1>1, <1>2, <1>3

\* The Job controller and the collector touch the Job alone.
LEMMA JobEffect ==
    ASSUME TypeInv, job.terminating => job.uid # 0, JobController \/ Collector
    PROVE  /\ UNCHANGED <<mg, mgCache, jobCache, pc, inst, instCur, queued, lastUID>>
           /\ JobRuns \/ JobGoes
<1>0. job \in Jobs
  BY DEF TypeInv, TypeOK
<1>1. UNCHANGED <<mg, mgCache, jobCache, pc, inst, instCur, queued, lastUID>>
  BY DEF JobController, Collector, StartPod, PodFails, PodSucceeds, JobCompletes,
         FinishJobDelete, CollectJob, JobStep, workerVars
<1>2. CASE StartPod
  <2>1. JobKept /\ ~Over(job)
    BY <1>0, <1>2, BoundsAssumption DEF StartPod, JobKept, Over, Verdict, Jobs
  <2> QED BY <1>1, <2>1 DEF JobRuns
<1>3. CASE PodFails \/ PodSucceeds
  <2>1. JobKept /\ ~Over(job)
    BY <1>0, <1>3 DEF PodFails, PodSucceeds, JobKept, Over, Verdict, Jobs
  <2> QED BY <1>1, <2>1 DEF JobRuns
<1>4. CASE JobCompletes
  <2>1. JobKept /\ job'.active = job.active /\ job'.succeeded = job.succeeded /\ job'.failed = job.failed
    BY <1>0, <1>4 DEF JobCompletes, JobKept, Jobs
  <2> QED BY <1>1, <2>1 DEF JobRuns, JobKept, Over, Verdict
<1>5. CASE FinishJobDelete \/ CollectJob
  BY <1>1, <1>5 DEF FinishJobDelete, CollectJob, JobGoes
<1> QED BY <1>2, <1>3, <1>4, <1>5 DEF JobController, Collector

(***************************************************************************)
(* The Job and its cached copy.                                            *)
(***************************************************************************)

\* The cache holds a version of the Job that exists, of the one that has just
\* gone, or none.  A Job is deleted only once the cache has it, a verdict in
\* the cache is the Job's, and Reconcile creates a Job only where there is none
\* that is on its way out.
JobsInv ==
    /\ job.uid # 0 => job.owner # 0
    /\ jobCache.uid # 0 => jobCache.owner # 0
    /\ jobCache.uid = 0 \/ job.uid \in {0, jobCache.uid}
    /\ job.terminating => job.uid # 0 /\ jobCache.uid = job.uid
    /\ jobCache.uid = job.uid /\ Over(jobCache) => Over(job)
    /\ pc \in {"preflight", "createJob"} => ~job.terminating /\ jobCache.uid \in {0, job.uid}
    /\ pc \in {"deletePods", "deleteJob"} => job.uid \in {0, jobCache.uid}
    /\ pc \in {"complete", "cleanupGet", "deletePods", "deleteJob"} /\ ~inst.deleting
          => Over(jobCache) \/ (jobCache.uid = 0 /\ job.uid = 0)

\* The Jobs are Jobs.
LEMMA JobTypes ==
    ASSUME TypeInv
    PROVE  /\ job \in Jobs /\ jobCache \in Jobs
           /\ job.terminating \in BOOLEAN /\ jobCache.terminating \in BOOLEAN
BY DEF TypeInv, TypeOK, Jobs

\* Where a step of the worker that leaves the Job alone may lead.
LEMMA LeavesJob ==
    ASSUME TypeInv, FinalizerInv, WorkerEffect, ~Starts, ~Stops
    PROVE  /\ job' = job /\ jobCache' = jobCache
           /\ pc' = "preflight" => pc = "lookupJob" /\ jobCache.uid = 0
           /\ pc' = "createJob" => pc = "preflight"
           /\ pc' = "deletePods" => jobCache.uid # 0
           /\ pc' = "deleteJob" => pc = "deletePods"
           /\ pc' = "complete" => Over(jobCache)
           /\ pc' \in {"cleanupGet", "deletePods", "deleteJob"} /\ ~inst'.deleting
                 => pc \in {"complete", "cleanupGet", "deletePods"} /\ ~inst.deleting
<1>1. CASE Begins
  BY <1>1 DEF Begins, Quiet
<1>2. CASE Fetches
  <2>1. /\ Branch(mgCache) \in {"idle", "cleanupGet", "removeFinalizer", "addFinalizer",
                                "reject", "prerequisites"}
        /\ Branch(mgCache) = "cleanupGet" => mgCache.deleting
    BY Booleans DEF Branch
  <2> QED BY <1>2, <2>1 DEF Fetches, Quiet, Returns, Retries
<1>3. CASE Protects
  BY <1>3 DEF Protects, Quiet, Returns, Retries
<1>4. CASE Advances
  BY <1>4 DEF Advances, Quiet, Returns, Retries, Goes, Finishes, Fails, SameCopy
<1>5. CASE Reports \/ Releases
  BY <1>5 DEF Reports, Releases, Quiet, Returns, Retries, Goes, SameCopy
<1> QED BY <1>1, <1>2, <1>3, <1>4, <1>5 DEF WorkerEffect

\* The worker keeps JobsInv.
LEMMA WorkerJobs ==
    ASSUME TypeInv, FinalizerInv, HasInst, JobsInv, WorkerEffect
    PROVE  JobsInv'
<1>0. lastJob \in Nat /\ inst.uid \in Nat
  BY Numbers
<1>1. CASE Starts
  <2>1. pc = "createJob" /\ jobCache' = jobCache /\ pc' \in {"manageSuccess", "manageError"}
    BY <1>1 DEF Starts, Goes
  <2>2. CASE job' = job
    BY <2>1, <2>2 DEF JobsInv
  <2>3. CASE job.uid = 0 /\ job' = NewJob(lastJob + 1, inst.uid)
    <3>1. job'.uid = lastJob + 1 /\ job'.owner = inst.uid /\ job'.terminating = FALSE
      BY <2>3, NewVerdicts
    <3>2. job'.uid # 0 /\ job'.owner # 0 /\ jobCache.uid = 0
      BY <1>0, <2>1, <2>3, <3>1 DEF HasInst, JobsInv
    <3> QED BY <2>1, <3>1, <3>2 DEF JobsInv
  <2> QED BY <1>1, <2>2, <2>3 DEF Starts
<1>2. CASE Stops
  <2>1. pc = "deleteJob" /\ jobCache' = jobCache /\ pc' \in {"releaseCA", "idle", "manageError"}
    BY <1>2 DEF Stops, Goes, Fails, Retries
  <2>2. CASE job' = job
    BY <2>1, <2>2 DEF JobsInv
  <2>3. CASE job.uid # 0 /\ job' = [job EXCEPT !.terminating = TRUE]
    <3>1. /\ job'.uid = job.uid /\ job'.owner = job.owner
          /\ job'.active = job.active /\ job'.succeeded = job.succeeded /\ job'.failed = job.failed
      BY <2>3, JobTypes DEF Jobs
    <3>2. Over(job) => Over(job')
      BY <3>1 DEF Over, Verdict
    <3> QED BY <2>1, <2>3, <3>1, <3>2 DEF JobsInv
  <2> QED BY <1>2, <2>2, <2>3 DEF Stops
<1>3. CASE ~Starts /\ ~Stops
  BY <1>3, LeavesJob DEF JobsInv
<1> QED BY <1>1, <1>2, <1>3

\* The Job cache catches up with the Job there is.
LEMMA SyncJobCache ==
    ASSUME TypeInv, JobsInv, SyncJob
    PROVE  /\ UNCHANGED <<mg, mgCache, job, pc, inst, instCur, lastUID>> /\ (queued => queued')
           /\ jobCache'.uid = job.uid
           /\ jobCache'.uid # 0 => jobCache'.owner = job.owner
           /\ \/ jobCache' = job
              \/ jobCache.uid # job.uid /\ job.uid # 0 /\ Open(jobCache')
              \/ jobCache.uid # job.uid /\ job.uid = 0
<1>1. UNCHANGED <<mg, mgCache, job, pc, inst, instCur, lastUID>> /\ (queued => queued')
  BY SyncJobQueue DEF SyncJob, histVars
<1>2. CASE jobCache' = job
  BY <1>1, <1>2
<1>3. CASE /\ jobCache.uid # job.uid
           /\ jobCache' = IF jobCache.uid = 0 THEN NewJob(job.uid, job.owner) ELSE NoJob
  <2>1. CASE jobCache.uid = 0
    <3>1. jobCache' = NewJob(job.uid, job.owner) /\ job.uid # 0
      BY <1>3, <2>1
    <3> QED BY <1>1, <1>3, <3>1, NewVerdicts
  <2>2. CASE jobCache.uid # 0
    <3>1. jobCache' = NoJob /\ job.uid = 0
      BY <1>3, <2>2 DEF JobsInv
    <3> QED BY <1>1, <1>3, <3>1, NewVerdicts
  <2> QED BY <2>1, <2>2
<1> QED BY <1>2, <1>3 DEF SyncJob, UpdateJobCache

\* Through the watch the owner is woken if the verdict has changed, and a new
\* Job is first seen without one.
LEMMA SyncJobEffect ==
    ASSUME ~Relists, TypeInv, JobsInv, SyncJob
    PROVE  /\ UNCHANGED <<mg, mgCache, job, pc, inst, instCur, lastUID>> /\ (queued => queued')
           /\ jobCache'.uid = job.uid
           /\ \/ /\ jobCache.uid = job.uid /\ jobCache' = job
                 /\ queued' \/ Verdict(jobCache') = Verdict(jobCache)
              \/ jobCache.uid # job.uid /\ job.uid # 0 /\ Open(jobCache')
              \/ jobCache.uid # job.uid /\ job.uid = 0
<1>1. /\ UNCHANGED <<mg, mgCache, job, pc, inst, instCur, lastUID>> /\ (queued => queued')
      /\ jobCache'.uid = job.uid
  BY SyncJobCache
<1>2. CASE jobCache.uid = job.uid
  <2>1. jobCache' = job /\ queued' = (queued \/ JobEventPasses(jobCache, job))
    BY <1>2 DEF SyncJob, UpdateJobCache
  <2>2. CASE job.uid = 0
    BY <1>1, <1>2, <2>1, <2>2 DEF Verdict
  <2>3. CASE job.uid # 0 /\ ~queued'
    <3>1. JobStatus(jobCache) = JobStatus(job)
      BY <1>2, <2>1, <2>3 DEF JobEventPasses, JobsInv
    <3>2. /\ jobCache.active = job.active /\ jobCache.succeeded = job.succeeded
          /\ jobCache.failed = job.failed
      BY <3>1 DEF JobStatus
    <3> QED BY <1>1, <1>2, <2>1, <3>2 DEF Verdict
  <2> QED BY <1>1, <1>2, <2>1, <2>2, <2>3
<1>3. CASE jobCache.uid # job.uid
  <2>1. CASE job.uid # 0
    <3>1. jobCache.uid = 0
      BY <1>3, <2>1 DEF JobsInv
    <3>2. jobCache' = NewJob(job.uid, job.owner)
      BY <1>3, <3>1 DEF SyncJob
    <3> QED BY <1>1, <1>3, <2>1, <3>2, NewVerdicts
  <2> QED BY <1>1, <1>3, <2>1
<1> QED BY <1>2, <1>3

\* With one MustGather every UID is 0 or 1.
LEMMA OneLife ==
    ASSUME MaxUID = 1, TypeInv
    PROVE  /\ mg.uid \in {0, 1} /\ mgCache.uid \in {0, 1} /\ inst.uid \in {0, 1}
           /\ job.owner \in {0, 1} /\ jobCache.owner \in {0, 1} /\ lastUID \in {0, 1}
BY DEF TypeInv, TypeOK, MustGathers, Jobs

\* The one creation of a MustGather finds nothing of the name anywhere.
LEMMA FirstCreation ==
    ASSUME MaxUID = 1, TypeInv, FinalizerInv, JobsInv, UserCreate
    PROVE  /\ mgCache.uid = 0 /\ inst.uid = 0 /\ job.uid = 0 /\ jobCache.uid = 0
           /\ UNCHANGED <<mgCache, job, jobCache, queued, pc, inst>>
           /\ mg'.uid = 1 /\ mg'.deleting = FALSE /\ mg'.fin = FALSE
           /\ instCur' = FALSE
<1>1. lastUID = 0
  BY OneLife DEF UserCreate
<1>2. mgCache.uid = 0 /\ inst.uid = 0 /\ job.owner = 0 /\ jobCache.owner = 0
  BY <1>1, OneLife DEF FinalizerInv, CurrentCopies
<1>3. mg'.uid = 1 /\ mg'.deleting = FALSE /\ mg'.fin = FALSE
  BY <1>1 DEF UserCreate, NewMG
<1> QED BY <1>2, <1>3 DEF JobsInv, UserCreate

\* The others keep JobsInv.
LEMMA OthersJobs ==
    ASSUME MaxUID = 1, ~ForeignJobs, TypeInv, FinalizerInv, JobsInv, ClusterNext \/ Restart
    PROVE  JobsInv'
<1>1. CASE Restart
  BY <1>1 DEF Restart, JobsInv
<1>2. CASE SyncMG \/ UserDelete \/ UserTouch \/ UserCreate
  <2>1. UNCHANGED <<job, jobCache, pc, inst>>
    BY <1>2 DEF SyncMG, UserDelete, UserTouch, UserCreate
  <2> QED BY <2>1 DEF JobsInv
<1>3. CASE SyncJob
  <2>1. /\ UNCHANGED <<job, pc, inst>> /\ jobCache'.uid = job.uid
        /\ jobCache'.uid # 0 => jobCache'.owner = job.owner
    BY <1>3, SyncJobCache
  <2>2. CASE jobCache' = job
    <3>1. Over(jobCache) /\ job.uid = jobCache.uid => Over(jobCache')
      BY <2>2 DEF JobsInv
    <3>2. jobCache.uid = 0 \/ job.uid \in {0, jobCache.uid}
      BY DEF JobsInv
    <3>3. jobCache.uid = 0 => ~Over(jobCache)
      BY JobTypes, NewVerdicts
    <3> QED BY <2>1, <2>2, <3>1, <3>2, <3>3 DEF JobsInv
  <2>3. CASE jobCache.uid # job.uid /\ job.uid # 0 /\ Open(jobCache')
    <3>1. jobCache.uid = 0 /\ ~Over(jobCache)
      BY <2>3, JobTypes, NewVerdicts DEF JobsInv
    <3>2. ~Over(jobCache')
      BY <2>3 DEF Open, Over
    <3> QED BY <2>1, <2>3, <3>1, <3>2 DEF JobsInv
  <2>4. CASE jobCache.uid # job.uid /\ job.uid = 0
    <3>1. jobCache' \in Jobs
      BY <1>3, ClusterType DEF ClusterNext, TypeInv, TypeOK
    <3>2. ~Over(jobCache')
      BY <2>1, <2>4, <3>1, NewVerdicts
    <3> QED BY <2>1, <2>4, <3>2 DEF JobsInv
  <2> QED BY <1>3, <2>2, <2>3, <2>4, SyncJobCache
<1>4. CASE UserDeleteJob \/ UserCreateJob
  BY <1>4 DEF UserDeleteJob, UserCreateJob
<1>5. CASE JobController \/ Collector
  <2>1. /\ UNCHANGED <<mg, jobCache, pc, inst>>
        /\ JobRuns \/ JobGoes
    BY <1>5, JobEffect DEF JobsInv
  <2>2. CASE JobRuns
    BY <2>1, <2>2 DEF JobRuns, JobKept, JobsInv
  <2>3. CASE JobGoes
    <3>1. job'.uid = 0 /\ job'.owner = 0 /\ job'.terminating = FALSE /\ job.uid # 0
      BY <2>3, NewVerdicts DEF JobGoes
    <3>2. pc \notin {"preflight", "createJob"}
      <4> SUFFICES ASSUME pc \in {"preflight", "createJob"} PROVE FALSE
        OBVIOUS
      <4>1. mg.uid = 1 /\ job.owner = 1
        BY <3>1, OneLife DEF FinalizerInv, LabelInv, GuardedCopies, Guarded, JobsInv
      <4> QED BY <2>3, <4>1 DEF JobGoes, JobsInv
    <3>3. jobCache.uid = 0 => ~Over(jobCache)
      BY JobTypes, NewVerdicts
    <3> QED BY <2>1, <3>1, <3>2, <3>3 DEF JobsInv
  <2> QED BY <2>1, <2>2, <2>3
<1> QED BY <1>1, <1>2, <1>3, <1>4, <1>5 DEF ClusterNext, User

\* JobsInv holds in every state.
LEMMA JobsInvariant == ASSUME MaxUID = 1, ~ForeignJobs PROVE Spec => []JobsInv
<1>1. Init => JobsInv
  <2> SUFFICES ASSUME Init PROVE JobsInv
    OBVIOUS
  <2>1. job.uid = 0 /\ jobCache.uid = 0 /\ job.terminating = FALSE /\ pc = "idle"
    BY NewVerdicts DEF Init
  <2>2. ~Over(jobCache)
    BY NewObjects, NewVerdicts DEF Init
  <2> QED BY <2>1, <2>2 DEF JobsInv
<1>2. TypeInv /\ FinalizerInv /\ HasInst /\ JobsInv /\ [Next]_vars => JobsInv'
  <2> SUFFICES ASSUME TypeInv, FinalizerInv, HasInst, JobsInv, [Next]_vars PROVE JobsInv'
    OBVIOUS
  <2>1. CASE UNCHANGED vars
    BY <2>1 DEF vars, objVars, workerVars, JobsInv, Over
  <2> QED BY <2>1, WorkerEffects, WorkerJobs, OthersJobs DEF Next
<1> QED BY <1>1, <1>2, TypeInvariant, FinalizerInvariant, OwnerInvariant, PTL DEF Spec

(***************************************************************************)
(* What the counter and the cleanup after completion rest on.              *)
(***************************************************************************)

\* A gather that is counted exists: for a name used once, whatever fails, lags,
\* relists or crashes, the Job that a create made or met belongs to this
\* MustGather and is not on its way out.
THEOREM GatherCounted ==
    ASSUME MaxUID = 1, ~ForeignJobs
    PROVE  Spec => CountedGatherExists
<1>1. TypeInv /\ FinalizerInv /\ HasInst /\ JobsInv /\ [Next]_vars
        => [total' # total => job'.owner = inst.uid /\ ~job'.terminating]_vars
  <2> SUFFICES ASSUME TypeInv, FinalizerInv, HasInst, JobsInv, [Next]_vars, total' # total
               PROVE  job'.owner = inst.uid /\ ~job'.terminating
    OBVIOUS
  <2>1. CreateJob
    <3>1. CASE ClusterNext \/ Restart
      BY <3>1 DEF ClusterNext, Restart, SyncMG, SyncJob, User, UserCreate, UserDelete, UserTouch,
           UserDeleteJob, UserCreateJob, JobController, Collector, StartPod, PodFails,
           PodSucceeds, JobCompletes, FinishJobDelete, CollectJob, JobStep, metricVars
    <3>2. CASE ReconcileStep
      BY <3>2 DEF ReconcileStep, Dequeue, Fetch, AddFinalizer, EnsurePrerequisites, LookupJob,
           Preflight, ManageSuccess, ManageError, UpdateStatus, HandleJobCompletion,
           SetValidationFailureStatus, CleanupGet, DeletePods, DeleteJob, ReleaseCA,
           RemoveFinalizer, PutStatus, Put, Moves, metricVars
    <3>3. CASE UNCHANGED vars
      BY <3>3 DEF vars, metricVars
    <3> QED BY <3>1, <3>2, <3>3 DEF Next
  <2>2. pc = "createJob" /\ inst.uid = 1
    BY <2>1, OneLife DEF CreateJob, HasInst
  <2>3. CASE job' = NewJob(lastJob + 1, inst.uid)
    BY <2>3, NewVerdicts
  <2>4. CASE job.uid # 0 /\ job' = job
    BY <2>2, <2>4, OneLife DEF JobsInv
  <2> QED BY <2>1, <2>3, <2>4 DEF CreateJob, StoreJob
<1> QED
  BY <1>1, TypeInvariant, FinalizerInvariant, OwnerInvariant, JobsInvariant, PTL
     DEF Spec, CountedGatherExists

\* A Job that Reconcile has taken for finished starts no pod any more, however
\* old the copy that was read: none appears between the deletion of its pods and
\* its own.
THEOREM FinishedJobLeavesNoPod ==
    ASSUME MaxUID = 1, ~ForeignJobs
    PROVE  Spec => NoPodOutlivesFinishedJob
<1> DEFINE Stage == {"complete", "cleanupGet", "deletePods", "deleteJob"}
<1>1. TypeInv /\ FinalizerInv /\ JobsInv /\ [Next]_vars
        => [~inst.deleting /\ pc \in Stage => pods' \subseteq pods]_vars
  <2> SUFFICES ASSUME TypeInv, FinalizerInv, JobsInv, [Next]_vars, ~inst.deleting, pc \in Stage
               PROVE  pods' \subseteq pods
    OBVIOUS
  <2>1. job.uid = 0 \/ Over(job)
    BY JobTypes, NewVerdicts DEF JobsInv
  <2>2. ~StartPod
    BY <2>1, JobTypes, BoundsAssumption DEF StartPod, Over, Verdict, Jobs
  <2>3. CASE ClusterNext \/ Restart
    BY <2>2, <2>3 DEF ClusterNext, Restart, SyncMG, SyncJob, User, UserCreate, UserDelete,
         UserTouch, UserDeleteJob, UserCreateJob, JobController, Collector, PodFails,
         PodSucceeds, JobCompletes, FinishJobDelete, CollectJob
  <2>4. CASE ReconcileStep
    BY <2>4 DEF ReconcileStep, Dequeue, Fetch, AddFinalizer, EnsurePrerequisites, LookupJob,
         Preflight, CreateJob, ManageSuccess, ManageError, UpdateStatus, HandleJobCompletion,
         SetValidationFailureStatus, CleanupGet, DeletePods, DeleteJob, ReleaseCA,
         RemoveFinalizer, PutStatus, Put, Moves, objVars
  <2>5. CASE UNCHANGED vars
    BY <2>5 DEF vars, objVars
  <2> QED BY <2>3, <2>4, <2>5 DEF Next
<1> QED
  BY <1>1, TypeInvariant, FinalizerInvariant, JobsInvariant, PTL
     DEF Spec, NoPodOutlivesFinishedJob

(***************************************************************************)
(* What a Job without a verdict, the finalizer and the spec promise.  From *)
(* here on a Job is first seen through the watch.                          *)
(***************************************************************************)

Alive == mg.uid # 0 /\ ~mg.deleting

\* While the MustGather is wanted, the Job the cache shows without a verdict
\* exists and stays: it will still report.
OpenInv == Alive /\ Open(jobCache) => job.uid = jobCache.uid /\ ~job.terminating

\* No copy of the object is ahead of it with the finalizer, a pass that has got
\* past it proves it, and an update that may add it will be an event.
FinInv ==
    /\ mg.uid # 0 => \A m \in {mgCache, inst} : m.uid = mg.uid /\ m.fin => mg.fin
    /\ pc \notin {"idle", "fetch", "addFinalizer"} /\ inst.uid = mg.uid => mg.uid = 0 \/ mg.fin
    /\ pc = "addFinalizer" /\ instCur => ~mg.fin /\ (mgCache.uid = mg.uid => ~mgCache.fin)

\* The copies agree with the object on the service account, and no Job is ever
\* created for one that names the operator's own.
OpInv ==
    /\ mg.uid # 0 => \A m \in {mgCache, inst} : m.uid = mg.uid => m.opSA = mg.opSA
    /\ pc \in {"prerequisites", "lookupJob", "preflight", "createJob"} => ~inst.opSA
    /\ mg.uid # 0 /\ mg.opSA => job.uid = 0 /\ jobCache.uid = 0

PromiseInv == OpenInv /\ FinInv /\ OpInv

\* What a step of the worker does to the whole object.
LEMMA WorkerObjects ==
    ASSUME TypeInv, FinalizerInv, WorkerEffect
    PROVE  \/ SameSelf(mg', mg)
           \/ /\ pc = "addFinalizer" /\ pc' = "idle" /\ mg'.uid = mg.uid
              /\ mg'.deleting = mg.deleting /\ mg'.opSA = mg.opSA /\ mg'.fin = TRUE
           \/ mg'.uid = 0 /\ mg'.deleting = FALSE
<1>0. NoMG.deleting = FALSE /\ NoMG.uid = 0 /\ mg \in MustGathers
  BY DEF NoMG, NewMG, TypeInv, TypeOK
<1>1. CASE mg' = mg
  BY <1>1 DEF SameSelf, SameLife
<1>2. CASE Protects /\ mg' = [mg EXCEPT !.fin = TRUE]
  BY <1>0, <1>2 DEF Protects, Returns, Retries, MustGathers
<1>3. CASE Reports
  BY <1>3 DEF Reports
<1>4. CASE mg' = NoMG
  BY <1>0, <1>4
<1> QED
  BY <1>1, <1>2, <1>3, <1>4
     DEF WorkerEffect, Begins, Fetches, Protects, Advances, Starts, Stops, Releases

\* What a step of the worker does to its copy of the object.
LEMMA WorkerCopies ==
    ASSUME TypeInv, FinalizerInv, WorkerEffect
    PROVE  /\ mgCache' = mgCache /\ jobCache' = jobCache
           /\ \/ pc' \in {"idle", "fetch"} /\ inst' = NoMG
              \/ /\ pc = "fetch" /\ inst' = mgCache /\ instCur' = mgCacheCur
                 /\ pc' = Branch(mgCache) /\ pc' # "idle" /\ mg' = mg /\ job' = job
                 /\ queued' = queued
              \/ /\ pc \notin {"idle", "fetch", "addFinalizer"} /\ Goes(pc')
                 /\ pc' \notin {"idle", "fetch", "addFinalizer", "prerequisites"}
                 /\ pc' \in {"lookupJob", "preflight", "createJob"} =>
                       pc \in {"prerequisites", "lookupJob", "preflight"} /\ mg' = mg
<1>1. CASE Begins
  <2>1. inst = NoMG
    BY <1>1 DEF Begins, FinalizerInv, LabelInv
  <2> QED BY <1>1, <2>1 DEF Begins, Quiet
<1>2. CASE Fetches
  BY <1>2 DEF Fetches, Quiet, Returns, Retries
<1>3. CASE Protects
  BY <1>3 DEF Protects, Quiet, Returns, Retries
<1>4. CASE Advances
  <2>1. mgCache' = mgCache /\ jobCache' = jobCache /\ mg' = mg
    BY <1>4 DEF Advances, Quiet
  <2>2. \/ Returns \/ Retries
        \/ /\ Goes(pc') /\ pc' \in {"lookupJob", "manageError", "preflight", "updateStatus",
                "complete", "createJob", "reject", "deletePods", "deleteJob", "removeFinalizer"}
           /\ pc' \in {"lookupJob", "preflight", "createJob"} =>
                       pc \in {"prerequisites", "lookupJob", "preflight"}
           /\ pc \notin {"idle", "fetch", "addFinalizer"}
    BY <1>4 DEF Advances, Finishes, Fails, Goes
  <2> QED BY <2>1, <2>2 DEF Returns, Retries
<1>5. CASE Starts
  BY <1>5 DEF Starts, Goes
<1>6. CASE Stops
  BY <1>6 DEF Stops, Goes, Fails, Retries
<1>7. CASE Reports
  BY <1>7 DEF Reports, Quiet, Returns, Retries, Goes
<1>8. CASE Releases
  BY <1>8 DEF Releases, Quiet, Returns, Goes
<1> QED BY <1>1, <1>2, <1>3, <1>4, <1>5, <1>6, <1>7, <1>8 DEF WorkerEffect

\* What a step of the worker does to the Job.
LEMMA WorkerJobEffect ==
    ASSUME TypeInv, WorkerEffect
    PROVE  \/ job' = job
           \/ /\ pc = "createJob" /\ job.uid = 0 /\ mg' = mg
              /\ job'.uid # 0 /\ job'.terminating = FALSE
           \/ /\ pc = "deleteJob" /\ job.uid # 0 /\ mg' = mg
              /\ job'.uid = job.uid /\ job'.terminating
<1>0. job \in Jobs /\ lastJob \in Nat
  BY JobTypes, Numbers
<1>1. CASE Starts
  BY <1>0, <1>1, NewVerdicts DEF Starts
<1>2. CASE Stops
  <2>1. CASE job' = [job EXCEPT !.terminating = TRUE]
    BY <1>0, <1>2, <2>1 DEF Stops, Jobs
  <2> QED BY <1>2, <2>1 DEF Stops
<1> QED
  BY <1>1, <1>2 DEF WorkerEffect, Begins, Fetches, Protects, Advances, Reports, Releases, Quiet

\* The worker keeps the promises.
LEMMA WorkerPromises ==
    ASSUME MaxUID = 1, TypeInv, FinalizerInv, HasInst, JobsInv, PromiseInv, WorkerEffect
    PROVE  PromiseInv'
<1> USE DEF PromiseInv
<1>0. /\ NoMG.uid = 0 /\ mgCache' = mgCache /\ jobCache' = jobCache
      /\ mgCache.fin \in BOOLEAN /\ mgCache.opSA \in BOOLEAN /\ mg.fin \in BOOLEAN
      /\ mgCache.deleting \in BOOLEAN
  BY NoMGFacts, WorkerCopies, Booleans
<1>1. OpenInv'
  <2> SUFFICES ASSUME Alive', Open(jobCache') PROVE job'.uid = jobCache'.uid /\ ~job'.terminating
    BY DEF OpenInv
  <2>1. Alive /\ mg'.uid = mg.uid
    BY WorkerObjects DEF Alive, SameSelf, SameLife
  <2>2. job.uid = jobCache.uid /\ ~job.terminating /\ job.uid # 0 /\ ~Over(jobCache)
    BY <1>0, <2>1, JobTypes, NewVerdicts DEF OpenInv
  <2>3. pc # "deleteJob"
    <3> SUFFICES ASSUME pc = "deleteJob" PROVE FALSE
      OBVIOUS
    <3>1. inst.uid = 1 /\ mg.uid = 1
      BY <2>1, OneLife DEF HasInst, Alive
    <3>2. ~inst.deleting
      BY <2>1, <3>1 DEF FinalizerInv, DeletionSeen, Alive
    <3> QED BY <2>2, <3>2 DEF JobsInv
  <2> QED BY <1>0, <2>2, <2>3, WorkerJobEffect
<1>2. FinInv'
  <2>1. mg'.uid # 0 => mg'.uid = mg.uid /\ (mg.fin => mg'.fin)
    BY WorkerObjects DEF SameSelf, SameLife
  <2>2. CASE pc' \in {"idle", "fetch"} /\ inst' = NoMG
    BY <1>0, <2>1, <2>2 DEF FinInv
  <2>3. CASE /\ pc = "fetch" /\ inst' = mgCache /\ instCur' = mgCacheCur
             /\ pc' = Branch(mgCache) /\ pc' # "idle" /\ mg' = mg
    <3>1. /\ Branch(mgCache) = "addFinalizer" => ~mgCache.fin
          /\ Branch(mgCache) \notin {"addFinalizer", "idle"} => mgCache.fin
      BY <1>0 DEF Branch
    <3>2. mgCacheCur => mgCache = mg
      BY DEF FinalizerInv, CurrentCopies
    <3> QED BY <1>0, <2>3, <3>1, <3>2 DEF FinInv
  <2>4. CASE /\ pc \notin {"idle", "fetch", "addFinalizer"} /\ Goes(pc')
             /\ pc' \notin {"idle", "fetch", "addFinalizer"}
    BY <1>0, <2>1, <2>4 DEF FinInv, Goes, SameCopy
  <2> QED BY <2>2, <2>3, <2>4, WorkerCopies
<1>3. OpInv'
  <2>1. mg'.uid # 0 => mg'.uid = mg.uid /\ mg'.opSA = mg.opSA
    BY WorkerObjects DEF SameSelf, SameLife
  <2>2. mg'.uid # 0 /\ mg'.opSA => job'.uid = 0 /\ jobCache'.uid = 0
    <3> SUFFICES ASSUME mg'.uid # 0, mg'.opSA PROVE job'.uid = 0 /\ jobCache'.uid = 0
      OBVIOUS
    <3>1. mg.uid # 0 /\ mg.opSA /\ job.uid = 0 /\ jobCache.uid = 0
      BY <2>1 DEF OpInv
    <3>2. pc # "createJob"
      BY <3>1 DEF OpInv, FinalizerInv, LabelInv, GuardedCopies, Guarded
    <3> QED BY <1>0, <3>1, <3>2, WorkerJobEffect
  <2>3. CASE pc' \in {"idle", "fetch"} /\ inst' = NoMG
    BY <1>0, <2>1, <2>2, <2>3 DEF OpInv
  <2>4. CASE /\ pc = "fetch" /\ inst' = mgCache
             /\ pc' = Branch(mgCache) /\ pc' # "idle" /\ mg' = mg
    <3>1. Branch(mgCache) = "prerequisites" => ~mgCache.opSA
      BY <1>0 DEF Branch
    <3>2. Branch(mgCache) \notin {"lookupJob", "preflight", "createJob"}
      BY <1>0 DEF Branch
    <3> QED BY <1>0, <2>2, <2>4, <3>1, <3>2 DEF OpInv
  <2>5. CASE /\ pc \notin {"idle", "fetch", "addFinalizer"} /\ Goes(pc')
             /\ pc' # "prerequisites"
             /\ pc' \in {"lookupJob", "preflight", "createJob"} =>
                   pc \in {"prerequisites", "lookupJob", "preflight"} /\ mg' = mg
    <3>1. mg'.uid # 0 /\ inst'.uid = mg'.uid => inst'.opSA = mg'.opSA
      BY <2>1, <2>5 DEF OpInv, Goes, SameCopy
    <3>2. pc' \in {"lookupJob", "preflight", "createJob"} => ~inst'.opSA
      <4> SUFFICES ASSUME pc' \in {"lookupJob", "preflight", "createJob"} PROVE ~inst'.opSA
        OBVIOUS
      <4>1. ~inst.opSA /\ inst.uid = mg.uid /\ inst.uid # 0
        BY <2>5 DEF OpInv, FinalizerInv, LabelInv, GuardedCopies, Guarded
      <4> QED BY <2>5, <4>1 DEF OpInv, Goes
    <3> QED BY <1>0, <2>1, <2>2, <2>5, <3>1, <3>2 DEF OpInv
  <2> QED BY <2>3, <2>4, <2>5, WorkerCopies
<1> QED BY <1>1, <1>2, <1>3

\* The others keep the promises.
LEMMA OthersPromises ==
    ASSUME MaxUID = 1, ~Relists, ~ForeignJobs, TypeInv, FinalizerInv, JobsInv, PromiseInv,
           ClusterNext \/ Restart
    PROVE  PromiseInv'
<1> USE DEF PromiseInv
<1>0. /\ NoMG.uid = 0 /\ NoMG.deleting = FALSE /\ mg \in MustGathers
      /\ mg.fin \in BOOLEAN
  BY NoMGFacts, Booleans DEF TypeInv, TypeOK
<1>1. Alive /\ job.terminating => Over(job)
  <2> SUFFICES ASSUME Alive, job.terminating PROVE Over(job)
    OBVIOUS
  <2>1. job.uid # 0 /\ jobCache.uid = job.uid
    BY DEF JobsInv
  <2>2. Over(jobCache)
    BY <2>1, JobTypes, NewVerdicts DEF OpenInv
  <2> QED BY <2>1, <2>2 DEF JobsInv
<1>2. CASE Restart
  <2>1. /\ UNCHANGED <<mg, job>> /\ mgCache' = mg /\ jobCache' = job
        /\ inst' = NoMG /\ pc' = "idle"
    BY <1>2 DEF Restart
  <2>2. OpenInv'
    BY <1>1, <2>1, JobTypes, NewVerdicts DEF OpenInv, Alive
  <2>3. FinInv'
    BY <1>0, <2>1 DEF FinInv
  <2>4. OpInv'
    BY <1>0, <2>1 DEF OpInv
  <2> QED BY <2>2, <2>3, <2>4
<1>3. CASE SyncMG
  <2>1. UNCHANGED <<mg, job, jobCache, inst, instCur, pc>> /\ mgCache' = mg
    BY <1>3 DEF SyncMG
  <2> QED BY <1>0, <2>1 DEF OpenInv, FinInv, OpInv, Alive
<1>4. CASE SyncJob
  <2>1. /\ UNCHANGED <<mg, mgCache, job, inst, instCur, pc>>
        /\ jobCache'.uid = job.uid
        /\ \/ jobCache' = job
           \/ jobCache.uid # job.uid /\ job.uid # 0
           \/ job.uid = 0
    BY <1>4, SyncJobEffect
  <2>2. jobCache' \in Jobs
    BY <1>4, ClusterType DEF ClusterNext, TypeInv, TypeOK
  <2>3. OpenInv'
    <3> SUFFICES ASSUME Alive, Open(jobCache') PROVE ~job.terminating
      BY <2>1 DEF OpenInv, Alive
    <3>1. job.uid # 0
      BY <2>1, <2>2, NewVerdicts
    <3>2. CASE jobCache' = job
      BY <1>1, <3>2, JobTypes, NewVerdicts
    <3>3. CASE jobCache.uid # job.uid
      BY <3>3 DEF JobsInv
    <3> QED BY <2>1, <3>1, <3>2, <3>3
  <2>4. FinInv' /\ OpInv'
    BY <2>1 DEF FinInv, OpInv
  <2> QED BY <2>3, <2>4
<1>5. CASE UserCreate
  <2>1. /\ mgCache.uid = 0 /\ inst.uid = 0 /\ job.uid = 0 /\ jobCache.uid = 0
        /\ UNCHANGED <<mgCache, job, jobCache, queued, pc, inst>>
        /\ mg'.uid = 1 /\ mg'.deleting = FALSE /\ mg'.fin = FALSE
        /\ instCur' = FALSE
    BY <1>5, FirstCreation
  <2>2. OpenInv'
    BY <2>1, JobTypes, NewVerdicts DEF OpenInv
  <2>3. FinInv'
    BY <2>1 DEF FinInv
  <2>4. OpInv'
    BY <2>1 DEF OpInv
  <2> QED BY <2>2, <2>3, <2>4
<1>6. CASE UserDelete
  <2>1. /\ UNCHANGED <<mgCache, job, jobCache, pc, inst>> /\ instCur' = FALSE
        /\ \/ mg'.uid = mg.uid /\ mg'.fin = mg.fin /\ mg'.opSA = mg.opSA /\ mg'.deleting = TRUE
           \/ mg'.uid = 0
    BY <1>0, <1>6 DEF UserDelete, MustGathers
  <2>2. OpenInv'
    BY <2>1 DEF OpenInv, Alive
  <2>3. FinInv' /\ OpInv'
    BY <2>1 DEF FinInv, OpInv
  <2> QED BY <2>2, <2>3
<1>7. CASE UserTouch
  <2>1. UNCHANGED <<mg, mgCache, job, jobCache, pc, inst>> /\ instCur' = FALSE
    BY <1>7 DEF UserTouch
  <2> QED BY <2>1 DEF OpenInv, FinInv, OpInv, Alive
<1>8. CASE UserDeleteJob \/ UserCreateJob
  BY <1>8 DEF UserDeleteJob, UserCreateJob
<1>9. CASE JobController \/ Collector
  <2>1. /\ UNCHANGED <<mg, mgCache, jobCache, pc, inst, instCur>>
        /\ JobRuns \/ JobGoes
    BY <1>9, JobEffect DEF JobsInv
  <2>2. FinInv'
    BY <2>1 DEF FinInv
  <2>3. OpInv'
    BY <2>1, NewVerdicts DEF OpInv, JobRuns, JobKept, JobGoes
  <2>4. OpenInv'
    <3> SUFFICES ASSUME Alive, Open(jobCache) PROVE job'.uid = jobCache.uid /\ ~job'.terminating
      BY <2>1 DEF OpenInv, Alive
    <3>1. job.uid = jobCache.uid /\ ~job.terminating /\ job.uid # 0
      BY JobTypes, NewVerdicts DEF OpenInv
    <3>2. job.owner = mg.uid
      BY <3>1, OneLife DEF JobsInv, Alive
    <3> QED BY <2>1, <3>1, <3>2 DEF JobRuns, JobKept, JobGoes
  <2> QED BY <2>2, <2>3, <2>4
<1> QED BY <1>2, <1>3, <1>4, <1>5, <1>6, <1>7, <1>8, <1>9 DEF ClusterNext, User

(***************************************************************************)
(* Nothing is forgotten.                                                   *)
(***************************************************************************)

\* The operator waits for a Job that will still report: one it is about to see
\* or one it has seen without a verdict.
Waiting == (jobCache.uid = 0 /\ job.uid # 0) \/ Open(jobCache)

\* The verdict is stored and nothing is left to clean up.
Settled ==
    /\ mg.completed = "true"
    /\ mg.retain \/ job.uid = 0 \/ job.terminating

\* The pass under way will leave the name queued or the object looked after.
Busy ==
    \/ pc \in {"fetch", "addFinalizer", "prerequisites", "lookupJob", "complete", "manageError"}
    \/ pc \in {"preflight", "createJob", "reject"} /\ ~Over(jobCache)
    \/ pc \in {"updateStatus", "manageSuccess"} /\ Waiting
    \/ pc \in {"cleanupGet", "deletePods", "deleteJob"} /\ mg.completed = "true"
    \/ pc = "releaseCA" /\ Settled

\* The finalizer is there, and once the cache shows that, so is the rest.
LookedAfter == mg.fin /\ (mgCache.fin => Waiting \/ Settled)

\* A MustGather that was delivered is queued, worked on or looked after.
WakeInv ==
    Alive /\ mgCache.uid = mg.uid => queued \/ Busy \/ (pc = "idle" /\ LookedAfter)

\* The worker keeps WakeInv.
LEMMA WorkerWakes ==
    ASSUME MaxUID = 1, TypeInv, FinalizerInv, HasInst, JobsInv, PromiseInv, WakeInv, WorkerEffect
    PROVE  WakeInv'
<1> USE DEF PromiseInv
<1> SUFFICES ASSUME Alive', mgCache'.uid = mg'.uid, ~queued'
             PROVE  Busy' \/ (pc' = "idle" /\ LookedAfter')
  BY DEF WakeInv
<1>0. /\ mgCache' = mgCache /\ jobCache' = jobCache
      /\ mgCache.fin \in BOOLEAN /\ mgCache.opSA \in BOOLEAN /\ mgCache.deleting \in BOOLEAN
      /\ mg.fin \in BOOLEAN /\ mg \in MustGathers
  BY WorkerCopies, Booleans DEF TypeInv, TypeOK
<1>1. Alive /\ mg'.uid = mg.uid /\ mgCache.uid = mg.uid /\ mg.uid = 1
  BY <1>0, WorkerObjects, OneLife DEF Alive, SameSelf, SameLife
<1>2. pc \notin {"idle", "fetch"} => inst.uid = mg.uid /\ ~inst.deleting
  BY <1>1, OneLife DEF HasInst, Alive, FinalizerInv, DeletionSeen
<1>3. pc \notin {"idle", "fetch", "addFinalizer"} => mg.fin
  BY <1>1, <1>2 DEF FinInv
<1>4. CASE Begins
  BY <1>4 DEF Begins, Busy
<1>5. CASE Fetches
  <2>1. /\ ~mgCache.deleting
        /\ mgCache.opSA = mg.opSA
    BY <1>1 DEF FinalizerInv, DeletionSeen, Alive, OpInv
  <2>2. /\ Branch(mgCache) \in {"addFinalizer", "reject", "prerequisites"}
        /\ Branch(mgCache) = "reject" => mgCache.opSA
    BY <1>0, <1>1, <2>1 DEF Branch
  <2>3. mg.opSA => ~Over(jobCache)
    BY <1>1, JobTypes, NewVerdicts DEF OpInv
  <2>4. pc' = Branch(mgCache)
    BY <1>5, <2>2 DEF Fetches, Retries
  <2> QED BY <1>0, <2>1, <2>2, <2>3, <2>4 DEF Busy
<1>6. CASE Protects
  <2>1. pc = "addFinalizer" /\ pc' = "idle" /\ instCur /\ mg' = [mg EXCEPT !.fin = TRUE]
    BY <1>6 DEF Protects, Retries, Returns
  <2>2. mg'.fin /\ ~mgCache.fin
    BY <1>0, <1>1, <2>1 DEF FinInv, MustGathers
  <2> QED BY <1>0, <2>1, <2>2 DEF LookedAfter
<1>7. CASE Advances
  <2>1. UNCHANGED <<mg, job>> /\ (pc' # "idle" => queued' = queued)
    BY <1>7 DEF Advances, Quiet, Goes, Finishes, Fails, Returns, Retries
  <2>2. CASE pc \in {"prerequisites", "lookupJob"}
    <3>1. jobCache.uid = 0 => ~Over(jobCache)
      BY JobTypes, NewVerdicts
    <3> QED BY <1>0, <1>7, <2>2, <3>1 DEF Advances, Goes, Busy, Waiting
  <2>3. CASE pc = "preflight"
    BY <1>0, <1>1, <1>7, <2>1, <2>3 DEF Advances, Goes, Retries, Busy, WakeInv
  <2>4. CASE pc \in {"cleanupGet", "deletePods", "releaseCA"}
    <3>1. \/ pc' = "manageError"
          \/ pc = "cleanupGet" /\ pc' = "deletePods"
          \/ pc = "deletePods" /\ pc' = "deleteJob"
          \/ /\ pc = "cleanupGet" /\ pc' = "idle" /\ queued' = queued
             /\ ~(jobCache.uid # 0 /\ jobCache.owner = inst.uid)
          \/ pc = "releaseCA" /\ pc' = "idle" /\ queued' = queued
      BY <1>2, <1>7, <2>4 DEF Advances, Goes, Finishes, Fails, Returns, Retries
    <3>2. ~(jobCache.uid # 0 /\ jobCache.owner = inst.uid) /\ pc = "cleanupGet" => jobCache.uid = 0
      BY <1>1, <1>2, OneLife DEF JobsInv
    <3>3. ~queued => /\ pc \in {"cleanupGet", "deletePods"} => mg.completed = "true"
                     /\ pc = "releaseCA" => Settled
      BY <1>1, <2>4 DEF WakeInv, Busy
    <3>4. ~queued
      BY <2>1, <3>1
    <3> QED
      BY <1>0, <1>3, <2>1, <2>4, <3>1, <3>2, <3>3, <3>4
         DEF Busy, LookedAfter, Waiting, Settled
  <2> QED BY <1>7, <2>2, <2>3, <2>4 DEF Advances
<1>8. CASE Starts
  <2>1. /\ pc = "createJob" /\ queued' = queued /\ pc' \in {"manageSuccess", "manageError"}
        /\ pc' = "manageSuccess" => job.uid # 0 \/ job' = NewJob(lastJob + 1, inst.uid)
        /\ job' = job \/ job' = NewJob(lastJob + 1, inst.uid)
    BY <1>8 DEF Starts, Goes
  <2>2. ~Over(jobCache)
    BY <1>1, <2>1 DEF WakeInv, Busy
  <2>3. pc' = "manageSuccess" => job'.uid # 0
    BY <2>1, Numbers, NewVerdicts
  <2>4. jobCache.uid = 0 \/ Open(jobCache)
    BY <2>2, JobTypes, NewVerdicts
  <2> QED BY <1>0, <2>1, <2>3, <2>4 DEF Busy, Waiting
<1>9. CASE Stops
  <2>1. /\ pc = "deleteJob" /\ queued' = queued /\ mg' = mg
        /\ \/ pc' = "manageError"
           \/ pc' = "releaseCA" /\ job' = [job EXCEPT !.terminating = TRUE]
    BY <1>2, <1>9 DEF Stops, Goes, Fails, Retries
  <2>2. mg.completed = "true"
    BY <1>1, <2>1 DEF WakeInv, Busy
  <2>3. pc' = "releaseCA" => job'.terminating
    BY <2>1, JobTypes DEF Jobs
  <2> QED BY <2>1, <2>2, <2>3 DEF Busy, Settled
<1>10. CASE Reports
  <2>1. SameSelf(mg', mg) /\ job' = job
    BY <1>10 DEF Reports, Quiet
  <2>2. CASE pc \in {"updateStatus", "manageSuccess"}
    <3>1. pc' = "idle" /\ queued' = queued
      BY <1>10, <2>2 DEF Reports, Returns, Retries
    <3>2. Waiting
      BY <1>1, <2>2, <3>1 DEF WakeInv, Busy
    <3>3. mg'.fin
      BY <1>3, <2>1, <2>2 DEF SameSelf, SameLife
    <3> QED BY <1>0, <2>1, <3>1, <3>2, <3>3 DEF LookedAfter, Waiting
  <2>3. CASE pc = "manageError"
    BY <1>10, <2>3 DEF Reports, Retries
  <2>4. CASE pc = "complete"
    <3>1. CASE Goes("manageError")
      BY <3>1 DEF Goes, Busy
    <3>2. CASE instCur /\ mg'.completed = "true" /\ inst.retain /\ Returns
      <4>1. mg'.retain /\ mg'.fin
        BY <1>3, <2>1, <2>4, <3>2 DEF SameSelf, SameLife, FinalizerInv, CurrentCopies
      <4> QED BY <3>2, <4>1 DEF Returns, LookedAfter, Settled
    <3>3. CASE mg'.completed = "true" /\ Goes("cleanupGet")
      BY <3>3 DEF Goes, Busy
    <3> QED BY <1>10, <2>4, <3>1, <3>2, <3>3 DEF Reports
  <2>5. CASE pc = "reject"
    <3>1. CASE Goes("manageError")
      BY <3>1 DEF Goes, Busy
    <3>2. CASE mg'.completed = "true" /\ Returns
      <4>1. ~Over(jobCache) /\ mg'.fin
        BY <1>1, <1>3, <2>1, <2>5, <3>2 DEF Returns, WakeInv, Busy, SameSelf, SameLife
      <4>2. jobCache.uid = 0 \/ Open(jobCache)
        BY <4>1, JobTypes, NewVerdicts
      <4> QED BY <1>0, <2>1, <3>2, <4>1, <4>2 DEF Returns, LookedAfter, Settled, Waiting
    <3> QED BY <1>10, <2>5, <3>1, <3>2 DEF Reports
  <2> QED BY <1>10, <2>2, <2>3, <2>4, <2>5 DEF Reports
<1>11. CASE Releases
  <2>1. inst.deleting
    BY <1>11 DEF Releases, FinalizerInv, LabelInv
  <2> QED BY <1>2, <1>11, <2>1 DEF Releases
<1> QED BY <1>4, <1>5, <1>6, <1>7, <1>8, <1>9, <1>10, <1>11 DEF WorkerEffect

\* The others keep WakeInv: what the operator waits for reaches it.
LEMMA OthersWake ==
    ASSUME MaxUID = 1, ~Relists, ~ForeignJobs, TypeInv, FinalizerInv, HasInst, JobsInv,
           PromiseInv, WakeInv, ClusterNext \/ Restart
    PROVE  WakeInv'
<1> USE DEF PromiseInv
<1> SUFFICES ASSUME Alive', mgCache'.uid = mg'.uid, ~queued'
             PROVE  Busy' \/ (pc' = "idle" /\ LookedAfter')
  BY DEF WakeInv
<1>0. mg.fin \in BOOLEAN /\ mgCache.fin \in BOOLEAN /\ mg \in MustGathers
  BY Booleans DEF TypeInv, TypeOK
<1>1. CASE Restart
  BY <1>1 DEF Restart, Alive
<1>2. CASE SyncMG
  <2>1. /\ UNCHANGED <<mg, job, jobCache, pc>> /\ mgCache' = mg
        /\ ~queued /\ ~MGEventPasses(mgCache, mg)
    BY <1>2 DEF SyncMG
  <2>2. mgCache.uid = mg.uid /\ mgCache.fin = mg.fin
    BY <2>1 DEF MGEventPasses
  <2> QED BY <2>1, <2>2 DEF WakeInv, Alive, Busy, LookedAfter, Waiting, Settled
<1>3. CASE SyncJob
  <2>1. /\ UNCHANGED <<mg, mgCache, job, pc>> /\ ~queued
        /\ jobCache'.uid = job.uid
        /\ \/ jobCache.uid = job.uid /\ Verdict(jobCache') = Verdict(jobCache)
           \/ jobCache.uid # job.uid /\ job.uid # 0 /\ Open(jobCache')
           \/ jobCache.uid # job.uid /\ job.uid = 0
    BY <1>3, SyncJobEffect
  <2>2. Alive /\ (Busy \/ (pc = "idle" /\ LookedAfter))
    BY <2>1 DEF WakeInv, Alive
  <2>3. CASE jobCache.uid = job.uid /\ Verdict(jobCache') = Verdict(jobCache)
    BY <2>1, <2>2, <2>3 DEF Busy, LookedAfter, Waiting, Settled, Open, Over
  <2>4. CASE jobCache.uid # job.uid /\ job.uid # 0 /\ Open(jobCache')
    <3>1. jobCache.uid = 0 /\ ~Over(jobCache')
      BY <2>4 DEF JobsInv, Open, Over
    <3> QED BY <2>1, <2>2, <2>4, <3>1 DEF Busy, LookedAfter, Waiting, Settled
  <2>5. CASE jobCache.uid # job.uid /\ job.uid = 0
    <3>1. jobCache' \in Jobs
      BY <1>3, ClusterType DEF ClusterNext, TypeInv, TypeOK
    <3>2. ~Over(jobCache') /\ ~Waiting
      BY <2>1, <2>2, <2>5, <3>1, NewVerdicts DEF Waiting, OpenInv
    <3> QED BY <2>1, <2>2, <2>5, <3>2 DEF Busy, LookedAfter, Settled
  <2> QED BY <2>1, <2>3, <2>4, <2>5
<1>4. CASE UserCreate
  <2>1. mgCache'.uid # mg'.uid
    BY <1>4, FirstCreation
  <2> QED BY <2>1
<1>5. CASE UserDelete
  <2>1. NoMG.uid = 0
    BY NoMGFacts
  <2>2. mg' = [mg EXCEPT !.deleting = TRUE] => mg'.deleting
    BY <1>0 DEF MustGathers
  <2> QED BY <1>5, <2>1, <2>2 DEF UserDelete, Alive
<1>6. CASE UserTouch
  <2>1. UNCHANGED <<mg, mgCache, job, jobCache, pc, queued>>
    BY <1>6 DEF UserTouch
  <2> QED BY <2>1 DEF WakeInv, Alive, Busy, LookedAfter, Waiting, Settled
<1>7. CASE UserDeleteJob \/ UserCreateJob
  BY <1>7 DEF UserDeleteJob, UserCreateJob
<1>8. CASE JobController \/ Collector
  <2>1. /\ UNCHANGED <<mg, mgCache, jobCache, pc, queued>>
        /\ JobRuns \/ JobGoes
    BY <1>8, JobEffect DEF JobsInv
  <2>2. Alive /\ (Busy \/ (pc = "idle" /\ LookedAfter))
    BY <2>1 DEF WakeInv, Alive
  <2>3. CASE JobRuns
    BY <2>1, <2>2, <2>3 DEF JobRuns, JobKept, Busy, LookedAfter, Waiting, Settled
  <2>4. CASE JobGoes
    <3>1. job.owner = mg.uid
      BY <2>2, <2>4, OneLife DEF JobGoes, JobsInv, Alive
    <3>2. job.uid # 0 /\ job.terminating /\ job'.uid = 0
      BY <2>4, <3>1, NewVerdicts DEF JobGoes
    <3>3. jobCache.uid # 0
      BY <3>2 DEF JobsInv
    <3> QED BY <2>1, <2>2, <3>2, <3>3 DEF Busy, LookedAfter, Waiting, Settled
  <2> QED BY <2>1, <2>3, <2>4
<1> QED BY <1>1, <1>2, <1>3, <1>4, <1>5, <1>6, <1>7, <1>8 DEF ClusterNext, User

\* The three together are inductive.
LEMMA WakeInvariant ==
    ASSUME MaxUID = 1, ~Relists, ~ForeignJobs
    PROVE  Spec => [](JobsInv /\ PromiseInv /\ WakeInv)
<1> DEFINE All == JobsInv /\ PromiseInv /\ WakeInv
<1>1. Init => All
  <2> SUFFICES ASSUME Init PROVE All
    OBVIOUS
  <2>1. /\ mg.uid = 0 /\ mgCache.uid = 0 /\ inst.uid = 0
        /\ job.uid = 0 /\ jobCache.uid = 0 /\ job.terminating = FALSE /\ pc = "idle"
    BY NoMGFacts, NewVerdicts DEF Init
  <2>2. ~Over(jobCache) /\ ~Open(jobCache)
    BY NewObjects, NewVerdicts DEF Init
  <2>3. JobsInv
    BY <2>1, <2>2 DEF JobsInv
  <2>4. PromiseInv
    BY <2>1, <2>2 DEF PromiseInv, OpenInv, FinInv, OpInv
  <2>5. WakeInv
    BY <2>1 DEF WakeInv, Alive
  <2> QED BY <2>3, <2>4, <2>5
<1>2. TypeInv /\ FinalizerInv /\ HasInst /\ All /\ [Next]_vars => All'
  <2> SUFFICES ASSUME TypeInv, FinalizerInv, HasInst, JobsInv, PromiseInv, WakeInv, [Next]_vars
               PROVE  All'
    OBVIOUS
  <2>1. CASE ReconcileStep
    BY <2>1, WorkerEffects, WorkerJobs, WorkerPromises, WorkerWakes
  <2>2. CASE ClusterNext \/ Restart
    BY <2>2, OthersJobs, OthersPromises, OthersWake
  <2>3. CASE UNCHANGED vars
    BY <2>3 DEF vars, objVars, workerVars, JobsInv, PromiseInv, OpenInv, FinInv, OpInv, WakeInv,
                Alive, Busy, LookedAfter, Waiting, Settled, Open, Over
  <2> QED BY <2>1, <2>2, <2>3 DEF Next
<1> QED
  BY <1>1, <1>2, TypeInvariant, FinalizerInvariant, OwnerInvariant, PTL DEF Spec

\* The operator only rests when it may.  For a name used once, whatever fails,
\* crashes or lags: when no name is queued and no event is due, the MustGather
\* is not being deleted and has a Job that will still report, or it has its
\* verdict and no Job left to clean up.
THEOREM RestSettled ==
    ASSUME MaxUID = 1, ~Relists, ~ForeignJobs
    PROVE  Spec => []RestIsSettled
<1>1. TypeInv /\ FinalizerInv /\ DelInv /\ JobsInv /\ PromiseInv /\ WakeInv => RestIsSettled
  <2> SUFFICES ASSUME TypeInv, FinalizerInv, DelInv, JobsInv, PromiseInv, WakeInv,
                      AtRest, mg.uid # 0
               PROVE  /\ ~mg.deleting
                      /\ \/ Verdict(job) = "running"
                         \/ /\ mg.completed = "true"
                            /\ job.uid = 0 \/ job.terminating \/ mg.retain
    BY DEF RestIsSettled
  <2>1. mgCache = mg /\ jobCache = job /\ pc = "idle" /\ ~queued /\ inst = NoMG
    BY DEF AtRest, FinalizerInv, CurrentCopies, LabelInv
  <2>2. ~mg.deleting
    BY <2>1, NoMGFacts DEF DelInv, Delivered
  <2>3. LookedAfter
    BY <2>1, <2>2 DEF WakeInv, Alive, Busy
  <2>4. CASE Waiting
    BY <2>1, <2>2, <2>4 DEF Waiting, Open
  <2>5. CASE Settled
    BY <2>1, <2>2, <2>5 DEF Settled
  <2> QED BY <2>1, <2>3, <2>4, <2>5 DEF LookedAfter
<1> QED
  BY <1>1, TypeInvariant, FinalizerInvariant, DelInvariant, WakeInvariant, PTL
=============================================================================

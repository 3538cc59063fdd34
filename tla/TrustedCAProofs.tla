--------------------------- MODULE TrustedCAProofs ---------------------------
(***************************************************************************)
(* Machine-checked proofs about TrustedCA, for any set of MustGathers, any *)
(* number of faults, restarts and events, and a cache of the ConfigMap     *)
(* that may be outdated at every read.                                     *)
(***************************************************************************)
EXTENDS TrustedCA, TLAPS

\* What is known of the ConfigMaps.
LEMMA ConfigMapFacts ==
    /\ NoCM \in ConfigMaps /\ ~NoCM.present /\ NoCM.owners = {}
    /\ \A o \in SUBSET CRs : CM(o) \in ConfigMaps /\ CM(o).present /\ CM(o).owners = o
    /\ \A x \in ConfigMaps : x.owners \subseteq CRs /\ (~x.present => x.owners = {})
    /\ \A x \in ConfigMaps : x.present \in BOOLEAN
<1>1. NoCM \in ConfigMaps /\ \A o \in SUBSET CRs : CM(o) \in ConfigMaps
  BY DEF ConfigMaps
<1>2. ~NoCM.present /\ NoCM.owners = {}
  BY DEF NoCM
<1>3. \A o : CM(o).present /\ CM(o).owners = o
  BY DEF CM
<1>4. \A x \in ConfigMaps : x.owners \subseteq CRs /\ (~x.present => x.owners = {})
  <2> SUFFICES ASSUME NEW x \in ConfigMaps
               PROVE  x.owners \subseteq CRs /\ (~x.present => x.owners = {})
    OBVIOUS
  <2>1. x = NoCM \/ \E o \in SUBSET CRs : x = CM(o)
    BY DEF ConfigMaps
  <2> QED BY <2>1, <1>2, <1>3
<1>5. \A x \in ConfigMaps : x.present \in BOOLEAN
  <2>1. NoCM.present = FALSE /\ \A o : CM(o).present = TRUE
    BY DEF NoCM, CM
  <2>2. \A x \in ConfigMaps : x = NoCM \/ \E o \in SUBSET CRs : x = CM(o)
    BY DEF ConfigMaps
  <2> QED BY <2>1, <2>2, Zenon
<1> QED BY <1>1, <1>2, <1>3, <1>4, <1>5

(***************************************************************************)
(* How each step ends.                                                     *)
(***************************************************************************)

\* Nobody is queued before it is created; with this TypeOK is inductive.
TypeInv == TypeOK /\ \A c \in queued : phase[c] # "none"

\* The pass goes on at label, or ends with an error and its MustGather queued.
Goes(label) == pc' = label /\ queued' = queued
Retries     == pc' = "idle" /\ queued' = queued \cup {cr}

\* What no step of a pass changes once the instance is fetched.
Same == UNCHANGED <<retain, deleting, cr, dying>>

\* A write of the ConfigMap.
LEMMA Writes ==
    ASSUME NEW ok, NEW new, NEW onOk \in Labels, Write(ok, new, onOk)
    PROVE  /\ Same /\ copy' = NoCM /\ ~copyCur' /\ UNCHANGED <<cmCache, phase>>
           /\ \/ cm' = cm /\ (cmCacheCur' => cmCacheCur) /\ Retries
              \/ ok /\ cm' = new /\ ~cmCacheCur' /\ (Goes(onOk) \/ Retries)
BY DEF Write, Proceed, Labels, Same, Goes, Retries

\* A request about the MustGather or its Job.
LEMMA Requests ==
    ASSUME NEW p, NEW onOk \in Labels, Request(p, onOk)
    PROVE  /\ Same /\ UNCHANGED <<cm, cmCache, cmCacheCur, copyCur, misled, copy>>
           /\ \/ phase' = [phase EXCEPT ![cr] = p] /\ (Goes(onOk) \/ Retries)
              \/ phase' = phase /\ Retries
BY DEF Request, Proceed, Labels, Same, Goes, Retries, cmVars

\* A read from the cache.
LEMMA Reads ==
    ASSUME NEW onOk \in Labels, Read(onOk)
    PROVE  Same /\ (Goes(onOk) \/ Retries)
BY DEF Read, Proceed, Labels, Same, Goes, Retries

\* The instance is fetched, or the read of it fails.
LEMMA Fetches ==
    ASSUME TypeInv, NEW c \in CRs, Reconcile(c)
    PROVE  /\ UNCHANGED <<cm, cmCache, cmCacheCur, copyCur, misled, phase, retain, deleting, copy>>
           /\ pc = "idle" /\ c \in queued /\ cr' = c
           /\ dying' \in BOOLEAN /\ (dying' <=> c \in deleting)
           /\ \/ queued' = queued /\ pc' = "idle"
              \/ /\ queued' = queued \ {c}
                 /\ \/ phase[c] = "gone" /\ pc' = "idle"
                    \/ phase[c] # "gone" /\ c \notin deleting /\ pc' = "ensureRead"
                    \/ /\ phase[c] # "gone" /\ c \in deleting
                       /\ pc' \in {"cleanupGet", "removeFinalizer"}
<1>1. dying' = (c \in deleting)
  BY DEF Reconcile
<1>2. dying' \in BOOLEAN /\ (dying' <=> c \in deleting)
  <2>1. (c \in deleting) \in BOOLEAN
    OBVIOUS
  <2> QED BY <1>1, <2>1
<1> QED BY <1>2 DEF Reconcile, cmVars

\* A cached read of the ConfigMap before the reference is added.
LEMMA EnsureReads ==
    ASSUME TypeInv, EnsureRead
    PROVE  /\ Same /\ UNCHANGED <<cm, cmCache, cmCacheCur, phase>>
           /\ \/ copy' = cmCache /\ (copyCur' => cmCacheCur)
              \/ copy' = NoCM /\ ~copyCur'
           /\ \/ /\ Retries \/ Goes("ensureCreate") \/ Goes("ensureUpdate")
                 /\ misled' = misled
              \/ /\ Goes("lookup") /\ misled \subseteq misled' /\ misled' \subseteq CRs
                 /\ cr \in cm.owners \/ cr \in misled'
<1> DEFINE next == CASE ~cmCache.present                            -> "ensureCreate"
                     [] cmCache.present /\ cr \in cmCache.owners    -> "lookup"
                     [] cmCache.present /\ cr \notin cmCache.owners -> "ensureUpdate"
<1>1. cmCache.present \in BOOLEAN /\ cr \in CRs /\ misled \subseteq CRs
  BY ConfigMapFacts DEF TypeInv, TypeOK
<1>2. \/ next \in {"ensureCreate", "ensureUpdate"}
      \/ next = "lookup" /\ cr \in cmCache.owners
  BY <1>1
<1>3. Read(next) /\ UNCHANGED <<cm, cmCache, cmCacheCur, phase>>
  BY DEF EnsureRead, ReadCM
<1>4. Same /\ (Goes(next) \/ Retries)
  <2> HIDE DEF next
  <2>1. next \in Labels
    BY <1>2 DEF Labels
  <2> QED BY <1>3, <2>1, Reads
<1>5. \/ copy' = cmCache /\ (copyCur' => cmCacheCur)
      \/ copy' = NoCM /\ ~copyCur'
  BY DEF EnsureRead, ReadCM
<1>6. misled' = IF Misses /\ pc' = "lookup" THEN misled \cup {cr} ELSE misled
  BY DEF EnsureRead
<1> HIDE DEF next
<1> QED BY <1>1, <1>2, <1>3, <1>4, <1>5, <1>6 DEF Goes, Retries, Misses

\* A cached read of the ConfigMap before the reference is released.
LEMMA ReleaseReads ==
    ASSUME TypeInv, ReleaseRead
    PROVE  /\ Same /\ UNCHANGED <<cm, cmCache, cmCacheCur, phase, misled>>
           /\ \/ copy' = cmCache /\ (copyCur' => cmCacheCur)
              \/ copy' = NoCM /\ ~copyCur'
           /\ \/ Retries \/ Goes(AfterCleanup)
              \/ Goes("releaseDelete") /\ copy'.owners \subseteq {cr}
              \/ Goes("releaseUpdate") /\ ~(copy'.owners \subseteq {cr})
<1> DEFINE next == CASE ~cmCache.present                                    -> AfterCleanup
                     [] cmCache.present /\ cmCache.owners \subseteq {cr}    -> "releaseDelete"
                     [] cmCache.present /\ ~(cmCache.owners \subseteq {cr}) -> "releaseUpdate"
<1>1. cmCache.present \in BOOLEAN
  BY ConfigMapFacts DEF TypeInv, TypeOK
<1>2. \/ next = AfterCleanup
      \/ next = "releaseDelete" /\ cmCache.owners \subseteq {cr}
      \/ next = "releaseUpdate" /\ ~(cmCache.owners \subseteq {cr})
  BY <1>1
<1>3. Read(next) /\ UNCHANGED <<cm, cmCache, cmCacheCur, phase, misled>>
  BY DEF ReleaseRead, ReadCM
<1>4. Same /\ (Goes(next) \/ Retries)
  <2> HIDE DEF next
  <2>1. next \in Labels
    BY <1>2 DEF Labels, AfterCleanup
  <2> QED BY <1>3, <2>1, Reads
<1>5. IF pc' \in {"ensureUpdate", "releaseDelete", "releaseUpdate"}
      THEN copy' = cmCache /\ (copyCur' => cmCacheCur)
      ELSE copy' = NoCM /\ ~copyCur'
  BY DEF ReleaseRead, ReadCM
<1> HIDE DEF next
<1> QED BY <1>2, <1>3, <1>4, <1>5 DEF Goes, Retries

\* The steps that change neither the ConfigMap nor its copies: the lookup, the
\* creation of the Job, the verdict and the cleanup.
LEMMA JobSteps ==
    ASSUME TypeInv, LookUpJob \/ CreateJob \/ Complete \/ CleanupGet \/ DeleteJob
    PROVE  /\ Same /\ UNCHANGED <<cm, cmCache, cmCacheCur, copyCur, misled, copy>>
           /\ pc # "idle"
           /\ \E p : /\ phase' \in {phase, [phase EXCEPT ![cr] = p]}
                     /\ \/ p \in {"running", "rejected"} /\ pc = "createJob"
                        \/ p = phase[cr]
                        \/ p = "kept" /\ pc = "complete"
                        \/ p = "terminating" /\ pc = "deleteJob"
           /\ \/ Retries
              \/ pc = "lookup" /\ Goes("createJob")
              \/ /\ pc = "lookup" /\ Goes("complete") /\ phase' = phase
                 /\ phase[cr] \in {"finished", "kept", "terminating"}
              \/ pc = "lookup" /\ Goes("idle") /\ phase' = phase /\ phase[cr] = "running"
              \/ /\ pc = "createJob" /\ Goes("idle")
                 /\ \E p \in {"running", "rejected"} : phase' = [phase EXCEPT ![cr] = p]
              \/ pc = "complete" /\ Goes("cleanupGet")
              \/ pc = "complete" /\ Goes("idle") /\ phase' = [phase EXCEPT ![cr] = "kept"]
                    /\ cr \notin deleting
              \/ pc = "cleanupGet" /\ Goes("deleteJob")
              \/ /\ pc = "cleanupGet" /\ Goes(AfterCleanup) /\ phase' = phase
                 /\ phase[cr] \notin {"finished", "kept", "terminating"}
              \/ /\ pc = "deleteJob" /\ Goes("releaseRead")
                 /\ phase' = [phase EXCEPT ![cr] = "terminating"]
<1>0. cr \in CRs /\ phase \in [CRs -> Phases]
  BY DEF TypeInv, TypeOK
<1>1. CASE LookUpJob
  <2> DEFINE next == CASE ~HasJob(cr)                          -> "createJob"
                       [] phase[cr] = "running"                -> "idle"
                       [] HasJob(cr) /\ phase[cr] # "running"  -> "complete"
  <2>1. \/ next = "createJob"
        \/ next = "complete" /\ phase[cr] \in {"finished", "kept", "terminating"}
        \/ next = "idle" /\ phase[cr] = "running"
    BY DEF HasJob
  <2>2. Read(next) /\ UNCHANGED <<cmVars, phase, copy>> /\ pc = "lookup"
    BY <1>1 DEF LookUpJob
  <2> HIDE DEF next
  <2>3. next \in Labels
    BY <2>1 DEF Labels
  <2>4. Same /\ (Goes(next) \/ Retries)
    BY <2>2, <2>3, Reads
  <2> QED BY <2>1, <2>2, <2>4 DEF cmVars
<1>2. CASE CreateJob
  <2>1. PICK p \in {"running", "rejected"} : Request(p, "idle")
    BY <1>2 DEF CreateJob
  <2>2. pc = "createJob" /\ "idle" \in Labels
    BY <1>2 DEF CreateJob, Labels
  <2> QED BY <2>1, <2>2, Requests
<1>3. CASE Complete
  <2>1. pc = "complete" /\ "idle" \in Labels /\ "cleanupGet" \in Labels
    BY <1>3 DEF Complete, Labels
  <2>2. CASE cr \notin deleting /\ Request("kept", "idle")
    BY <2>1, <2>2, Requests
  <2>3. CASE Request(phase[cr], "cleanupGet")
    BY <2>1, <2>3, Requests
  <2>4. CASE Proceed("retry") /\ UNCHANGED <<cmVars, phase, copy>>
    BY <2>1, <2>4 DEF Proceed, cmVars, Same, Retries
  <2> QED BY <1>3, <2>2, <2>3, <2>4 DEF Complete
<1>4. CASE CleanupGet
  <2>1. /\ pc = "cleanupGet" /\ UNCHANGED <<cmVars, phase, copy>>
        /\ "deleteJob" \in Labels /\ AfterCleanup \in Labels
    BY <1>4 DEF CleanupGet, Labels, AfterCleanup
  <2>2. CASE Read("deleteJob")
    BY <2>1, <2>2, Reads DEF cmVars
  <2>3. CASE phase[cr] \notin {"finished", "kept", "terminating"} /\ Read(AfterCleanup)
    BY <2>1, <2>3, Reads DEF cmVars
  <2> QED BY <1>4, <2>2, <2>3 DEF CleanupGet
<1>5. CASE DeleteJob
  <2>1. pc = "deleteJob" /\ "releaseRead" \in Labels
    BY <1>5 DEF DeleteJob, Labels
  <2>2. CASE Request("terminating", "releaseRead")
    BY <2>1, <2>2, Requests
  <2>3. CASE Proceed("retry") /\ UNCHANGED <<cmVars, phase, copy>>
    BY <2>1, <2>3 DEF Proceed, cmVars, Same, Retries
  <2> QED BY <1>5, <2>2, <2>3 DEF DeleteJob
<1> QED BY <1>1, <1>2, <1>3, <1>4, <1>5

\* The finalizer is removed.
LEMMA Removes ==
    ASSUME RemoveFinalizer
    PROVE  /\ Same /\ UNCHANGED <<cm, cmCache, cmCacheCur, copyCur, misled, copy>>
           /\ pc = "removeFinalizer" /\ pc' = "idle"
           /\ \/ phase' = [phase EXCEPT ![cr] = "gone"] /\ queued' \in {queued, queued \cup {cr}}
              \/ phase' = phase /\ queued' = queued \cup {cr}
<1>1. Request("gone", "idle") /\ pc = "removeFinalizer" /\ "idle" \in Labels
  BY DEF RemoveFinalizer, Labels
<1> QED BY <1>1, Requests DEF Goes, Retries

\* The reference is added, to a new ConfigMap or to the one that was read.
LEMMA Ensures ==
    ASSUME TypeInv, EnsureCreate \/ EnsureUpdate
    PROVE  /\ Same /\ copy' = NoCM /\ ~copyCur' /\ UNCHANGED <<cmCache, phase>>
           /\ pc \in {"ensureCreate", "ensureUpdate"} /\ misled' = misled \ cm'.owners
           /\ \/ cm' = cm /\ (cmCacheCur' => cmCacheCur) /\ Retries
              \/ /\ cm' = CM(cm.owners \cup {cr}) /\ ~cmCacheCur'
                 /\ Goes("lookup") \/ Retries
<1>0. "lookup" \in Labels /\ (copyCur => copy = cm) /\ (~cm.present => cm.owners = {})
  BY ConfigMapFacts DEF Labels, TypeInv, TypeOK
<1>1. CASE EnsureCreate
  <2>1. Write(~cm.present, CM({cr}), "lookup") /\ misled' = misled \ cm'.owners
    BY <1>1 DEF EnsureCreate
  <2>2. ~cm.present => CM({cr}) = CM(cm.owners \cup {cr})
    BY <1>0
  <2> QED BY <1>0, <1>1, <2>1, <2>2, Writes DEF EnsureCreate
<1>2. CASE EnsureUpdate
  <2>1. Write(copyCur, CM(copy.owners \cup {cr}), "lookup") /\ misled' = misled \ cm'.owners
    BY <1>2 DEF EnsureUpdate
  <2>2. copyCur => CM(copy.owners \cup {cr}) = CM(cm.owners \cup {cr})
    BY <1>0
  <2> QED BY <1>0, <1>2, <2>1, <2>2, Writes DEF EnsureUpdate
<1> QED BY <1>1, <1>2

\* The reference is released, by deleting the ConfigMap or by updating it.
LEMMA Releases ==
    ASSUME TypeInv, ReleaseDelete \/ ReleaseUpdate
    PROVE  /\ Same /\ copy' = NoCM /\ ~copyCur' /\ UNCHANGED <<cmCache, phase>>
           /\ Goes(AfterCleanup) \/ Retries
           /\ \/ cm' = cm /\ (cmCacheCur' => cmCacheCur)
              \/ pc = "releaseDelete" /\ cm' = NoCM /\ ~cmCacheCur'
              \/ /\ pc = "releaseUpdate" /\ cm' = CM(cm.owners \ {cr}) /\ ~cmCacheCur'
                 /\ copy = cm
           /\ \/ pc = "releaseDelete" /\ misled' = misled \cup Overlooks
              \/ pc = "releaseUpdate" /\ misled' = misled
<1>0. AfterCleanup \in Labels /\ (copyCur => copy = cm)
  BY DEF Labels, AfterCleanup, TypeInv, TypeOK
<1>1. CASE ReleaseDelete
  <2>1. Write(cm.present, NoCM, AfterCleanup) /\ pc = "releaseDelete" /\ misled' = misled \cup Overlooks
    BY <1>1 DEF ReleaseDelete
  <2> QED BY <1>0, <2>1, Writes
<1>2. CASE ReleaseUpdate
  <2>1. /\ Write(copyCur, CM(copy.owners \ {cr}), AfterCleanup)
        /\ pc = "releaseUpdate" /\ misled' = misled
    BY <1>2 DEF ReleaseUpdate
  <2> QED BY <1>0, <2>1, Writes
<1> QED BY <1>1, <1>2

\* The collector takes references of MustGathers that are gone.
LEMMA Collects ==
    ASSUME TypeInv, CollectCM
    PROVE  /\ cm' \in ConfigMaps /\ cm'.owners = cm.owners \ Gone
           /\ cm'.present => cm'.owners # {}
           /\ ~cmCacheCur' /\ ~copyCur'
           /\ UNCHANGED <<cmCache, phase, retain, deleting, queued, pc, cr, dying, copy, misled>>
<1>1. cm.owners \ Gone \in SUBSET CRs
  BY ConfigMapFacts DEF TypeInv, TypeOK
<1>2. /\ cm' \in ConfigMaps /\ cm'.owners = cm.owners \ Gone
      /\ cm'.present => cm'.owners # {}
  <2>1. CASE cm.owners \subseteq Gone
    <3>1. cm' = NoCM /\ cm.owners \ Gone = {}
      BY <2>1 DEF CollectCM
    <3> QED BY <3>1, ConfigMapFacts
  <2>2. CASE ~(cm.owners \subseteq Gone)
    <3>1. cm' = CM(cm.owners \ Gone) /\ cm.owners \ Gone # {}
      BY <2>2 DEF CollectCM
    <3> QED BY <1>1, <3>1, ConfigMapFacts
  <2> QED BY <2>1, <2>2
<1> QED BY <1>2 DEF CollectCM, workerVars

\* One MustGather is created or deleted, or its Job changes.
Outside(c) == UserCreate(c) \/ UserDelete(c) \/ JobFinishes(c) \/ JobEvent(c) \/ JobGoes(c)

LEMMA OutsideSteps ==
    ASSUME TypeInv, NEW c \in CRs, Outside(c)
    PROVE  /\ UNCHANGED <<cm, cmCache, cmCacheCur, copyCur, misled, pc, cr, dying, copy>>
           /\ retain' \subseteq CRs
           /\ \/ phase' = phase /\ deleting' = deleting /\ queued' = queued \cup {c}
                    /\ phase[c] # "none"
              \/ /\ phase' = phase /\ deleting' = deleting \cup {c} /\ queued' = queued \cup {c}
                 /\ phase[c] # "none" /\ c \notin deleting
              \/ /\ phase[c] = "none" /\ phase' = [phase EXCEPT ![c] = "new"]
                 /\ deleting' = deleting /\ queued' = queued \cup {c}
              \/ /\ phase[c] = "running" /\ phase' = [phase EXCEPT ![c] = "finished"]
                 /\ deleting' = deleting /\ queued' = queued \cup {c}
              \/ /\ phase[c] = "terminating" /\ phase' = [phase EXCEPT ![c] = "cleared"]
                 /\ deleting' = deleting /\ queued' = queued
<1>0. retain \subseteq CRs
  BY DEF TypeInv, TypeOK
<1>1. CASE UserCreate(c)
  BY <1>0, <1>1 DEF UserCreate, cmVars, workerVars
<1>2. CASE UserDelete(c)
  BY <1>0, <1>2 DEF UserDelete, cmVars, workerVars
<1>3. CASE JobFinishes(c)
  BY <1>0, <1>3 DEF JobFinishes, cmVars, workerVars
<1>4. CASE JobEvent(c)
  BY <1>0, <1>4 DEF JobEvent, HasJob, cmVars, workerVars
<1>5. CASE JobGoes(c)
  BY <1>0, <1>5 DEF JobGoes, cmVars, workerVars
<1> QED BY <1>1, <1>2, <1>3, <1>4, <1>5 DEF Outside

(***************************************************************************)
(* Type correctness.                                                       *)
(***************************************************************************)

\* The steps of a pass that keep the phases.
LEMMA KeptType ==
    ASSUME TypeInv, Same, phase' = phase, pc # "idle", pc' \in Labels,
           queued' \in {queued, queued \cup {cr}},
           cm' \in ConfigMaps, cmCache' \in ConfigMaps, copy' \in ConfigMaps,
           misled' \subseteq CRs,
           cmCacheCur' => cmCache' = cm', copyCur' => copy' = cm'
    PROVE  TypeInv'
<1>1. cr \in CRs /\ phase[cr] \notin {"none", "gone"}
  BY DEF TypeInv, TypeOK
<1>2. queued' \subseteq CRs /\ \A c \in queued' : phase'[c] # "none"
  BY <1>1 DEF TypeInv, TypeOK
<1> QED BY <1>2 DEF TypeInv, TypeOK, Same

\* The steps of a pass that move its MustGather and leave the ConfigMap alone.
LEMMA MovedType ==
    ASSUME TypeInv, Same, UNCHANGED <<cm, cmCache, cmCacheCur, copyCur, misled, copy>>,
           pc # "idle", pc' \in Labels, queued' \in {queued, queued \cup {cr}},
           NEW p \in Phases, phase' \in {phase, [phase EXCEPT ![cr] = p]},
           p # "none", p = "gone" => pc' = "idle"
    PROVE  TypeInv'
<1>1. cr \in CRs /\ phase[cr] \notin {"none", "gone"} /\ phase \in [CRs -> Phases]
  BY DEF TypeInv, TypeOK
<1>2. phase' \in [CRs -> Phases] /\ \A c \in CRs : phase[c] # "none" => phase'[c] # "none"
  BY <1>1
<1>3. queued' \subseteq CRs /\ \A c \in queued' : phase'[c] # "none"
  BY <1>1, <1>2 DEF TypeInv, TypeOK
<1>4. pc' # "idle" => phase'[cr] \notin {"none", "gone"}
  BY <1>1
<1>5. cr' = cr /\ retain' = retain /\ deleting' = deleting /\ dying' = dying
  BY DEF Same
<1> QED BY <1>2, <1>3, <1>4, <1>5 DEF TypeInv, TypeOK

\* Every step of the worker keeps the types.
LEMMA WorkerType == ASSUME TypeInv, WorkerStep PROVE TypeInv'
<1>0. /\ cr \in CRs /\ queued \subseteq CRs /\ misled \subseteq CRs /\ cm.owners \subseteq CRs
      /\ cm \in ConfigMaps /\ cmCache \in ConfigMaps /\ NoCM \in ConfigMaps
      /\ cmCacheCur => cmCache = cm
  BY ConfigMapFacts DEF TypeInv, TypeOK
<1>1. CASE \E c \in CRs : Reconcile(c)
  <2>1. PICK c \in CRs : Reconcile(c)
    BY <1>1
  <2>2. /\ UNCHANGED <<cm, cmCache, cmCacheCur, copyCur, misled, phase, retain, deleting, copy>>
        /\ cr' = c /\ dying' \in BOOLEAN /\ phase[c] # "none" /\ queued' \subseteq queued
    BY <2>1, Fetches DEF TypeInv
  <2>3. pc' \in Labels /\ (pc' # "idle" => phase[c] # "gone")
    BY <2>1, Fetches DEF Labels
  <2> QED BY <2>2, <2>3 DEF TypeInv, TypeOK
<1>2. CASE EnsureRead
  <2>1. /\ Same /\ UNCHANGED <<cm, cmCache, cmCacheCur, phase>> /\ pc # "idle"
        /\ pc' \in Labels /\ queued' \in {queued, queued \cup {cr}} /\ misled' \subseteq CRs
    BY <1>0, <1>2, EnsureReads DEF Goes, Retries, Labels, EnsureRead
  <2>2. copy' \in ConfigMaps /\ (copyCur' => copy' = cm')
    BY <1>0, <1>2, EnsureReads
  <2> QED BY <1>0, <2>1, <2>2, KeptType
<1>3. CASE EnsureCreate \/ EnsureUpdate
  <2>1. /\ Same /\ UNCHANGED <<cmCache, phase>> /\ pc # "idle" /\ copy' = NoCM /\ ~copyCur'
        /\ pc' \in Labels /\ queued' \in {queued, queued \cup {cr}} /\ misled' \subseteq CRs
    BY <1>0, <1>3, Ensures DEF Goes, Retries, Labels
  <2>2. CM(cm.owners \cup {cr}) \in ConfigMaps
    BY <1>0, ConfigMapFacts
  <2>3. cm' \in ConfigMaps /\ (cmCacheCur' => cmCache' = cm')
    BY <1>0, <1>3, <2>2, Ensures
  <2> QED BY <1>0, <2>1, <2>3, KeptType
<1>4. CASE LookUpJob \/ CreateJob \/ Complete \/ CleanupGet \/ DeleteJob
  <2>1. /\ Same /\ UNCHANGED <<cm, cmCache, cmCacheCur, copyCur, misled, copy>> /\ pc # "idle"
        /\ pc' \in Labels /\ queued' \in {queued, queued \cup {cr}}
    BY <1>4, JobSteps DEF Goes, Retries, Labels, AfterCleanup
  <2>2. phase[cr] \in Phases /\ phase[cr] \notin {"none", "gone"}
    BY <2>1 DEF TypeInv, TypeOK
  <2>3. \E p \in Phases : p \notin {"none", "gone"} /\ phase' \in {phase, [phase EXCEPT ![cr] = p]}
    BY <1>4, <2>2, JobSteps DEF Phases
  <2> QED BY <2>1, <2>3, MovedType
<1>5. CASE ReleaseRead
  <2>1. /\ Same /\ UNCHANGED <<cm, cmCache, cmCacheCur, phase, misled>> /\ pc # "idle"
        /\ pc' \in Labels /\ queued' \in {queued, queued \cup {cr}}
    BY <1>5, ReleaseReads DEF Goes, Retries, Labels, ReleaseRead, AfterCleanup
  <2>2. copy' \in ConfigMaps /\ (copyCur' => copy' = cm')
    BY <1>0, <1>5, ReleaseReads
  <2> QED BY <1>0, <2>1, <2>2, KeptType
<1>6. CASE ReleaseDelete \/ ReleaseUpdate
  <2>1. /\ Same /\ UNCHANGED <<cmCache, phase>> /\ pc # "idle" /\ copy' = NoCM /\ ~copyCur'
        /\ pc' \in Labels /\ queued' \in {queued, queued \cup {cr}}
    BY <1>6, Releases DEF Goes, Retries, Labels, AfterCleanup
  <2>2. misled' \subseteq CRs
    BY <1>0, <1>6, Releases DEF Overlooks
  <2>3. CM(cm.owners \ {cr}) \in ConfigMaps
    BY <1>0, ConfigMapFacts
  <2>4. cm' \in ConfigMaps /\ (cmCacheCur' => cmCache' = cm')
    BY <1>0, <1>6, <2>3, Releases
  <2> QED BY <1>0, <2>1, <2>2, <2>4, KeptType
<1>7. CASE RemoveFinalizer
  <2>1. "gone" \in Phases /\ "gone" # "none" /\ "idle" \in Labels
    BY DEF Phases, Labels
  <2> QED BY <1>7, <2>1, Removes, MovedType
<1> QED
  BY <1>1, <1>2, <1>3, <1>4, <1>5, <1>6, <1>7 DEF WorkerStep

\* So does every other step.
LEMMA OtherType == ASSUME TypeInv, ClusterStep \/ Restart PROVE TypeInv'
<1>1. CASE Restart
  BY <1>1, ConfigMapFacts DEF Restart, TypeInv, TypeOK, Labels
<1>2. CASE SyncCM
  BY <1>2 DEF SyncCM, workerVars, TypeInv, TypeOK
<1>3. CASE CollectCM
  BY <1>3, Collects DEF TypeInv, TypeOK
<1>4. CASE \E c \in CRs : Outside(c)
  <2>1. PICK c \in CRs : Outside(c)
    BY <1>4
  <2>2. /\ phase' \in [CRs -> Phases]
        /\ \A d \in CRs : /\ phase[d] # "none" => phase'[d] # "none"
                          /\ phase'[d] = "gone" => phase[d] = "gone"
    BY <2>1, OutsideSteps DEF TypeInv, TypeOK, Phases
  <2>3. deleting' \subseteq CRs /\ queued' \subseteq CRs /\ \A d \in queued' : phase'[d] # "none"
    <3>1. queued \subseteq CRs /\ deleting \subseteq CRs /\ phase \in [CRs -> Phases]
      BY DEF TypeInv, TypeOK
    <3>2. deleting' \subseteq CRs /\ queued' \subseteq CRs
      BY <2>1, <3>1, OutsideSteps
    <3>3. c \in queued' \ queued => phase'[c] # "none"
      BY <2>1, <3>1, OutsideSteps
    <3>4. queued' \ queued \subseteq {c}
      BY <2>1, OutsideSteps
    <3> QED BY <2>2, <3>1, <3>2, <3>3, <3>4 DEF TypeInv
  <2>4. /\ UNCHANGED <<cm, cmCache, cmCacheCur, copyCur, misled, pc, cr, dying, copy>>
        /\ retain' \subseteq CRs
    BY <2>1, OutsideSteps
  <2> QED BY <2>2, <2>3, <2>4 DEF TypeInv, TypeOK
<1> QED BY <1>1, <1>2, <1>3, <1>4 DEF ClusterStep, Outside

\* The strengthened type invariant is an invariant of the specification.
LEMMA TypeInvariant == Spec => []TypeInv
<1>1. Init => TypeInv
  BY ConfigMapFacts DEF Init, TypeInv, TypeOK, Phases, Labels
<1>2. TypeInv /\ [Next]_vars => TypeInv'
  <2> SUFFICES ASSUME TypeInv, [Next]_vars PROVE TypeInv'
    OBVIOUS
  <2>1. CASE UNCHANGED vars
    BY <2>1 DEF vars, TypeInv, TypeOK
  <2> QED BY <2>1, WorkerType, OtherType DEF Next
<1> QED BY <1>1, <1>2, PTL DEF Spec

\* Every variable keeps its type, a copy of the ConfigMap that the worker or the
\* cache calls current is one, and the MustGather being reconciled exists.
THEOREM CATypeCorrect == Spec => []TypeOK
BY TypeInvariant, PTL DEF TypeInv

(***************************************************************************)
(* The ConfigMap is shared safely, but for what an outdated copy hides.    *)
(***************************************************************************)

Releasing == {"releaseRead", "releaseDelete", "releaseUpdate"}

\* What the worker has established where it stands.
PlaceInv ==
    /\ pc \in {"lookup", "createJob"} => cr \in cm.owners \/ cr \in misled
    /\ pc \in Releasing => phase[cr] \in {"terminating", "cleared"}
    /\ pc = "releaseDelete" => copy.owners \subseteq {cr}
    /\ pc = "releaseUpdate" => ~(copy.owners \subseteq {cr})

ShareInv == BundleWhileRunning /\ NeverUnowned /\ PlaceInv

\* The steps of a pass whose Job does not run that change no phase, and no owners
\* but the worker's own.
LEMMA Shares ==
    ASSUME TypeInv, ShareInv, phase' = phase, cr' = cr,
           phase[cr] # "running",
           \A c \in CRs \ {cr} : c \in cm.owners \/ c \in misled
                                    => c \in cm'.owners \/ c \in misled',
           NeverUnowned', PlaceInv'
    PROVE  ShareInv'
BY DEF ShareInv, BundleWhileRunning, TypeInv, TypeOK

\* Every step of the worker shares the ConfigMap.
LEMMA WorkerShares == ASSUME TypeInv, ShareInv, WorkerStep PROVE ShareInv'
<1>0. /\ cr \in CRs /\ cm.owners \subseteq CRs /\ phase \in [CRs -> Phases]
      /\ ~NoCM.present /\ NoCM.owners = {}
  BY ConfigMapFacts DEF TypeInv, TypeOK
<1>1. CASE \E c \in CRs : Reconcile(c)
  <2>1. PICK c \in CRs : Reconcile(c)
    BY <1>1
  <2>2. /\ UNCHANGED <<cm, phase, misled, copy>>
        /\ pc' \in {"idle", "ensureRead", "cleanupGet", "removeFinalizer"}
    BY <2>1, Fetches
  <2> QED BY <2>2 DEF ShareInv, BundleWhileRunning, NeverUnowned, PlaceInv, Releasing
<1>2. CASE EnsureRead
  <2>1. /\ UNCHANGED <<cm, phase, cr>> /\ misled \subseteq misled'
        /\ pc' \in {"idle", "ensureCreate", "ensureUpdate", "lookup"}
        /\ pc' = "lookup" => cr \in cm.owners \/ cr \in misled'
    BY <1>2, EnsureReads DEF Same, Goes, Retries
  <2> QED BY <2>1 DEF ShareInv, BundleWhileRunning, NeverUnowned, PlaceInv, Releasing
<1>3. CASE EnsureCreate \/ EnsureUpdate
  <2>1. /\ UNCHANGED <<phase, cr>> /\ misled' = misled \ cm'.owners
        /\ \/ cm' = cm /\ pc' = "idle"
           \/ cm' = CM(cm.owners \cup {cr}) /\ pc' \in {"idle", "lookup"}
    BY <1>3, Ensures DEF Same, Goes, Retries
  <2>2. CM(cm.owners \cup {cr}).owners = cm.owners \cup {cr}
    BY <1>0, ConfigMapFacts
  <2>3. cm.owners \subseteq cm'.owners /\ (pc' = "lookup" => cr \in cm'.owners)
    BY <2>1, <2>2
  <2>4. NeverUnowned'
    BY <2>1, <2>2 DEF ShareInv, NeverUnowned
  <2> QED BY <2>1, <2>3, <2>4 DEF ShareInv, BundleWhileRunning, PlaceInv, Releasing
<1>4. CASE LookUpJob \/ CreateJob \/ Complete \/ CleanupGet \/ DeleteJob
  <2>1. UNCHANGED <<cm, misled, copy, cr>> /\ pc # "idle"
    BY <1>4, JobSteps DEF Same
  <2>2. PICK p : /\ phase' \in {phase, [phase EXCEPT ![cr] = p]}
                 /\ \/ p \in {"running", "rejected"} /\ pc = "createJob"
                    \/ p = phase[cr] \/ p = "kept" \/ p = "terminating"
    BY <1>4, JobSteps
  <2>3. \A c \in CRs : \/ phase'[c] # "running"
                       \/ phase[c] = "running"
                       \/ c = cr /\ pc = "createJob"
    BY <1>0, <2>2
  <2>4. BundleWhileRunning'
    BY <2>1, <2>3 DEF ShareInv, BundleWhileRunning, PlaceInv
  <2>5. /\ pc' = "lookup" => FALSE
        /\ pc' = "createJob" => pc = "lookup"
        /\ pc' \notin {"releaseDelete", "releaseUpdate"}
        /\ pc' = "releaseRead" => phase' = [phase EXCEPT ![cr] = "terminating"]
    BY <1>4, JobSteps DEF Goes, Retries, AfterCleanup
  <2>6. PlaceInv'
    BY <1>0, <2>1, <2>5 DEF ShareInv, PlaceInv, Releasing
  <2> QED BY <2>1, <2>4, <2>6 DEF ShareInv, NeverUnowned
<1>5. CASE ReleaseRead
  <2>1. /\ UNCHANGED <<cm, phase, cr, misled>> /\ pc = "releaseRead"
        /\ \/ pc' \in {"idle", "removeFinalizer"}
           \/ pc' = "releaseDelete" /\ copy'.owners \subseteq {cr}
           \/ pc' = "releaseUpdate" /\ ~(copy'.owners \subseteq {cr})
    BY <1>5, ReleaseReads DEF Same, Goes, Retries, AfterCleanup, ReleaseRead
  <2> QED BY <2>1 DEF ShareInv, BundleWhileRunning, NeverUnowned, PlaceInv, Releasing
<1>6. CASE ReleaseDelete \/ ReleaseUpdate
  <2>1. UNCHANGED <<phase, cr>> /\ pc' \in {"idle", "removeFinalizer"}
    BY <1>6, Releases DEF Same, Goes, Retries, AfterCleanup
  <2>2. pc \in {"releaseDelete", "releaseUpdate"} /\ phase[cr] # "running"
    BY <1>6, Releases DEF ShareInv, PlaceInv, Releasing
  <2>3. CM(cm.owners \ {cr}).owners = cm.owners \ {cr}
    BY <1>0, ConfigMapFacts
  <2>4. NeverUnowned'
    <3>1. CASE cm' = cm
      BY <3>1 DEF ShareInv, NeverUnowned
    <3>2. CASE cm' = NoCM
      BY <1>0, <3>2 DEF NeverUnowned
    <3>3. CASE pc = "releaseUpdate" /\ cm' = CM(cm.owners \ {cr}) /\ copy = cm
      BY <2>3, <3>3 DEF ShareInv, PlaceInv, NeverUnowned
    <3> QED BY <1>6, <3>1, <3>2, <3>3, Releases
  <2>5. \A c \in CRs \ {cr} : c \in cm.owners \/ c \in misled
                                => c \in cm'.owners \/ c \in misled'
    <3>1. CASE pc = "releaseDelete"
      <4>1. copy.owners \subseteq {cr} /\ misled' = misled \cup Overlooks
        BY <1>6, <3>1, Releases DEF ShareInv, PlaceInv
      <4> QED BY <4>1 DEF Overlooks
    <3>2. CASE pc = "releaseUpdate"
      <4>1. misled' = misled /\ (cm' = cm \/ cm' = CM(cm.owners \ {cr}))
        BY <1>6, <3>2, Releases
      <4> QED BY <2>3, <4>1
    <3> QED BY <2>2, <3>1, <3>2
  <2>6. PlaceInv'
    BY <2>1 DEF PlaceInv, Releasing
  <2> QED BY <2>1, <2>2, <2>4, <2>5, <2>6, Shares
<1>7. CASE RemoveFinalizer
  <2>1. /\ UNCHANGED <<cm, misled, copy, cr>> /\ pc' = "idle"
        /\ phase' \in {phase, [phase EXCEPT ![cr] = "gone"]}
    BY <1>7, Removes DEF Same
  <2>2. \A c \in CRs : phase'[c] = "running" => phase[c] = "running"
    BY <1>0, <2>1
  <2> QED BY <2>1, <2>2 DEF ShareInv, BundleWhileRunning, NeverUnowned, PlaceInv, Releasing
<1> QED
  BY <1>1, <1>2, <1>3, <1>4, <1>5, <1>6, <1>7 DEF WorkerStep

\* The collector only takes references of MustGathers that are gone, which
\* neither run nor are being reconciled; the rest leaves the owners alone.
LEMMA OthersShare == ASSUME TypeInv, ShareInv, ClusterStep \/ Restart PROVE ShareInv'
<1>0. cr \in CRs /\ phase \in [CRs -> Phases] /\ (pc # "idle" => phase[cr] # "gone")
  BY DEF TypeInv, TypeOK
<1>1. CASE Restart
  BY <1>1 DEF Restart, ShareInv, BundleWhileRunning, NeverUnowned, PlaceInv, Releasing
<1>2. CASE SyncCM
  BY <1>2 DEF SyncCM, workerVars, ShareInv, BundleWhileRunning, NeverUnowned, PlaceInv
<1>3. CASE CollectCM
  <2>1. /\ cm'.owners = cm.owners \ Gone /\ (cm'.present => cm'.owners # {})
        /\ UNCHANGED <<phase, pc, cr, copy, misled>>
    BY <1>3, Collects
  <2>2. \A c \in CRs : c \in Gone <=> phase[c] = "gone"
    BY DEF Gone
  <2>3. BundleWhileRunning'
    BY <2>1, <2>2 DEF ShareInv, BundleWhileRunning
  <2>4. PlaceInv'
    BY <1>0, <2>1, <2>2 DEF ShareInv, PlaceInv, Releasing
  <2> QED BY <2>1, <2>3, <2>4 DEF ShareInv, NeverUnowned
<1>4. CASE \E c \in CRs : Outside(c)
  <2>1. PICK c \in CRs : Outside(c)
    BY <1>4
  <2>2. UNCHANGED <<cm, pc, cr, copy, misled>>
    BY <2>1, OutsideSteps
  <2>3. \A d \in CRs : \/ phase'[d] = phase[d]
                       \/ phase[d] = "none" /\ phase'[d] = "new"
                       \/ phase[d] = "running" /\ phase'[d] = "finished"
                       \/ phase[d] = "terminating" /\ phase'[d] = "cleared"
    BY <1>0, <2>1, OutsideSteps
  <2>4. BundleWhileRunning'
    BY <2>2, <2>3 DEF ShareInv, BundleWhileRunning
  <2>5. PlaceInv'
    BY <1>0, <2>2, <2>3 DEF ShareInv, PlaceInv
  <2> QED BY <2>2, <2>4, <2>5 DEF ShareInv, NeverUnowned
<1> QED BY <1>1, <1>2, <1>3, <1>4 DEF ClusterStep, Outside

\* The invariant of the shared ConfigMap.
LEMMA Shared == Spec => [](TypeInv /\ ShareInv)
<1>1. Init => ShareInv
  BY ConfigMapFacts
  DEF Init, ShareInv, BundleWhileRunning, NeverUnowned, PlaceInv, Releasing
<1>2. TypeInv /\ ShareInv /\ [Next]_vars => ShareInv'
  <2> SUFFICES ASSUME TypeInv, ShareInv, [Next]_vars PROVE ShareInv'
    OBVIOUS
  <2>1. CASE UNCHANGED vars
    BY <2>1 DEF vars, ShareInv, BundleWhileRunning, NeverUnowned, PlaceInv
  <2> QED BY <2>1, WorkerShares, OthersShare DEF Next
<1> QED BY <1>1, <1>2, TypeInvariant, PTL DEF Spec

\* However old the cached copies are, the Job of a MustGather runs only while the
\* ConfigMap its pods mount is there and refers to it, unless such a copy showed
\* its pass a reference that was gone or hid its reference from a cleanup.
THEOREM BundleKept == Spec => []BundleWhileRunning
BY Shared, PTL DEF ShareInv

\* However old the cached copies are, the ConfigMap is never left without an
\* owner, in which case nothing would ever remove it.
THEOREM AlwaysOwned == Spec => []NeverUnowned
BY Shared, PTL DEF ShareInv

\* However old the cached copies are, no update drops the reference of another
\* MustGather that exists: what a stale copy would overwrite is refused.  Only
\* the Delete, which has no precondition, can, and only what its copy hid.
THEOREM OthersKept == Spec => KeepsOtherOwners
<1>1. TypeInv /\ ShareInv /\ [Next]_vars =>
        [\A c \in cm.owners \ cm'.owners :
            \/ c = cr \/ phase[c] = "gone"
            \/ pc = "releaseDelete" /\ c \notin copy.owners]_vars
  <2> SUFFICES ASSUME TypeInv, ShareInv, Next, NEW c \in cm.owners \ cm'.owners,
                      c # cr, phase[c] # "gone"
               PROVE  pc = "releaseDelete" /\ c \notin copy.owners
    BY DEF vars
  <2>0. cm.owners \subseteq CRs /\ cr \in CRs /\ cm' # cm
    BY ConfigMapFacts DEF TypeInv, TypeOK
  <2>1. CASE WorkerStep
    <3>1. CASE EnsureCreate \/ EnsureUpdate
      <4>1. CM(cm.owners \cup {cr}).owners = cm.owners \cup {cr}
        BY <2>0, ConfigMapFacts
      <4> QED BY <2>0, <3>1, <4>1, Ensures
    <3>2. CASE ReleaseDelete \/ ReleaseUpdate
      <4>1. CM(cm.owners \ {cr}).owners = cm.owners \ {cr}
        BY <2>0, ConfigMapFacts
      <4>2. pc = "releaseDelete"
        BY <2>0, <3>2, <4>1, Releases
      <4> QED BY <4>2 DEF ShareInv, PlaceInv
    <3>3. CASE \/ \E d \in CRs : Reconcile(d)
               \/ EnsureRead \/ LookUpJob \/ CreateJob \/ Complete \/ CleanupGet
               \/ DeleteJob \/ ReleaseRead \/ RemoveFinalizer
      <4>1. cm' = cm
        BY <3>3, Fetches, EnsureReads, JobSteps, ReleaseReads, Removes
      <4> QED BY <2>0, <4>1
    <3> QED BY <2>1, <3>1, <3>2, <3>3 DEF WorkerStep
  <2>2. CASE CollectCM
    BY <2>0, <2>2, Collects DEF Gone
  <2>3. CASE Restart \/ SyncCM \/ \E d \in CRs : Outside(d)
    <3>1. cm' = cm
      BY <2>3, OutsideSteps DEF Restart, SyncCM
    <3> QED BY <2>0, <3>1
  <2> QED BY <2>1, <2>2, <2>3 DEF Next, ClusterStep, Outside
<1> QED BY <1>1, Shared, PTL DEF Spec, KeepsOtherOwners

(***************************************************************************)
(* Nobody is forgotten.                                                    *)
(***************************************************************************)

Ensuring  == {"ensureRead", "ensureCreate", "ensureUpdate", "lookup", "createJob"}
Finishing == {"complete", "cleanupGet", "deleteJob"}
Over      == {"finished", "kept", "terminating", "cleared"}

\* A MustGather deleted after its instance was fetched is queued again, and a
\* deleted one is not one that was never created.
RememberInv ==
    /\ NobodyForgotten
    /\ pc # "idle" /\ cr \in deleting /\ ~dying => cr \in queued
    /\ \A c \in deleting : phase[c] # "none"
    /\ pc = "removeFinalizer" => dying
    /\ pc \in Ensuring => ~dying
    /\ pc \in Finishing => dying \/ phase[cr] \in Over
    /\ pc \in Releasing => phase[cr] \in {"terminating", "cleared"}

\* The steps of a pass that end in an error, or go on and keep the phases.
LEMMA Remembers ==
    ASSUME TypeInv, RememberInv, Same, pc # "idle", phase' = phase,
           \/ Retries
           \/ /\ pc' # "idle" /\ queued' = queued /\ pc' # "removeFinalizer"
              /\ pc' \in Releasing => pc \in Releasing
              /\ pc' \in Finishing => pc \in Finishing \/ phase[cr] \in Over
              /\ pc' \in Ensuring => pc \in Ensuring
    PROVE  RememberInv'
<1>1. \A c \in CRs : Unfinished(c)' = Unfinished(c)
  BY DEF Unfinished, Same
<1> QED BY <1>1 DEF RememberInv, NobodyForgotten, Releasing, Finishing, Ensuring, Same, Retries

\* The steps that move the MustGather to p, and end in an error, go on, or end
\* the pass of a MustGather that waits for nothing more.
LEMMA MoveRemembers ==
    ASSUME TypeInv, RememberInv, Same, pc # "idle", NEW p, p # "none",
           phase' = [phase EXCEPT ![cr] = p],
           \/ Retries
           \/ /\ pc' # "idle" /\ queued' = queued /\ pc' # "removeFinalizer"
              /\ pc' \in Releasing => p \in {"terminating", "cleared"}
              /\ pc' \in Finishing => dying \/ p \in Over
              /\ pc' \in Ensuring => pc \in Ensuring
           \/ /\ pc' = "idle" /\ queued \subseteq queued'
              /\ \/ p = "gone" \/ cr \in queued
                 \/ p \notin {"new", "finished"} /\ cr \notin deleting
    PROVE  RememberInv'
<1>1. cr \in CRs /\ phase'[cr] = p /\ \A c \in CRs \ {cr} : phase'[c] = phase[c]
  BY DEF TypeInv, TypeOK
<1>2. deleting \subseteq CRs
  BY DEF TypeInv, TypeOK
<1>3. NobodyForgotten'
  BY <1>1 DEF RememberInv, NobodyForgotten, Unfinished, Same, Retries
<1> QED BY <1>1, <1>2, <1>3 DEF RememberInv, Releasing, Finishing, Ensuring, Same, Retries

\* The pass ends, or goes on to the finalizer, when the cleanup has succeeded.
LEMMA CleanupRemembers ==
    ASSUME TypeInv, RememberInv, Same, pc # "idle", phase' = phase, Goes(AfterCleanup),
           phase[cr] \notin {"new", "finished"} \/ dying
    PROVE  RememberInv'
<1>1. \A c \in CRs : Unfinished(c)' = Unfinished(c)
  BY DEF Unfinished, Same
<1>2. dying \in BOOLEAN /\ cr \in CRs
  BY DEF TypeInv, TypeOK
<1>3. CASE dying
  BY <1>1, <1>3 DEF RememberInv, NobodyForgotten, Same, Goes, AfterCleanup, Releasing, Finishing, Ensuring
<1>4. CASE ~dying
  <2>1. Unfinished(cr) => cr \in queued
    BY <1>4 DEF RememberInv, Unfinished
  <2>2. pc' = "idle" /\ queued' = queued
    BY <1>4 DEF Goes, AfterCleanup
  <2>3. NobodyForgotten'
    BY <1>1, <2>1, <2>2 DEF RememberInv, NobodyForgotten
  <2> QED BY <2>2, <2>3 DEF RememberInv, Same, Releasing, Finishing, Ensuring
<1> QED BY <1>2, <1>3, <1>4

\* The worker forgets nobody.
LEMMA WorkerRemembers == ASSUME TypeInv, RememberInv, WorkerStep PROVE RememberInv'
<1>0. cr \in CRs /\ phase \in [CRs -> Phases] /\ dying \in BOOLEAN
  BY DEF TypeInv, TypeOK
<1>1. CASE \E c \in CRs : Reconcile(c)
  <2>1. PICK c \in CRs : Reconcile(c)
    BY <1>1
  <2>2. /\ UNCHANGED <<phase, deleting>> /\ pc = "idle" /\ cr' = c
        /\ dying' <=> c \in deleting
    BY <2>1, Fetches
  <2>3. CASE queued' = queued /\ pc' = "idle"
    BY <2>2, <2>3 DEF RememberInv, NobodyForgotten, Unfinished, Releasing, Finishing, Ensuring
  <2>4. CASE queued' = queued \ {c} /\ phase[c] = "gone" /\ pc' = "idle"
    BY <2>2, <2>4 DEF RememberInv, NobodyForgotten, Unfinished, Releasing, Finishing, Ensuring
  <2>5. CASE queued' = queued \ {c} /\ c \notin deleting /\ pc' = "ensureRead"
    BY <2>2, <2>5 DEF RememberInv, NobodyForgotten, Unfinished, Releasing, Finishing, Ensuring
  <2>6. CASE /\ queued' = queued \ {c} /\ c \in deleting
             /\ pc' \in {"cleanupGet", "removeFinalizer"}
    BY <2>2, <2>6 DEF RememberInv, NobodyForgotten, Unfinished, Releasing, Finishing, Ensuring
  <2> QED BY <2>1, <2>3, <2>4, <2>5, <2>6, Fetches
<1>2. CASE EnsureRead
  <2>1. /\ Same /\ phase' = phase /\ pc = "ensureRead"
        /\ \/ Retries
           \/ queued' = queued /\ pc' \in {"ensureCreate", "ensureUpdate", "lookup"}
    BY <1>2, EnsureReads DEF EnsureRead, Goes
  <2> QED BY <2>1, Remembers DEF Releasing, Finishing, Ensuring
<1>3. CASE EnsureCreate \/ EnsureUpdate
  <2>1. /\ Same /\ phase' = phase /\ pc \in {"ensureCreate", "ensureUpdate"}
        /\ Retries \/ (queued' = queued /\ pc' = "lookup")
    BY <1>3, Ensures DEF Goes
  <2> QED BY <2>1, Remembers DEF Releasing, Finishing, Ensuring
<1>4. CASE LookUpJob \/ CreateJob \/ Complete \/ CleanupGet \/ DeleteJob
  <2>0. Same /\ pc # "idle"
    BY <1>4, JobSteps
  <2>1. PICK p : /\ phase' \in {phase, [phase EXCEPT ![cr] = p]}
                 /\ \/ p \in {"running", "rejected"} /\ pc = "createJob"
                    \/ p = phase[cr]
                    \/ p = "kept" /\ pc = "complete"
                    \/ p = "terminating" /\ pc = "deleteJob"
    BY <1>4, JobSteps
  <2>2. p # "none"
    BY <2>0, <2>1 DEF TypeInv, TypeOK
  <2>3. cr \in deleting /\ ~dying => cr \in queued
    BY <2>0 DEF RememberInv
  <2>4. CASE Retries
    BY <2>0, <2>1, <2>2, <2>4, Remembers, MoveRemembers
  <2>5. CASE pc = "lookup" /\ Goes("createJob")
    <3>1. phase' \in {phase, [phase EXCEPT ![cr] = phase[cr]]}
      BY <2>1, <2>5
    <3>2. phase' = phase
      BY <1>0, <3>1
    <3> QED BY <2>0, <2>5, <3>2, Remembers DEF Goes, Releasing, Finishing, Ensuring
  <2>6. CASE /\ pc = "lookup" /\ Goes("complete") /\ phase' = phase
             /\ phase[cr] \in {"finished", "kept", "terminating"}
    BY <2>0, <2>6, Remembers DEF Goes, Releasing, Ensuring, Over
  <2>7. CASE pc = "lookup" /\ Goes("idle") /\ phase' = phase /\ phase[cr] = "running"
    <3>1. cr \in deleting => cr \in queued
      BY <2>3, <2>7 DEF RememberInv, Ensuring
    <3>2. phase' = [phase EXCEPT ![cr] = "running"]
      BY <1>0, <2>7
    <3> QED BY <2>0, <2>7, <3>1, <3>2, MoveRemembers DEF Goes
  <2>8. CASE /\ pc = "createJob" /\ Goes("idle")
             /\ \E q \in {"running", "rejected"} : phase' = [phase EXCEPT ![cr] = q]
    <3>1. cr \in deleting => cr \in queued
      BY <2>3, <2>8 DEF RememberInv, Ensuring
    <3> QED BY <2>0, <2>8, <3>1, MoveRemembers DEF Goes
  <2>9. CASE pc = "complete" /\ Goes("cleanupGet")
    <3>1. dying \/ phase[cr] \in Over
      BY <2>9 DEF RememberInv, Finishing
    <3>2. CASE phase' = phase
      BY <2>0, <2>9, <3>2, Remembers DEF Goes, Releasing, Finishing, Ensuring
    <3>3. CASE phase' = [phase EXCEPT ![cr] = p]
      <4>1. dying \/ p \in Over
        BY <2>1, <2>9, <3>1 DEF Over
      <4> QED BY <2>0, <2>2, <2>9, <3>3, <4>1, MoveRemembers DEF Goes, Releasing, Ensuring
    <3> QED BY <2>1, <3>2, <3>3
  <2>10. CASE /\ pc = "complete" /\ Goes("idle") /\ phase' = [phase EXCEPT ![cr] = "kept"]
              /\ cr \notin deleting
    BY <2>0, <2>10, MoveRemembers DEF Goes
  <2>11. CASE pc = "cleanupGet" /\ Goes("deleteJob")
    <3>1. phase' \in {phase, [phase EXCEPT ![cr] = phase[cr]]}
      BY <2>1, <2>11
    <3>2. phase' = phase
      BY <1>0, <3>1
    <3> QED BY <2>0, <2>11, <3>2, Remembers DEF Goes, Releasing, Finishing, Ensuring
  <2>12. CASE /\ pc = "cleanupGet" /\ Goes(AfterCleanup) /\ phase' = phase
              /\ phase[cr] \notin {"finished", "kept", "terminating"}
    <3>1. phase[cr] \notin {"new", "finished"} \/ dying
      BY <2>12 DEF RememberInv, Finishing, Over
    <3> QED BY <2>0, <2>12, <3>1, CleanupRemembers
  <2>13. CASE /\ pc = "deleteJob" /\ Goes("releaseRead")
              /\ phase' = [phase EXCEPT ![cr] = "terminating"]
    BY <2>0, <2>13, MoveRemembers DEF Goes, Releasing, Finishing, Ensuring
  <2> QED
    BY <1>4, <2>4, <2>5, <2>6, <2>7, <2>8, <2>9, <2>10, <2>11, <2>12, <2>13, JobSteps
<1>5. CASE ReleaseRead
  <2>1. Same /\ phase' = phase /\ pc = "releaseRead"
    BY <1>5, ReleaseReads DEF ReleaseRead
  <2>2. phase[cr] \in {"terminating", "cleared"}
    BY <2>1 DEF RememberInv, Releasing
  <2>3. CASE Goes(AfterCleanup)
    BY <2>1, <2>2, <2>3, CleanupRemembers
  <2>4. CASE Retries \/ (queued' = queued /\ pc' \in {"releaseDelete", "releaseUpdate"})
    BY <2>1, <2>4, Remembers DEF Releasing, Finishing, Ensuring
  <2> QED BY <1>5, <2>3, <2>4, ReleaseReads DEF Goes
<1>6. CASE ReleaseDelete \/ ReleaseUpdate
  <2>1. Same /\ phase' = phase /\ pc \in {"releaseDelete", "releaseUpdate"}
    BY <1>6, Releases
  <2>2. phase[cr] \in {"terminating", "cleared"} /\ pc # "idle"
    BY <2>1 DEF RememberInv, Releasing
  <2>3. CASE Goes(AfterCleanup)
    BY <2>1, <2>2, <2>3, CleanupRemembers
  <2>4. CASE Retries
    BY <2>1, <2>2, <2>4, Remembers
  <2> QED BY <1>6, <2>3, <2>4, Releases
<1>7. CASE RemoveFinalizer
  <2>1. Same /\ pc # "idle" /\ pc' = "idle"
    BY <1>7, Removes
  <2>2. CASE phase' = [phase EXCEPT ![cr] = "gone"] /\ queued' \in {queued, queued \cup {cr}}
    <3>1. queued \subseteq queued'
      BY <2>2
    <3> QED BY <2>1, <2>2, <3>1, MoveRemembers
  <2>3. CASE phase' = phase /\ queued' = queued \cup {cr}
    BY <2>1, <2>3, Remembers DEF Retries
  <2> QED BY <1>7, <2>2, <2>3, Removes
<1> QED
  BY <1>1, <1>2, <1>3, <1>4, <1>5, <1>6, <1>7 DEF WorkerStep

\* Every event of the cluster queues the MustGather it is about, and a restart
\* queues all that exist.
LEMMA OthersRemember == ASSUME TypeInv, RememberInv, ClusterStep \/ Restart PROVE RememberInv'
<1>0. cr \in CRs /\ phase \in [CRs -> Phases] /\ deleting \subseteq CRs
  BY DEF TypeInv, TypeOK
<1>1. CASE Restart
  <2>1. /\ UNCHANGED <<phase, deleting, cr>> /\ pc' = "idle"
        /\ \A c \in CRs : phase[c] \notin {"none", "gone"} => c \in queued'
    BY <1>1 DEF Restart
  <2>2. \A c \in CRs : Unfinished(c)' => phase[c] \notin {"none", "gone"}
    BY <2>1 DEF RememberInv, Unfinished
  <2> QED BY <2>1, <2>2 DEF RememberInv, NobodyForgotten, Releasing, Finishing, Ensuring
<1>2. CASE SyncCM \/ CollectCM
  <2>1. UNCHANGED <<phase, deleting, queued, pc, cr, dying>>
    BY <1>2 DEF SyncCM, CollectCM, workerVars
  <2> QED BY <2>1 DEF RememberInv, NobodyForgotten, Unfinished
<1>3. CASE \E c \in CRs : Outside(c)
  <2>1. PICK c \in CRs : Outside(c)
    BY <1>3
  <2>2. UNCHANGED <<pc, cr, dying>> /\ queued \subseteq queued'
    BY <2>1, OutsideSteps
  <2>3. \A d \in CRs : \/ phase'[d] = phase[d]
                       \/ phase[d] = "none" /\ phase'[d] = "new" /\ d \in queued'
                       \/ phase[d] = "running" /\ phase'[d] = "finished" /\ d \in queued'
                       \/ phase[d] = "terminating" /\ phase'[d] = "cleared"
    BY <1>0, <2>1, OutsideSteps
  <2>4. \A d \in deleting' : d \in deleting \/ (d \in queued' /\ phase'[d] # "none")
    BY <1>0, <2>1, OutsideSteps
  <2>5. NobodyForgotten'
    BY <2>2, <2>3, <2>4 DEF RememberInv, NobodyForgotten, Unfinished
  <2>6. \A d \in deleting' : phase'[d] # "none"
    BY <1>0, <2>3, <2>4 DEF RememberInv
  <2>7. pc' # "idle" /\ cr' \in deleting' /\ ~dying' => cr' \in queued'
    BY <2>2, <2>4 DEF RememberInv
  <2>8. /\ pc' \in Finishing => dying' \/ phase'[cr'] \in Over
        /\ pc' \in Releasing => phase'[cr'] \in {"terminating", "cleared"}
    BY <1>0, <2>2, <2>3 DEF RememberInv, Over
  <2> QED BY <2>2, <2>5, <2>6, <2>7, <2>8 DEF RememberInv
<1> QED BY <1>1, <1>2, <1>3 DEF ClusterStep, Outside

\* Whatever the cached reads show, a MustGather that waits for its Job, for the
\* verdict on it or for its deletion is queued or in the worker's hand.
THEOREM ForgetsNobody == Spec => []NobodyForgotten
<1>1. Init => RememberInv
  BY DEF Init, RememberInv, NobodyForgotten, Unfinished, Releasing, Finishing, Ensuring
<1>2. TypeInv /\ RememberInv /\ [Next]_vars => RememberInv'
  <2> SUFFICES ASSUME TypeInv, RememberInv, [Next]_vars PROVE RememberInv'
    OBVIOUS
  <2>1. CASE UNCHANGED vars
    BY <2>1 DEF vars, RememberInv, NobodyForgotten, Unfinished
  <2> QED BY <2>1, WorkerRemembers, OthersRemember DEF Next
<1>3. RememberInv => NobodyForgotten
  BY DEF RememberInv
<1> QED BY <1>1, <1>2, <1>3, TypeInvariant, PTL DEF Spec
=============================================================================

# must-gather-operator: a TLA+ model

The operator runs one diagnostic collection ("must-gather") per `MustGather`
custom resource: it creates a Job of the same name, watches it, reports the
outcome in the status, removes the Job and its pods, and guards the deletion of
the resource with a finalizer. This directory models the operator's control
logic, checks it with TLC and proves its central safety properties with TLAPS.

## Inventory

| Part | State it keeps | Operations | Interacts with |
|---|---|---|---|
| Reconciler (`controllers/mustgather/mustgather_controller.go`) | none between passes; in a pass the copies `instance`, `existingJob`, `tmpJob` | `Reconcile`, `addFinalizer`, `handleJobCompletion`, `updateStatus`, `setValidationFailureStatus`, `cleanupMustGatherResources` | API server (cached reads, direct writes), work queue, metrics |
| Watches (`predicates.go`, `SetupWithManager`) | informer caches, work queue | event filters for MustGather, Job, ConfigMap | wakes the reconciler |
| API (`api/v1`, CRD) | MustGather: metadata, immutable spec, status | user create and delete; status subresource | everything |
| Trusted CA (same file) | a ConfigMap per namespace with one owner reference per MustGather | `ensureTrustedCAConfigMap`, `cleanupTrustedCAConfigMap` | shared by the MustGathers of a namespace, mounted by their pods, collected with its owners |
| SFTP validation (`validation.go`) | one connection, the attempt count | address, dial, CONNECT, handshake, subsystem, retry | called on the reconciler's only worker; the upload script connects to the same host later |
| Job template (`template.go`) | none (pure) | `getJobTemplate`: containers, volumes, mounts | read by the reconciler, lived in by the pod |
| Gather/upload pod (`template.go`, `constant.go`, `build/bin/upload`) | shared volume, shared process namespace | two containers, the second waits for the first with `pgrep` | Job status |
| Admission policy (`admission_policy.go`) | a policy and its binding | create or update at start | API server, operators of other releases, administrators |
| Start-up (`main.go`, `pkg/k8sutil`, `operator-lib/leader`) | leader lock, environment | `Become`, set-up, start manager | all |
| Metrics (`pkg/localmetrics`) | two counters | increment | reconciler |
| Utilities (`pkg/mustgatherutil`) | none | `RunObfuscate`, directory name | upload script, template |
| v1alpha1, generated code | none | | |

What is hard here, and hardly reached by the unit tests (they run `Reconcile`
once against a fake client):

* reads come from caches and writes go to the API server, so every decision may
  be taken on an old copy, including a copy of an object that was since deleted
  and created again under the same name;
* a pass is a sequence of requests; each may be refused (conflict), fail, or be
  applied with its answer lost, and the operator may die between any two;
* the Job controller, the garbage collector and the user act in between;
* the next pass depends on events that the predicates filter;
* MustGathers of one namespace share a ConfigMap;
* the SFTP login blocks the only worker;
* a replaced pod of a Job works in the directory its predecessor left on a PVC;
* several operator pods, of two releases, exist during a rollout; a pod can be
  evicted, or lose its node, while it holds the leader lock.

`PROJECT.json` lists each hazard at its line with the properties aimed at it.

## Modules

| Module | Models |
|---|---|
| `MustGatherCluster` | the MustGather and the Job of one name in the API server, their informer caches and event filters, the user, the Job controller, the garbage collector |
| `MustGatherReconciler` | `Reconcile` on its one worker: extends the cluster with one action per API request; the properties |
| `MustGatherReconcilerProofs` | theorems about it |
| `MustGatherLifecycle` | what the reconciler promises: the life of a MustGather and its gather, without caches, requests or retries |
| `MustGatherLifecycleProofs` | the ownership of Jobs; the reconciler implements the life cycle |
| `MustGatherOutcomeProofs` | the verdict |
| `MustGatherWakeProofs` | no wake-up is lost: deletions that were delivered, and what the operator may rest on; the metric and the pods of a finished Job |
| `OperatorStartup` | `main` up to `mgr.Start`, the leader lock and `ensureAdmissionPolicy`, for several pods |
| `OperatorStartupProofs` | theorems about it |
| `TrustedCA` | the ConfigMap shared by several MustGathers |
| `TrustedCAProofs` | theorems about it |
| `SFTPValidation` | `validateSFTPWithRetry` and what becomes of its result; the address it logs in to and the one the upload uses |
| `SFTPValidationProofs` | theorems about it |
| `JobTemplate` | the Job `getJobTemplate` builds from a spec: containers, volumes, mounts |
| `GatherPod` | the pods of one Job: extends `JobTemplate` with the two containers, the upload script, retries |
| `GatherDelivery` | what a gather Job promises about its upload |
| `GatherPodProofs` | theorems about `GatherPod` and `JobTemplate` |

The parameters are numbers, Booleans and sets of model values, so the `.cfg`
files instantiate the specifications directly, without MC modules.

### State and code

* `mg`, `job`, `pods` are the API server's objects; `mgCache`, `jobCache` the
  informer caches; `queued` the work queue, which holds a name once, also while
  it is processed. `inst` and `seen` are the worker's copies of the MustGather
  and the Job, `pc` the request it makes next (the labels are the operation
  names of the code).
* A resourceVersion is only ever compared for equality, so it is abstracted to
  "this copy is current": `mgCacheCur`, `instCur`. An update is accepted exactly
  from a current copy. Every accepted write makes all other copies stale; a
  status write that changes nothing also counts as a write, because
  `ManageSuccess` and `ManageError` put a new `lastTransitionTime` into it.
* A cache catches up in one step to the present state of an object (intermediate
  versions are skipped, which an informer may also do on a relist; skipping
  merges events but drops no last one). For the Job the first version seen
  matters, because Create events are filtered: through the watch it is the Job as
  created, with `Relists` it may be the Job as it is now. A Job that replaces
  another of its name is a Delete and a Create, neither of which passes.
* The MustGather's cache always lags. `CacheLag` says whether that of the Job (and
  of pods) does; the safety runs and all proofs have it lag, only the liveness run
  and two counterexamples, which do not need it, switch it off.
* `Put` and `PutStatus` are requests on the MustGather: accepted, refused, failed
  before or after being applied. The CRD requires `status.completed`, so a
  status without it is refused.
* `Preflight` stands for the reads between "Job not found" and the create:
  ImageStream, `OPERATOR_IMAGE`, ServiceAccount, Secret, SFTP. They change
  nothing, so their interleaving with other steps does not matter; what they can
  lead to (validation failure, `ManageError`, plain error) is kept.
* Deleting a `batch/v1` Job without a propagation policy orphans its pods: the
  Job stays with a deletion timestamp until the collector is done (external
  behaviour of Kubernetes, as is everything in `MustGatherCluster` but the event
  filters).

`TrustedCA` follows several MustGathers, retained or not, from the pass that gave
them their finalizer. A pass is again one action per request: the ConfigMap is
ensured, the Job looked up, created or completed, the cleanup deletes the Job and
releases the ConfigMap, and each request may fail before or after it was applied.
The cached ConfigMap may be any number of versions old. Stale reads of the
MustGather and of the Job are the subject of `MustGatherReconciler`; here only the
Job that a cleanup overlooks is kept, because that cleanup does not release the
ConfigMap. `misled` is a history: the MustGathers that an outdated copy of the
ConfigMap has wronged (it showed a reference that was gone, so that none was
added, or hid one from a cleanup that deleted the ConfigMap) and that have not
been ensured again since. In `SFTPValidation` an attempt is its stages;
messages are left out, errors are the classes `IsTransientError` tells apart, and
a host is the form it has: empty, a name or an IPv6 literal, with or without
brackets and port.

`MustGatherLifecycle` knows a MustGather (absent, protected by the finalizer,
being deleted, to be retained) and its gather (none, started, known to the
operator, stopping). The mapping in `MustGatherReconciler` (`Lifecycle`) reads the
MustGather and the Job in the API server: only a Job of the present MustGather
counts, it is known once the cache has it, unless the cleanup under way looked
before that (`Overlooked`), and it is stopping once it has been deleted. A
MustGather may go while its gather is started but not known, or is retained;
never while it is known and not stopped. Everything else the reconciler does is a
stutter.

In `OperatorStartup` a process is at the request it makes next, between
`leader.Become`, the set-up and the requests of `ensureAdmissionPolicy`;
`serving` is the running manager. `lock` is the pod that owns the ConfigMap
`must-gather-operator-lock`; `bad` are the pods that lack a variable `main`
requires, `notReady` those on a node whose Ready condition is not true (their
processes go on). The policy and the binding are abstracted to the release whose
spec they carry, or an administrator's. `os.Exit(1)` is `Exit`: the kubelet starts
the container again.

`GatherPod` stands on its own: it refines the two actions `PodFails` and
`PodSucceeds` of `MustGatherCluster` into what happens inside a pod. `spec` is
any spec the validation rules of the CRD admit, as far as it shapes the pod;
`JobTemplate` says which containers there are, what they mount and which
directories outlive the pod. `archive` is the file the script makes, with the pod
that made it: on a PVC a killed pod may leave it there, whole or cut off, in the
directory the next pod obfuscates (`Obfuscate` fails on one that is cut off).
`GatherDelivery` sees of this the attempts, the files sent and the outcome
(`Delivery`). `pod.gather` and `pod.upload` are
the two containers, `pod.upload` at the stage of the script that runs next.
`pod.visible` says whether `pgrep` would find a gather process. Time is not
modelled; instead `MaxHidden` bounds how many polls in a row (30 s apart) miss the
container of a default gather that has not exited: while its image is pulled, and
during the chown. For a custom command, which need not have a process named
gather, there is no such bound: the upload may start at any time. The contents of
the output are what there is of the last gather (`none`, `partial`, `cut`, which
is ended by the timeout and accepted by the code, or `full`) and `residue`: files
of earlier gathers among it. On a PVC they stay, because the next pod mounts the
same directory (`template.go:317-320`) and nothing empties it; they are
obfuscated, archived and sent with the rest. Nothing is said of how much of the
output an archive holds: tar runs with `--ignore-failed-read` (`upload:102`) and
leaves out what it cannot read.

## Runs

Bounds: two MustGathers per name are the least for delete-and-recreate, two
Jobs the least for a second gather or a foreign replacement, one fault and one
crash put a failure at every point of every pass; `BackoffLimit` is 0 where
retried pods do not matter and 1 where they do (the code uses 3; only the
comparison with the limit matters). `MaxErrors` saturates a counter that no
decision reads. `GatherPod` runs with 3 polls, of which 2 may miss, and a backoff
limit of 2 (the code: 5 and 3): three pods are enough for what one leaves to the
next and that one to a third, and the polls only matter by how they compare.
`OperatorStartup` runs with two pods, one of each release, which is a rollout, a
fault, an edit and a lost node. Deadlock is
not checked: with the budgets used up and the CR gone the system is at rest.

| Run | Shows |
|---|---|
| `reconciler_chaos` | types, `FinalizerInv`, `OwnerInv`, `JobCreatedUnderFinalizer` and `DeletesOnlyOwnJob` with stale caches, relists, recreated CRs and a user who deletes and replaces Jobs: the delete by name hits no Job of another MustGather |
| `reconciler_single` | for a name used once, with stale caches, retried pods, foreign edits, a fault and a crash: `CompletedMeansOwnGather`; `RestIsSettled`: with nothing queued and no event due, the MustGather waits for a gather that will still report, or has its verdict and no Job to clean up; `DeletionRemembered`: a deletion that was delivered is queued or worked on until the object is gone; `CountedGatherExists`; `NoPodOutlivesFinishedJob`; `ImplementsLifecycle` (the refinement) |
| `reconciler_live` | `DeletionCompletes`, `GatherConcludes`, `FinishedJobCleanedUp`, with a fault and a crash |
| `operator_startup` | types, and that no manager runs in a pod that lacks a variable `main` requires (`TypeOK`); `OneActive`, `EnsuredStays`, `StartRepairsPolicy`, `LeaderEmerges`: one operator at a time, a lock that is passed on, an admission policy that a start completes and nobody else reverts |
| `trustedca` | MustGathers share the ConfigMap through a lagging cache: a Job runs without it only where an outdated copy has misled the operator (`BundleWhileRunning`), no update takes the reference of another MustGather (`KeepsOtherOwners`), it is never left without an owner (`NeverUnowned`), nobody is forgotten on the way (`NobodyForgotten`) and every gather starts (`EveryGatherStarts`) |
| `gather_pod` | for every kind of spec, with failures of every stage, kills and retries: `TemplateFits`, `UploadAfterGather`, `OnlyCleanedIsSent`, `CompletedMeansDelivered`, `CustomFailuresPropagate`, `CleanedSurvives`, `ImplementsDelivery` (the refinement), `JobConcludes` |
| `sftp` | connections are closed, a shutdown is no verdict, the upload goes where the login was validated, the validation ends unless a peer hangs |

Five runs show the behaviour that breaks what the code or its documents say
(quoted in `PROJECT.json`, "findings"):

| Run | Behaviour |
|---|---|
| `reconciler_once` | a Job event queued during the cleanup starts a second gather of a finished CR: `Reconcile` does not look at `status.completed` |
| `reconciler_recreated` | a recreated CR is reported Completed from the Job of its predecessor |
| `trustedca_stale` | a cleanup that counts the owners in an outdated copy deletes the ConfigMap under another MustGather |
| `gather_status` | a failed default gather ends as a succeeded Job: the status is lost in the pipe to `tee` |
| `sftp_hang` | a silent peer holds the SSH handshake, and the only worker, for ever |

What the properties leave open, because the code does:

* The Job is read from the cache. A Job just created may not be in it; the create
  is then repeated, and the code takes its `AlreadyExists` for a creation and counts
  it again, where `docs/design/controller.md:22` says that the counter increments
  after a Job was created. `CountedGatherExists` says what remains: whenever the
  counter moves, there is a Job of this MustGather that is not on its way out.
* For the same reason the cleanup of a deleted MustGather may overlook a Job that
  was just created and remove the finalizer with the gather running (the garbage
  collector then takes it with its owner). `ImplementsLifecycle` allows it for
  such a Job and for no other.
* Between the ownership check and the delete by name a user may put a Job of his
  own in the place of the one that was checked. It is deleted;
  `DeletesOnlyOwnJob` is about Jobs of other MustGathers.
* In `TrustedCA` an outdated copy may hide an owner from the cleanup, which then
  deletes the ConfigMap, since the Delete has no precondition (`trustedca_stale`,
  against `docs/design/controller.md:21`), or show a reference that is gone, so
  that none is added. `BundleWhileRunning` and `KeepsOtherOwners` name these cases
  and no others.
* A cleanup that fails after the Job was deleted is repeated, but finds no Job and
  returns before it releases the ConfigMap (`mustgather_controller.go:497-505`); a
  retained MustGather never releases it. The reference stays until the MustGather
  is gone and the collector drops it, so no property says that a finished
  MustGather is no owner; `NeverUnowned` says that the ConfigMap is always
  somebody's to be collected with.
* In `GatherPod` the output of a custom command may be uploaded while it is being
  written, so `UploadAfterGather` and `CleanedSurvives` are about default commands.
  For those they need `MaxHidden < Polls`: an image that takes longer to pull than
  the upload waits breaks them. `CustomFailuresPropagate` needs no such bound: the
  pod with which a Job with a custom command succeeds has gathered everything, and
  what else lies in the output was left on a PVC by a pod that failed.
* Behind a proxy a failed put is not an error of the script, which
  `CompletedMeansDelivered` therefore excludes.

Some properties need the restriction their run makes. With `Relists = TRUE`,
`FinishedJobCleanedUp` fails (a Job that a relist first shows finished is a Create
event, which the predicate drops); `GatherConcludes` survives that, because the
first status update of a CR lacks the required field `completed` (a nil pointer
with `omitempty`, `api/v1/mustgather_types.go:285`), is refused by the API server
and forces another pass. `reconciler_live` runs with fresh Job reads for its size;
its properties also hold with `CacheLag = TRUE`, in a run of 1.8 million states
that takes more than five minutes. `RestIsSettled` needs a name used once: when a
CR is deleted while its gather runs, its Job stays for a while with a deletion
timestamp. A CR created again in that time takes it for its own running gather
and waits; when the Job goes, the Delete event is dropped (`predicates.go:27`), and
the new CR rests for ever without a gather. `CountedGatherExists` and
`NoPodOutlivesFinishedJob` also need a name used once, for the same confusion.
`NoPodOutlivesFinishedJob` is about
the cleanup of a finished gather. When a MustGather is deleted while its gather
runs, the Job controller may start a pod between the deletion of the pods and of
the Job; the Job is deleted without a propagation policy, which orphans that pod.
An empty host is passed through (`validation.go:230`) and cannot be dialled.
`UploadsWhereValidated` excludes a host with a port: the login is validated at that
port, but the script passes the host on to `sftp`, which takes what follows the
colon for a path and connects to port 22.

In `OperatorStartup`, `OneActive` and `EnsuredStays` are stated for the case that no
node was lost: `deleteLeader` takes the lock of a leader whose node does not
report while its process may go on, and it deletes the lock by name, whoever owns
it by then. `LeaderEmerges` assumes that the pods that run have a good environment:
`main` takes the lock before it reads its environment, so a pod that lacks a
variable fails again and again and keeps the lock. A policy that an administrator
changes stays changed until the next start (`StartRepairsPolicy` is about starts).

Fairness. `WF(ReconcileStep)`: the worker goroutine runs while its name is
queued, and controller-runtime requeues a name whose pass returned an error.
`WF(SyncMG)`, `WF(SyncJob)`: watches reconnect and deliver. `WF(StartPod)`,
`WF(PodFails \/ PodSucceeds)`, `WF(JobCompletes)`: the Job controller is a
controller like ours. That a gather pod ends is an assumption about the gather:
`mustGatherTimeout` defaults to no limit and is not applied to custom commands.
`WF(Collector)`: the garbage collector. A missing Secret is retried without end,
so it counts as a fault that passes. Nothing is assumed of the user or of crashes. In `TrustedCA`
every queued MustGather is taken in the end (`SF(Reconcile(c))`): the work queue
is served in order. In `SFTPValidation` only the worker's own steps are fair; a
peer that hangs disables the step that waits for it. In `OperatorStartup` a
process and the kubelet of a node that reports do their work, and the garbage
collector removes the lock of a pod that is gone; nothing is assumed of pods being
created, deleted or evicted, of nodes, or of administrators. In `GatherPod` both
containers run and the Job controller counts their ends; kills are not fair.

## Proofs

`MustGatherReconcilerProofs` proves for every value of the constants (every
backoff limit, any number of CRs, Jobs, faults, crashes and edits, with and
without stale caches, relists and foreign Jobs):

* `TypeCorrect`: `Spec => []TypeOK`. `TypeOK` is not inductive alone: that a
  Job's failure count stays within `backoffLimit + 1` needs "an active Job has
  not used up its retries", and that a status has a legal value needs "the Job
  the worker holds at `complete` has a verdict"; `TypeInv` adds both.
* `FinalizerInvariant`: `Spec => []FinalizerInv`. The argument: only
  `Reconcile` adds the finalizer, to an object not being deleted, and only
  `Reconcile` removes it, from one that is. So a copy, however old, that shows
  the finalizer and no deletion is a copy of the object that exists, unless the
  worker itself has removed the finalizer since; and it only does that from a
  current copy that shows the deletion, which the cache then has as well
  (`DeletionSeen`). This is `GuardedCopies`; `CurrentCopies` ties current copies
  to the object and `LabelInv` the worker's position to its copy.
* `JobsCreatedUnderFinalizer`: `Spec => JobCreatedUnderFinalizer`, from the
  invariant at the step that creates the Job.

`MustGatherLifecycleProofs` first reduces every step to its shape (`WorkerShape`,
`ClusterShape`: what it does to the MustGather, the Job, the worker's copy and
its place), so that the later invariants need not open the actions again. Then,
whatever the caches show:

* `OwnerInvariant`, `OwnJobDeleted`: the Job is deleted by name on the strength of
  a cached copy, so the copy must agree with the API server on the owner. UIDs
  only grow: the owner of the cached Job is never younger than that of a Job in
  the API server that has one, and neither is younger than the instance the worker
  holds. If the cached Job belongs to the instance, the Job does too, unless it is
  nobody's. This needs no restriction: a Job that a user puts there has no owner.
* `LifecycleImplemented`, if the operator alone creates Jobs of the name
  (`~ForeignJobs`): `Spec => ImplementsLifecycle`. `LifeInv` is what the mapping
  needs: a MustGather with a Job has the finalizer, and a deletion waits for it
  (`ObjectInv`); the copies agree on `retainResourcesOnCompletion` (`RetainInv`); at
  `removeFinalizer` the gather is retained, stopped, or not the Job that the
  cleanup read (`CleanupInv`); a cached Job of the present UID is a copy of it
  (`CacheInv`). With these, `removeFinalizer` is the life cycle's last step and not a
  MustGather that vanishes under a gather the operator knows of.

`MustGatherOutcomeProofs`, on top of that:

* `CompletedIsOwn`, for a name used once (`MaxUID = 1`), with stale caches and
  relists: every copy of a Job or a MustGather that shows success is backed by a
  gather of its owner (`VerdictInv`). `reconciler_recreated` shows why it needs
  the assumption.

`MustGatherWakeProofs` is about wake-ups. A pass that ends without an error and
without a later event would be the last, so what has to be shown is that the
operator never rests on unfinished work. As before, every step of the worker is
first reduced to its effect (`WorkerEffects`: it begins, fetches, protects,
advances, starts a gather, stops it, reports or releases).

* `DeletionKept`: `Spec => []DeletionRemembered`, without any restriction.
  `DelInv` says it of every delivered version, current or not (an edit by
  someone else makes the copy old while the pass goes on), and adds that a
  deletion waits for the finalizer and that a pass over a deleted MustGather is
  in its cleanup, from where it leaves with the object gone or with an error,
  which requeues the name.
* `GatherCounted`, `FinishedJobLeavesNoPod`, for a name used once (`MaxUID = 1`) of
  which nobody else creates Jobs (`~ForeignJobs`), with stale reads and relists.
  `JobsInv` ties the cached Job to the one that exists: a verdict in the cache is
  the Job's, and a Job is deleted only once the cache has it. So a Job met at
  `createJob`, which the cache did not show, is not terminating; and from
  `complete` to `deleteJob` the Job is over and starts no more pods.
* `RestSettled`: `Spec => []RestIsSettled` under the same assumptions, if moreover no
  relist skips the first version of a Job (`~Relists`). Three layers: `JobsInv`, by
  which the end of a Job reaches the cache as an Update, the only event that
  passes. `PromiseInv`: while
  the MustGather is wanted a Job without a verdict stays (`OpenInv`), adding the
  finalizer is an event, although the pass that adds it just returns (`FinInv`),
  and no Job belongs to a MustGather that names the operator's own service
  account (`OpInv`). `WakeInv` is the
  induction: a MustGather that was delivered is queued, in a pass at a label from
  which it will be looked after (`Busy`), or looked after, which is to wait for a
  Job (`Waiting`) or to have the verdict and nothing left (`Settled`).

`OperatorStartupProofs` proves for any set of pods: `StartupTypeCorrect`,
`OneActiveHolds` and `EnsuredStaysHolds`. `StartupTypeCorrect` includes that a process
has a pod and that one past the set-up has the environment `main` requires
(`Equipped`), which a restart, a rollout or an eviction does not change. A lock may be removed by the collector
or by another candidate, so `LeaderInv` adds that a running process has a pod
object, and that nobody is about to take a lock while all nodes have reported;
`PolicyInv` adds that only an active process has ensured something, so that the
next one has to start, and that is the only other writer.

`TrustedCAProofs` proves for any set of MustGathers and however old the cached
ConfigMap: `CATypeCorrect` (with it that a copy called current is one and that the
MustGather in the worker's hand exists, because nobody else removes its
finalizer), `BundleKept`, `AlwaysOwned`, `OthersKept` and `ForgetsNobody`. `ShareInv`:
whoever runs is an owner or was misled, and so is the instance at `lookup` and
`createJob`; the release is reached with the Job deleted; at `releaseDelete` the
copy shows no owner but the instance, at `releaseUpdate` another one, so that what
an accepted update writes is never empty. An update is accepted only from a
current copy and therefore takes no reference but the worker's own; the collector
only takes references of MustGathers that are gone. `RememberInv` adds that a
MustGather deleted while a pass that does not see the deletion is under way is
queued again.

`SFTPValidationProofs` proves for every retry limit: `TypeCorrect`,
`NoConnectionLeaks`, `RetriesCounted`, `ShutdownIsNoVerdict` by counting (until
the context is cancelled every earlier attempt has ended with a timeout,
`RetryInv`), and `ValidatedTarget` (`ReachInv`: whatever has got past the dial, or
past the proxy's CONNECT, is an address that can be reached). `ValidationRunsOut`:
every step of the worker lowers `StepsLeft`, which starts at `5 * MaxRetries + 1`,
and neither a shutdown nor a silent peer raises it.

`GatherPodProofs` proves for every poll count and backoff limit: `TypeCorrect`,
`TemplateCorrect` (for every spec the CRD admits, by cases on the spec),
`CleanOnly`, `NoUploadLost`, `CustomFailuresShow`, the refinement
`DeliveryImplemented`, and, for default commands and if `MaxHidden < Polls`,
`UploadWaits` and `CleanedCopyStays`.
The invariants build on each other: the upload's count never exceeds the number
of polls that have missed a default gather (`WaitInv`), an upload container that
ended well has delivered (`DeliveryInv`), and, because the upload of a default
gather only works on a finished output, every copy agrees with the output volume
while the pod lives (`CopiesAgree`). `StatusInv`, behind `CustomFailuresShow`: a custom
command that ended well has gathered everything, and only a pod that failed
leaves files among those of another. `DeliveryInv` is also what makes every pod that sends a file and
every Job that succeeds a step of `GatherDelivery`. `PodWorkRunsOut`, for every
`MaxHidden`: a step uses up one of `BackoffLimit + 1` attempts, or some of at most
`Polls + 8` steps of the pod, or is a poll (or a fork of a custom command) while
the gather has not ended. The count of the polls is no measure before that,
because a poll that sees the gather starts it again; it is one afterwards, because
then no process is seen (`SeenInv`).

The assumptions are those named in the modules: the bounds are natural numbers,
the switches Booleans, at least one attempt, and the restrictions named above.

Every safety property that a passing run checks is proved. Only model-checked are
the liveness properties, which are out of the prover's reach: `DeletionCompletes`,
`GatherConcludes`, `FinishedJobCleanedUp`, `StartRepairsPolicy`, `LeaderEmerges`,
`EveryGatherStarts`, `ValidationReturns`, `JobConcludes`. For six of them the
safety half is proved: that nothing unfinished is forgotten (`DeletionKept`,
`RestSettled`, `ForgetsNobody`), or that the steps taken lead somewhere
(`ValidationRunsOut`, `PodWorkRunsOut`). That a step which is possible is taken, and
that one is possible (ENABLED), stays with TLC.

## Not modelled

* What is only copied into the pod and decides nothing: tolerations, node
  affinity, labels, time filters, arguments, case number.
* The local run mode without a leader lock, and the metrics server, whose errors
  `main` only logs.
* `v1alpha1` (types only; the controller watches `v1`) and generated code.
* More than one worker: `MaxConcurrentReconciles` is left at its default of one,
  and `OneActive` is about there being one process.
* Finalizers other than the operator's, and a user who removes the operator's
  finalizer or edits the copied ConfigMap by hand.
* In the operator's own namespace the trusted CA functions return at once.

## Plan

The modules and refinements planned are done. What would extend the proofs:

* the safety half of `LeaderEmerges` and `StartRepairsPolicy` (with no process
  active, somebody is on the way to the lock; a start that went past the policy
  has repaired it);
* a measure for the passes of `Reconcile`, as there is for the validation and the
  pods: without faults and foreign edits a pass ends within a bounded number of
  requests;
* `RestIsSettled` with `Relists`, where `FinishedJobCleanedUp` fails and only the
  verdict, not the cleanup, is certain;
* the liveness arguments themselves, once the prover supports them.

The reconciler and the shared ConfigMap composed for two names in one namespace
are beyond TLC's reach in one run at the present grain (the parts meet at
`releaseCA`, whose outcomes the reconciler model keeps).

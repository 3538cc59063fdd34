----------------------------- MODULE GatherPod -----------------------------
(***************************************************************************)
(* The pods of one gather Job, as getJobTemplate builds them: the gather   *)
(* container runs the must-gather command, the upload container waits for  *)
(* it by looking for a process named gather in the shared process          *)
(* namespace, then runs build/bin/upload.  The Job controller starts a new *)
(* pod for one that failed, up to backoffLimit times.                      *)
(*                                                                         *)
(* What the gather collects is abstracted to how much of it is there and   *)
(* whether an earlier pod left files among it, the archive to whether it   *)
(* is whole, obfuscated, and whose it is: tar leaves out what it cannot    *)
(* read, so nothing is said of how much of the output it holds.            *)
(***************************************************************************)
EXTENDS JobTemplate

CONSTANTS
    Polls,          \* polls in a row that must miss before the upload starts (5)
    MaxHidden,      \* bound: polls in a row that miss a default gather not yet over
    BackoffLimit    \* backoffLimit of the Job (3)

ASSUME PollsAssumption   == Polls \in Nat \ {0}
ASSUME HiddenAssumption  == MaxHidden \in Nat
ASSUME BackoffAssumption == BackoffLimit \in Nat

VARIABLES
    spec,       \* the MustGather's spec and the operator's proxy setting
    pod,        \* the containers of the current pod
    tree,       \* what the output volume has of the gather
    cleaned,    \* what the upload directory has of its obfuscated copy
    archive,    \* the file CSP_FILE in the upload directory
    delivered,  \* the files the SFTP server has received, by the pod that sent them
    failed,     \* pods that failed
    job         \* the outcome of the Job

vars == <<spec, pod, tree, cleaned, archive, delivered, failed, job>>

\* Of the last gather: nothing, one under way or failed, one cut off by its
\* timeout, all of it; and among it, files of gathers before.
Progress == {"none", "partial", "cut", "full"}
Trees    == [gather : Progress, residue : BOOLEAN]

NoTree  == [gather |-> "none", residue |-> FALSE]
Part(t) == [t EXCEPT !.gather = "partial"]

\* The containers of a new pod.  An upload of a source does not wait.
NewPod(s) ==
    [gather   |-> IF HasObfuscateSource(s) THEN "absent" ELSE "waiting",
     visible  |-> FALSE,
     gatherOk |-> TRUE,
     upload   |-> IF ~ShouldAddUploadContainer(s) THEN "absent"
                  ELSE IF HasObfuscateSource(s) THEN "obfuscate" ELSE "polling",
     uploadOk |-> TRUE,
     count    |-> 0,
     hidden   |-> 0]

Pods ==
    [gather : {"absent", "waiting", "running", "chown", "exited"},
     visible : BOOLEAN, gatherOk : BOOLEAN,
     upload : {"absent", "polling", "obfuscate", "credentials", "archive",
               "send", "exited"},
     uploadOk : BOOLEAN, count : 0 .. Polls, hidden : 0 .. MaxHidden]

\* A file made by pod, whole or cut off.
Archives ==
    [state : {"none", "broken", "whole"}, clean : BOOLEAN, pod : 0 .. BackoffLimit]

NoArchive == [state |-> "none", clean |-> FALSE, pod |-> 0]

Broken(file) == [file EXCEPT !.state = "broken"]

Init ==
    /\ spec \in Specs
    /\ pod = NewPod(spec)
    /\ tree = [NoTree EXCEPT !.gather = IF HasObfuscateSource(spec) THEN "full" ELSE @]
    /\ cleaned = NoTree
    /\ archive = NoArchive
    /\ delivered = {}
    /\ failed = 0 /\ job = "running"

(***************************************************************************)
(* The gather container.                                                   *)
(***************************************************************************)

\* The default command has a process named gather from start to end; a custom
\* command need not.  Nothing empties the directory first.
GatherStarts ==
    /\ pod.gather = "waiting"
    /\ \E v \in IF spec.custom THEN BOOLEAN ELSE {TRUE} :
          pod' = [pod EXCEPT !.gather = "running", !.visible = v]
    /\ tree' = [gather |-> "partial", residue |-> tree # NoTree]
    /\ UNCHANGED <<spec, cleaned, archive, delivered, failed, job>>

\* A process of a custom command comes or goes.
CustomCommandForks ==
    /\ pod.gather = "running" /\ spec.custom
    /\ pod' = [pod EXCEPT !.visible = ~@]
    /\ UNCHANGED <<spec, tree, cleaned, archive, delivered, failed, job>>

\* Mutant: the status of the wrapped command is that of chown || true.
CustomStatusLost(s, result) == TRUE

\* The status the container exits with.  The default command ends in a pipe to
\* tee, whose status it takes for that of the gather, so neither a failure nor
\* a timeout shows; a custom command's own status is kept, also behind chown.
GatherStatus(s, result) == s.custom => result = "full"

\* The command ends by itself or, the default one, by its timeout.
GatherEnds ==
    /\ pod.gather = "running"
    /\ \E result \in {"full", "partial"} \cup IF spec.custom THEN {} ELSE {"cut"} :
          /\ tree' = [tree EXCEPT !.gather = result]
          /\ pod' = [pod EXCEPT
                        !.gather   = IF ShouldAppendObfuscateChown(spec)
                                     THEN "chown" ELSE "exited",
                        !.visible  = FALSE,
                        !.gatherOk = GatherStatus(spec, result)]
    /\ UNCHANGED <<spec, cleaned, archive, delivered, failed, job>>

ChownEnds ==
    /\ pod.gather = "chown"
    /\ pod' = [pod EXCEPT !.gather = "exited"]
    /\ UNCHANGED <<spec, tree, cleaned, archive, delivered, failed, job>>

(***************************************************************************)
(* The upload container: the wait, then the script.                        *)
(***************************************************************************)

\* Mutants: count is not reset, or reset at every poll.
CountKept(seen) == IF seen \/ pod.count = Polls THEN pod.count ELSE pod.count + 1
CountLost(seen) == 0

\* Polls in a row that found no gather.
Count(seen) == IF seen THEN 0 ELSE pod.count + 1

\* Mutant: the loop does not end after Polls misses.
PollEndless ==
    /\ pod.upload = "polling"
    /\ ~pod.visible
    /\ pod' = [pod EXCEPT !.count = Count(FALSE)]
    /\ UNCHANGED <<spec, tree, cleaned, archive, delivered, failed, job>>

\* One round of the loop.  While a default gather is not over only MaxHidden
\* rounds in a row miss it; a custom command may have no process named gather.
Poll ==
    /\ pod.upload = "polling" /\ pod.count < Polls
    /\ \/ /\ pod.visible
          /\ pod' = [pod EXCEPT !.count = Count(TRUE), !.hidden = 0]
       \/ /\ ~pod.visible /\ pod.gather # "exited"
          /\ ~spec.custom /\ pod.hidden < MaxHidden
          /\ pod' = [pod EXCEPT !.count = Count(FALSE), !.hidden = @ + 1]
       \/ /\ ~pod.visible /\ (pod.gather = "exited" \/ spec.custom)
          /\ pod' = [pod EXCEPT !.count = Count(FALSE)]
    /\ UNCHANGED <<spec, tree, cleaned, archive, delivered, failed, job>>

\* Where the script goes on, or with which status it exits.
Continues(label) == pod' = [pod EXCEPT !.upload = label]
Exits(ok)        == pod' = [pod EXCEPT !.upload = "exited", !.uploadOk = ok]

StartUpload ==
    /\ pod.upload = "polling" /\ pod.count = Polls
    /\ Continues(IF IsObfuscateEnabled(spec) THEN "obfuscate" ELSE "credentials")
    /\ UNCHANGED <<spec, tree, cleaned, archive, delivered, failed, job>>

\* What the upload container finds in must_gather_output.
Input == IF SeesBundle(spec) THEN tree ELSE NoTree

\* Can must-gather-operator obfuscate end well?  It cannot read an archive that
\* is cut off, which an earlier pod may have left where the upload directory is
\* that of the bundle.
RunObfuscate == UploadsInBundle(spec) => archive.state # "broken"

\* It empties the directory for the obfuscated copy, then fills it.
Obfuscate ==
    /\ pod.upload = "obfuscate"
    /\ \/ RunObfuscate /\ Continues("credentials") /\ cleaned' = Input
       \/ Exits(FALSE) /\ cleaned' \in {cleaned, Part(Input)}
    /\ UNCHANGED <<spec, tree, archive, delivered, failed, job>>

\* The case ID is set with an SFTP target; the Secret may have been emptied
\* since the operator validated it.  Without a target only obfuscation is asked.
CheckCredentials ==
    /\ pod.upload = "credentials"
    /\ \/ HasCredentials(spec) /\ Continues("archive")
       \/ HasCredentials(spec) /\ Exits(FALSE)
       \/ ~HasCredentials(spec) /\ Exits(TRUE)
    /\ UNCHANGED <<spec, tree, cleaned, archive, delivered, failed, job>>

\* Mutant: the archive is made from the gather's own output.
ArchivedRaw == [state |-> "whole", clean |-> FALSE, pod |-> failed]

\* The archive of must_gather_output, which is the obfuscated copy if there is
\* one; of the files that tar could read.
Archived == [state |-> "whole", clean |-> IsObfuscateEnabled(spec), pod |-> failed]

\* tar fails the script: before it writes, because the volume is full, or at
\* the end because a file changed as it was read.
Archive ==
    /\ pod.upload = "archive"
    /\ \/ Continues("send") /\ archive' = Archived
       \/ Exits(FALSE) /\ archive' \in {archive, Archived, Broken(Archived)}
    /\ UNCHANGED <<spec, tree, cleaned, delivered, failed, job>>

Received(file) == delivered \cup {[pod |-> failed, archive |-> file]}

\* Mutants: the put is tried again, or its failure ignored.
SendAgain ==
    /\ pod.upload = "send"
    /\ \/ Exits(TRUE) /\ delivered' = Received(archive) /\ archive' = NoArchive
       \/ /\ Continues("send") /\ delivered' \in {delivered, Received(Broken(archive))}
          /\ UNCHANGED archive
    /\ UNCHANGED <<spec, tree, cleaned, failed, job>>
SendIgnored ==
    /\ pod.upload = "send"
    /\ Exits(TRUE) /\ archive' = NoArchive
    /\ delivered' \in {Received(archive), Received(Broken(archive)), delivered}
    /\ UNCHANGED <<spec, tree, cleaned, failed, job>>

\* sftp: the file arrives and is removed here, the login fails, or the put fails
\* at some point.  A failed put is the status of sftp only in batch mode, which
\* is not used behind a proxy.
Send ==
    /\ pod.upload = "send"
    /\ \/ Exits(TRUE) /\ delivered' = Received(archive) /\ archive' = NoArchive
       \/ /\ Exits(FALSE) /\ delivered' \in {delivered, Received(Broken(archive))}
          /\ UNCHANGED archive
       \/ /\ HasProxy(spec) /\ Exits(TRUE)
          /\ delivered' \in {delivered, Received(Broken(archive))}
          /\ archive' = NoArchive
    /\ UNCHANGED <<spec, tree, cleaned, failed, job>>

(***************************************************************************)
(* The pod and the Job.                                                    *)
(***************************************************************************)
Ended(p) == p.gather \in {"absent", "exited"} /\ p.upload \in {"absent", "exited"}

\* The pod is evicted or its node is lost, in the middle of what it does.
PodKilled ==
    /\ job = "running" /\ ~Ended(pod)
    /\ pod' = [pod EXCEPT
                  !.gather   = IF @ = "absent" THEN @ ELSE "exited",
                  !.upload   = IF @ = "absent" THEN @ ELSE "exited",
                  !.visible  = FALSE,
                  !.gatherOk = (@ /\ pod.gather \in {"absent", "exited"}),
                  !.uploadOk = (@ /\ pod.upload \in {"absent", "exited"})]
    /\ \/ UNCHANGED <<cleaned, archive, delivered>>
       \/ /\ pod.upload = "obfuscate"
          /\ cleaned' = Part(Input) /\ UNCHANGED <<archive, delivered>>
       \/ /\ pod.upload = "archive"
          /\ archive' = Broken(Archived) /\ UNCHANGED <<cleaned, delivered>>
       \/ /\ pod.upload = "send"
          /\ delivered' \in {Received(archive), Received(Broken(archive))}
          /\ UNCHANGED <<cleaned, archive>>
    /\ UNCHANGED <<spec, tree, failed, job>>

Succeeded(p) == p.gatherOk /\ p.uploadOk

\* The Job controller counts a pod whose containers have all ended; what is not
\* on a PVC goes with the pod.
PodEnds ==
    /\ job = "running" /\ Ended(pod)
    /\ \/ /\ Succeeded(pod)
          /\ job' = "Completed"
          /\ UNCHANGED <<pod, failed>>
       \/ /\ ~Succeeded(pod) /\ failed < BackoffLimit
          /\ pod' = NewPod(spec) /\ failed' = failed + 1
          /\ UNCHANGED job
       \/ /\ ~Succeeded(pod) /\ failed = BackoffLimit
          /\ failed' = failed + 1 /\ job' = "Failed"
          /\ UNCHANGED pod
    /\ tree' = IF OutputPersists(spec) THEN tree ELSE NoTree
    /\ cleaned' = IF UploadPersists(spec) THEN cleaned ELSE NoTree
    /\ archive' = IF UploadPersists(spec) THEN archive ELSE NoArchive
    /\ UNCHANGED <<spec, delivered>>

GatherStep == GatherStarts \/ GatherEnds \/ ChownEnds
UploadStep ==
    Poll \/ StartUpload \/ Obfuscate \/ CheckCredentials \/ Archive \/ Send

Next == GatherStep \/ CustomCommandForks \/ UploadStep \/ PodKilled \/ PodEnds

Spec == Init /\ [][Next]_vars

\* Both containers run, the gather is assumed to end, the Job controller counts.
FairSpec == Spec /\ WF_vars(GatherStep) /\ WF_vars(UploadStep) /\ WF_vars(PodEnds)

(***************************************************************************)
(* Properties.                                                             *)
(***************************************************************************)

\* Every variable keeps its type.
TypeOK ==
    /\ spec \in Specs /\ pod \in Pods
    /\ tree \in Trees /\ cleaned \in Trees /\ archive \in Archives
    /\ delivered \subseteq [pod : 0 .. BackoffLimit, archive : Archives]
    /\ failed \in 0 .. BackoffLimit + 1
    /\ job \in {"running", "Completed", "Failed"}

\* The script works on the output of a default gather only once its container
\* has exited, its chown included, although it sees no more of it than process
\* names.  Holds while fewer polls in a row miss a gather that is not over than
\* the loop asks for, which covers the image pull and the chown.
UploadAfterGather ==
    ~spec.custom /\ pod.upload \in {"obfuscate", "credentials", "archive", "send"}
        => pod.gather \in {"absent", "exited"}

\* Of a MustGather with obfuscation nothing but an obfuscated copy is ever
\* sent, whatever fails and however often the pod is started again.
OnlyCleanedIsSent ==
    IsObfuscateEnabled(spec) => \A d \in delivered : d.archive.clean

\* A file that is whole and was made by the pod that sent it.
Genuine(d) == d.archive.state = "whole" /\ d.archive.pod = d.pod

\* A Job with an upload target succeeds only with a pod that has delivered an
\* archive of its own, and all of that file: the failure of the wait, the
\* obfuscation, the credentials or sftp is not lost, nor is that of tar, files it
\* cannot read excepted; and nothing that an earlier pod left in the upload
\* directory is sent instead.  Not so behind a proxy, where the failure of the
\* put is lost.
CompletedMeansDelivered ==
    job = "Completed" /\ spec.sftp /\ ~spec.proxy
        => \E d \in delivered : d.pod = failed /\ Genuine(d)

\* The failure of a custom gather command propagates to the Job, through the
\* wrapper that obfuscation puts around it, whether or not the upload waited for
\* the command: the pod with which a Job succeeds has gathered everything.  What
\* lies among it was left on a PVC by a pod that failed.
CustomFailuresPropagate ==
    [][job' = "Completed" /\ spec.custom =>
          /\ tree.gather = "full"
          /\ tree.residue => OutputPersists(spec) /\ failed > 0]_vars

\* Where the output is kept, it is not that of a gather that failed.
ResultIsWhole == OutputPersists(spec) => tree.gather \in {"cut", "full"}

\* Behind the suffix that obfuscation appends to the gather command the
\* container exits with the status of the gather, so that failures propagate.
GatherFailuresPropagate ==
    job = "Completed" /\ ShouldAppendObfuscateChown(spec) => ResultIsWhole

\* The template fits together: every mount names a volume of the pod, no two
\* mounts of a container share a path, the user's source is mounted for reading
\* only and in one place, and the configuration the script is told to use is
\* there.
TemplateFits ==
    \A c \in {"gather", "upload"} :
        \A m \in Mounts(spec)[c] :
            /\ m.name \in VolumeNames(spec)
            /\ \A n \in Mounts(spec)[c] : m.path = n.path => m = n
            /\ VolumeSource(spec, m.name) = "source claim" =>
                  m.readOnly /\ m.path = "/must-gather"
            /\ c = "upload" /\ HasObfuscateConfig(spec) =>
                  \E n \in Mounts(spec)[c] : n.name = "obfuscate-config"

\* A default gather that is obfuscated on a PVC, with or without an upload,
\* leaves the obfuscated copy of the whole output there for the user, what
\* earlier pods left among it included.
CleanedSurvives ==
    job = "Completed" /\ ShouldAppendObfuscateChown(spec) /\ spec.pvc /\ ~spec.custom
        => cleaned = tree

\* The Job as its user sees it.
Delivery == INSTANCE GatherDelivery WITH
    request <- [clean   |-> IsObfuscateEnabled(spec),
                deliver |-> spec.sftp /\ ~spec.proxy],
    attempt <- failed,
    sent    <- {[attempt |-> d.pod, clean |-> d.archive.clean,
                 genuine |-> Genuine(d)] : d \in delivered},
    outcome <- job

\* The pods implement that Job, whatever is killed and whatever is left on a
\* PVC: a pod sends at most one file, none that was to be obfuscated and is
\* not, nothing is sent once the Job is over, and every attempt is counted.
ImplementsDelivery == Delivery!Spec

\* The Job comes to an end if every gather does: the wait of the upload does
\* not go on for ever, and failed pods are replaced a bounded number of times.
JobConcludes == <>(job # "running")
=============================================================================

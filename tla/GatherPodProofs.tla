-------------------------- MODULE GatherPodProofs --------------------------
(***************************************************************************)
(* Theorems about GatherPod, for every number of polls and every backoff   *)
(* limit.  Those about the order of a default gather and the upload assume *)
(* that fewer polls in a row miss a gather that is not over than the loop  *)
(* asks for; nothing is assumed of a custom command.                       *)
(***************************************************************************)
EXTENDS GatherPod, TLAPS

(***************************************************************************)
(* The inductive invariants.                                               *)
(***************************************************************************)

\* The upload's count never runs ahead of the polls that missed a default
\* gather, so the upload goes past its wait only after the gather container.
PastWait == {"obfuscate", "credentials", "archive", "send", "exited"}

WaitInv ==
    /\ pod.visible => pod.gather = "running"
    /\ ~spec.custom /\ pod.upload = "polling" /\ pod.gather # "exited"
          => pod.count <= pod.hidden
    /\ ~spec.custom /\ pod.upload \in PastWait => pod.gather \in {"absent", "exited"}
    /\ pod.gather = "absent" => HasObfuscateSource(spec)

\* The upload container of the current pod has ended well.
Uploaded == pod.upload = "exited" /\ pod.uploadOk

\* What is sent is what this pod has archived, a pod sends nothing twice, and an
\* upload that ends well has sent it.
DeliveryInv ==
    /\ pod.upload = "send" =>
          /\ IsObfuscateEnabled(spec) => archive.clean
          /\ archive.state = "whole" /\ archive.pod = failed
    /\ OnlyCleanedIsSent
    /\ \A d \in delivered :
          d.pod <= failed /\ (d.pod = failed => pod.upload = "exited")
    /\ spec.sftp => pod.upload # "absent"
    /\ job # "Failed" /\ spec.sftp /\ ~spec.proxy /\ Uploaded
          => \E d \in delivered : d.pod = failed /\ Genuine(d)
    /\ job = "Completed" => Ended(pod) /\ pod.uploadOk

\* While the pod of a default gather lives its obfuscated copy agrees with the
\* output volume.
CopiesAgree ==
    /\ ~spec.custom /\ IsObfuscateEnabled(spec)
          => /\ Uploaded => cleaned = tree
             /\ pod.upload \in {"credentials", "archive", "send"} => cleaned = tree
    /\ ShouldAddUploadContainer(spec) => pod.upload # "absent"

ResultInv ==
    /\ job = "running" => CopiesAgree
    /\ CleanedSurvives

\* The status of a gather container tells of its custom command, and only a pod
\* that failed leaves its output among that of another.
StatusInv ==
    /\ spec.custom => pod.gather # "absent"
    /\ spec.custom /\ job = "running" =>
          (pod.gather \in {"chown", "exited"} /\ pod.gatherOk => tree.gather = "full")
    /\ tree.residue \/ (pod.gather = "waiting" /\ tree # NoTree)
          => OutputPersists(spec) /\ failed > 0

\* Expanding a step only needs the actions themselves.
LEMMA NextCases ==
    Next <=> \/ GatherStarts \/ CustomCommandForks \/ GatherEnds \/ ChownEnds
             \/ Poll \/ StartUpload \/ Obfuscate \/ CheckCredentials
             \/ Archive \/ Send \/ PodKilled \/ PodEnds
BY DEF Next, GatherStep, UploadStep

(***************************************************************************)
(* The template: where the containers read and write.                      *)
(***************************************************************************)

\* The upload container finds the bundle that the gather container or the user
\* has put there; its own directory is kept exactly if a gather is obfuscated on
\* a PVC, and is then that of the bundle.
LEMMA MountsFit ==
    ASSUME NEW s \in Specs
    PROVE  /\ SeesBundle(s)
           /\ UploadPersists(s) <=> ShouldAppendObfuscateChown(s) /\ s.pvc
           /\ UploadsInBundle(s) <=> ShouldAppendObfuscateChown(s) /\ s.pvc
           /\ OutputPersists(s) <=> s.pvc \/ HasObfuscateSource(s)
BY DEF Specs, SeesBundle, UploadPersists, UploadsInBundle, OutputPersists, Directory,
       BundleDirectory, OutputMount, UploadMount, GatherOutputMount, Mount,
       OutputSubPath, OutputVolume, VolumeSource, HasObfuscateSource,
       IsObfuscateEnabled, ShouldAppendObfuscateChown

\* Mounts, volumes and environment of every template fit together.
LEMMA TemplatesFit == spec \in Specs => TemplateFits
<1>. SUFFICES ASSUME spec \in Specs PROVE TemplateFits
  OBVIOUS
<1>. DEFINE certs == Mount("/etc/pki/tls/certs", "trusted-ca", "", TRUE)
            config == Mount("/etc/must-gather-clean/custom-config/config.yaml",
                            "obfuscate-config", "config.yaml", TRUE)
<1>1. /\ GatherOutputMount(spec).path = "/must-gather"
      /\ GatherOutputMount(spec).name = "must-gather-output"
  BY DEF GatherOutputMount, Mount
<1>2. /\ OutputMount(spec).path = "/must-gather"
      /\ OutputMount(spec).name = "must-gather-output"
      /\ HasObfuscateSource(spec) => OutputMount(spec).readOnly
  BY DEF OutputMount, Mount
<1>3. /\ UploadMount(spec).path = "/must-gather-upload"
      /\ UploadMount(spec).name \in {"must-gather-output", "must-gather-upload"}
      /\ HasObfuscateSource(spec) => UploadMount(spec).name = "must-gather-upload"
  BY DEF UploadMount, Mount
<1>4. /\ certs.path = "/etc/pki/tls/certs" /\ certs.name = "trusted-ca"
      /\ config.path = "/etc/must-gather-clean/custom-config/config.yaml"
      /\ config.name = "obfuscate-config"
  BY DEF Mount
<1>5. /\ TrustedCAMounts(spec) = IF spec.trustedCA THEN {certs} ELSE {}
      /\ ConfigMounts(spec) = IF spec.configRef THEN {config} ELSE {}
  BY DEF TrustedCAMounts, ConfigMounts
<1>. HIDE DEF certs, config
<1>6. /\ \A m \in Mounts(spec).gather :
            /\ ~HasObfuscateSource(spec)
            /\ m = GatherOutputMount(spec) \/ (spec.trustedCA /\ m = certs)
      /\ \A m \in Mounts(spec).upload :
            \/ m = OutputMount(spec) \/ m = UploadMount(spec)
            \/ (spec.trustedCA /\ m = certs) \/ (spec.configRef /\ m = config)
      /\ spec.configRef /\ Mounts(spec).upload # {} => config \in Mounts(spec).upload
  <2>1. \/ Mounts(spec).gather = {}
        \/ /\ ~HasObfuscateSource(spec)
           /\ Mounts(spec).gather = {GatherOutputMount(spec)} \cup TrustedCAMounts(spec)
    BY DEF Mounts
  <2>2. \/ Mounts(spec).upload = {}
        \/ Mounts(spec).upload = {OutputMount(spec), UploadMount(spec)}
                          \cup TrustedCAMounts(spec) \cup ConfigMounts(spec)
    BY DEF Mounts
  <2>3. \A m : /\ m \in TrustedCAMounts(spec) => spec.trustedCA /\ m = certs
               /\ m \in ConfigMounts(spec) => spec.configRef /\ m = config
    BY <1>5
  <2>4. spec.configRef => config \in ConfigMounts(spec)
    BY <1>5
  <2>5. ASSUME NEW m \in Mounts(spec).gather
        PROVE  /\ ~HasObfuscateSource(spec)
               /\ m = GatherOutputMount(spec) \/ (spec.trustedCA /\ m = certs)
    BY <2>1, <2>3
  <2>6. ASSUME NEW m \in Mounts(spec).upload
        PROVE  \/ m = OutputMount(spec) \/ m = UploadMount(spec)
               \/ (spec.trustedCA /\ m = certs) \/ (spec.configRef /\ m = config)
    <3>1. m \in {OutputMount(spec), UploadMount(spec)}
                   \cup TrustedCAMounts(spec) \cup ConfigMounts(spec)
      BY <2>2, Zenon
    <3>. QED
      BY <2>3, <3>1, Zenon
  <2>7. ASSUME spec.configRef, Mounts(spec).upload # {}
        PROVE  config \in Mounts(spec).upload
    <3>1. ConfigMounts(spec) \subseteq Mounts(spec).upload
      BY <2>2, <2>7, Zenon
    <3>. QED
      BY <2>4, <2>7, <3>1, Zenon
  <2>. QED
    BY <2>5, <2>6, <2>7
<1>7. \A name : VolumeSource(spec, name) = "source claim" =>
                   name = "must-gather-output" /\ HasObfuscateSource(spec)
  BY DEF VolumeSource, OutputVolume
<1>8. ASSUME NEW m \in Mounts(spec).gather \cup Mounts(spec).upload
      PROVE  m.name \in VolumeNames(spec)
  BY <1>1, <1>2, <1>3, <1>4, <1>6 DEF VolumeNames
<1>9. ASSUME NEW c \in {"gather", "upload"}, NEW m \in Mounts(spec)[c],
             NEW n \in Mounts(spec)[c], m.path = n.path
      PROVE  m = n
  <2>1. CASE c = "gather"
    <3>1. {m, n} \subseteq {GatherOutputMount(spec), certs}
      BY <1>6, <2>1
    <3>. QED
      BY <1>1, <1>4, <1>9, <3>1
  <2>2. CASE c = "upload"
    <3>1. {m, n} \subseteq {OutputMount(spec), UploadMount(spec), certs, config}
      BY <1>6, <2>2
    <3>. QED
      BY <1>2, <1>3, <1>4, <1>9, <3>1
  <2>. QED
    BY <2>1, <2>2
<1>10. ASSUME NEW c \in {"gather", "upload"}, NEW m \in Mounts(spec)[c],
              VolumeSource(spec, m.name) = "source claim"
       PROVE  m.readOnly /\ m.path = "/must-gather"
  <2>1. m.name = "must-gather-output" /\ HasObfuscateSource(spec)
    BY <1>7, <1>10
  <2>2. c = "upload"
    BY <1>6, <2>1
  <2>3. m \in {OutputMount(spec), UploadMount(spec), certs, config}
    BY <1>6, <2>2
  <2>. QED
    BY <1>2, <1>3, <1>4, <2>1, <2>3
<1>11. Mounts(spec).upload # {} /\ HasObfuscateConfig(spec)
          => \E n \in Mounts(spec).upload : n.name = "obfuscate-config"
  BY <1>4, <1>6 DEF HasObfuscateConfig
<1>. QED
  BY <1>8, <1>9, <1>10, <1>11 DEF TemplateFits

\* So the script's input is the bundle.
LEMMA InputIsTree == TypeOK => Input = tree
BY MountsFit DEF TypeOK, Input

(***************************************************************************)
(* Types.                                                                  *)
(***************************************************************************)

\* A new pod has the type of a pod.
LEMMA NewPodType == ASSUME NEW s \in Specs PROVE NewPod(s) \in Pods
BY PollsAssumption, HiddenAssumption DEF NewPod, Pods

\* The gather container, and what the upload container knows of it, are left
\* alone.
GatherKept ==
    /\ pod'.gather = pod.gather /\ pod'.visible = pod.visible
    /\ pod'.gatherOk = pod.gatherOk
    /\ pod'.count = pod.count /\ pod'.hidden = pod.hidden

\* A step of the script changes the upload container only.
LEMMA ScriptContinues ==
    ASSUME pod \in Pods,
           NEW label \in {"obfuscate", "credentials", "archive", "send"},
           Continues(label)
    PROVE  /\ pod' \in Pods /\ GatherKept
           /\ pod'.upload = label /\ pod'.uploadOk = pod.uploadOk
BY DEF Continues, Pods, GatherKept

\* So does its exit.
LEMMA ScriptExits ==
    ASSUME pod \in Pods, NEW ok \in BOOLEAN, Exits(ok)
    PROVE  /\ pod' \in Pods /\ GatherKept
           /\ pod'.upload = "exited" /\ pod'.uploadOk = ok
BY DEF Exits, Pods, GatherKept

\* failed exceeds the limit only once the Job has failed and its pod has ended.
TypeInv ==
    /\ TypeOK
    /\ IF job = "Failed" THEN Ended(pod) ELSE failed <= BackoffLimit

\* The files of the upload directory have the type of an archive.
LEMMA NoArchiveType == NoArchive \in Archives
BY BackoffAssumption DEF NoArchive, Archives

\* What the volumes hold of a gather has the type of a tree.
LEMMA TreeTypes == NoTree \in Trees /\ \A t \in Trees : Part(t) \in Trees
BY DEF NoTree, Part, Trees, Progress

LEMMA BrokenType == ASSUME NEW a \in Archives PROVE Broken(a) \in Archives
BY DEF Broken, Archives

LEMMA ArchivedType ==
    ASSUME TypeInv, job # "Failed"
    PROVE  Archived \in Archives
BY BackoffAssumption
DEF TypeInv, TypeOK, Archived, Archives, IsObfuscateEnabled

LEMMA ReceivedType ==
    ASSUME TypeInv, job # "Failed", NEW a \in Archives
    PROVE  Received(a) \subseteq [pod : 0 .. BackoffLimit, archive : Archives]
BY BackoffAssumption DEF TypeInv, TypeOK, Received

\* Every step keeps the types.
LEMMA TypeStep == TypeInv /\ [Next]_vars => TypeInv'
<1>. SUFFICES ASSUME TypeInv, [Next]_vars PROVE TypeInv'
  OBVIOUS
<1>. USE PollsAssumption, HiddenAssumption, BackoffAssumption DEF TypeInv, TypeOK, Ended
<1>1. CASE GatherStarts
  BY <1>1 DEF GatherStarts, Pods, Trees, Progress
<1>2. CASE CustomCommandForks
  BY <1>2 DEF CustomCommandForks, Pods
<1>3. CASE GatherEnds
  <2>1. tree' \in Trees
    BY <1>3 DEF GatherEnds, Trees, Progress
  <2>2. pod' \in Pods /\ pod.gather = "running"
    BY <1>3 DEF GatherEnds, GatherStatus, Pods
  <2>. QED
    BY <1>3, <2>1, <2>2 DEF GatherEnds
<1>4. CASE ChownEnds
  BY <1>4 DEF ChownEnds, Pods
<1>5. CASE Poll
  <2>1. /\ pod \in Pods /\ pod.count \in 0 .. Polls /\ pod.hidden \in 0 .. MaxHidden
        /\ pod.count < Polls
    BY <1>5 DEF Poll, Pods
  <2>2. Count(TRUE) \in 0 .. Polls /\ Count(FALSE) \in 0 .. Polls
    BY <2>1 DEF Count
  <2>. DEFINE Counted == /\ pod' \in Pods /\ pod'.gather = pod.gather
                        /\ pod'.upload = pod.upload
  <2>3. CASE pod' = [pod EXCEPT !.count = Count(TRUE), !.hidden = 0]
    <3>1. pod' = [pod EXCEPT !.count = 0, !.hidden = 0]
      BY <2>3 DEF Count
    <3>2. 0 \in 0 .. Polls /\ 0 \in 0 .. MaxHidden
      OBVIOUS
    <3>3. Counted
      BY <2>1, <3>1, <3>2 DEF Pods
    <3>. QED
      BY <1>5, <3>3 DEF Poll
  <2>4. CASE /\ pod.hidden < MaxHidden
             /\ pod' = [pod EXCEPT !.count = Count(FALSE), !.hidden = @ + 1]
    <3>1. pod.hidden + 1 \in 0 .. MaxHidden
      BY <2>1, <2>4
    <3>2. Counted
      BY <2>1, <2>2, <2>4, <3>1 DEF Pods
    <3>. QED
      BY <1>5, <3>2 DEF Poll
  <2>5. CASE pod' = [pod EXCEPT !.count = Count(FALSE)]
    <3>1. Counted
      BY <2>1, <2>2, <2>5 DEF Pods
    <3>. QED
      BY <1>5, <3>1 DEF Poll
  <2>. QED
    BY <1>5, <2>3, <2>4, <2>5 DEF Poll
<1>6. CASE StartUpload
  BY <1>6, ScriptContinues DEF StartUpload
<1>7. CASE Obfuscate
  <2>1. cleaned' \in Trees
    BY <1>7, InputIsTree, TreeTypes DEF Obfuscate
  <2>. QED
    BY <1>7, <2>1, ScriptContinues, ScriptExits DEF Obfuscate
<1>8. CASE CheckCredentials
  BY <1>8, ScriptContinues, ScriptExits DEF CheckCredentials
<1>9. CASE Archive
  <2>1. job # "Failed"
    BY <1>9 DEF Archive
  <2>2. archive' \in Archives
    BY <1>9, <2>1, ArchivedType, BrokenType DEF Archive
  <2>. QED
    BY <1>9, <2>2, ScriptContinues, ScriptExits DEF Archive
<1>10. CASE Send
  <2>1. job # "Failed"
    BY <1>10 DEF Send
  <2>2. /\ delivered' \subseteq [pod : 0 .. BackoffLimit, archive : Archives]
        /\ archive' \in Archives
    BY <1>10, <2>1, ReceivedType, BrokenType, NoArchiveType DEF Send
  <2>. QED
    BY <1>10, <2>2, ScriptExits DEF Send
<1>11. CASE PodKilled
  <2>1. job # "Failed" /\ pod' \in Pods
    BY <1>11 DEF PodKilled, Pods
  <2>2. /\ delivered' \subseteq [pod : 0 .. BackoffLimit, archive : Archives]
        /\ archive' \in Archives /\ cleaned' \in Trees
    BY <1>11, <2>1, ReceivedType, BrokenType, ArchivedType, InputIsTree, TreeTypes
       DEF PodKilled
  <2>. QED
    BY <1>11, <2>1, <2>2 DEF PodKilled
<1>12. CASE PodEnds
  BY <1>12, NewPodType, NoArchiveType, TreeTypes DEF PodEnds
<1>13. CASE UNCHANGED vars
  BY <1>13 DEF vars
<1>. QED
  BY <1>1, <1>2, <1>3, <1>4, <1>5, <1>6, <1>7, <1>8, <1>9, <1>10, <1>11, <1>12,
     <1>13, NextCases

\* The first pod has its types.
LEMMA TypeInit == Init => TypeInv
<1>1. Init => tree \in Trees
  BY DEF Init, NoTree, Trees, Progress
<1>. QED
  BY <1>1, NewPodType, NoArchiveType, TreeTypes, BackoffAssumption
     DEF Init, TypeInv, TypeOK

\* Every variable keeps its type; in particular no more than BackoffLimit + 1
\* pods fail, and every delivery is of one of them.
THEOREM TypeCorrect == Spec => []TypeOK
<1>1. TypeInv => TypeOK
  BY DEF TypeInv
<1>. QED
  BY <1>1, TypeInit, TypeStep, PTL DEF Spec

\* The template of every Job fits together.
THEOREM TemplateCorrect == Spec => []TemplateFits
<1>1. TypeOK => TemplateFits
  BY TemplatesFit DEF TypeOK
<1>. QED
  BY <1>1, TypeCorrect, PTL

(***************************************************************************)
(* The upload waits for the gather.                                        *)
(***************************************************************************)
\* Every step keeps the upload behind the gather.
LEMMA WaitStep ==
    ASSUME MaxHidden < Polls, TypeInv, WaitInv, [Next]_vars
    PROVE  WaitInv'
<1>. USE PollsAssumption, HiddenAssumption DEF TypeInv, TypeOK, WaitInv, PastWait
<1>1. CASE GatherStarts
  BY <1>1 DEF GatherStarts, Pods
<1>2. CASE CustomCommandForks
  BY <1>2 DEF CustomCommandForks, Pods
<1>3. CASE GatherEnds
  BY <1>3 DEF GatherEnds, Pods
<1>4. CASE ChownEnds
  BY <1>4 DEF ChownEnds, Pods
<1>5. CASE Poll
  <2>1. /\ pod \in Pods /\ pod.count \in Nat /\ pod.hidden \in Nat
        /\ pod.upload = "polling" /\ spec' = spec
    BY <1>5 DEF Poll, Pods
  <2>2. CASE pod.visible /\ pod' = [pod EXCEPT !.count = Count(TRUE), !.hidden = 0]
    <3>1. pod' = [pod EXCEPT !.count = 0, !.hidden = 0]
      BY <2>2 DEF Count
    <3>. QED
      BY <2>1, <3>1 DEF Pods
  <2>3. CASE /\ pod.gather # "exited"
             /\ pod' = [pod EXCEPT !.count = Count(FALSE), !.hidden = @ + 1]
    <3>1. pod' = [pod EXCEPT !.count = pod.count + 1, !.hidden = pod.hidden + 1]
      BY <2>3 DEF Count
    <3>2. /\ pod'.count = pod.count + 1 /\ pod'.hidden = pod.hidden + 1
          /\ pod'.visible = pod.visible /\ pod'.gather = pod.gather
          /\ pod'.upload = pod.upload
      BY <2>1, <3>1 DEF Pods
    <3>3. pod.count <= pod.hidden => pod'.count <= pod'.hidden
      BY <2>1, <3>2
    <3>. QED
      BY <2>1, <2>3, <3>2, <3>3 DEF HasObfuscateSource
  <2>4. CASE /\ pod.gather = "exited" \/ spec.custom
             /\ pod' = [pod EXCEPT !.count = Count(FALSE)]
    <3>1. /\ pod'.visible = pod.visible /\ pod'.gather = pod.gather
          /\ pod'.upload = pod.upload
      BY <2>1, <2>4 DEF Pods
    <3>. QED
      BY <2>1, <2>4, <3>1 DEF HasObfuscateSource
  <2>. QED
    BY <1>5, <2>2, <2>3, <2>4 DEF Poll
<1>6. CASE StartUpload
  BY <1>6, ScriptContinues DEF StartUpload, GatherKept, Pods
<1>7. CASE Obfuscate
  BY <1>7, ScriptContinues, ScriptExits DEF Obfuscate, GatherKept
<1>8. CASE CheckCredentials
  BY <1>8, ScriptContinues, ScriptExits DEF CheckCredentials, GatherKept
<1>9. CASE Archive
  BY <1>9, ScriptContinues, ScriptExits DEF Archive, GatherKept
<1>10. CASE Send
  BY <1>10, ScriptExits DEF Send, GatherKept
<1>11. CASE PodKilled
  BY <1>11 DEF PodKilled, Pods
<1>12. CASE PodEnds
  BY <1>12 DEF PodEnds, NewPod
<1>13. CASE UNCHANGED vars
  BY <1>13 DEF vars
<1>. QED
  BY <1>1, <1>2, <1>3, <1>4, <1>5, <1>6, <1>7, <1>8, <1>9, <1>10, <1>11, <1>12,
     <1>13, NextCases

\* The upload script works on the output of a default gather only once the gather
\* container has exited, if fewer polls in a row miss a gather that is not over
\* than the loop of the upload container asks for.
THEOREM UploadWaits ==
    ASSUME MaxHidden < Polls
    PROVE  Spec => []UploadAfterGather
<1>1. Init => WaitInv
  BY DEF Init, WaitInv, NewPod, PastWait
<1>2. TypeInv /\ WaitInv /\ [Next]_vars => TypeInv' /\ WaitInv'
  BY TypeStep, WaitStep
<1>3. WaitInv => UploadAfterGather
  BY DEF WaitInv, UploadAfterGather, PastWait
<1>. QED
  BY <1>1, <1>2, <1>3, TypeInit, PTL DEF Spec

(***************************************************************************)
(* What is delivered.                                                      *)
(***************************************************************************)
\* What a pod sends is its own archive, or a part of it.
LEMMA SentIsOwn ==
    ASSUME TypeInv, DeliveryInv, pod.upload = "send"
    PROVE  /\ \A d \in Received(archive) \cup Received(Broken(archive)) :
                 /\ IsObfuscateEnabled(spec) => d.archive.clean
                 /\ d.pod <= failed
           /\ \E d \in Received(archive) : d.pod = failed /\ Genuine(d)
<1>. DEFINE all == [pod |-> failed, archive |-> archive]
            part == [pod |-> failed, archive |-> Broken(archive)]
<1>. USE DEF TypeInv, TypeOK, DeliveryInv
<1>1. /\ all.pod = failed /\ part.pod = failed
      /\ all.archive = archive /\ part.archive = Broken(archive)
      /\ Broken(archive).clean = archive.clean
  BY DEF Broken, Archives
<1>2. /\ Received(archive) = delivered \cup {all}
      /\ Received(Broken(archive)) = delivered \cup {part}
  BY DEF Received
<1>. HIDE DEF all, part
<1>3. Genuine(all)
  BY <1>1 DEF Genuine
<1>. QED
  BY <1>1, <1>2, <1>3, BackoffAssumption DEF OnlyCleanedIsSent

\* Every step keeps the delivery invariant.
LEMMA DeliveryStep ==
    ASSUME TypeInv, DeliveryInv, [Next]_vars
    PROVE  DeliveryInv'
<1>. USE DEF TypeInv, TypeOK, DeliveryInv, OnlyCleanedIsSent, Uploaded,
             IsObfuscateEnabled, Ended, HasCredentials, Genuine
<1>1. CASE GatherStarts
  BY <1>1 DEF GatherStarts, Pods
<1>2. CASE CustomCommandForks
  BY <1>2 DEF CustomCommandForks, Pods
<1>3. CASE GatherEnds
  BY <1>3 DEF GatherEnds, Pods
<1>4. CASE ChownEnds
  BY <1>4 DEF ChownEnds, Pods
<1>5. CASE Poll
  BY <1>5 DEF Poll, Pods
<1>6. CASE StartUpload
  BY <1>6, ScriptContinues DEF StartUpload, IsObfuscateEnabled
<1>7. CASE Obfuscate
  BY <1>7, ScriptContinues, ScriptExits DEF Obfuscate
<1>8. CASE CheckCredentials
  BY <1>8, ScriptContinues, ScriptExits DEF CheckCredentials
<1>9. CASE Archive
  <2>1. /\ IsObfuscateEnabled(spec) => Archived.clean
        /\ Archived.state = "whole" /\ Archived.pod = failed
    BY DEF Archived
  <2>2. CASE Continues("send") /\ archive' = Archived
    BY <1>9, <2>1, <2>2, ScriptContinues DEF Archive
  <2>3. CASE Exits(FALSE)
    BY <1>9, <2>3, ScriptExits DEF Archive
  <2>. QED
    BY <1>9, <2>2, <2>3 DEF Archive
<1>10. CASE Send
  <2>1. /\ pod'.upload = "exited" /\ pod.upload = "send" /\ spec' = spec
        /\ failed' = failed /\ job' = job /\ job # "Failed" /\ job # "Completed"
    BY <1>10, ScriptExits DEF Send
  <2>2. delivered' \in {delivered, Received(archive), Received(Broken(archive))}
    BY <1>10 DEF Send
  <2>3. OnlyCleanedIsSent' /\ \A d \in delivered' : d.pod <= failed
    BY <2>1, <2>2, SentIsOwn
  <2>4. CASE delivered' = Received(archive)
    BY <2>1, <2>3, <2>4, SentIsOwn
  <2>5. CASE delivered' # Received(archive)
    <3>1. ~Uploaded' \/ spec.proxy
      BY <1>10, <2>5, ScriptExits DEF Send, HasProxy
    <3>. QED
      BY <2>1, <2>3, <3>1
  <2>. QED
    BY <2>4, <2>5
<1>11. CASE PodKilled
  <2>1. /\ spec' = spec /\ failed' = failed /\ job' = job /\ job = "running"
        /\ pod'.upload \in {"absent", "exited"}
        /\ pod'.upload = "absent" <=> pod.upload = "absent"
        /\ Uploaded' => Uploaded
        /\ pod.upload = "exited" => pod'.upload = "exited"
    BY <1>11 DEF PodKilled, Pods
  <2>2. CASE delivered' = delivered
    BY <2>1, <2>2
  <2>3. CASE /\ pod.upload = "send"
             /\ delivered' \in {Received(archive), Received(Broken(archive))}
    <3>1. OnlyCleanedIsSent' /\ \A d \in delivered' : d.pod <= failed
      BY <2>1, <2>3, SentIsOwn
    <3>. QED
      BY <2>1, <2>3, <3>1
  <2>. QED
    BY <1>11, <2>2, <2>3 DEF PodKilled
<1>12. CASE PodEnds
  <2>1. delivered' = delivered /\ spec' = spec /\ job = "running"
    BY <1>12 DEF PodEnds
  <2>2. CASE job' = "Completed"
    BY <1>12, <2>1, <2>2 DEF PodEnds, Succeeded
  <2>3. CASE failed' = failed + 1
    <3>1. \A d \in delivered : d.pod <= failed' /\ d.pod # failed'
      BY <2>3, BackoffAssumption
    <3>. QED
      BY <1>12, <2>1, <2>3, <3>1 DEF PodEnds, NewPod, ShouldAddUploadContainer
  <2>. QED
    BY <1>12, <2>2, <2>3 DEF PodEnds
<1>13. CASE UNCHANGED vars
  BY <1>13 DEF vars
<1>. QED
  BY <1>1, <1>2, <1>3, <1>4, <1>5, <1>6, <1>7, <1>8, <1>9, <1>10, <1>11, <1>12,
     <1>13, NextCases

\* The delivery invariant holds of the first pod.
LEMMA DeliveryInit == Init => TypeInv /\ DeliveryInv
<1>1. Init => DeliveryInv
  BY DEF Init, DeliveryInv, OnlyCleanedIsSent, Uploaded, NewPod, ShouldAddUploadContainer
<1>. QED
  BY <1>1, TypeInit

\* Of a MustGather with obfuscation only obfuscated copies are ever sent.
THEOREM CleanOnly == Spec => []OnlyCleanedIsSent
<1>1. TypeInv /\ DeliveryInv /\ [Next]_vars => TypeInv' /\ DeliveryInv'
  BY TypeStep, DeliveryStep
<1>2. DeliveryInv => OnlyCleanedIsSent
  BY DEF DeliveryInv
<1>. QED
  BY <1>1, <1>2, DeliveryInit, PTL DEF Spec

\* A Job with an upload target and no proxy succeeds only with a pod that has
\* delivered its archive.
THEOREM NoUploadLost == Spec => []CompletedMeansDelivered
<1>1. TypeInv /\ DeliveryInv /\ [Next]_vars => TypeInv' /\ DeliveryInv'
  BY TypeStep, DeliveryStep
<1>2. DeliveryInv => CompletedMeansDelivered
  BY DEF DeliveryInv, CompletedMeansDelivered, Uploaded, Ended
<1>. QED
  BY <1>1, <1>2, DeliveryInit, PTL DEF Spec

\* Nothing but the end of the pod happens to a pod that has ended, and nothing
\* at all once the Job is over.
LEMMA JobOver ==
    ASSUME TypeInv, DeliveryInv, Next
    PROVE  job = "running"
<1>1. job # "running" => Ended(pod)
  BY DEF TypeInv, TypeOK, DeliveryInv
<1>. QED
  BY <1>1, NextCases
  DEF Ended, GatherStarts, CustomCommandForks, GatherEnds, ChownEnds, Poll,
      StartUpload, Obfuscate, CheckCredentials, Archive, Send, PodKilled, PodEnds

(***************************************************************************)
(* The Job as its user sees it.                                            *)
(***************************************************************************)
Sent(d) == [attempt |-> d.pod, clean |-> d.archive.clean, genuine |-> Genuine(d)]

\* A step that sends a file is the abstract Deliver.
LEMMA SendDelivers ==
    ASSUME TypeInv, DeliveryInv, job = "running", pod.upload = "send",
           delivered' \in {Received(archive), Received(Broken(archive))},
           UNCHANGED <<spec, failed, job>>
    PROVE  Delivery!Deliver
<1>1. PICK file \in {archive, Broken(archive)} : delivered' = Received(file)
  OBVIOUS
<1>. DEFINE new == [pod |-> failed, archive |-> file]
<1>2. new.pod = failed /\ new.archive = file /\ file.clean = archive.clean
  BY DEF TypeInv, TypeOK, Archives, Broken
<1>3. delivered' = delivered \cup {new}
  BY <1>1 DEF Received
<1>4. archive.clean \in BOOLEAN
  BY DEF TypeInv, TypeOK, Archives
<1>. HIDE DEF new
<1>5. /\ Sent(new) \in [attempt : {failed}, clean : BOOLEAN, genuine : BOOLEAN]
      /\ Sent(new).clean = archive.clean
  BY <1>2, <1>4 DEF Sent, Genuine
<1>6. {Sent(d) : d \in delivered'} = {Sent(d) : d \in delivered} \cup {Sent(new)}
  BY <1>3
<1>7. \A d \in delivered : Sent(d).attempt # failed
  BY DEF DeliveryInv, Sent
<1>8. IsObfuscateEnabled(spec) => Sent(new).clean
  BY <1>5 DEF DeliveryInv
<1>. QED
  BY <1>5, <1>6, <1>7, <1>8 DEF Delivery!Deliver, Sent, Genuine

\* Every step of the pods is one of the abstract Job, or changes nothing of it.
LEMMA DeliveryRefined ==
    ASSUME TypeInv, DeliveryInv, [Next]_vars
    PROVE  [Delivery!Next]_(Delivery!vars)
<1>1. ASSUME UNCHANGED <<spec, delivered, failed, job>>
      PROVE  UNCHANGED Delivery!vars
  BY <1>1 DEF Delivery!vars, Genuine
<1>2. CASE UNCHANGED vars
  BY <1>1, <1>2 DEF vars
<1>. SUFFICES ASSUME Next PROVE [Delivery!Next]_(Delivery!vars)
  BY <1>2
<1>3. job = "running"
  BY JobOver
<1>4. CASE GatherStarts \/ CustomCommandForks \/ GatherEnds \/ ChownEnds \/ Poll
           \/ StartUpload \/ Obfuscate \/ CheckCredentials \/ Archive
  BY <1>1, <1>4 DEF GatherStarts, CustomCommandForks, GatherEnds, ChownEnds, Poll,
                    StartUpload, Obfuscate, CheckCredentials, Archive
<1>5. CASE Send
  BY <1>1, <1>3, <1>5, SendDelivers DEF Send, Delivery!Next
<1>6. CASE PodKilled
  BY <1>1, <1>3, <1>6, SendDelivers DEF PodKilled, Delivery!Next
<1>7. CASE PodEnds
  <2>1. spec' = spec /\ delivered' = delivered
    BY <1>7 DEF PodEnds
  <2>2. CASE Succeeded(pod) /\ job' = "Completed" /\ failed' = failed
    <3>1. spec.sftp /\ ~spec.proxy => \E d \in delivered : d.pod = failed /\ Genuine(d)
      BY <1>3, <1>7, <2>2 DEF PodEnds, Succeeded, Ended, DeliveryInv, Uploaded
    <3>2. ASSUME spec.sftp, ~spec.proxy
          PROVE  \E f \in {Sent(d) : d \in delivered} : f.attempt = failed /\ f.genuine
      <4>1. PICK d \in delivered : d.pod = failed /\ Genuine(d)
        BY <3>1, <3>2
      <4>2. Sent(d).attempt = failed /\ Sent(d).genuine
        BY <4>1 DEF Sent
      <4>. QED
        BY <4>2
    <3>3. Delivery!Succeed
      BY <1>3, <2>1, <2>2, <3>2 DEF Delivery!Succeed, Sent, Genuine
    <3>. QED
      BY <3>3 DEF Delivery!Next
  <2>3. CASE failed < BackoffLimit /\ failed' = failed + 1 /\ job' = job
    BY <1>3, <2>1, <2>3 DEF Delivery!Next, Delivery!Retry, Genuine
  <2>4. CASE failed = BackoffLimit /\ failed' = failed + 1 /\ job' = "Failed"
    BY <1>3, <2>1, <2>4 DEF Delivery!Next, Delivery!GiveUp, Genuine
  <2>. QED
    BY <1>7, <2>2, <2>3, <2>4 DEF PodEnds
<1>. QED
  BY <1>4, <1>5, <1>6, <1>7, NextCases

\* The pods of a gather Job implement the Job its user sees.
THEOREM DeliveryImplemented == Spec => ImplementsDelivery
<1>1. Init => Delivery!Init
  BY DEF Init, Delivery!Init, IsObfuscateEnabled, Specs
<1>2. TypeInv /\ DeliveryInv /\ [Next]_vars => TypeInv' /\ DeliveryInv'
  BY TypeStep, DeliveryStep
<1>3. TypeInv /\ DeliveryInv /\ [Next]_vars => [Delivery!Next]_(Delivery!vars)
  BY DeliveryRefined
<1>. QED
  BY <1>1, <1>2, <1>3, DeliveryInit, PTL DEF Spec, ImplementsDelivery, Delivery!Spec

(***************************************************************************)
(* What a Job that succeeded leaves behind.                                *)
(***************************************************************************)

\* Every step keeps the copies in agreement.
LEMMA ResultStep ==
    ASSUME TypeInv, WaitInv, DeliveryInv, ResultInv, [Next]_vars
    PROVE  ResultInv'
<1>1. CASE UNCHANGED vars
  BY <1>1 DEF vars, ResultInv, CopiesAgree, Uploaded, CleanedSurvives
<1>. SUFFICES ASSUME Next PROVE ResultInv'
  BY <1>1
<1>2. job = "running" /\ CopiesAgree
  BY JobOver DEF ResultInv
<1>3. ASSUME job' = job, CopiesAgree' PROVE ResultInv'
  BY <1>2, <1>3 DEF ResultInv, CleanedSurvives
<1>. USE DEF TypeInv, TypeOK, WaitInv, PastWait, CopiesAgree, Uploaded,
             IsObfuscateEnabled, ShouldAddUploadContainer
<1>4. CASE GatherStarts
  <2>1. /\ pod'.gather = "running" /\ pod'.upload = pod.upload
        /\ ~spec.custom => pod.upload \in {"absent", "polling"}
    BY <1>4 DEF GatherStarts, Pods
  <2>. QED
    BY <1>2, <1>3, <1>4, <2>1 DEF GatherStarts, DeliveryInv
<1>5. CASE CustomCommandForks
  <2>1. /\ pod'.gather = pod.gather /\ pod'.gatherOk = pod.gatherOk
        /\ pod'.upload = pod.upload /\ pod'.uploadOk = pod.uploadOk
    BY <1>5 DEF CustomCommandForks, Pods
  <2>. QED
    BY <1>2, <1>3, <1>5, <2>1 DEF CustomCommandForks
<1>6. CASE GatherEnds
  <2>1. /\ pod'.upload = pod.upload
        /\ ~spec.custom => pod.upload \in {"absent", "polling"}
    BY <1>6 DEF GatherEnds, Pods
  <2>. QED
    BY <1>2, <1>3, <1>6, <2>1 DEF GatherEnds, DeliveryInv
<1>7. CASE ChownEnds
  <2>1. /\ pod'.gatherOk = pod.gatherOk /\ pod'.upload = pod.upload
        /\ pod'.uploadOk = pod.uploadOk
    BY <1>7 DEF ChownEnds, Pods
  <2>. QED
    BY <1>2, <1>3, <1>7, <2>1 DEF ChownEnds
<1>8. CASE Poll
  <2>1. /\ pod'.gather = pod.gather /\ pod'.gatherOk = pod.gatherOk
        /\ pod'.upload = pod.upload /\ pod'.uploadOk = pod.uploadOk
    BY <1>8 DEF Poll, Pods
  <2>. QED
    BY <1>2, <1>3, <1>8, <2>1 DEF Poll
<1>9. CASE StartUpload
  BY <1>2, <1>3, <1>9, ScriptContinues DEF StartUpload, GatherKept
<1>10. CASE Obfuscate
  BY <1>2, <1>3, <1>10, InputIsTree, ScriptContinues, ScriptExits
  DEF Obfuscate, GatherKept, DeliveryInv
<1>11. CASE CheckCredentials
  BY <1>2, <1>3, <1>11, ScriptContinues, ScriptExits DEF CheckCredentials, GatherKept
<1>12. CASE Archive
  BY <1>2, <1>3, <1>12, ScriptContinues, ScriptExits DEF Archive, GatherKept
<1>13. CASE Send
  <2>1. /\ pod'.upload = "exited" /\ GatherKept /\ pod.upload = "send"
    BY <1>13, ScriptExits DEF Send
  <2>. QED
    BY <1>2, <1>3, <1>13, <2>1 DEF Send, GatherKept
<1>14. CASE PodKilled
  <2>1. /\ pod'.upload \in {"absent", "exited"}
        /\ pod.upload = "absent" <=> pod'.upload = "absent"
        /\ pod'.uploadOk => pod.uploadOk /\ pod.upload \in {"absent", "exited"}
    BY <1>14 DEF PodKilled, Pods
  <2>2. Uploaded' => Uploaded /\ cleaned' = cleaned
    BY <1>14, <2>1 DEF PodKilled
  <2>. QED
    BY <1>2, <1>3, <1>14, <2>1, <2>2 DEF PodKilled
<1>15. CASE PodEnds
  <2>1. CASE job' = "Completed"
    <3>1. /\ Ended(pod) /\ pod.gatherOk /\ pod.uploadOk /\ spec' = spec
          /\ failed' = failed /\ delivered' = delivered
          /\ OutputPersists(spec) => tree' = tree
          /\ UploadPersists(spec) => cleaned' = cleaned
      BY <1>2, <1>15, <2>1 DEF PodEnds, Succeeded
    <3>2. CleanedSurvives'
      BY <1>2, <3>1, MountsFit DEF CleanedSurvives, Ended, ShouldAppendObfuscateChown
    <3>. QED
      BY <2>1, <3>2 DEF ResultInv
  <2>2. CASE job' = "Failed"
    BY <2>2 DEF ResultInv, CleanedSurvives
  <2>3. CASE job' = "running"
    <3>1. pod' = NewPod(spec) /\ spec' = spec
      BY <1>2, <1>15, <2>3 DEF PodEnds
    <3>2. CopiesAgree'
      BY <3>1 DEF NewPod
    <3>. QED
      BY <1>2, <2>3, <1>3, <3>2
  <2>. QED
    BY <1>2, <1>15, <2>1, <2>2, <2>3 DEF PodEnds
<1>. QED
  BY <1>4, <1>5, <1>6, <1>7, <1>8, <1>9, <1>10, <1>11, <1>12, <1>13, <1>14,
     <1>15, NextCases

\* The copies agree in every state, if the upload waits for the gather.
LEMMA ResultInvariant ==
    ASSUME MaxHidden < Polls
    PROVE  Spec => []ResultInv
<1>1. Init => TypeInv /\ WaitInv /\ DeliveryInv /\ ResultInv
  <2>1. Init => WaitInv
    BY DEF Init, WaitInv, NewPod, PastWait
  <2>2. Init => ResultInv
    BY DEF Init, ResultInv, CopiesAgree, Uploaded, NewPod,
           CleanedSurvives, ShouldAddUploadContainer, IsObfuscateEnabled
  <2>. QED
    BY <2>1, <2>2, DeliveryInit
<1>2. TypeInv /\ WaitInv /\ DeliveryInv /\ ResultInv /\ [Next]_vars
         => TypeInv' /\ WaitInv' /\ DeliveryInv' /\ ResultInv'
  BY TypeStep, WaitStep, DeliveryStep, ResultStep
<1>. QED
  BY <1>1, <1>2, PTL DEF Spec

\* A default gather obfuscated on a PVC leaves an obfuscated copy of all of its
\* output, if the upload waits for the gather.
THEOREM CleanedCopyStays ==
    ASSUME MaxHidden < Polls
    PROVE  Spec => []CleanedSurvives
<1>1. ResultInv => CleanedSurvives
  BY DEF ResultInv
<1>. QED
  BY <1>1, ResultInvariant, PTL

(***************************************************************************)
(* The failure of a custom command.                                        *)
(***************************************************************************)

\* Every step keeps the status of a custom command in line with its output.
LEMMA StatusStep ==
    ASSUME TypeInv, StatusInv, [Next]_vars
    PROVE  StatusInv'
<1>. USE DEF TypeInv, TypeOK, StatusInv, OutputPersists, OutputVolume,
             HasObfuscateSource
<1>1. CASE GatherStarts
  <2>1. /\ pod.gather = "waiting" /\ pod'.gather = "running"
        /\ tree'.residue => tree # NoTree
        /\ UNCHANGED <<spec, failed, job>>
    BY <1>1 DEF GatherStarts, Pods
  <2>. QED
    BY <2>1
<1>2. CASE GatherEnds
  <2>1. /\ pod'.gather \in {"chown", "exited"}
        /\ tree'.residue = tree.residue
        /\ spec.custom /\ pod'.gatherOk => tree'.gather = "full"
        /\ UNCHANGED <<spec, failed, job>>
    BY <1>2 DEF GatherEnds, GatherStatus, Pods, Trees
  <2>. QED
    BY <2>1
<1>3. CASE CustomCommandForks \/ ChownEnds \/ Poll
  <2>1. /\ pod'.gatherOk => pod.gatherOk
        /\ pod'.gather = pod.gather \/ (pod.gather = "chown" /\ pod'.gather = "exited")
        /\ UNCHANGED <<spec, tree, failed, job>>
    BY <1>3 DEF CustomCommandForks, ChownEnds, Poll, Pods
  <2>. QED
    BY <2>1
<1>4. CASE StartUpload \/ Obfuscate \/ CheckCredentials \/ Archive \/ Send
  BY <1>4, ScriptContinues, ScriptExits
     DEF StartUpload, Obfuscate, CheckCredentials, Archive, Send, GatherKept
<1>5. CASE PodKilled
  <2>1. /\ pod'.gather = IF pod.gather = "absent" THEN "absent" ELSE "exited"
        /\ pod'.gatherOk => pod.gatherOk /\ pod.gather \in {"absent", "exited"}
        /\ UNCHANGED <<spec, tree, failed, job>>
    BY <1>5 DEF PodKilled, Pods
  <2>. QED
    BY <2>1
<1>6. CASE PodEnds
  <2>1. /\ tree' # NoTree => OutputPersists(spec) /\ tree' = tree
        /\ spec' = spec /\ Ended(pod)
    BY <1>6 DEF PodEnds
  <2>2. ~NoTree.residue
    BY DEF NoTree
  <2>3. CASE job' # "running"
    <3>1. pod' = pod /\ pod.gather # "waiting" /\ failed' \in {failed, failed + 1}
      BY <1>6, <2>1, <2>3, BackoffAssumption DEF PodEnds, Ended
    <3>. QED
      BY <2>1, <2>2, <2>3, <3>1, BackoffAssumption
  <2>4. CASE job' = "running"
    <3>1. pod' = NewPod(spec) /\ failed' > 0
      BY <1>6, <2>4, BackoffAssumption DEF PodEnds
    <3>2. /\ pod'.gather \in {"absent", "waiting"}
          /\ pod'.gather = "absent" => HasObfuscateSource(spec)
      BY <3>1 DEF NewPod
    <3>. QED
      BY <2>1, <2>2, <3>1, <3>2 DEF HasObfuscateSource, Specs
  <2>. QED
    BY <2>3, <2>4
<1>7. CASE UNCHANGED vars
  BY <1>7 DEF vars
<1>. QED
  BY <1>1, <1>2, <1>3, <1>4, <1>5, <1>6, <1>7, NextCases

\* The failure of a custom gather command is never lost, for every number of
\* polls and however the upload container is ahead of the command: the pod with
\* which the Job succeeds has gathered everything, and what lies among it was
\* left on a PVC by a pod that failed.
THEOREM CustomFailuresShow == Spec => CustomFailuresPropagate
<1>1. Init => StatusInv
  BY DEF Init, StatusInv, NewPod, NoTree, HasObfuscateSource, Specs
<1>2. TypeInv /\ StatusInv /\ [Next]_vars => StatusInv'
  BY StatusStep
<1>3. TypeInv /\ DeliveryInv /\ [Next]_vars => DeliveryInv'
  BY DeliveryStep
<1>4. ASSUME TypeInv, DeliveryInv, StatusInv, [Next]_vars
      PROVE  [job' = "Completed" /\ spec.custom =>
                /\ tree.gather = "full"
                /\ tree.residue => OutputPersists(spec) /\ failed > 0]_vars
  <2>1. CASE PodEnds /\ job' = "Completed" /\ spec.custom
    <3>1. job = "running" /\ pod.gather \in {"absent", "exited"} /\ pod.gatherOk
      BY <2>1 DEF PodEnds, Ended, Succeeded
    <3>. QED
      BY <1>4, <2>1, <3>1 DEF StatusInv
  <2>2. CASE Next /\ ~PodEnds
    <3>1. job = "running"
      BY <1>4, <2>2, JobOver
    <3>2. job' = job
      BY <2>2, NextCases
         DEF GatherStarts, CustomCommandForks, GatherEnds, ChownEnds, Poll,
             StartUpload, Obfuscate, CheckCredentials, Archive, Send, PodKilled
    <3>. QED
      BY <3>1, <3>2
  <2>. QED
    BY <1>4, <2>1, <2>2
<1>. QED
  BY <1>1, <1>2, <1>3, <1>4, DeliveryInit, TypeStep, PTL DEF Spec, CustomFailuresPropagate


(***************************************************************************)
(* How much work is left.  JobConcludes is a liveness property; this is    *)
(* its safety half: only a gather that does not end can keep the Job going.*)
(***************************************************************************)

\* Pods the Job controller may still count.
AttemptsLeft == IF job = "running" THEN BackoffLimit + 1 - failed ELSE 0

GatherLeft(p) ==
    [waiting |-> 3, running |-> 2, chown |-> 1, exited |-> 0, absent |-> 0][p.gather]

\* What is left of the script once the wait is over.
ScriptLeft ==
    [obfuscate |-> 4, credentials |-> 3, archive |-> 2, send |-> 1,
     exited |-> 0, absent |-> 0]

\* Before the gather container has exited nothing is known of the polls: one
\* that sees a process starts the count again.
UploadLeft(p) ==
    IF p.upload # "polling" THEN ScriptLeft[p.upload]
    ELSE IF p.gather = "exited" THEN 5 + Polls - p.count ELSE 5 + Polls

\* Steps the two containers of the pod still take, polls of a live gather aside.
PodLeft == GatherLeft(pod) + UploadLeft(pod)

\* A poll, or a process of a custom command that comes or goes, while the gather
\* container has not ended.
WaitsForGather ==
    /\ Poll \/ CustomCommandForks
    /\ pod.gather \in {"waiting", "running", "chown"}
    /\ pod'.gather = pod.gather

\* Every step uses up an attempt, or some of what is left of the current pod,
\* or is part of waiting for a gather that has not ended.
PodsRunOut ==
    [][ \/ AttemptsLeft' < AttemptsLeft
        \/ AttemptsLeft' = AttemptsLeft /\ PodLeft' < PodLeft
        \/ WaitsForGather /\ AttemptsLeft' = AttemptsLeft /\ PodLeft' = PodLeft
      ]_vars

\* A process is only seen while the gather runs, and a poll looks for a gather
\* that the pod has; however long a gather stays hidden.
SeenInv ==
    /\ pod.visible => pod.gather = "running"
    /\ pod.upload = "polling" => pod.gather # "absent"

\* Every step preserves it.
LEMMA SeenStep == TypeInv /\ SeenInv /\ [Next]_vars => SeenInv'
<1>. SUFFICES ASSUME TypeInv, SeenInv, [Next]_vars PROVE SeenInv'
  OBVIOUS
<1>. USE DEF TypeInv, TypeOK, SeenInv
<1>1. CASE GatherStarts \/ CustomCommandForks \/ GatherEnds \/ ChownEnds
  BY <1>1 DEF GatherStarts, CustomCommandForks, GatherEnds, ChownEnds, Pods
<1>2. CASE Poll
  BY <1>2 DEF Poll, Pods
<1>3. CASE StartUpload \/ Obfuscate \/ CheckCredentials \/ Archive \/ Send
  BY <1>3, ScriptContinues, ScriptExits
     DEF StartUpload, Obfuscate, CheckCredentials, Archive, Send, GatherKept
<1>4. CASE PodKilled
  BY <1>4 DEF PodKilled, Pods
<1>5. CASE PodEnds
  BY <1>5 DEF PodEnds, NewPod
<1>6. CASE UNCHANGED vars
  BY <1>6 DEF vars
<1>. QED
  BY <1>1, <1>2, <1>3, <1>4, <1>5, <1>6, NextCases

\* The measures are natural numbers with a bound that does not depend on what
\* the pods do.
LeftInBounds ==
    /\ AttemptsLeft \in 0 .. BackoffLimit + 1
    /\ GatherLeft(pod) \in 0 .. 3 /\ UploadLeft(pod) \in 0 .. Polls + 5
    /\ PodLeft \in 0 .. Polls + 8

LEMMA LeftBounded == TypeInv => LeftInBounds
<1>. SUFFICES ASSUME TypeInv PROVE LeftInBounds
  OBVIOUS
<1>1. AttemptsLeft \in 0 .. BackoffLimit + 1
  BY BackoffAssumption DEF TypeInv, TypeOK, AttemptsLeft
<1>2. GatherLeft(pod) \in 0 .. 3
  BY DEF TypeInv, TypeOK, Pods, GatherLeft
<1>3. UploadLeft(pod) \in 0 .. Polls + 5
  <2>1. pod.count \in 0 .. Polls
    BY DEF TypeInv, TypeOK, Pods
  <2>2. pod.upload # "polling" => ScriptLeft[pod.upload] \in 0 .. 4
    BY DEF TypeInv, TypeOK, Pods, ScriptLeft
  <2>. QED
    BY <2>1, <2>2, PollsAssumption DEF UploadLeft
<1>4. PodLeft \in 0 .. Polls + 8
  BY <1>2, <1>3, PollsAssumption DEF PodLeft
<1>. QED
  BY <1>1, <1>2, <1>3, <1>4 DEF LeftInBounds

\* Before and after a step.
LEMMA LeftBoundedNext == ASSUME TypeInv, TypeInv' PROVE LeftInBounds /\ LeftInBounds'
BY LeftBounded, PTL
\* A step of a container leaves what the Job controller counts.
LEMMA AttemptsKept ==
    ASSUME UNCHANGED <<failed, job>>
    PROVE  AttemptsLeft' = AttemptsLeft
BY DEF AttemptsLeft

\* A gather container that moves on leaves the upload no more to do.
LEMMA GatherAdvances ==
    ASSUME TypeInv, TypeInv', GatherLeft(pod)' < GatherLeft(pod),
           pod'.upload = pod.upload, pod'.count = pod.count,
           pod.gather # "exited"
    PROVE  PodLeft' < PodLeft
<1>1. UploadLeft(pod)' <= UploadLeft(pod)
  <2>1. CASE pod.upload = "polling"
    <3>1. /\ UploadLeft(pod) = 5 + Polls
          /\ UploadLeft(pod)' \in {5 + Polls - pod.count, 5 + Polls}
      BY <2>1 DEF UploadLeft
    <3>2. pod.count \in 0 .. Polls
      BY DEF TypeInv, TypeOK, Pods
    <3>. QED
      BY <3>1, <3>2, PollsAssumption
  <2>2. CASE pod.upload # "polling"
    <3>1. UploadLeft(pod)' = UploadLeft(pod)
      BY <2>2 DEF UploadLeft
    <3>. QED
      BY <3>1, LeftBounded DEF LeftInBounds
  <2>. QED
    BY <2>1, <2>2
<1>2. /\ GatherLeft(pod) \in Nat /\ GatherLeft(pod)' \in Nat
      /\ UploadLeft(pod) \in Nat /\ UploadLeft(pod)' \in Nat
  BY LeftBoundedNext DEF LeftInBounds
<1>. QED
  BY <1>1, <1>2 DEF PodLeft

\* An upload container that moves on leaves the gather alone.
LEMMA UploadAdvances ==
    ASSUME TypeInv, TypeInv', UploadLeft(pod)' < UploadLeft(pod),
           pod'.gather = pod.gather
    PROVE  PodLeft' < PodLeft
<1>1. GatherLeft(pod)' = GatherLeft(pod)
  BY DEF GatherLeft
<1>2. /\ GatherLeft(pod) \in Nat
      /\ UploadLeft(pod) \in Nat /\ UploadLeft(pod)' \in Nat
  BY LeftBoundedNext DEF LeftInBounds
<1>. QED
  BY <1>1, <1>2 DEF PodLeft

\* So does the script behind the wait, whichever way it goes on.
LEMMA ScriptAdvances ==
    ASSUME TypeInv, TypeInv', pod.upload # "polling", pod'.upload # "polling",
           ScriptLeft[pod'.upload] < ScriptLeft[pod.upload],
           pod'.gather = pod.gather
    PROVE  PodLeft' < PodLeft
<1>1. UploadLeft(pod)' < UploadLeft(pod)
  BY DEF UploadLeft
<1>. QED
  BY <1>1, UploadAdvances

\* Each action, one by one.
LEMMA PodAdvances ==
    ASSUME TypeInv, TypeInv', SeenInv, DeliveryInv, Next
    PROVE  \/ AttemptsLeft' < AttemptsLeft
           \/ AttemptsLeft' = AttemptsLeft /\ PodLeft' < PodLeft
           \/ WaitsForGather /\ AttemptsLeft' = AttemptsLeft /\ PodLeft' = PodLeft
<1>r. job = "running" /\ pod \in Pods /\ pod.count \in 0 .. Polls
  BY JobOver DEF TypeInv, TypeOK, Pods
<1>1. CASE GatherStarts
  <2>1. /\ pod.gather = "waiting" /\ pod'.gather = "running"
        /\ pod'.upload = pod.upload /\ pod'.count = pod.count
        /\ UNCHANGED <<failed, job>>
    BY <1>1, <1>r DEF GatherStarts, Pods
  <2>2. GatherLeft(pod)' < GatherLeft(pod)
    BY <2>1 DEF GatherLeft
  <2>. QED
    BY <2>1, <2>2, AttemptsKept, GatherAdvances
<1>2. CASE GatherEnds
  <2>1. /\ pod.gather = "running" /\ pod'.gather \in {"chown", "exited"}
        /\ pod'.upload = pod.upload /\ pod'.count = pod.count
        /\ UNCHANGED <<failed, job>>
    BY <1>2, <1>r DEF GatherEnds, Pods
  <2>2. GatherLeft(pod)' < GatherLeft(pod)
    BY <2>1 DEF GatherLeft
  <2>. QED
    BY <2>1, <2>2, AttemptsKept, GatherAdvances
<1>3. CASE ChownEnds
  <2>1. /\ pod.gather = "chown" /\ pod'.gather = "exited"
        /\ pod'.upload = pod.upload /\ pod'.count = pod.count
        /\ UNCHANGED <<failed, job>>
    BY <1>3, <1>r DEF ChownEnds, Pods
  <2>2. GatherLeft(pod)' < GatherLeft(pod)
    BY <2>1 DEF GatherLeft
  <2>. QED
    BY <2>1, <2>2, AttemptsKept, GatherAdvances
<1>4. CASE CustomCommandForks
  <2>1. /\ pod.gather = "running" /\ pod'.gather = pod.gather
        /\ pod'.upload = pod.upload /\ pod'.count = pod.count
        /\ UNCHANGED <<failed, job>>
    BY <1>4, <1>r DEF CustomCommandForks, Pods
  <2>2. PodLeft' = PodLeft
    BY <2>1 DEF PodLeft, GatherLeft, UploadLeft
  <2>. QED
    BY <1>4, <2>1, <2>2, AttemptsKept DEF WaitsForGather
<1>5. CASE Poll
  <2>1. /\ pod.upload = "polling" /\ pod'.upload = "polling"
        /\ pod'.gather = pod.gather /\ pod.count < Polls
        /\ UNCHANGED <<failed, job>>
    BY <1>5, <1>r DEF Poll, Pods
  <2>2. CASE pod.gather = "exited"
    <3>1. ~pod.visible
      BY <2>2 DEF SeenInv
    <3>2. pod'.count = pod.count + 1
      BY <1>5, <1>r, <2>2, <3>1 DEF Poll, Count, Pods
    <3>3. /\ UploadLeft(pod) = 5 + Polls - pod.count
          /\ UploadLeft(pod)' = 5 + Polls - (pod.count + 1)
      BY <2>1, <2>2, <3>2 DEF UploadLeft
    <3>4. UploadLeft(pod)' < UploadLeft(pod)
      BY <1>r, <3>3, PollsAssumption
    <3>. QED
      BY <2>1, <3>4, AttemptsKept, UploadAdvances
  <2>3. CASE pod.gather # "exited"
    <3>1. pod.gather \in {"waiting", "running", "chown"}
      BY <1>r, <2>1, <2>3 DEF SeenInv, Pods
    <3>2. PodLeft' = PodLeft
      BY <2>1, <2>3 DEF PodLeft, GatherLeft, UploadLeft
    <3>. QED
      BY <1>5, <2>1, <3>1, <3>2, AttemptsKept DEF WaitsForGather
  <2>. QED
    BY <2>2, <2>3
<1>6. CASE StartUpload
  <2>1. /\ pod.upload = "polling" /\ pod.count = Polls
        /\ pod'.upload \in {"obfuscate", "credentials"}
        /\ pod'.gather = pod.gather
        /\ UNCHANGED <<failed, job>>
    BY <1>6, <1>r DEF StartUpload, Continues, Pods
  <2>2. UploadLeft(pod) \in {5 + Polls - Polls, 5 + Polls}
    BY <2>1 DEF UploadLeft
  <2>3. UploadLeft(pod)' \in {3, 4}
    BY <2>1 DEF UploadLeft, ScriptLeft
  <2>4. UploadLeft(pod)' < UploadLeft(pod)
    BY <2>2, <2>3, PollsAssumption
  <2>. QED
    BY <2>1, <2>4, AttemptsKept, UploadAdvances
<1>7. CASE Obfuscate \/ CheckCredentials \/ Archive \/ Send
  <2>1. /\ pod'.gather = pod.gather
        /\ \/ pod.upload = "obfuscate" /\ pod'.upload \in {"credentials", "exited"}
           \/ pod.upload = "credentials" /\ pod'.upload \in {"archive", "exited"}
           \/ pod.upload = "archive" /\ pod'.upload \in {"send", "exited"}
           \/ pod.upload = "send" /\ pod'.upload = "exited"
    BY <1>7, <1>r, ScriptContinues, ScriptExits
       DEF Obfuscate, CheckCredentials, Archive, Send, GatherKept
  <2>3. /\ pod.upload # "polling" /\ pod'.upload # "polling"
        /\ ScriptLeft[pod'.upload] < ScriptLeft[pod.upload]
    BY <2>1 DEF ScriptLeft
  <2>2. UNCHANGED <<failed, job>>
    BY <1>7 DEF Obfuscate, CheckCredentials, Archive, Send
  <2>. QED
    BY <2>1, <2>2, <2>3, AttemptsKept, ScriptAdvances
<1>8. CASE PodKilled
  <2>1. /\ pod'.gather = IF pod.gather = "absent" THEN "absent" ELSE "exited"
        /\ pod'.upload = IF pod.upload = "absent" THEN "absent" ELSE "exited"
        /\ UNCHANGED <<failed, job>>
    BY <1>8, <1>r DEF PodKilled, Pods
  <2>2. PodLeft' = 0
    BY <2>1 DEF PodLeft, GatherLeft, UploadLeft, ScriptLeft
  <2>3. PodLeft # 0
    <3>1. CASE pod.gather \notin {"absent", "exited"}
      <4>1. GatherLeft(pod) \in 1 .. 3
        BY <1>r, <3>1 DEF GatherLeft, Pods
      <4>. QED
        BY <4>1, LeftBounded DEF PodLeft, LeftInBounds
    <3>2. CASE pod.upload \notin {"absent", "exited", "polling"}
      <4>1. UploadLeft(pod) \in 1 .. 4
        BY <1>r, <3>2 DEF UploadLeft, ScriptLeft, Pods
      <4>. QED
        BY <4>1, LeftBounded DEF PodLeft, LeftInBounds
    <3>3. CASE pod.upload = "polling"
      <4>1. UploadLeft(pod) \in {5 + Polls - pod.count, 5 + Polls}
        BY <3>3 DEF UploadLeft
      <4>. QED
        BY <1>r, <4>1, LeftBounded, PollsAssumption DEF PodLeft, LeftInBounds
    <3>. QED
      BY <1>8, <3>1, <3>2, <3>3 DEF PodKilled, Ended
  <2>4. PodLeft' < PodLeft
    BY <2>2, <2>3, LeftBounded DEF LeftInBounds
  <2>. QED
    BY <2>1, <2>4, AttemptsKept
<1>9. CASE PodEnds
  <2>1. failed \in 0 .. BackoffLimit /\ AttemptsLeft = BackoffLimit + 1 - failed
    BY <1>r, BackoffAssumption DEF TypeInv, TypeOK, AttemptsLeft
  <2>2. \/ AttemptsLeft' = 0
        \/ AttemptsLeft' = BackoffLimit + 1 - (failed + 1)
    BY <1>9, <1>r DEF PodEnds, AttemptsLeft
  <2>. QED
    BY <2>1, <2>2, BackoffAssumption
<1>. QED
  BY <1>1, <1>2, <1>3, <1>4, <1>5, <1>6, <1>7, <1>8, <1>9, NextCases

\* Whatever fails, is killed or is left on a PVC, the pods of a Job take at most
\* Polls + 8 steps each, of which BackoffLimit + 1 pods are counted; everything
\* else is the upload container's loop waiting for a gather that has not ended.
\* This holds for every number of polls that a gather may stay hidden.
THEOREM PodWorkRunsOut ==
    Spec => /\ [](AttemptsLeft \in 0 .. BackoffLimit + 1 /\ PodLeft \in 0 .. Polls + 8)
            /\ PodsRunOut
<1>1. Init => SeenInv
  BY DEF Init, SeenInv, NewPod
<1>2. ASSUME TypeInv, TypeInv', SeenInv, DeliveryInv, [Next]_vars
      PROVE  [ \/ AttemptsLeft' < AttemptsLeft
               \/ AttemptsLeft' = AttemptsLeft /\ PodLeft' < PodLeft
               \/ WaitsForGather /\ AttemptsLeft' = AttemptsLeft /\ PodLeft' = PodLeft
             ]_vars
  BY <1>2, PodAdvances
<1>3. TypeInv /\ DeliveryInv /\ [Next]_vars => DeliveryInv'
  BY DeliveryStep
<1>4. TypeInv => AttemptsLeft \in 0 .. BackoffLimit + 1 /\ PodLeft \in 0 .. Polls + 8
  BY LeftBounded DEF LeftInBounds
<1>. QED
  BY <1>1, <1>2, <1>3, <1>4, DeliveryInit, TypeStep, SeenStep, PTL DEF Spec, PodsRunOut
=============================================================================

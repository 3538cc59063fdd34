---------------------------- MODULE JobTemplate ----------------------------
(***************************************************************************)
(* The Job that getJobTemplate builds from a MustGather: which containers  *)
(* its pod has, which volumes, and what is mounted where.  Names of        *)
(* claims, ConfigMaps and directories are abstracted to where they come    *)
(* from in the MustGather.                                                 *)
(***************************************************************************)
EXTENDS Naturals

\* The specs the CRD admits, the operator's proxy setting and whether it has a
\* trusted CA bundle.  Obfuscating a source needs an upload target and excludes
\* a custom command, obfuscating a gather needs somewhere to put it.
Specs ==
    {s \in [sftp : BOOLEAN, obfuscate : {"off", "gather", "source"},
            custom : BOOLEAN, pvc : BOOLEAN, sourceSubPath : BOOLEAN,
            configRef : BOOLEAN, proxy : BOOLEAN, trustedCA : BOOLEAN] :
        /\ s.obfuscate = "source" => s.sftp /\ ~s.custom
        /\ s.obfuscate = "gather" => s.sftp \/ s.pvc
        /\ s.sourceSubPath => s.obfuscate = "source"}

HasObfuscateSource(s)         == s.obfuscate = "source"
IsObfuscateEnabled(s)         == s.obfuscate # "off"
ShouldAppendObfuscateChown(s) == s.obfuscate = "gather"
ShouldAddUploadContainer(s)   == IsObfuscateEnabled(s) \/ s.sftp

\* The environment of the upload container: the case and the credentials for
\* an SFTP target, the configuration of the obfuscation, and the operator's
\* proxy.
HasCredentials(s)     == s.sftp
HasObfuscateConfig(s) == s.configRef
HasProxy(s)           == s.proxy

(***************************************************************************)
(* Volumes.                                                                *)
(***************************************************************************)
VolumeNames(s) ==
    {"must-gather-output", "must-gather-upload"}
        \cup (IF s.trustedCA THEN {"trusted-ca"} ELSE {})
        \cup (IF s.configRef THEN {"obfuscate-config"} ELSE {})

OutputVolume(s) ==
    IF HasObfuscateSource(s) THEN "source claim"
    ELSE IF s.pvc THEN "storage claim" ELSE "emptyDir"

VolumeSource(s, name) ==
    CASE name = "must-gather-output" -> OutputVolume(s)
      [] name = "must-gather-upload" -> "emptyDir"
      [] OTHER -> "ConfigMap"

(***************************************************************************)
(* Mounts.                                                                 *)
(***************************************************************************)
Mount(path, name, sub, ro) ==
    [path |-> path, name |-> name, subPath |-> sub, readOnly |-> ro]

\* outputSubPath: on a PVC every MustGather has a directory of its own.
OutputSubPath(s) == IF s.pvc THEN "directory" ELSE ""

GatherOutputMount(s) ==
    Mount("/must-gather", "must-gather-output", OutputSubPath(s), FALSE)

OutputMount(s) ==
    IF HasObfuscateSource(s)
    THEN Mount("/must-gather", "must-gather-output",
               IF s.sourceSubPath THEN "source" ELSE "", TRUE)
    ELSE Mount("/must-gather", "must-gather-output", OutputSubPath(s), FALSE)

\* Mutants: the upload directory is always scratch space, or the output volume
\* also when that is the source.
UploadMountScratch(s) == Mount("/must-gather-upload", "must-gather-upload", "", FALSE)
UploadMountOutput(s)  ==
    IF IsObfuscateEnabled(s) /\ s.pvc
    THEN Mount("/must-gather-upload", "must-gather-output", OutputSubPath(s), FALSE)
    ELSE Mount("/must-gather-upload", "must-gather-upload", "", FALSE)

\* A gather on a PVC is obfuscated in the directory of its own output.
UploadMount(s) ==
    IF IsObfuscateEnabled(s) /\ ~HasObfuscateSource(s) /\ s.pvc
    THEN Mount("/must-gather-upload", "must-gather-output", OutputSubPath(s), FALSE)
    ELSE Mount("/must-gather-upload", "must-gather-upload", "", FALSE)

TrustedCAMounts(s) ==
    IF s.trustedCA THEN {Mount("/etc/pki/tls/certs", "trusted-ca", "", TRUE)} ELSE {}

ConfigMounts(s) ==
    IF s.configRef
    THEN {Mount("/etc/must-gather-clean/custom-config/config.yaml",
                "obfuscate-config", "config.yaml", TRUE)}
    ELSE {}

\* By container; a container that the pod does not have mounts nothing.
Mounts(s) ==
    [gather |-> IF HasObfuscateSource(s) THEN {}
                ELSE {GatherOutputMount(s)} \cup TrustedCAMounts(s),
     upload |-> IF ~ShouldAddUploadContainer(s) THEN {}
                ELSE {OutputMount(s), UploadMount(s)}
                         \cup TrustedCAMounts(s) \cup ConfigMounts(s)]

(***************************************************************************)
(* What the containers find behind their mounts.                           *)
(***************************************************************************)
Directory(m) == [volume |-> m.name, subPath |-> m.subPath]

\* Where the bundle to upload lies: where the gather puts it, or the source.
BundleDirectory(s) ==
    IF HasObfuscateSource(s)
    THEN [volume  |-> "must-gather-output",
          subPath |-> IF s.sourceSubPath THEN "source" ELSE ""]
    ELSE Directory(GatherOutputMount(s))

\* The upload container reads the bundle, and its own directory is that of the
\* bundle as well.
SeesBundle(s)      == Directory(OutputMount(s)) = BundleDirectory(s)
UploadsInBundle(s) == Directory(UploadMount(s)) = BundleDirectory(s)

\* They outlive the pod.
OutputPersists(s) == OutputVolume(s) # "emptyDir"
UploadPersists(s) == VolumeSource(s, UploadMount(s).name) # "emptyDir"
=============================================================================

----------------------------- MODULE WarmUpJob -----------------------------
(* What the WarmUp controller renders: the pod template of the warm-up job,   *)
(* from the spec of the WarmUp and a pod of its cache group, or a secret.     *)
(* pkg/builder/job.go, pkg/utils/{utils,options,warmup}.go.                   *)
(*                                                                            *)
(* An image is a kind of tag and a version; an option is a key and a value;   *)
(* a file, a name, a volume is a model value.                                 *)
EXTENDS Integers, Sequences, Functions, TLC

\* What a spec leaves out, an option without "=", no worker; a model value.
CONSTANT None

(* Images *)

\* A tag with "latest", "master", "main", "nightly" or "dev" is rolling; "ee" and
\* "ce" tags hold a version; any other tag, or none, has no order.
CompareVersions(current, target) ==
  LET Shared == DOMAIN current \cap DOMAIN target
      Differ == {i \in Shared : current[i] # target[i]}
      First == CHOOSE i \in Differ : \A j \in Differ : i <= j
      Sign(a, b) == IF a > b THEN 1 ELSE IF a < b THEN -1 ELSE 0
  IN IF Differ # {} THEN Sign(current[First], target[First])
     ELSE Sign(Len(current), Len(target))

CompareImageVersion(image, target) ==
  CASE image.tag = "rolling" -> 1
    [] image.tag \in {"ee", "ce"} -> CompareVersions(image.version, target)
    [] OTHER -> -1

MinSupportedWarmupStatsVersion == <<5, 2, 11>>
WarmupSupportStats(image) ==
  CompareImageVersion(image, MinSupportedWarmupStatsVersion) >= 0

(* Mount options *)

IgnoreMountOpts ==
  {"foreground", "cache-size", "free-space-ratio", "group-weight", "cache-dir",
   "group-backup", "commission", "decommission", "cache-group", "no-sharing",
   "log", "no-syslog"}

\* The job reads through the group as a client: it neither caches nor serves.
ClientMountOpts(cacheGroup) ==
  << [key |-> "cache-group", value |-> cacheGroup],
     [key |-> "no-sharing", value |-> None],
     [key |-> "cache-size", value |-> "0"],
     [key |-> "log", value |-> "/dev/stdout"],
     [key |-> "no-syslog", value |-> None] >>

\* The options at some of the indices, in their order.
OptionsAt(options, indices) ==
  LET Upto[n \in 0 .. Len(options)] ==
        IF n = 0 THEN << >>
        ELSE IF n \in indices THEN Append(Upto[n - 1], options[n]) ELSE Upto[n - 1]
  IN Upto[Len(options)]

\* "key=" is invalid and left out.
ParseOptions(options) ==
  OptionsAt(options, {i \in DOMAIN options : options[i].key # "" /\ options[i].value # ""})
Keys(options) == {options[i].key : i \in DOMAIN options}

\* A mutant: every option of the user is added.
AppendAllMountOpts(base, extra) == base \o ParseOptions(extra)

AppendMountOpts(base, extra) ==
  LET own == ParseOptions(extra)
      With[n \in 0 .. Len(own)] ==
        IF n = 0 THEN base
        ELSE LET before == With[n - 1]
             IN IF own[n].key \in IgnoreMountOpts \cup Keys(before) THEN before
                ELSE Append(before, own[n])
  IN With[Len(own)]

MountOpts(wu, worker) ==
  LET FromWorker ==
        IF worker = None THEN <<>>
        ELSE OptionsAt(worker.mountOpts,
                       {i \in DOMAIN worker.mountOpts : worker.mountOpts[i].key \notin IgnoreMountOpts})
  IN AppendMountOpts(ClientMountOpts(wu.cacheGroup) \o FromWorker, wu.mountOpts)

(* The command *)

\* What is written to the list of files: the deprecated Targets go before a path
\* in the file system, and that before a list of files.
FileList(wu) ==
  CASE wu.targets # {} -> [written |-> wu.targets]
    [] wu.targets = {} /\ wu.from # None /\ wu.from.filePath # None -> [link |-> wu.from.filePath]
    [] wu.targets = {} /\ wu.from # None /\ wu.from.filePath = None /\ wu.from.files # {} ->
         [written |-> wu.from.files]
    [] OTHER -> None

\* Without a list the whole file system is warmed up.
UsesFileList(wu) == wu.from # None \/ FileList(wu) # None

\* The first line: the worker's own, or built from the secret.
AuthCmd(wu, worker) ==
  CASE worker # None -> worker.auth
    [] worker = None /\ wu.secret.initconfig -> "cp"
    [] OTHER -> "auth"

WarmUpOptions(wu, image) ==
  wu.options \cup (IF WarmupSupportStats(image) THEN {"debug"} ELSE {})

(* The pod *)

PodFields ==
  {"serviceAccountName", "hostNetwork", "schedulerName", "dnsPolicy", "affinity",
   "enableServiceLinks", "imagePullSecrets", "imagePullPolicy"}

\* The spec goes before the worker, and the worker before the default.
PodField(wu, worker, f) ==
  CASE f \in DOMAIN wu.pod -> wu.pod[f]
    [] f \notin DOMAIN wu.pod /\ worker # None -> worker.pod[f]
    [] OTHER -> None

Image(wu, worker) == IF wu.image # None \/ worker = None THEN wu.image ELSE worker.image

\* Later entries win: the spec's after those of the worker, or of the secret.
Env(wu, worker) == wu.env @@ (IF worker # None THEN worker.env ELSE wu.secret.env)

\* Of the worker's volumes those with the client configuration, or the secret's;
\* and the config map with the list of files.
Volumes(wu, worker) ==
  (IF worker # None THEN {v \in worker.volumes : v.kind \in {"init-config", "config"}}
   ELSE wu.secret.volumes)
  \cup (IF wu.from # None /\ wu.from.configMap # None
        THEN {[kind |-> "files-from", name |-> wu.from.configMap]} ELSE {})

NewWarmUpJob(wu, worker) ==
  LET image == Image(wu, worker) IN
  [ image |-> image,
    auth |-> AuthCmd(wu, worker),
    mountOpts |-> MountOpts(wu, worker),
    fileList |-> FileList(wu),
    usesFileList |-> UsesFileList(wu),
    options |-> WarmUpOptions(wu, image),
    env |-> Env(wu, worker),
    volumes |-> Volumes(wu, worker),
    pod |-> [f \in PodFields |-> PodField(wu, worker, f)],
    nodes |-> wu.nodes,
    backoffLimit |-> wu.backoffLimit ]

\* The annotation with the hash stands for the whole of it.
NewWarmUpCronJob(wu, worker) ==
  [ template |-> NewWarmUpJob(wu, worker), schedule |-> wu.schedule, suspend |-> wu.suspend ]
=============================================================================

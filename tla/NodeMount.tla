----------------------------- MODULE NodeMount ------------------------------
(***************************************************************************)
(* NodePublishVolume and NodeUnpublishVolume of the two node servers       *)
(* (plugin/kodo_node_server.go, plugin/kodofs_node_server.go) and what     *)
(* their connector sessions do to the files of the node.  Several pods of  *)
(* a node use the same volume, each at a target path of its own.           *)
(*                                                                         *)
(* The sessions of a Kodo volume share <VolumeId>.conf, which holds the    *)
(* secret key and is removed when rclone has started; they share the       *)
(* directory of its caches and that of its logs.  A session that is set up *)
(* wrongly, that runs into its 30 s deadline or whose daemon dies is eof   *)
(* to the plugin, which takes that for success (module ConnectorSession).  *)
(* rclone is started with --daemon: what the connector kills is only the   *)
(* process that waits for the mount.                                       *)
(***************************************************************************)
EXTENDS Naturals

CONSTANTS
    Paths,       \* target paths
    Calls,       \* NodePublish/NodeUnpublish requests in progress at a time
    MaxMounts,   \* bound on the mounts that lie on top of each other
    MaxRestarts, \* bound on the restarts of kubelet
    Faults,      \* what may go wrong
    None         \* no path

FaultKinds ==
    {"request",    \* a step of a handler fails
     "umount",     \* umount fails
     "mountinfo",  \* the mount table cannot be read
     "exit",       \* rclone or kodofs fails
     "deadline",   \* a session takes 30 s
     "daemon",     \* the connector dies and is restarted
     "kubelet"}    \* kubelet restarts: it forgets requests and mounts anew

ASSUME NodeAssumption ==
    /\ None \notin Paths
    /\ MaxMounts \in Nat \ {0} /\ MaxRestarts \in Nat
    /\ Faults \subseteq FaultKinds

VARIABLES
    kodo,      \* the paths of the Kodo volume; the others are of KodoFS volumes
    pod,       \* pod[p]: what kubelet wants at p, and what it was told
    pc,        \* pc[t]: the next step of request t and of its session
    path,      \* path[t]: its target path
    waiting,   \* waiting[t]: kubelet waits for the answer
    mounts,    \* mounts[p]: entries of the mount table
    late,      \* paths whose mount process was left alone and may still mount
    conf,      \* <VolumeId>.conf: "absent", "partial", "complete"
    parent,    \* the directory of the volume's caches exists
    cache,     \* paths that have a cache directory
    logDir,    \* the directory of the volume's logs exists
    logs,      \* paths that have a log file
    cleaners,  \* sessions of KodoUmountCmd: <<path, next step>>
    restarts,  \* restarts of kubelet so far
    eof,       \* paths a session of which ended without TerminateCmd
    doubtful   \* paths published again, or unpublished without a look at the
               \* mount table

others  == <<kodo, restarts, pod, pc, path, waiting>>
files   == <<conf, parent, cache, logDir, logs>>
table   == <<mounts, late>>
history == <<eof, doubtful>>
vars    == <<kodo, pod, pc, path, waiting, mounts, late, conf, parent, cache, logDir, logs,
             cleaners, restarts, eof, doubtful>>

Session == {"truncate", "write", "mkParent", "mkCache", "mkLog", "run", "afterRun"}
Publish == Session \cup {"publish", "exited"}
Unpublish == {"isMounted", "umount", "clean"}

\* Every variable holds what its declaration says; a request under way has a
\* path.
TypeOK ==
    /\ kodo \subseteq Paths
    /\ pod \in [Paths -> {"new", "wanted", "published", "unwanted", "gone"}]
    /\ pc \in [Calls -> Publish \cup Unpublish \cup {"idle"}]
    /\ path \in [Calls -> Paths \cup {None}]
    /\ \A t \in Calls : pc[t] # "idle" => path[t] \in Paths
    /\ \A t \in Calls : path[t] \notin kodo => pc[t] \notin Session \ {"run"}
    /\ waiting \in [Calls -> BOOLEAN]
    /\ mounts \in [Paths -> 0..MaxMounts]
    /\ late \subseteq Paths
    /\ conf \in {"absent", "partial", "complete"}
    /\ parent \in BOOLEAN /\ logDir \in BOOLEAN
    /\ cache \subseteq kodo /\ logs \subseteq kodo
    /\ cleaners \subseteq kodo \X {"cache", "log", "parent"}
    /\ restarts \in 0..MaxRestarts
    /\ eof \subseteq Paths /\ doubtful \subseteq Paths

Init ==
    /\ kodo \in SUBSET Paths
    /\ pod = [p \in Paths |-> "new"]
    /\ pc = [t \in Calls |-> "idle"]
    /\ path = [t \in Calls |-> None]
    /\ waiting = [t \in Calls |-> FALSE]
    /\ mounts = [p \in Paths |-> 0]
    /\ late = {}
    /\ conf = "absent"
    /\ parent = FALSE /\ cache = {}
    /\ logDir = FALSE /\ logs = {}
    /\ cleaners = {}
    /\ restarts = 0
    /\ eof = {} /\ doubtful = {}

Goto(t, next) ==
    /\ pc' = [pc EXCEPT ![t] = next]
    /\ UNCHANGED <<kodo, restarts, pod, path, waiting>>

\* The handler returns.  An error makes kubelet, if it still waits, send the
\* request again; a success it believes.
Return(t, result) ==
    /\ pod' = IF result = "ok" /\ waiting[t]
                 THEN [pod EXCEPT ![path[t]] = IF @ = "wanted" THEN "published" ELSE "gone"]
                 ELSE pod
    /\ pc' = [pc EXCEPT ![t] = "idle"]
    /\ path' = [path EXCEPT ![t] = None]
    /\ waiting' = [waiting EXCEPT ![t] = FALSE]
    /\ UNCHANGED <<kodo, restarts>>

-----------------------------------------------------------------------------
(***************************************************************************)
(* kubelet                                                                 *)
(***************************************************************************)

\* kubelet has one request for a path under way at a time.
Send(t, p, step) ==
    /\ pc[t] = "idle"
    /\ \A u \in Calls : path[u] = p => ~ waiting[u]
    /\ pc' = [pc EXCEPT ![t] = step]
    /\ path' = [path EXCEPT ![t] = p]
    /\ waiting' = [waiting EXCEPT ![t] = TRUE]
    /\ UNCHANGED <<kodo, restarts, table, files, cleaners, eof>>

SendPublish(t, p) ==
    /\ pod[p] \in {"new", "wanted"}
    /\ Send(t, p, "publish")
    /\ pod' = [pod EXCEPT ![p] = "wanted"]
    /\ doubtful' = IF pod[p] = "new" THEN doubtful ELSE doubtful \cup {p}

SendUnpublish(t, p) ==
    pod[p] = "unwanted" /\ Send(t, p, "isMounted") /\ UNCHANGED <<pod, doubtful>>

\* The pod is deleted.  A request for it that is under way is awaited.
DeletePod(p) ==
    /\ pod[p] \in {"new", "wanted", "published"}
    /\ \A t \in Calls : path[t] = p => ~ waiting[t]
    /\ pod' = [pod EXCEPT ![p] = IF @ = "new" THEN "gone" ELSE "unwanted"]
    /\ UNCHANGED <<kodo, restarts, pc, path, waiting, table, files, cleaners, history>>

\* kubelet restarts: it waits for nothing any more and publishes what the pods
\* use again.
KubeletRestarts ==
    /\ "kubelet" \in Faults
    /\ restarts < MaxRestarts
    /\ restarts' = restarts + 1
    /\ waiting' = [t \in Calls |-> FALSE]
    /\ pod' = [p \in Paths |-> IF pod[p] = "published" THEN "wanted" ELSE pod[p]]
    /\ UNCHANGED <<kodo, pc, path, table, files, cleaners, history>>

-----------------------------------------------------------------------------
(***************************************************************************)
(* NodePublishVolume                                                       *)
(***************************************************************************)

\* Faulty: a KodoFS volume is mounted by the session of a Kodo volume.
NodePublishVolumeOneKind(t) ==
    /\ pc[t] = "publish"
    /\ Goto(t, "truncate")
    /\ UNCHANGED <<table, files, cleaners, history>>

\* The volume context is parsed, the target path made, the daemon dialled.
\* Nobody asks whether the volume is mounted there already.
NodePublishVolume(t) ==
    /\ pc[t] = "publish"
    /\ \/ Goto(t, IF path[t] \in kodo THEN "truncate" ELSE "run")
       \/ "request" \in Faults /\ Return(t, "error")
    /\ UNCHANGED <<table, files, cleaners, history>>

\* writeRcloneConfig: the file is created or truncated, then written.  Another
\* session may have removed the file in between: the text then goes to the
\* unlinked file, and what has the name now, if anything has, stays as it is.
WriteRcloneConfig(t) ==
    /\ \/ pc[t] = "truncate" /\ conf' = "partial" /\ Goto(t, "write")
       \/ /\ pc[t] = "write"
          /\ conf' \in {conf} \cup (IF conf = "absent" THEN {} ELSE {"complete"})
          /\ Goto(t, "mkParent")
    /\ UNCHANGED <<table, parent, cache, logDir, logs, cleaners, history>>

\* ensureDirectoryExists of the cache directory: os.Stat, then os.MkdirAll, one
\* directory after the other.
EnsureCacheParent(t) ==
    /\ pc[t] = "mkParent"
    /\ IF path[t] \in cache
          THEN Goto(t, "mkLog") /\ UNCHANGED parent
          ELSE Goto(t, "mkCache") /\ parent' = TRUE
    /\ UNCHANGED <<table, conf, cache, logDir, logs, cleaners, history>>

EnsureCacheDir(t) ==
    /\ pc[t] = "mkCache"
    /\ parent
    /\ cache' = cache \cup {path[t]}
    /\ Goto(t, "mkLog")
    /\ UNCHANGED <<table, conf, parent, logDir, logs, cleaners, history>>

EnsureLogDir(t) ==
    /\ pc[t] = "mkLog"
    /\ logDir' = TRUE
    /\ Goto(t, "run")
    /\ UNCHANGED <<table, conf, parent, cache, logs, cleaners, history>>

\* The handler of the session returns before it has started the command: the
\* configuration stays where it is, and the plugin sees eof.
SetupFails(t) ==
    /\ \/ pc[t] = "mkCache" /\ ~ parent
       \/ pc[t] \in Session \ {"run", "afterRun"} /\ "request" \in Faults
    /\ eof' = eof \cup {path[t]}
    /\ Return(t, "ok")
    /\ UNCHANGED <<table, files, cleaners, doubtful>>

\* rclone needs a readable configuration and a place for its log.
CanRun(p) == p \in kodo => conf = "complete" /\ logDir

\* The command mounts and exits with 0; on top of a mount it may refuse to.
RunMounts(t) ==
    LET p == path[t] IN
    /\ pc[t] = "run"
    /\ CanRun(p)
    /\ mounts[p] < MaxMounts
    /\ mounts' = [mounts EXCEPT ![p] = @ + 1]
    /\ IF p \in kodo
          THEN /\ cache' = cache \cup {p} /\ parent' = TRUE
               /\ logs' = logs \cup {p}
               /\ Goto(t, "afterRun")
          ELSE Return(t, "ok") /\ UNCHANGED <<cache, parent, logs>>
    /\ UNCHANGED <<late, conf, logDir, cleaners, history>>

\* Faulty: TerminateCmd is taken for success whatever its code.
RunFailsUnseen(t) ==
    /\ pc[t] = "run"
    /\ ~ CanRun(path[t]) \/ mounts[path[t]] > 0 \/ "exit" \in Faults
    /\ IF path[t] \in kodo THEN Goto(t, "afterRun") ELSE Return(t, "ok")
    /\ UNCHANGED <<table, files, cleaners, history>>

RunFails(t) ==
    /\ pc[t] = "run"
    /\ ~ CanRun(path[t]) \/ mounts[path[t]] > 0 \/ "exit" \in Faults
    /\ IF path[t] \in kodo THEN Goto(t, "exited") ELSE Return(t, "error")
    /\ UNCHANGED <<table, files, cleaners, history>>

\* 30 s have passed: the process is killed and the plugin sees eof.  The
\* process rclone has forked may mount yet.
SessionExpires(t) ==
    /\ "deadline" \in Faults
    /\ pc[t] = "run"
    /\ eof' = eof \cup {path[t]}
    /\ \/ late' = late \cup {path[t]} /\ mounts[path[t]] < MaxMounts
       \/ UNCHANGED late
    /\ IF path[t] \in kodo THEN Goto(t, "afterRun") ELSE Return(t, "ok")
    /\ UNCHANGED <<mounts, files, cleaners, doubtful>>

LateMount(p) ==
    /\ p \in late
    /\ late' = late \ {p}
    /\ \/ mounts[p] < MaxMounts /\ mounts' = [mounts EXCEPT ![p] = @ + 1]
       \/ UNCHANGED mounts
    /\ UNCHANGED <<others, files, cleaners, history>>

\* Faulty: the command is started without afterRun.
AfterRunNil(t) ==
    /\ \/ pc[t] = "afterRun" /\ Return(t, "ok")
       \/ pc[t] = "exited" /\ Return(t, "error")
    /\ UNCHANGED <<table, files, cleaners, history>>

\* afterRun removes the configuration; then the plugin is told.
AfterRun(t) ==
    /\ conf' = "absent"
    /\ \/ pc[t] = "afterRun" /\ Return(t, "ok")
       \/ pc[t] = "exited" /\ Return(t, "error")
    /\ UNCHANGED <<table, parent, cache, logDir, logs, cleaners, history>>

\* The connector dies; every session under way is eof to its plugin.
DaemonDies ==
    LET cut == {t \in Calls : pc[t] \in Session \cup {"exited"}} IN
    /\ "daemon" \in Faults
    /\ pc' = [t \in Calls |-> IF t \in cut THEN "idle" ELSE pc[t]]
    /\ path' = [t \in Calls |-> IF t \in cut THEN None ELSE path[t]]
    /\ waiting' = [t \in Calls |-> waiting[t] /\ t \notin cut]
    /\ pod' = [p \in Paths |-> IF \E t \in cut : waiting[t] /\ path[t] = p
                                  THEN "published" ELSE pod[p]]
    /\ eof' = eof \cup {path[t] : t \in cut}
    /\ late' = late \cup {path[t] : t \in {u \in cut : pc[u] = "run"}}
    /\ cleaners' = {}
    /\ UNCHANGED <<kodo, restarts, mounts, files, doubtful>>

-----------------------------------------------------------------------------
(***************************************************************************)
(* NodeUnpublishVolume                                                     *)
(***************************************************************************)

\* Faulty: the entry asked for is really looked for.
isMountedExact(p) == mounts[p] > 0

\* The filter of isMounted skips no entry, and there is always some mount.
isMounted(p) == TRUE

\* KodoFS volumes have nothing to clean.
AfterUmount(t) ==
    IF path[t] \in kodo THEN Goto(t, "clean") ELSE Return(t, "ok")

\* When the mount table cannot be read, or the path is not in it, nothing is
\* unmounted and the request goes on.
DetectMountPoint(t) ==
    /\ pc[t] = "isMounted"
    /\ \/ isMounted(path[t]) /\ Goto(t, "umount") /\ UNCHANGED doubtful
       \/ ~ isMounted(path[t]) /\ AfterUmount(t) /\ UNCHANGED doubtful
       \/ /\ "mountinfo" \in Faults
          /\ doubtful' = doubtful \cup {path[t]}
          /\ AfterUmount(t)
    /\ UNCHANGED <<table, files, cleaners, eof>>

\* umount -f takes the topmost mount away and fails where there is none.
Unmount(t) ==
    LET p == path[t] IN
    /\ pc[t] = "umount"
    /\ \/ /\ mounts[p] > 0
          /\ mounts' = [mounts EXCEPT ![p] = @ - 1]
          /\ AfterUmount(t)
       \/ /\ mounts[p] = 0 \/ "umount" \in Faults
          /\ UNCHANGED mounts
          /\ Return(t, "error")
    /\ UNCHANGED <<late, files, cleaners, history>>

\* cleanAfterKodoUmount sends KodoUmountCmd and does not wait for its effect;
\* an error is only logged.
CleanAfterKodoUmount(t) ==
    /\ pc[t] = "clean"
    /\ \/ cleaners' = cleaners \cup {<<path[t], "cache">>}
       \/ "request" \in Faults /\ UNCHANGED cleaners
    /\ Return(t, "ok")
    /\ UNCHANGED <<table, files, history>>

\* The connector on KodoUmountCmd: os.RemoveAll of the cache directory, then
\* os.Remove of the log file and of both shared directories, which fails, and
\* is not looked at, while they hold something.
RemoveCache(p) ==
    /\ <<p, "cache">> \in cleaners
    /\ cleaners' = (cleaners \ {<<p, "cache">>}) \cup {<<p, "log">>}
    /\ cache' = cache \ {p}
    /\ UNCHANGED <<others, table, conf, parent, logDir, logs, history>>

RemoveLog(p) ==
    /\ <<p, "log">> \in cleaners
    /\ cleaners' = (cleaners \ {<<p, "log">>}) \cup {<<p, "parent">>}
    /\ logs' = logs \ {p}
    /\ logDir' = (logDir /\ logs' # {})
    /\ UNCHANGED <<others, table, conf, parent, cache, history>>

\* Faulty: os.RemoveAll of the directory of all caches.
RemoveAllCaches(p) ==
    /\ <<p, "parent">> \in cleaners
    /\ cleaners' = cleaners \ {<<p, "parent">>}
    /\ parent' = FALSE /\ cache' = {}
    /\ UNCHANGED <<others, table, conf, logDir, logs, history>>

RemoveCacheParent(p) ==
    /\ <<p, "parent">> \in cleaners
    /\ cleaners' = cleaners \ {<<p, "parent">>}
    /\ parent' = (parent /\ cache # {})
    /\ UNCHANGED <<others, table, conf, cache, logDir, logs, history>>

-----------------------------------------------------------------------------
MountSession(t) ==
    \/ NodePublishVolume(t)
    \/ WriteRcloneConfig(t)
    \/ EnsureCacheParent(t)
    \/ EnsureCacheDir(t)
    \/ EnsureLogDir(t)
    \/ SetupFails(t)
    \/ RunMounts(t)
    \/ RunFails(t)
    \/ SessionExpires(t)
    \/ AfterRun(t)

NodeUnpublishVolume(t) ==
    \/ DetectMountPoint(t)
    \/ Unmount(t)
    \/ CleanAfterKodoUmount(t)

KodoUmount(p) == RemoveCache(p) \/ RemoveLog(p) \/ RemoveCacheParent(p)

Next ==
    \/ \E t \in Calls : MountSession(t) \/ NodeUnpublishVolume(t)
    \/ \E t \in Calls, p \in Paths : SendPublish(t, p) \/ SendUnpublish(t, p)
    \/ \E p \in Paths : DeletePod(p) \/ LateMount(p) \/ KodoUmount(p)
    \/ DaemonDies
    \/ KubeletRestarts

Spec == Init /\ [][Next]_vars

(***************************************************************************)
(* Handlers and sessions run on, kubelet sends what it wants until it is   *)
(* told that it is done, and every pod is deleted one day.                 *)
(***************************************************************************)
FairSpec ==
    /\ Spec
    /\ \A t \in Calls :
          WF_vars(MountSession(t) \/ NodeUnpublishVolume(t))
    /\ \A p \in Paths :
          /\ WF_vars(DeletePod(p))
          /\ WF_vars(LateMount(p) \/ KodoUmount(p))
          /\ SF_vars(\E t \in Calls : SendPublish(t, p) \/ SendUnpublish(t, p))

-----------------------------------------------------------------------------
(***************************************************************************)
(* Properties                                                              *)
(***************************************************************************)

\* A path kubelet was told is published is mounted, whatever the sessions of
\* other pods of the volume did to the shared files meanwhile, unless a session
\* for the path ended without the exit code of its command.
PublishedMeansMounted ==
    \A p \in Paths :
        pod[p] = "published" /\ p \notin eof => mounts[p] > 0

\* kubelet removes the directory of a pod it was told is unpublished.  Nothing
\* is mounted there then, and nothing will be by a session that comes late,
\* unless the volume was published twice at the path, or the mount table could
\* not be read: then NodeUnpublishVolume reports success with the volume still
\* mounted.
UnpublishedMeansUnmounted ==
    \A p \in Paths :
        pod[p] = "gone" /\ p \notin doubtful =>
            mounts[p] = 0 /\ p \notin late

\* The cache directory of a mounted path, which may hold what has not been
\* uploaded, stays: the clean-up after one pod, which runs on after
\* NodeUnpublishVolume has answered, takes no other pod's cache away, and not
\* the path's own while it is mounted (same exceptions).
CacheInUseKept ==
    \A p \in kodo :
        mounts[p] > 0 /\ p \notin doubtful => p \in cache

\* The file with the secret key does not outlive the sessions of the volume,
\* as long as none of them ended without having run its command to the end.
SecretFileRemoved ==
    conf # "absent" /\ eof = {} =>
        \E t \in Calls : pc[t] \in Session \cup {"exited"}

\* NodeUnpublishVolume tolerates a path that is not mounted ("mountPath is not
\* mounted by kodo" is a warning): every pod that is deleted is unpublished in
\* the end, also when the answer to a first request was lost.
DeletedPodIsUnpublished ==
    \A p \in Paths : pod[p] = "unwanted" ~> pod[p] = "gone"
=============================================================================

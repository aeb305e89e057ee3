-------------------------- MODULE NodeMountProofs ---------------------------
(***************************************************************************)
(* Proofs for NodeMount, for any number of target paths and of requests    *)
(* under way, any bounds and any set of faults.                            *)
(*                                                                         *)
(* What NodePublishVolume and NodeUnpublishVolume told kubelet is not      *)
(* inductive: it rests on who may still change the mount table.  NodeInv   *)
(* says that a request kubelet waits for agrees with what kubelet wants at *)
(* its path (Asked), what a session knows before it answers (Told), and    *)
(* that a path that is not doubtful is mounted at most once in its life,   *)
(* so that neither a session nor a forked rclone is left to mount it when  *)
(* its umount has succeeded (Once, Done); the clean-up of a path then      *)
(* finds nobody who needs its cache (Kept).                                *)
(***************************************************************************)
EXTENDS NodeMount, TLAPS

\* The sets of step names and the tuples of variables are only ever used expanded.
USE DEF Session, Publish, Unpublish, others, files, table, history

-----------------------------------------------------------------------------
(***************************************************************************)
(* The inductive invariant                                                 *)
(***************************************************************************)

Flags == waiting \in [Calls -> BOOLEAN] /\ parent \in BOOLEAN /\ logDir \in BOOLEAN

Types ==
    /\ kodo \subseteq Paths
    /\ pod \in [Paths -> {"new", "wanted", "published", "unwanted", "gone"}]
    /\ pc \in [Calls -> Publish \cup Unpublish \cup {"idle"}]
    /\ path \in [Calls -> Paths \cup {None}]
    /\ mounts \in [Paths -> 0..MaxMounts]
    /\ late \subseteq Paths
    /\ restarts \in 0..MaxRestarts
    /\ eof \subseteq Paths /\ doubtful \subseteq Paths

\* A request under way has a path; the steps only Kodo volumes take are taken
\* for one.
Placed ==
    \A t \in Calls :
        /\ pc[t] = "idle" => path[t] = None
        /\ pc[t] # "idle" => path[t] \in Paths
        /\ pc[t] \in (Session \ {"run"}) \cup {"clean"} => path[t] \in kodo

\* The files of the Kodo volume.
Files ==
    /\ conf \in {"absent", "partial", "complete"}
    /\ cache \subseteq kodo /\ logs \subseteq kodo
    /\ cleaners \subseteq kodo \X {"cache", "log", "parent"}

\* kubelet waits for one request per path, for one that does what it wants
\* there; a path is unpublished only when kubelet is done with it.
Asked ==
    /\ \A t, u \in Calls :
          waiting[t] /\ waiting[u] /\ path[t] = path[u] => t = u
    /\ \A t \in Calls :
          /\ waiting[t] => pc[t] # "idle"
          /\ waiting[t] /\ pc[t] \in Publish => pod[path[t]] = "wanted"
          /\ waiting[t] /\ pc[t] \in Unpublish => pod[path[t]] = "unwanted"
          /\ pc[t] \in Unpublish => pod[path[t]] \in {"unwanted", "gone"}
          /\ pc[t] # "idle" => pod[path[t]] # "new"
    /\ \A c \in cleaners : pod[c[1]] # "new"

\* A session that has run its command to the end has mounted the path, and it
\* stays mounted until kubelet is done with it.
Told ==
    /\ \A t \in Calls :
          pc[t] = "afterRun" /\ path[t] \notin eof /\ pod[path[t]] \in {"wanted", "published"}
             => mounts[path[t]] > 0
    /\ PublishedMeansMounted

\* The steps of a request that may mount yet.
Mounting == Publish \ {"afterRun", "exited"}

\* Nothing is mounted at p, and nobody will mount there.
Quiet(p) ==
    /\ mounts[p] = 0 /\ p \notin late
    /\ \A t \in Calls : path[t] = p => pc[t] \notin Mounting

\* A path that is not doubtful is mounted at most once: by the one request for
\* it, or by the process it left behind.
Once ==
    /\ \A p \in Paths \ doubtful : mounts[p] \in {0, 1} /\ (p \in late => mounts[p] = 0)
    /\ \A t \in Calls :
          pc[t] \in Mounting /\ path[t] \notin doubtful =>
              mounts[path[t]] = 0 /\ path[t] \notin late
    /\ \A t, u \in Calls :
          pc[t] \in Mounting /\ pc[u] \in Mounting /\ path[t] = path[u] /\ path[t] \notin doubtful
             => t = u

\* A path kubelet is done with, or has not begun with, is quiet, and so is one
\* that is being cleaned.
Done ==
    /\ \A p \in Paths \ doubtful : pod[p] \in {"new", "gone"} => Quiet(p)
    /\ \A t \in Calls : pc[t] = "clean" /\ path[t] \notin doubtful => Quiet(path[t])
    /\ \A c \in cleaners : c[1] \notin doubtful => Quiet(c[1])

\* Whoever has mounted a path, or is about to, has its cache directory.
Kept ==
    \A p \in kodo \ doubtful :
        /\ mounts[p] > 0 \/ p \in late => p \in cache
        /\ \A t \in Calls : path[t] = p /\ pc[t] \in {"mkLog", "run"} => p \in cache

\* The file with the secret key belongs to a session of the Kodo volume.
KeyHeld ==
    conf # "absent" /\ eof = {} =>
        \E t \in Calls : path[t] \in kodo /\ pc[t] \in Session \cup {"exited"}

NodeInv == Flags /\ Types /\ Placed /\ Files /\ Asked /\ Told /\ Once /\ Done /\ Kept /\ KeyHeld

-----------------------------------------------------------------------------
(***************************************************************************)
(* Steps                                                                   *)
(***************************************************************************)

\* The Boolean variables stay Boolean.
LEMMA FlagsStep ==
    ASSUME Flags, [Next]_vars
    PROVE  Flags'
<1>1. ASSUME NEW t \in Calls, NodePublishVolume(t) PROVE Flags'
  BY <1>1, Zenon DEF NodePublishVolume, Goto, Return, Flags
<1>2. ASSUME NEW t \in Calls, WriteRcloneConfig(t) PROVE Flags'
  BY <1>2, Zenon DEF WriteRcloneConfig, Goto, Flags
<1>3. ASSUME NEW t \in Calls, EnsureCacheParent(t) PROVE Flags'
  BY <1>3, Zenon DEF EnsureCacheParent, Goto, Flags
<1>4. ASSUME NEW t \in Calls, EnsureCacheDir(t) PROVE Flags'
  BY <1>4, Zenon DEF EnsureCacheDir, Goto, Flags
<1>5. ASSUME NEW t \in Calls, EnsureLogDir(t) PROVE Flags'
  BY <1>5, Zenon DEF EnsureLogDir, Goto, Flags
<1>6. ASSUME NEW t \in Calls, SetupFails(t) PROVE Flags'
  BY <1>6, Zenon DEF SetupFails, Return, Flags
<1>7. ASSUME NEW t \in Calls, RunMounts(t) PROVE Flags'
  BY <1>7, Zenon DEF RunMounts, Goto, Return, Flags
<1>8. ASSUME NEW t \in Calls, RunFails(t) PROVE Flags'
  BY <1>8, Zenon DEF RunFails, Goto, Return, Flags
<1>9. ASSUME NEW t \in Calls, SessionExpires(t) PROVE Flags'
  BY <1>9, Zenon DEF SessionExpires, Goto, Return, Flags
<1>10. ASSUME NEW t \in Calls, AfterRun(t) PROVE Flags'
  BY <1>10, Zenon DEF AfterRun, Return, Flags
<1>11. ASSUME NEW t \in Calls, DetectMountPoint(t) PROVE Flags'
  BY <1>11, Zenon DEF DetectMountPoint, Goto, Return, AfterUmount, isMounted, Flags
<1>12. ASSUME NEW t \in Calls, Unmount(t) PROVE Flags'
  BY <1>12, Zenon DEF Unmount, Goto, Return, AfterUmount, Flags
<1>13. ASSUME NEW t \in Calls, CleanAfterKodoUmount(t) PROVE Flags'
  BY <1>13, Zenon DEF CleanAfterKodoUmount, Return, Flags
<1>14. ASSUME NEW t \in Calls, NEW p \in Paths, SendPublish(t, p) PROVE Flags'
  BY <1>14, Zenon DEF SendPublish, Send, Flags
<1>15. ASSUME NEW t \in Calls, NEW p \in Paths, SendUnpublish(t, p) PROVE Flags'
  BY <1>15, Zenon DEF SendUnpublish, Send, Flags
<1>16. ASSUME NEW p \in Paths, DeletePod(p) PROVE Flags'
  BY <1>16, Zenon DEF DeletePod, Flags
<1>17. ASSUME NEW p \in Paths, LateMount(p) PROVE Flags'
  BY <1>17, Zenon DEF LateMount, Flags
<1>18. ASSUME NEW p \in Paths, RemoveCache(p) PROVE Flags'
  BY <1>18, Zenon DEF RemoveCache, Flags
<1>19. ASSUME NEW p \in Paths, RemoveLog(p) PROVE Flags'
  BY <1>19, Zenon DEF RemoveLog, Flags
<1>20. ASSUME NEW p \in Paths, RemoveCacheParent(p) PROVE Flags'
  BY <1>20, Zenon DEF RemoveCacheParent, Flags
<1>21. CASE DaemonDies
  BY <1>21, Zenon DEF DaemonDies, Flags
<1>22. CASE KubeletRestarts
  BY <1>22, Zenon DEF KubeletRestarts, Flags
<1>23. CASE UNCHANGED vars
  BY <1>23, Zenon DEF vars, Flags
<1> QED
  BY <1>1, <1>2, <1>3, <1>4, <1>5, <1>6, <1>7, <1>8, <1>9, <1>10, <1>11, <1>12,
     <1>13, <1>14, <1>15, <1>16, <1>17, <1>18, <1>19, <1>20, <1>21, <1>22, <1>23
     DEF Next, MountSession, NodeUnpublishVolume, KodoUmount

\* The other variables keep their types.
LEMMA TypesStep ==
    ASSUME Types, Placed, [Next]_vars
    PROVE  Types'
<1>1. ASSUME NEW t \in Calls, NodePublishVolume(t) PROVE Types'
  BY <1>1, NodeAssumption DEF NodePublishVolume, Goto, Return, Types, Placed
<1>2. ASSUME NEW t \in Calls, WriteRcloneConfig(t) PROVE Types'
  BY <1>2, NodeAssumption DEF WriteRcloneConfig, Goto, Types, Placed
<1>3. ASSUME NEW t \in Calls, EnsureCacheParent(t) PROVE Types'
  BY <1>3, NodeAssumption DEF EnsureCacheParent, Goto, Types, Placed
<1>4. ASSUME NEW t \in Calls, EnsureCacheDir(t) PROVE Types'
  BY <1>4, NodeAssumption DEF EnsureCacheDir, Goto, Types, Placed
<1>5. ASSUME NEW t \in Calls, EnsureLogDir(t) PROVE Types'
  BY <1>5, NodeAssumption DEF EnsureLogDir, Goto, Types, Placed
<1>6. ASSUME NEW t \in Calls, SetupFails(t) PROVE Types'
  BY <1>6, NodeAssumption DEF SetupFails, Return, Types, Placed
<1>7. ASSUME NEW t \in Calls, RunMounts(t) PROVE Types'
  BY <1>7, NodeAssumption DEF RunMounts, Goto, Return, Types, Placed
<1>8. ASSUME NEW t \in Calls, RunFails(t) PROVE Types'
  BY <1>8, NodeAssumption DEF RunFails, Goto, Return, Types, Placed
<1>9. ASSUME NEW t \in Calls, SessionExpires(t) PROVE Types'
  BY <1>9, NodeAssumption DEF SessionExpires, Goto, Return, Types, Placed
<1>10. ASSUME NEW t \in Calls, AfterRun(t) PROVE Types'
  BY <1>10, NodeAssumption DEF AfterRun, Return, Types, Placed
<1>11. ASSUME NEW t \in Calls, DetectMountPoint(t) PROVE Types'
  BY <1>11, NodeAssumption
     DEF DetectMountPoint, Goto, Return, AfterUmount, isMounted, Types, Placed
<1>12. ASSUME NEW t \in Calls, Unmount(t) PROVE Types'
  BY <1>12, NodeAssumption DEF Unmount, Goto, Return, AfterUmount, Types, Placed
<1>13. ASSUME NEW t \in Calls, CleanAfterKodoUmount(t) PROVE Types'
  BY <1>13, NodeAssumption DEF CleanAfterKodoUmount, Return, Types, Placed
<1>14. ASSUME NEW t \in Calls, NEW p \in Paths, SendPublish(t, p) PROVE Types'
  BY <1>14, NodeAssumption DEF SendPublish, Send, Types, Placed
<1>15. ASSUME NEW t \in Calls, NEW p \in Paths, SendUnpublish(t, p) PROVE Types'
  BY <1>15, NodeAssumption DEF SendUnpublish, Send, Types, Placed
<1>16. ASSUME NEW p \in Paths, DeletePod(p) PROVE Types'
  BY <1>16, NodeAssumption DEF DeletePod, Types, Placed
<1>17. ASSUME NEW p \in Paths, LateMount(p) PROVE Types'
  BY <1>17, NodeAssumption DEF LateMount, Types, Placed
<1>18. ASSUME NEW p \in Paths, RemoveCache(p) PROVE Types'
  BY <1>18, NodeAssumption DEF RemoveCache, Types, Placed
<1>19. ASSUME NEW p \in Paths, RemoveLog(p) PROVE Types'
  BY <1>19, NodeAssumption DEF RemoveLog, Types, Placed
<1>20. ASSUME NEW p \in Paths, RemoveCacheParent(p) PROVE Types'
  BY <1>20, NodeAssumption DEF RemoveCacheParent, Types, Placed
<1>21. CASE DaemonDies
  BY <1>21, NodeAssumption DEF DaemonDies, Types, Placed
<1>22. CASE KubeletRestarts
  BY <1>22, NodeAssumption DEF KubeletRestarts, Types, Placed
<1>23. CASE UNCHANGED vars
  BY <1>23, NodeAssumption DEF vars, Types, Placed
<1> QED
  BY <1>1, <1>2, <1>3, <1>4, <1>5, <1>6, <1>7, <1>8, <1>9, <1>10, <1>11, <1>12,
     <1>13, <1>14, <1>15, <1>16, <1>17, <1>18, <1>19, <1>20, <1>21, <1>22, <1>23
     DEF Next, MountSession, NodeUnpublishVolume, KodoUmount

\* A request has a path as long as it is under way.
LEMMA PlacedStep ==
    ASSUME Types, Placed, [Next]_vars
    PROVE  Placed'
<1>1. ASSUME NEW t \in Calls, NodePublishVolume(t) PROVE Placed'
  BY <1>1, NodeAssumption DEF NodePublishVolume, Goto, Return, Types, Placed
<1>2. ASSUME NEW t \in Calls, WriteRcloneConfig(t) PROVE Placed'
  BY <1>2, NodeAssumption DEF WriteRcloneConfig, Goto, Types, Placed
<1>3. ASSUME NEW t \in Calls, EnsureCacheParent(t) PROVE Placed'
  BY <1>3, NodeAssumption DEF EnsureCacheParent, Goto, Types, Placed
<1>4. ASSUME NEW t \in Calls, EnsureCacheDir(t) PROVE Placed'
  BY <1>4, NodeAssumption DEF EnsureCacheDir, Goto, Types, Placed
<1>5. ASSUME NEW t \in Calls, EnsureLogDir(t) PROVE Placed'
  BY <1>5, NodeAssumption DEF EnsureLogDir, Goto, Types, Placed
<1>6. ASSUME NEW t \in Calls, SetupFails(t) PROVE Placed'
  BY <1>6, NodeAssumption DEF SetupFails, Return, Types, Placed
<1>7. ASSUME NEW t \in Calls, RunMounts(t) PROVE Placed'
  BY <1>7, NodeAssumption DEF RunMounts, Goto, Return, Types, Placed
<1>8. ASSUME NEW t \in Calls, RunFails(t) PROVE Placed'
  BY <1>8, NodeAssumption DEF RunFails, Goto, Return, Types, Placed
<1>9. ASSUME NEW t \in Calls, SessionExpires(t) PROVE Placed'
  BY <1>9, NodeAssumption DEF SessionExpires, Goto, Return, Types, Placed
<1>10. ASSUME NEW t \in Calls, AfterRun(t) PROVE Placed'
  BY <1>10, NodeAssumption DEF AfterRun, Return, Types, Placed
<1>11. ASSUME NEW t \in Calls, DetectMountPoint(t) PROVE Placed'
  BY <1>11, NodeAssumption
     DEF DetectMountPoint, Goto, Return, AfterUmount, isMounted, Types, Placed
<1>12. ASSUME NEW t \in Calls, Unmount(t) PROVE Placed'
  BY <1>12, NodeAssumption DEF Unmount, Goto, Return, AfterUmount, Types, Placed
<1>13. ASSUME NEW t \in Calls, CleanAfterKodoUmount(t) PROVE Placed'
  BY <1>13, NodeAssumption DEF CleanAfterKodoUmount, Return, Types, Placed
<1>14. ASSUME NEW t \in Calls, NEW p \in Paths, SendPublish(t, p) PROVE Placed'
  BY <1>14, NodeAssumption DEF SendPublish, Send, Types, Placed
<1>15. ASSUME NEW t \in Calls, NEW p \in Paths, SendUnpublish(t, p) PROVE Placed'
  BY <1>15, NodeAssumption DEF SendUnpublish, Send, Types, Placed
<1>16. ASSUME NEW p \in Paths, DeletePod(p) PROVE Placed'
  BY <1>16, NodeAssumption DEF DeletePod, Types, Placed
<1>17. ASSUME NEW p \in Paths, LateMount(p) PROVE Placed'
  BY <1>17, NodeAssumption DEF LateMount, Types, Placed
<1>18. ASSUME NEW p \in Paths, RemoveCache(p) PROVE Placed'
  BY <1>18, NodeAssumption DEF RemoveCache, Types, Placed
<1>19. ASSUME NEW p \in Paths, RemoveLog(p) PROVE Placed'
  BY <1>19, NodeAssumption DEF RemoveLog, Types, Placed
<1>20. ASSUME NEW p \in Paths, RemoveCacheParent(p) PROVE Placed'
  BY <1>20, NodeAssumption DEF RemoveCacheParent, Types, Placed
<1>21. CASE DaemonDies
  BY <1>21, NodeAssumption DEF DaemonDies, Types, Placed
<1>22. CASE KubeletRestarts
  BY <1>22, NodeAssumption DEF KubeletRestarts, Types, Placed
<1>23. CASE UNCHANGED vars
  BY <1>23, NodeAssumption DEF vars, Types, Placed
<1> QED
  BY <1>1, <1>2, <1>3, <1>4, <1>5, <1>6, <1>7, <1>8, <1>9, <1>10, <1>11, <1>12,
     <1>13, <1>14, <1>15, <1>16, <1>17, <1>18, <1>19, <1>20, <1>21, <1>22, <1>23
     DEF Next, MountSession, NodeUnpublishVolume, KodoUmount

\* Only sessions of the Kodo volume touch its files.
LEMMA FilesStep ==
    ASSUME Types, Placed, Files, [Next]_vars
    PROVE  Files'
<1>1. ASSUME NEW t \in Calls, NodePublishVolume(t) PROVE Files'
  BY <1>1, NodeAssumption DEF NodePublishVolume, Goto, Return, Types, Placed, Files
<1>2. ASSUME NEW t \in Calls, WriteRcloneConfig(t) PROVE Files'
  BY <1>2, NodeAssumption DEF WriteRcloneConfig, Goto, Types, Placed, Files
<1>3. ASSUME NEW t \in Calls, EnsureCacheParent(t) PROVE Files'
  BY <1>3, NodeAssumption DEF EnsureCacheParent, Goto, Types, Placed, Files
<1>4. ASSUME NEW t \in Calls, EnsureCacheDir(t) PROVE Files'
  BY <1>4, NodeAssumption DEF EnsureCacheDir, Goto, Types, Placed, Files
<1>5. ASSUME NEW t \in Calls, EnsureLogDir(t) PROVE Files'
  BY <1>5, NodeAssumption DEF EnsureLogDir, Goto, Types, Placed, Files
<1>6. ASSUME NEW t \in Calls, SetupFails(t) PROVE Files'
  BY <1>6, NodeAssumption DEF SetupFails, Return, Types, Placed, Files
<1>7. ASSUME NEW t \in Calls, RunMounts(t) PROVE Files'
  BY <1>7, NodeAssumption DEF RunMounts, Goto, Return, Types, Placed, Files
<1>8. ASSUME NEW t \in Calls, RunFails(t) PROVE Files'
  BY <1>8, NodeAssumption DEF RunFails, Goto, Return, Types, Placed, Files
<1>9. ASSUME NEW t \in Calls, SessionExpires(t) PROVE Files'
  BY <1>9, NodeAssumption DEF SessionExpires, Goto, Return, Types, Placed, Files
<1>10. ASSUME NEW t \in Calls, AfterRun(t) PROVE Files'
  BY <1>10, NodeAssumption DEF AfterRun, Return, Types, Placed, Files
<1>11. ASSUME NEW t \in Calls, DetectMountPoint(t) PROVE Files'
  BY <1>11, NodeAssumption
     DEF DetectMountPoint, Goto, Return, AfterUmount, isMounted, Types, Placed, Files
<1>12. ASSUME NEW t \in Calls, Unmount(t) PROVE Files'
  BY <1>12, NodeAssumption DEF Unmount, Goto, Return, AfterUmount, Types, Placed, Files
<1>13. ASSUME NEW t \in Calls, CleanAfterKodoUmount(t) PROVE Files'
  BY <1>13, NodeAssumption DEF CleanAfterKodoUmount, Return, Types, Placed, Files
<1>14. ASSUME NEW t \in Calls, NEW p \in Paths, SendPublish(t, p) PROVE Files'
  BY <1>14, NodeAssumption DEF SendPublish, Send, Types, Placed, Files
<1>15. ASSUME NEW t \in Calls, NEW p \in Paths, SendUnpublish(t, p) PROVE Files'
  BY <1>15, NodeAssumption DEF SendUnpublish, Send, Types, Placed, Files
<1>16. ASSUME NEW p \in Paths, DeletePod(p) PROVE Files'
  BY <1>16, NodeAssumption DEF DeletePod, Types, Placed, Files
<1>17. ASSUME NEW p \in Paths, LateMount(p) PROVE Files'
  BY <1>17, NodeAssumption DEF LateMount, Types, Placed, Files
<1>18. ASSUME NEW p \in Paths, RemoveCache(p) PROVE Files'
  BY <1>18, NodeAssumption DEF RemoveCache, Types, Placed, Files
<1>19. ASSUME NEW p \in Paths, RemoveLog(p) PROVE Files'
  BY <1>19, NodeAssumption DEF RemoveLog, Types, Placed, Files
<1>20. ASSUME NEW p \in Paths, RemoveCacheParent(p) PROVE Files'
  BY <1>20, NodeAssumption DEF RemoveCacheParent, Types, Placed, Files
<1>21. CASE DaemonDies
  BY <1>21, NodeAssumption DEF DaemonDies, Types, Placed, Files
<1>22. CASE KubeletRestarts
  BY <1>22, NodeAssumption DEF KubeletRestarts, Types, Placed, Files
<1>23. CASE UNCHANGED vars
  BY <1>23, NodeAssumption DEF vars, Types, Placed, Files
<1> QED
  BY <1>1, <1>2, <1>3, <1>4, <1>5, <1>6, <1>7, <1>8, <1>9, <1>10, <1>11, <1>12,
     <1>13, <1>14, <1>15, <1>16, <1>17, <1>18, <1>19, <1>20, <1>21, <1>22, <1>23
     DEF Next, MountSession, NodeUnpublishVolume, KodoUmount

\* kubelet is answered by one request per path, and does not change its mind
\* about a path while it waits.
LEMMA AskedStep ==
    ASSUME Flags, Types, Placed, Files, Asked, [Next]_vars
    PROVE  Asked'
<1>1. ASSUME NEW t \in Calls, NodePublishVolume(t) PROVE Asked'
  BY <1>1, NodeAssumption
     DEF NodePublishVolume, Goto, Return, Flags, Types, Placed, Files, Asked
<1>2. ASSUME NEW t \in Calls, WriteRcloneConfig(t) PROVE Asked'
  BY <1>2, NodeAssumption DEF WriteRcloneConfig, Goto, Flags, Types, Placed, Files, Asked
<1>3. ASSUME NEW t \in Calls, EnsureCacheParent(t) PROVE Asked'
  BY <1>3, NodeAssumption DEF EnsureCacheParent, Goto, Flags, Types, Placed, Files, Asked
<1>4. ASSUME NEW t \in Calls, EnsureCacheDir(t) PROVE Asked'
  BY <1>4, NodeAssumption DEF EnsureCacheDir, Goto, Flags, Types, Placed, Files, Asked
<1>5. ASSUME NEW t \in Calls, EnsureLogDir(t) PROVE Asked'
  BY <1>5, NodeAssumption DEF EnsureLogDir, Goto, Flags, Types, Placed, Files, Asked
<1>6. ASSUME NEW t \in Calls, SetupFails(t) PROVE Asked'
  BY <1>6, NodeAssumption DEF SetupFails, Return, Flags, Types, Placed, Files, Asked
<1>7. ASSUME NEW t \in Calls, RunMounts(t) PROVE Asked'
  BY <1>7, NodeAssumption DEF RunMounts, Goto, Return, Flags, Types, Placed, Files, Asked
<1>8. ASSUME NEW t \in Calls, RunFails(t) PROVE Asked'
  BY <1>8, NodeAssumption DEF RunFails, Goto, Return, Flags, Types, Placed, Files, Asked
<1>9. ASSUME NEW t \in Calls, SessionExpires(t) PROVE Asked'
  BY <1>9, NodeAssumption DEF SessionExpires, Goto, Return, Flags, Types, Placed, Files, Asked
<1>10. ASSUME NEW t \in Calls, AfterRun(t) PROVE Asked'
  BY <1>10, NodeAssumption DEF AfterRun, Return, Flags, Types, Placed, Files, Asked
<1>11. ASSUME NEW t \in Calls, DetectMountPoint(t) PROVE Asked'
  BY <1>11, NodeAssumption
     DEF DetectMountPoint, Goto, Return, AfterUmount, isMounted, Flags, Types, Placed, Files,
         Asked
<1>12. ASSUME NEW t \in Calls, Unmount(t) PROVE Asked'
  BY <1>12, NodeAssumption
     DEF Unmount, Goto, Return, AfterUmount, Flags, Types, Placed, Files, Asked
<1>13. ASSUME NEW t \in Calls, CleanAfterKodoUmount(t) PROVE Asked'
  BY <1>13, NodeAssumption DEF CleanAfterKodoUmount, Return, Flags, Types, Placed, Files, Asked
<1>14. ASSUME NEW t \in Calls, NEW p \in Paths, SendPublish(t, p) PROVE Asked'
  BY <1>14, NodeAssumption DEF SendPublish, Send, Flags, Types, Placed, Files, Asked
<1>15. ASSUME NEW t \in Calls, NEW p \in Paths, SendUnpublish(t, p) PROVE Asked'
  BY <1>15, NodeAssumption DEF SendUnpublish, Send, Flags, Types, Placed, Files, Asked
<1>16. ASSUME NEW p \in Paths, DeletePod(p) PROVE Asked'
  BY <1>16, NodeAssumption DEF DeletePod, Flags, Types, Placed, Files, Asked
<1>17. ASSUME NEW p \in Paths, LateMount(p) PROVE Asked'
  BY <1>17, NodeAssumption DEF LateMount, Flags, Types, Placed, Files, Asked
<1>18. ASSUME NEW p \in Paths, RemoveCache(p) PROVE Asked'
  BY <1>18, NodeAssumption DEF RemoveCache, Flags, Types, Placed, Files, Asked
<1>19. ASSUME NEW p \in Paths, RemoveLog(p) PROVE Asked'
  BY <1>19, NodeAssumption DEF RemoveLog, Flags, Types, Placed, Files, Asked
<1>20. ASSUME NEW p \in Paths, RemoveCacheParent(p) PROVE Asked'
  BY <1>20, NodeAssumption DEF RemoveCacheParent, Flags, Types, Placed, Files, Asked
<1>21. CASE DaemonDies
  BY <1>21, NodeAssumption DEF DaemonDies, Flags, Types, Placed, Files, Asked
<1>22. CASE KubeletRestarts
  BY <1>22, NodeAssumption DEF KubeletRestarts, Flags, Types, Placed, Files, Asked
<1>23. CASE UNCHANGED vars
  BY <1>23, NodeAssumption DEF vars, Flags, Types, Placed, Files, Asked
<1> QED
  BY <1>1, <1>2, <1>3, <1>4, <1>5, <1>6, <1>7, <1>8, <1>9, <1>10, <1>11, <1>12,
     <1>13, <1>14, <1>15, <1>16, <1>17, <1>18, <1>19, <1>20, <1>21, <1>22, <1>23
     DEF Next, MountSession, NodeUnpublishVolume, KodoUmount

\* A path is reported as published when it is mounted, and stays so.
LEMMA ToldStep ==
    ASSUME Flags, Types, Placed, Asked, Told, [Next]_vars
    PROVE  Told'
<1>1. ASSUME NEW t \in Calls, NodePublishVolume(t) PROVE Told'
  BY <1>1, NodeAssumption
     DEF NodePublishVolume, Goto, Return, Flags, Types, Placed, Asked, Told,
         PublishedMeansMounted
<1>2. ASSUME NEW t \in Calls, WriteRcloneConfig(t) PROVE Told'
  BY <1>2, NodeAssumption
     DEF WriteRcloneConfig, Goto, Flags, Types, Placed, Asked, Told, PublishedMeansMounted
<1>3. ASSUME NEW t \in Calls, EnsureCacheParent(t) PROVE Told'
  BY <1>3, NodeAssumption
     DEF EnsureCacheParent, Goto, Flags, Types, Placed, Asked, Told, PublishedMeansMounted
<1>4. ASSUME NEW t \in Calls, EnsureCacheDir(t) PROVE Told'
  BY <1>4, NodeAssumption
     DEF EnsureCacheDir, Goto, Flags, Types, Placed, Asked, Told, PublishedMeansMounted
<1>5. ASSUME NEW t \in Calls, EnsureLogDir(t) PROVE Told'
  BY <1>5, NodeAssumption
     DEF EnsureLogDir, Goto, Flags, Types, Placed, Asked, Told, PublishedMeansMounted
<1>6. ASSUME NEW t \in Calls, SetupFails(t) PROVE Told'
  BY <1>6, NodeAssumption
     DEF SetupFails, Return, Flags, Types, Placed, Asked, Told, PublishedMeansMounted
<1>7. ASSUME NEW t \in Calls, RunMounts(t) PROVE Told'
  BY <1>7, NodeAssumption
     DEF RunMounts, Goto, Return, Flags, Types, Placed, Asked, Told, PublishedMeansMounted
<1>8. ASSUME NEW t \in Calls, RunFails(t) PROVE Told'
  BY <1>8, NodeAssumption
     DEF RunFails, Goto, Return, Flags, Types, Placed, Asked, Told, PublishedMeansMounted
<1>9. ASSUME NEW t \in Calls, SessionExpires(t) PROVE Told'
  BY <1>9, NodeAssumption
     DEF SessionExpires, Goto, Return, Flags, Types, Placed, Asked, Told, PublishedMeansMounted
<1>10. ASSUME NEW t \in Calls, AfterRun(t) PROVE Told'
  BY <1>10, NodeAssumption
     DEF AfterRun, Return, Flags, Types, Placed, Asked, Told, PublishedMeansMounted
<1>11. ASSUME NEW t \in Calls, DetectMountPoint(t) PROVE Told'
  BY <1>11, NodeAssumption
     DEF DetectMountPoint, Goto, Return, AfterUmount, isMounted, Flags, Types, Placed, Asked,
         Told, PublishedMeansMounted
<1>12. ASSUME NEW t \in Calls, Unmount(t) PROVE Told'
  BY <1>12, NodeAssumption
     DEF Unmount, Goto, Return, AfterUmount, Flags, Types, Placed, Asked, Told,
         PublishedMeansMounted
<1>13. ASSUME NEW t \in Calls, CleanAfterKodoUmount(t) PROVE Told'
  BY <1>13, NodeAssumption
     DEF CleanAfterKodoUmount, Return, Flags, Types, Placed, Asked, Told, PublishedMeansMounted
<1>14. ASSUME NEW t \in Calls, NEW p \in Paths, SendPublish(t, p) PROVE Told'
  BY <1>14, NodeAssumption
     DEF SendPublish, Send, Flags, Types, Placed, Asked, Told, PublishedMeansMounted
<1>15. ASSUME NEW t \in Calls, NEW p \in Paths, SendUnpublish(t, p) PROVE Told'
  BY <1>15, NodeAssumption
     DEF SendUnpublish, Send, Flags, Types, Placed, Asked, Told, PublishedMeansMounted
<1>16. ASSUME NEW p \in Paths, DeletePod(p) PROVE Told'
  BY <1>16, NodeAssumption
     DEF DeletePod, Flags, Types, Placed, Asked, Told, PublishedMeansMounted
<1>17. ASSUME NEW p \in Paths, LateMount(p) PROVE Told'
  BY <1>17, NodeAssumption
     DEF LateMount, Flags, Types, Placed, Asked, Told, PublishedMeansMounted
<1>18. ASSUME NEW p \in Paths, RemoveCache(p) PROVE Told'
  BY <1>18, NodeAssumption
     DEF RemoveCache, Flags, Types, Placed, Asked, Told, PublishedMeansMounted
<1>19. ASSUME NEW p \in Paths, RemoveLog(p) PROVE Told'
  BY <1>19, NodeAssumption
     DEF RemoveLog, Flags, Types, Placed, Asked, Told, PublishedMeansMounted
<1>20. ASSUME NEW p \in Paths, RemoveCacheParent(p) PROVE Told'
  BY <1>20, NodeAssumption
     DEF RemoveCacheParent, Flags, Types, Placed, Asked, Told, PublishedMeansMounted
<1>21. CASE DaemonDies
  BY <1>21, NodeAssumption
     DEF DaemonDies, Flags, Types, Placed, Asked, Told, PublishedMeansMounted
<1>22. CASE KubeletRestarts
  BY <1>22, NodeAssumption
     DEF KubeletRestarts, Flags, Types, Placed, Asked, Told, PublishedMeansMounted
<1>23. CASE UNCHANGED vars
  BY <1>23, NodeAssumption DEF vars, Flags, Types, Placed, Asked, Told, PublishedMeansMounted
<1> QED
  BY <1>1, <1>2, <1>3, <1>4, <1>5, <1>6, <1>7, <1>8, <1>9, <1>10, <1>11, <1>12,
     <1>13, <1>14, <1>15, <1>16, <1>17, <1>18, <1>19, <1>20, <1>21, <1>22, <1>23
     DEF Next, MountSession, NodeUnpublishVolume, KodoUmount

\* A path that is not doubtful is not mounted twice.
LEMMA OnceStep ==
    ASSUME Types, Placed, Asked, Once, Done, [Next]_vars
    PROVE  Once'
<1>1. ASSUME NEW t \in Calls, NodePublishVolume(t) PROVE Once'
  BY <1>1, NodeAssumption
     DEF NodePublishVolume, Goto, Return, Types, Placed, Asked, Done, Quiet, Once, Mounting
<1>2. ASSUME NEW t \in Calls, WriteRcloneConfig(t) PROVE Once'
  BY <1>2, NodeAssumption
     DEF WriteRcloneConfig, Goto, Types, Placed, Asked, Done, Quiet, Once, Mounting
<1>3. ASSUME NEW t \in Calls, EnsureCacheParent(t) PROVE Once'
  BY <1>3, NodeAssumption
     DEF EnsureCacheParent, Goto, Types, Placed, Asked, Done, Quiet, Once, Mounting
<1>4. ASSUME NEW t \in Calls, EnsureCacheDir(t) PROVE Once'
  BY <1>4, NodeAssumption
     DEF EnsureCacheDir, Goto, Types, Placed, Asked, Done, Quiet, Once, Mounting
<1>5. ASSUME NEW t \in Calls, EnsureLogDir(t) PROVE Once'
  BY <1>5, NodeAssumption
     DEF EnsureLogDir, Goto, Types, Placed, Asked, Done, Quiet, Once, Mounting
<1>6. ASSUME NEW t \in Calls, SetupFails(t) PROVE Once'
  BY <1>6, NodeAssumption
     DEF SetupFails, Return, Types, Placed, Asked, Done, Quiet, Once, Mounting
<1>7. ASSUME NEW t \in Calls, RunMounts(t) PROVE Once'
  BY <1>7, NodeAssumption
     DEF RunMounts, Goto, Return, Types, Placed, Asked, Done, Quiet, Once, Mounting
<1>8. ASSUME NEW t \in Calls, RunFails(t) PROVE Once'
  BY <1>8, NodeAssumption
     DEF RunFails, Goto, Return, Types, Placed, Asked, Done, Quiet, Once, Mounting
<1>9. ASSUME NEW t \in Calls, SessionExpires(t) PROVE Once'
  BY <1>9, NodeAssumption
     DEF SessionExpires, Goto, Return, Types, Placed, Asked, Done, Quiet, Once, Mounting
<1>10. ASSUME NEW t \in Calls, AfterRun(t) PROVE Once'
  BY <1>10, NodeAssumption
     DEF AfterRun, Return, Types, Placed, Asked, Done, Quiet, Once, Mounting
<1>11. ASSUME NEW t \in Calls, DetectMountPoint(t) PROVE Once'
  BY <1>11, NodeAssumption
     DEF DetectMountPoint, Goto, Return, AfterUmount, isMounted, Types, Placed, Asked, Done,
         Quiet, Once, Mounting
<1>12. ASSUME NEW t \in Calls, Unmount(t) PROVE Once'
  BY <1>12, NodeAssumption
     DEF Unmount, Goto, Return, AfterUmount, Types, Placed, Asked, Done, Quiet, Once, Mounting
<1>13. ASSUME NEW t \in Calls, CleanAfterKodoUmount(t) PROVE Once'
  BY <1>13, NodeAssumption
     DEF CleanAfterKodoUmount, Return, Types, Placed, Asked, Done, Quiet, Once, Mounting
<1>14. ASSUME NEW t \in Calls, NEW p \in Paths, SendPublish(t, p) PROVE Once'
  BY <1>14, NodeAssumption
     DEF SendPublish, Send, Types, Placed, Asked, Done, Quiet, Once, Mounting
<1>15. ASSUME NEW t \in Calls, NEW p \in Paths, SendUnpublish(t, p) PROVE Once'
  BY <1>15, NodeAssumption
     DEF SendUnpublish, Send, Types, Placed, Asked, Done, Quiet, Once, Mounting
<1>16. ASSUME NEW p \in Paths, DeletePod(p) PROVE Once'
  BY <1>16, NodeAssumption DEF DeletePod, Types, Placed, Asked, Done, Quiet, Once, Mounting
<1>17. ASSUME NEW p \in Paths, LateMount(p) PROVE Once'
  BY <1>17, NodeAssumption DEF LateMount, Types, Placed, Asked, Done, Quiet, Once, Mounting
<1>18. ASSUME NEW p \in Paths, RemoveCache(p) PROVE Once'
  BY <1>18, NodeAssumption DEF RemoveCache, Types, Placed, Asked, Done, Quiet, Once, Mounting
<1>19. ASSUME NEW p \in Paths, RemoveLog(p) PROVE Once'
  BY <1>19, NodeAssumption DEF RemoveLog, Types, Placed, Asked, Done, Quiet, Once, Mounting
<1>20. ASSUME NEW p \in Paths, RemoveCacheParent(p) PROVE Once'
  BY <1>20, NodeAssumption
     DEF RemoveCacheParent, Types, Placed, Asked, Done, Quiet, Once, Mounting
<1>21. CASE DaemonDies
  BY <1>21, NodeAssumption DEF DaemonDies, Types, Placed, Asked, Done, Quiet, Once, Mounting
<1>22. CASE KubeletRestarts
  BY <1>22, NodeAssumption
     DEF KubeletRestarts, Types, Placed, Asked, Done, Quiet, Once, Mounting
<1>23. CASE UNCHANGED vars
  BY <1>23, NodeAssumption DEF vars, Types, Placed, Asked, Done, Quiet, Once, Mounting
<1> QED
  BY <1>1, <1>2, <1>3, <1>4, <1>5, <1>6, <1>7, <1>8, <1>9, <1>10, <1>11, <1>12,
     <1>13, <1>14, <1>15, <1>16, <1>17, <1>18, <1>19, <1>20, <1>21, <1>22, <1>23
     DEF Next, MountSession, NodeUnpublishVolume, KodoUmount

\* When a path has been unmounted, nobody mounts it again.
LEMMA DoneStep ==
    ASSUME Flags, Types, Placed, Files, Asked, Once, Done, [Next]_vars
    PROVE  Done'
<1>1. ASSUME NEW t \in Calls, NodePublishVolume(t) PROVE Done'
  BY <1>1, NodeAssumption
     DEF NodePublishVolume, Goto, Return, Types, Placed, Files, Asked, Once, Done, Quiet,
         Mounting
<1>2. ASSUME NEW t \in Calls, WriteRcloneConfig(t) PROVE Done'
  BY <1>2, NodeAssumption
     DEF WriteRcloneConfig, Goto, Types, Placed, Files, Asked, Once, Done, Quiet, Mounting
<1>3. ASSUME NEW t \in Calls, EnsureCacheParent(t) PROVE Done'
  BY <1>3, NodeAssumption
     DEF EnsureCacheParent, Goto, Types, Placed, Files, Asked, Once, Done, Quiet, Mounting
<1>4. ASSUME NEW t \in Calls, EnsureCacheDir(t) PROVE Done'
  BY <1>4, NodeAssumption
     DEF EnsureCacheDir, Goto, Types, Placed, Files, Asked, Once, Done, Quiet, Mounting
<1>5. ASSUME NEW t \in Calls, EnsureLogDir(t) PROVE Done'
  BY <1>5, NodeAssumption
     DEF EnsureLogDir, Goto, Types, Placed, Files, Asked, Once, Done, Quiet, Mounting
<1>6. ASSUME NEW t \in Calls, SetupFails(t) PROVE Done'
  BY <1>6, NodeAssumption
     DEF SetupFails, Return, Types, Placed, Files, Asked, Once, Done, Quiet, Mounting
<1>7. ASSUME NEW t \in Calls, RunMounts(t) PROVE Done'
  BY <1>7, NodeAssumption
     DEF RunMounts, Goto, Return, Types, Placed, Files, Asked, Once, Done, Quiet, Mounting
<1>8. ASSUME NEW t \in Calls, RunFails(t) PROVE Done'
  BY <1>8, NodeAssumption
     DEF RunFails, Goto, Return, Types, Placed, Files, Asked, Once, Done, Quiet, Mounting
<1>9. ASSUME NEW t \in Calls, SessionExpires(t) PROVE Done'
  BY <1>9, NodeAssumption
     DEF SessionExpires, Goto, Return, Types, Placed, Files, Asked, Once, Done, Quiet, Mounting
<1>10. ASSUME NEW t \in Calls, AfterRun(t) PROVE Done'
  BY <1>10, NodeAssumption
     DEF AfterRun, Return, Types, Placed, Files, Asked, Once, Done, Quiet, Mounting
<1>11. ASSUME NEW t \in Calls, DetectMountPoint(t) PROVE Done'
  BY <1>11, NodeAssumption
     DEF DetectMountPoint, Goto, Return, AfterUmount, isMounted, Types, Placed, Files, Asked,
         Once, Done, Quiet, Mounting
<1>12. ASSUME NEW t \in Calls, Unmount(t) PROVE Done'
  BY <1>12, NodeAssumption
     DEF Unmount, Goto, Return, AfterUmount, Types, Placed, Files, Asked, Once, Done, Quiet,
         Mounting
<1>13. ASSUME NEW t \in Calls, CleanAfterKodoUmount(t) PROVE Done'
  BY <1>13, NodeAssumption
     DEF CleanAfterKodoUmount, Return, Types, Placed, Files, Asked, Once, Done, Quiet, Mounting
<1>14. ASSUME NEW t \in Calls, NEW p \in Paths, SendPublish(t, p) PROVE Done'
  BY <1>14, NodeAssumption
     DEF SendPublish, Send, Types, Placed, Files, Asked, Once, Done, Quiet, Mounting
<1>15. ASSUME NEW t \in Calls, NEW p \in Paths, SendUnpublish(t, p) PROVE Done'
  BY <1>15, NodeAssumption
     DEF SendUnpublish, Send, Types, Placed, Files, Asked, Once, Done, Quiet, Mounting
<1>16. ASSUME NEW p \in Paths, DeletePod(p) PROVE Done'
  BY <1>16, NodeAssumption
     DEF DeletePod, Types, Placed, Files, Asked, Once, Done, Quiet, Mounting
<1>17. ASSUME NEW p \in Paths, LateMount(p) PROVE Done'
  BY <1>17, NodeAssumption
     DEF LateMount, Types, Placed, Files, Asked, Once, Done, Quiet, Mounting
<1>18. ASSUME NEW p \in Paths, RemoveCache(p) PROVE Done'
  BY <1>18, NodeAssumption
     DEF RemoveCache, Types, Placed, Files, Asked, Once, Done, Quiet, Mounting
<1>19. ASSUME NEW p \in Paths, RemoveLog(p) PROVE Done'
  BY <1>19, NodeAssumption
     DEF RemoveLog, Types, Placed, Files, Asked, Once, Done, Quiet, Mounting
<1>20. ASSUME NEW p \in Paths, RemoveCacheParent(p) PROVE Done'
  BY <1>20, NodeAssumption
     DEF RemoveCacheParent, Types, Placed, Files, Asked, Once, Done, Quiet, Mounting
<1>21. CASE DaemonDies
  BY <1>21, NodeAssumption
     DEF DaemonDies, Types, Placed, Files, Asked, Once, Done, Quiet, Mounting
<1>22. CASE KubeletRestarts
  BY <1>22, NodeAssumption
     DEF KubeletRestarts, Types, Placed, Files, Asked, Once, Done, Quiet, Mounting
<1>23. CASE UNCHANGED vars
  BY <1>23, NodeAssumption DEF vars, Types, Placed, Files, Asked, Once, Done, Quiet, Mounting
<1> QED
  BY <1>1, <1>2, <1>3, <1>4, <1>5, <1>6, <1>7, <1>8, <1>9, <1>10, <1>11, <1>12,
     <1>13, <1>14, <1>15, <1>16, <1>17, <1>18, <1>19, <1>20, <1>21, <1>22, <1>23
     DEF Next, MountSession, NodeUnpublishVolume, KodoUmount

\* The cache of a path in use is not removed.
LEMMA KeptStep ==
    ASSUME Types, Placed, Files, Asked, Once, Done, Kept, [Next]_vars
    PROVE  Kept'
<1>1. ASSUME NEW t \in Calls, NodePublishVolume(t) PROVE Kept'
  BY <1>1, NodeAssumption
     DEF NodePublishVolume, Goto, Return, Types, Placed, Files, Asked, Once, Done, Quiet,
         Mounting, Kept
<1>2. ASSUME NEW t \in Calls, WriteRcloneConfig(t) PROVE Kept'
  BY <1>2, NodeAssumption
     DEF WriteRcloneConfig, Goto, Types, Placed, Files, Asked, Once, Done, Quiet, Mounting, Kept
<1>3. ASSUME NEW t \in Calls, EnsureCacheParent(t) PROVE Kept'
  BY <1>3, NodeAssumption
     DEF EnsureCacheParent, Goto, Types, Placed, Files, Asked, Once, Done, Quiet, Mounting, Kept
<1>4. ASSUME NEW t \in Calls, EnsureCacheDir(t) PROVE Kept'
  BY <1>4, NodeAssumption
     DEF EnsureCacheDir, Goto, Types, Placed, Files, Asked, Once, Done, Quiet, Mounting, Kept
<1>5. ASSUME NEW t \in Calls, EnsureLogDir(t) PROVE Kept'
  BY <1>5, NodeAssumption
     DEF EnsureLogDir, Goto, Types, Placed, Files, Asked, Once, Done, Quiet, Mounting, Kept
<1>6. ASSUME NEW t \in Calls, SetupFails(t) PROVE Kept'
  BY <1>6, NodeAssumption
     DEF SetupFails, Return, Types, Placed, Files, Asked, Once, Done, Quiet, Mounting, Kept
<1>7. ASSUME NEW t \in Calls, RunMounts(t) PROVE Kept'
  BY <1>7, NodeAssumption
     DEF RunMounts, Goto, Return, Types, Placed, Files, Asked, Once, Done, Quiet, Mounting, Kept
<1>8. ASSUME NEW t \in Calls, RunFails(t) PROVE Kept'
  BY <1>8, NodeAssumption
     DEF RunFails, Goto, Return, Types, Placed, Files, Asked, Once, Done, Quiet, Mounting, Kept
<1>9. ASSUME NEW t \in Calls, SessionExpires(t) PROVE Kept'
  BY <1>9, NodeAssumption
     DEF SessionExpires, Goto, Return, Types, Placed, Files, Asked, Once, Done, Quiet,
         Mounting, Kept
<1>10. ASSUME NEW t \in Calls, AfterRun(t) PROVE Kept'
  BY <1>10, NodeAssumption
     DEF AfterRun, Return, Types, Placed, Files, Asked, Once, Done, Quiet, Mounting, Kept
<1>11. ASSUME NEW t \in Calls, DetectMountPoint(t) PROVE Kept'
  BY <1>11, NodeAssumption
     DEF DetectMountPoint, Goto, Return, AfterUmount, isMounted, Types, Placed, Files, Asked,
         Once, Done, Quiet, Mounting, Kept
<1>12. ASSUME NEW t \in Calls, Unmount(t) PROVE Kept'
  BY <1>12, NodeAssumption
     DEF Unmount, Goto, Return, AfterUmount, Types, Placed, Files, Asked, Once, Done, Quiet,
         Mounting, Kept
<1>13. ASSUME NEW t \in Calls, CleanAfterKodoUmount(t) PROVE Kept'
  BY <1>13, NodeAssumption
     DEF CleanAfterKodoUmount, Return, Types, Placed, Files, Asked, Once, Done, Quiet,
         Mounting, Kept
<1>14. ASSUME NEW t \in Calls, NEW p \in Paths, SendPublish(t, p) PROVE Kept'
  BY <1>14, NodeAssumption
     DEF SendPublish, Send, Types, Placed, Files, Asked, Once, Done, Quiet, Mounting, Kept
<1>15. ASSUME NEW t \in Calls, NEW p \in Paths, SendUnpublish(t, p) PROVE Kept'
  BY <1>15, NodeAssumption
     DEF SendUnpublish, Send, Types, Placed, Files, Asked, Once, Done, Quiet, Mounting, Kept
<1>16. ASSUME NEW p \in Paths, DeletePod(p) PROVE Kept'
  BY <1>16, NodeAssumption
     DEF DeletePod, Types, Placed, Files, Asked, Once, Done, Quiet, Mounting, Kept
<1>17. ASSUME NEW p \in Paths, LateMount(p) PROVE Kept'
  BY <1>17, NodeAssumption
     DEF LateMount, Types, Placed, Files, Asked, Once, Done, Quiet, Mounting, Kept
<1>18. ASSUME NEW p \in Paths, RemoveCache(p) PROVE Kept'
  BY <1>18, NodeAssumption
     DEF RemoveCache, Types, Placed, Files, Asked, Once, Done, Quiet, Mounting, Kept
<1>19. ASSUME NEW p \in Paths, RemoveLog(p) PROVE Kept'
  BY <1>19, NodeAssumption
     DEF RemoveLog, Types, Placed, Files, Asked, Once, Done, Quiet, Mounting, Kept
<1>20. ASSUME NEW p \in Paths, RemoveCacheParent(p) PROVE Kept'
  BY <1>20, NodeAssumption
     DEF RemoveCacheParent, Types, Placed, Files, Asked, Once, Done, Quiet, Mounting, Kept
<1>21. CASE DaemonDies
  BY <1>21, NodeAssumption
     DEF DaemonDies, Types, Placed, Files, Asked, Once, Done, Quiet, Mounting, Kept
<1>22. CASE KubeletRestarts
  BY <1>22, NodeAssumption
     DEF KubeletRestarts, Types, Placed, Files, Asked, Once, Done, Quiet, Mounting, Kept
<1>23. CASE UNCHANGED vars
  BY <1>23, NodeAssumption
     DEF vars, Types, Placed, Files, Asked, Once, Done, Quiet, Mounting, Kept
<1> QED
  BY <1>1, <1>2, <1>3, <1>4, <1>5, <1>6, <1>7, <1>8, <1>9, <1>10, <1>11, <1>12,
     <1>13, <1>14, <1>15, <1>16, <1>17, <1>18, <1>19, <1>20, <1>21, <1>22, <1>23
     DEF Next, MountSession, NodeUnpublishVolume, KodoUmount

\* The session that wrote the configuration removes it, or ends in eof.
LEMMA KeyStep ==
    ASSUME Types, Placed, KeyHeld, [Next]_vars
    PROVE  KeyHeld'
<1>1. ASSUME NEW t \in Calls, NodePublishVolume(t) PROVE KeyHeld'
  BY <1>1, NodeAssumption DEF NodePublishVolume, Goto, Return, Types, Placed, KeyHeld
<1>2. ASSUME NEW t \in Calls, WriteRcloneConfig(t) PROVE KeyHeld'
  BY <1>2, NodeAssumption DEF WriteRcloneConfig, Goto, Types, Placed, KeyHeld
<1>3. ASSUME NEW t \in Calls, EnsureCacheParent(t) PROVE KeyHeld'
  BY <1>3, NodeAssumption DEF EnsureCacheParent, Goto, Types, Placed, KeyHeld
<1>4. ASSUME NEW t \in Calls, EnsureCacheDir(t) PROVE KeyHeld'
  BY <1>4, NodeAssumption DEF EnsureCacheDir, Goto, Types, Placed, KeyHeld
<1>5. ASSUME NEW t \in Calls, EnsureLogDir(t) PROVE KeyHeld'
  BY <1>5, NodeAssumption DEF EnsureLogDir, Goto, Types, Placed, KeyHeld
<1>6. ASSUME NEW t \in Calls, SetupFails(t) PROVE KeyHeld'
  BY <1>6, NodeAssumption DEF SetupFails, Return, Types, Placed, KeyHeld
<1>7. ASSUME NEW t \in Calls, RunMounts(t) PROVE KeyHeld'
  BY <1>7, NodeAssumption DEF RunMounts, Goto, Return, Types, Placed, KeyHeld
<1>8. ASSUME NEW t \in Calls, RunFails(t) PROVE KeyHeld'
  BY <1>8, NodeAssumption DEF RunFails, Goto, Return, Types, Placed, KeyHeld
<1>9. ASSUME NEW t \in Calls, SessionExpires(t) PROVE KeyHeld'
  BY <1>9, NodeAssumption DEF SessionExpires, Goto, Return, Types, Placed, KeyHeld
<1>10. ASSUME NEW t \in Calls, AfterRun(t) PROVE KeyHeld'
  BY <1>10, NodeAssumption DEF AfterRun, Return, Types, Placed, KeyHeld
<1>11. ASSUME NEW t \in Calls, DetectMountPoint(t) PROVE KeyHeld'
  BY <1>11, NodeAssumption
     DEF DetectMountPoint, Goto, Return, AfterUmount, isMounted, Types, Placed, KeyHeld
<1>12. ASSUME NEW t \in Calls, Unmount(t) PROVE KeyHeld'
  BY <1>12, NodeAssumption DEF Unmount, Goto, Return, AfterUmount, Types, Placed, KeyHeld
<1>13. ASSUME NEW t \in Calls, CleanAfterKodoUmount(t) PROVE KeyHeld'
  BY <1>13, NodeAssumption DEF CleanAfterKodoUmount, Return, Types, Placed, KeyHeld
<1>14. ASSUME NEW t \in Calls, NEW p \in Paths, SendPublish(t, p) PROVE KeyHeld'
  BY <1>14, NodeAssumption DEF SendPublish, Send, Types, Placed, KeyHeld
<1>15. ASSUME NEW t \in Calls, NEW p \in Paths, SendUnpublish(t, p) PROVE KeyHeld'
  BY <1>15, NodeAssumption DEF SendUnpublish, Send, Types, Placed, KeyHeld
<1>16. ASSUME NEW p \in Paths, DeletePod(p) PROVE KeyHeld'
  BY <1>16, NodeAssumption DEF DeletePod, Types, Placed, KeyHeld
<1>17. ASSUME NEW p \in Paths, LateMount(p) PROVE KeyHeld'
  BY <1>17, NodeAssumption DEF LateMount, Types, Placed, KeyHeld
<1>18. ASSUME NEW p \in Paths, RemoveCache(p) PROVE KeyHeld'
  BY <1>18, NodeAssumption DEF RemoveCache, Types, Placed, KeyHeld
<1>19. ASSUME NEW p \in Paths, RemoveLog(p) PROVE KeyHeld'
  BY <1>19, NodeAssumption DEF RemoveLog, Types, Placed, KeyHeld
<1>20. ASSUME NEW p \in Paths, RemoveCacheParent(p) PROVE KeyHeld'
  BY <1>20, NodeAssumption DEF RemoveCacheParent, Types, Placed, KeyHeld
<1>21. CASE DaemonDies
  <2>1. SUFFICES ASSUME conf' # "absent", eof' = {} PROVE FALSE
    BY DEF KeyHeld
  <2>2. PICK t \in Calls : path[t] \in kodo /\ pc[t] \in Session \cup {"exited"}
    BY <1>21, <2>1 DEF DaemonDies, KeyHeld
  <2>3. path[t] \in eof'
    BY <1>21, <2>2 DEF DaemonDies
  <2> QED
    BY <2>1, <2>3
<1>22. CASE KubeletRestarts
  BY <1>22, NodeAssumption DEF KubeletRestarts, Types, Placed, KeyHeld
<1>23. CASE UNCHANGED vars
  BY <1>23, NodeAssumption DEF vars, Types, Placed, KeyHeld
<1> QED
  BY <1>1, <1>2, <1>3, <1>4, <1>5, <1>6, <1>7, <1>8, <1>9, <1>10, <1>11, <1>12,
     <1>13, <1>14, <1>15, <1>16, <1>17, <1>18, <1>19, <1>20, <1>21, <1>22, <1>23
     DEF Next, MountSession, NodeUnpublishVolume, KodoUmount

-----------------------------------------------------------------------------
(***************************************************************************)
(* The theorems                                                            *)
(***************************************************************************)

\* NodeInv is an invariant of the node.
THEOREM NodeInvariant == Spec => []NodeInv
<1>1. Init => NodeInv
  <2>1. Init => Flags
    BY Zenon DEF Init, Flags
  <2>2. Init => Types
    BY NodeAssumption DEF Init, Types
  <2>3. Init => Placed /\ Files /\ Kept /\ KeyHeld
    BY NodeAssumption DEF Init, Placed, Files, Kept, KeyHeld
  <2>4. Init => Asked /\ Told
    BY NodeAssumption DEF Init, Asked, Told, PublishedMeansMounted
  <2>5. Init => Once /\ Done
    BY NodeAssumption DEF Init, Once, Done, Quiet, Mounting
  <2> QED
    BY <2>1, <2>2, <2>3, <2>4, <2>5 DEF NodeInv
<1>2. NodeInv /\ [Next]_vars => NodeInv'
  BY FlagsStep, TypesStep, PlacedStep, FilesStep, AskedStep, ToldStep, OnceStep, DoneStep, KeptStep,
     KeyStep
     DEF NodeInv
<1> QED
  BY <1>1, <1>2, PTL DEF Spec

\* The variables hold what they are declared to hold, whatever requests,
\* sessions, restarts and failures do.
THEOREM TypeCorrect == Spec => []TypeOK
<1>1. NodeInv => TypeOK
  <2>1. NodeInv => waiting \in [Calls -> BOOLEAN] /\ parent \in BOOLEAN /\ logDir \in BOOLEAN
    BY Zenon DEF NodeInv, Flags
  <2> QED
    BY <2>1 DEF NodeInv, Types, Placed, Files, TypeOK
<1> QED
  BY <1>1, NodeInvariant, PTL

\* A path kubelet was told is published is mounted, unless a session for it
\* ended without the exit code of its command (eof counts as success in the
\* plugin).
THEOREM PublishedIsMounted == Spec => []PublishedMeansMounted
<1>1. NodeInv => PublishedMeansMounted
  BY DEF NodeInv, Told
<1> QED
  BY <1>1, NodeInvariant, PTL

\* A path kubelet was told is unpublished is not mounted and will not be, unless
\* it was published twice or the mount table could not be read.
THEOREM UnpublishedIsUnmounted == Spec => []UnpublishedMeansUnmounted
<1>1. NodeInv => UnpublishedMeansUnmounted
  BY DEF NodeInv, Done, Quiet, UnpublishedMeansUnmounted
<1> QED
  BY <1>1, NodeInvariant, PTL

\* The clean-up that goes on after NodeUnpublishVolume has answered removes the
\* cache of no mounted path (same exceptions).
THEOREM CacheIsKept == Spec => []CacheInUseKept
<1>1. NodeInv => CacheInUseKept
  BY DEF NodeInv, Types, Kept, CacheInUseKept
<1> QED
  BY <1>1, NodeInvariant, PTL

\* While every session runs its command to the end, the file with the secret
\* key is there only as long as some session of the volume is under way.
THEOREM KeyFileIsRemoved == Spec => []SecretFileRemoved
<1>1. NodeInv => SecretFileRemoved
  BY DEF NodeInv, KeyHeld, SecretFileRemoved
<1> QED
  BY <1>1, NodeInvariant, PTL
=============================================================================

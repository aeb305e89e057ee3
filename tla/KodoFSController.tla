-------------------------- MODULE KodoFSController --------------------------
(***************************************************************************)
(* Dynamic provisioning of KodoFS volumes: CreateVolume and DeleteVolume   *)
(* of plugin/kodofs_controller_server.go on top of the client of           *)
(* qiniu/kodofs.go, run by several plugin processes at once.               *)
(*                                                                         *)
(* A volume has a name at the KodoFS master (the PV name, until a retained *)
(* volume is renamed to deleted-<i>-<name>), files, and access points; an  *)
(* access token belongs to an access point and is what a mount needs.      *)
(* DeleteVolume mounts the volume on the controller's own host to empty    *)
(* it.  Requests, answers, contexts and processes fail as in               *)
(* KodoController.                                                         *)
(***************************************************************************)
EXTENDS Naturals

CONSTANTS
    Controllers,   \* plugin processes that serve the CSI controller API
    Calls,         \* gRPC requests that may be in progress at a time
    Volumes,       \* PV names
    Ids,           \* what tells the access points of one volume apart
    MaxArchive,    \* bound on the archive number i of deleted-<i>-<name>
    Faults,        \* which failures the environment may cause
    None           \* "nothing": nil, absent, not set

\* An access point is made for one volume and never for another.
Points == Volumes \X Ids

\* A volume is archived once, as number 0, and the loop tries 1 after that: a
\* bound of 2 is never what stops it.
ASSUME ArchiveAssumption == MaxArchive \in Nat /\ MaxArchive >= 2

ASSUME NoneAssumption ==
    None \notin Controllers \cup Calls \cup Volumes \cup Points \cup 0..MaxArchive

VARIABLES
    pc,       \* pc[t]: the next step of request t
    call,     \* call[t]: the handler's local variables
    lock,     \* lock[c]: the request that holds cs.volumesLock, or None
    cache,    \* cache[c][v]: cs.volumes, by the access point it names
    where,    \* master: what has become of volume v
    archive,  \* master: the i of its name deleted-<i>-<v>, or None
    files,    \* master: volume v holds files
    point,    \* master: has the access point been created, removed
    claim,    \* Kubernetes: what has become of the claim for v
    pv,       \* Kubernetes: the access point in the attributes of PV v, or None
    reclaim   \* Kubernetes: spec.persistentVolumeReclaimPolicy of PV v

server  == <<pc, call, lock, cache>>
service == <<where, archive, files, point>>
cluster == <<claim, pv, reclaim>>
vars    == <<pc, call, lock, cache, where, archive, files, point,
             claim, pv, reclaim>>

CreateCritical == {"createVolume", "createPoint", "getToken"}
DeleteCritical == {"exists", "mount", "clean", "umount", "removePoint", "removeVolume"}
RetainCritical == {"retainPoint", "archiveExists", "rename"}
Critical == CreateCritical \cup DeleteCritical \cup RetainCritical

\* The steps that can fail of themselves.
Remote == Critical \cup {"createLock", "getPV"}

\* Reading and removing the files, and umount, are not given the context.
IgnoresContext == {"createLock", "clean", "umount"}

Deleting == DeleteCritical \cup RetainCritical \cup {"getPV", "deleteLock", "deleted"}

Call == [server   : Controllers \cup {None},
         name     : Volumes \cup {None},
         ctx      : {"live", "expired"},
         point    : Points \cup {None},
         reclaim  : {"Delete", "Retain"},
         mounted  : BOOLEAN,              \* the temporary mount is alive
         i        : 0..MaxArchive,        \* the loop variable
         archived : BOOLEAN]              \* this request renamed the volume

NoCall == [server |-> None, name |-> None, ctx |-> "live", point |-> None,
           reclaim |-> "Retain", mounted |-> FALSE, i |-> 0, archived |-> FALSE]

\* Every variable holds what its declaration says, and the bound on the
\* archive number is never what stops the loop.
TypeOK ==
    /\ pc \in [Calls -> Remote \cup {"idle", "created", "deleteLock", "deleted"}]
    /\ call \in [Calls -> Call]
    /\ lock \in [Controllers -> Calls \cup {None}]
    /\ cache \in [Controllers -> [Volumes -> Points \cup {None}]]
    /\ where \in [Volumes -> {"none", "live", "archived", "removed"}]
    /\ archive \in [Volumes -> 0..MaxArchive \cup {None}]
    /\ files \in [Volumes -> BOOLEAN]
    /\ point \in [Points -> {"fresh", "live", "removed"}]
    /\ claim \in [Volumes -> {"wanted", "bound", "released", "gone"}]
    /\ pv \in [Volumes -> Points \cup {None}]
    /\ reclaim \in [Volumes -> {"Delete", "Retain"}]
    /\ \A t \in Calls : pc[t] = "rename" => call[t].i < MaxArchive

Init ==
    /\ pc = [t \in Calls |-> "idle"]
    /\ call = [t \in Calls |-> NoCall]
    /\ lock = [c \in Controllers |-> None]
    /\ cache = [c \in Controllers |-> [v \in Volumes |-> None]]
    /\ where = [v \in Volumes |-> "none"]
    /\ archive = [v \in Volumes |-> None]
    /\ files = [v \in Volumes |-> FALSE]
    /\ point = [p \in Points |-> "fresh"]
    /\ claim = [v \in Volumes |-> "wanted"]
    /\ pv = [v \in Volumes |-> None]
    /\ reclaim = [v \in Volumes |-> "Delete"]

-----------------------------------------------------------------------------
(***************************************************************************)
(* How a handler moves on                                                  *)
(***************************************************************************)

\* A step that honours the context does its work only while it is live.
MayRun(t) == call[t].ctx = "live" \/ pc[t] \in IgnoresContext

\* The deferred volumesLock.Unlock() of both handlers.
Unlocked(t) ==
    [c \in Controllers |-> IF lock[c] = t THEN None ELSE lock[c]]

\* The handler returns an error.  Its deferred calls umount and remove the
\* temporary mount point and release the lock.
ReturnError(t) ==
    /\ pc' = [pc EXCEPT ![t] = "idle"]
    /\ call' = [call EXCEPT ![t] = NoCall]
    /\ lock' = Unlocked(t)
    /\ UNCHANGED cache

Goto(t, next) ==
    /\ pc' = [pc EXCEPT ![t] = next]
    /\ UNCHANGED <<call, lock, cache>>

\* After the service did the work: the handler goes on, or the answer is lost.
Answered(t, next) ==
    \/ Goto(t, next)
    \/ <<pc[t], "response">> \in Faults /\ ReturnError(t)

\* The handler returns success; the response is on its way to the provisioner.
ReturnOK(t, next) ==
    /\ pc' = [pc EXCEPT ![t] = next]
    /\ lock' = Unlocked(t)

-----------------------------------------------------------------------------
(***************************************************************************)
(* CreateVolume                                                            *)
(***************************************************************************)

\* Lock; a volume in cs.volumes is returned as it is.  The parameters are
\* parsed under the lock; what they may do wrong is in RemoteCallFails.
CreateVolumeBegin(t) ==
    LET c == call[t].server
        v == call[t].name IN
    /\ pc[t] = "createLock"
    /\ lock[c] = None
    /\ IF cache[c][v] # None
          THEN /\ call' = [call EXCEPT ![t].point = cache[c][v]]
               /\ pc' = [pc EXCEPT ![t] = "created"]
               /\ UNCHANGED <<lock, cache>>
          ELSE /\ lock' = [lock EXCEPT ![c] = t]
               /\ pc' = [pc EXCEPT ![t] = "createVolume"]
               /\ UNCHANGED <<call, cache>>
    /\ UNCHANGED <<service, cluster>>

\* A name that exists is refused (see Refusal) or answered with the volume
\* there is: the code does not tell, so both may happen.
CreateVolumeAtMaster(t) ==
    /\ pc[t] = "createVolume"
    /\ MayRun(t)
    /\ where' = [where EXCEPT ![call[t].name] = "live"]
    /\ Answered(t, "createPoint")
    /\ UNCHANGED <<archive, files, point, cluster>>

\* Faulty: the volume enters cs.volumes before its access token is known.
CreateAccessPointCachesFirst(t) ==
    /\ pc[t] = "createPoint"
    /\ \E id \in Ids : LET p == <<call[t].name, id>> IN
          /\ point[p] = "fresh"
          /\ cache' = [cache EXCEPT ![call[t].server][call[t].name] = p]
          /\ \/ MayRun(t) /\ point' = [point EXCEPT ![p] = "live"]
             \/ UNCHANGED point
          /\ pc' = [pc EXCEPT ![t] = "idle"]
          /\ call' = [call EXCEPT ![t] = NoCall]
          /\ lock' = Unlocked(t)
    /\ UNCHANGED <<where, archive, files, cluster>>

CreateAccessPoint(t) ==
    /\ pc[t] = "createPoint"
    /\ MayRun(t)
    /\ where[call[t].name] = "live"
    /\ \E id \in Ids : LET p == <<call[t].name, id>> IN
          /\ point[p] = "fresh"
          /\ point' = [point EXCEPT ![p] = "live"]
          /\ \/ /\ pc' = [pc EXCEPT ![t] = "getToken"]
                /\ call' = [call EXCEPT ![t].point = p]
                /\ UNCHANGED <<lock, cache>>
             \/ <<"createPoint", "response">> \in Faults /\ ReturnError(t)
    /\ UNCHANGED <<where, archive, files, cluster>>

\* The last remote call; then the volume enters cs.volumes and is returned.
GetAccessToken(t) ==
    /\ pc[t] = "getToken"
    /\ MayRun(t)
    /\ point[call[t].point] = "live"
    /\ ReturnOK(t, "created")
    /\ cache' = [cache EXCEPT ![call[t].server][call[t].name] = call[t].point]
    /\ UNCHANGED <<call, service, cluster>>

-----------------------------------------------------------------------------
(***************************************************************************)
(* DeleteVolume                                                            *)
(***************************************************************************)

\* The PV is read, and its attributes parsed, before the lock is taken.
DeleteVolumeGetPV(t) ==
    LET v == call[t].name IN
    /\ pc[t] = "getPV"
    /\ MayRun(t)
    /\ pv[v] # None
    /\ call' = [call EXCEPT ![t].point = pv[v], ![t].reclaim = reclaim[v]]
    /\ pc' = [pc EXCEPT ![t] = "deleteLock"]
    /\ UNCHANGED <<lock, cache, service, cluster>>

\* Faulty: the reclaim policy is not looked at.
FirstDeleteStepAlways(t) == "exists"

FirstDeleteStep(t) ==
    IF call[t].reclaim = "Delete" THEN "exists" ELSE "retainPoint"

\* Lock; the volume leaves cs.volumes before anything is undone.
DeleteVolumeBegin(t) ==
    LET c == call[t].server IN
    /\ pc[t] = "deleteLock"
    /\ lock[c] = None
    /\ lock' = [lock EXCEPT ![c] = t]
    /\ cache' = [cache EXCEPT ![c][call[t].name] = None]
    /\ pc' = [pc EXCEPT ![t] = FirstDeleteStep(t)]
    /\ UNCHANGED <<call, service, cluster>>

\* Faulty: a volume without its access point counts as deleted.
IsAccessPointExists(t) ==
    /\ pc[t] = "exists"
    /\ MayRun(t)
    /\ \/ point[call[t].point] = "live" /\ Goto(t, "mount")
       \/ /\ point[call[t].point] # "live"
          /\ ReturnOK(t, "deleted")
          /\ UNCHANGED <<call, cache>>
    /\ UNCHANGED <<service, cluster>>

\* A volume that is not there counts as deleted.
IsVolumeExists(t) ==
    /\ pc[t] = "exists"
    /\ MayRun(t)
    /\ \/ where[call[t].name] = "live" /\ Goto(t, "mount")
       \/ /\ where[call[t].name] # "live"
          /\ ReturnOK(t, "deleted")
          /\ UNCHANGED <<call, cache>>
    /\ UNCHANGED <<service, cluster>>

\* The temporary directory is made and the volume mounted on it, by gateway id
\* and access token: the mount follows the volume when it is renamed.
MountKodoFSLocally(t) ==
    /\ pc[t] = "mount"
    /\ MayRun(t)
    /\ where[call[t].name] \in {"live", "archived"}
    /\ point[call[t].point] = "live"
    /\ call' = [call EXCEPT ![t].mounted = TRUE]
    /\ pc' = [pc EXCEPT ![t] = "clean"]
    /\ UNCHANGED <<lock, cache, service, cluster>>

\* The FUSE process of the temporary mount ends.
TemporaryMountDies(t) ==
    /\ <<"mount", "dies">> \in Faults
    /\ call[t].mounted
    /\ call' = [call EXCEPT ![t].mounted = FALSE]
    /\ UNCHANGED <<pc, lock, cache, service, cluster>>

\* All entries are removed; an error on the way leaves some.  Without the mount
\* the directory is an empty local one.
CleanVolume(t) ==
    LET v == call[t].name IN
    /\ pc[t] = "clean"
    /\ files' = [files EXCEPT ![v] = @ /\ ~ (call[t].mounted /\ where[v] # "removed")]
    /\ Goto(t, "umount")
    /\ UNCHANGED <<where, archive, point, cluster>>

\* Faulty: the entry asked for is really looked for.
isKodoFSMountedExact(t) == call[t].mounted

\* The filter of isMounted skips no entry, and there is always some mount.
isKodoFSMounted(t) == TRUE

\* umount fails when nothing is mounted.  A failed umount of what is not
\* mounted any more goes on to the end of the handler: neither the access point
\* nor the volume is removed on that path.
UmountTemporary(t) ==
    /\ pc[t] = "umount"
    /\ \/ /\ call[t].mounted
          /\ call' = [call EXCEPT ![t].mounted = FALSE]
          /\ pc' = [pc EXCEPT ![t] = "removePoint"]
          /\ UNCHANGED <<lock, cache>>
       \/ /\ ~ call[t].mounted \/ <<"umount", "request">> \in Faults
          /\ \/ isKodoFSMounted(t) /\ ReturnError(t)
             \/ ~ isKodoFSMounted(t) /\ ReturnOK(t, "deleted") /\ UNCHANGED <<call, cache>>
    /\ UNCHANGED <<service, cluster>>

\* The first remote call of the Retain branch, one of the last of the other.
\* The master may accept the removal of what is not there.
RemoveAccessPoint(t) ==
    /\ pc[t] \in {"removePoint", "retainPoint"}
    /\ MayRun(t)
    /\ point' = [point EXCEPT ![call[t].point] = "removed"]
    /\ Answered(t, IF pc[t] = "removePoint" THEN "removeVolume" ELSE "archiveExists")
    /\ UNCHANGED <<where, archive, files, cluster>>

RemoveVolume(t) ==
    LET v == call[t].name IN
    /\ pc[t] = "removeVolume"
    /\ MayRun(t)
    /\ where[v] = "live"
    /\ where' = [where EXCEPT ![v] = "removed"]
    /\ files' = [files EXCEPT ![v] = FALSE]
    /\ \/ ReturnOK(t, "deleted") /\ UNCHANGED <<call, cache>>
       \/ <<"removeVolume", "response">> \in Faults /\ ReturnError(t)
    /\ UNCHANGED <<archive, point, cluster>>

\* for i := 0; ; i++: a name that is taken is passed over.
ArchiveNameExists(t) ==
    /\ pc[t] = "archiveExists"
    /\ MayRun(t)
    /\ IF archive[call[t].name] = call[t].i
          THEN /\ call[t].i < MaxArchive
               /\ call' = [call EXCEPT ![t].i = @ + 1]
               /\ UNCHANGED pc
          ELSE /\ pc' = [pc EXCEPT ![t] = "rename"]
               /\ UNCHANGED call
    /\ UNCHANGED <<lock, cache, service, cluster>>

\* Faulty: the volume is copied to the new name and keeps the old one.
RenameVolumeCopies(t) ==
    LET v == call[t].name IN
    /\ pc[t] = "rename"
    /\ MayRun(t)
    /\ where[v] = "live"
    /\ archive' = [archive EXCEPT ![v] = call[t].i]
    /\ call[t].i < MaxArchive
    /\ call' = [call EXCEPT ![t].i = @ + 1, ![t].archived = TRUE]
    /\ pc' = [pc EXCEPT ![t] = "archiveExists"]
    /\ UNCHANGED <<lock, cache, where, files, point, cluster>>

\* The volume gets the free name, and the loop goes on with the next i.
RenameVolume(t) ==
    LET v == call[t].name IN
    /\ pc[t] = "rename"
    /\ MayRun(t)
    /\ where[v] = "live"
    /\ where' = [where EXCEPT ![v] = "archived"]
    /\ archive' = [archive EXCEPT ![v] = call[t].i]
    /\ \/ /\ call[t].i < MaxArchive
          /\ call' = [call EXCEPT ![t].i = @ + 1, ![t].archived = TRUE]
          /\ pc' = [pc EXCEPT ![t] = "archiveExists"]
          /\ UNCHANGED <<lock, cache>>
       \/ <<"rename", "response">> \in Faults /\ ReturnError(t)
    /\ UNCHANGED <<files, point, cluster>>

-----------------------------------------------------------------------------
(***************************************************************************)
(* Errors, expiry, crashes                                                 *)
(***************************************************************************)

\* What the master, the mount command and Kubernetes refuse.
Refusal(t) ==
    LET v == call[t].name
        p == call[t].point IN
    CASE pc[t] = "createVolume" -> where[v] = "live"
      [] pc[t] = "createPoint"  -> where[v] # "live"
      [] pc[t] = "getToken"     -> point[p] # "live"
      [] pc[t] = "getPV"        -> pv[v] = None
      [] pc[t] = "mount"        -> where[v] = "removed" \/ point[p] # "live"
      [] pc[t] \in {"removePoint", "retainPoint"} -> point[p] # "live"
      [] pc[t] = "removeVolume" -> where[v] # "live" \/ files[v]
      [] pc[t] = "rename"       -> where[v] # "live"
      [] OTHER                  -> FALSE

\* A step fails and nothing was done: it was refused, the request got lost, or
\* the context had expired before it was sent.
RemoteCallFails(t) ==
    /\ pc[t] \in Remote \ {"umount"}
    /\ pc[t] = "createLock" => lock[call[t].server] = None
    /\ \/ Refusal(t)
       \/ <<pc[t], "request">> \in Faults
       \/ ~ MayRun(t)
    /\ ReturnError(t)
    /\ UNCHANGED <<service, cluster>>

\* The provisioner's timeout (or its death) cancels the request's context.
Expire(t) ==
    /\ <<"context", "expire">> \in Faults
    /\ pc[t] # "idle"
    /\ call[t].ctx = "live"
    /\ call' = [call EXCEPT ![t].ctx = "expired"]
    /\ UNCHANGED <<pc, lock, cache, service, cluster>>

\* The plugin process dies: its requests, its lock and its map are gone.
Crash(c) ==
    /\ <<"process", "crash">> \in Faults
    /\ pc' = [t \in Calls |-> IF call[t].server = c THEN "idle" ELSE pc[t]]
    /\ call' = [t \in Calls |-> IF call[t].server = c THEN NoCall ELSE call[t]]
    /\ lock' = [lock EXCEPT ![c] = None]
    /\ cache' = [cache EXCEPT ![c] = [v \in Volumes |-> None]]
    /\ UNCHANGED <<service, cluster>>

-----------------------------------------------------------------------------
(***************************************************************************)
(* The environment: the external provisioner, the user, the workload, as   *)
(* in KodoController.                                                      *)
(***************************************************************************)

Request(t, c, v, step) ==
    /\ pc[t] = "idle"
    /\ \A u \in Calls : call[u].name = v => call[u].ctx = "expired"
    /\ pc' = [pc EXCEPT ![t] = step]
    /\ call' = [call EXCEPT ![t] = [NoCall EXCEPT !.server = c, !.name = v]]
    /\ UNCHANGED <<lock, cache, service, cluster>>

RequestCreate(t, c, v) ==
    claim[v] = "wanted" /\ Request(t, c, v, "createLock")

RequestDelete(t, c, v) ==
    /\ claim[v] = "released"
    /\ reclaim[v] = "Delete"
    /\ Request(t, c, v, "getPV")

\* The provisioner receives the volume and saves the PV.
SavePV(t) ==
    LET v == call[t].name IN
    /\ pc[t] = "created"
    /\ call[t].ctx = "live"
    /\ claim[v] = "wanted"
    /\ claim' = [claim EXCEPT ![v] = "bound"]
    /\ pv' = [pv EXCEPT ![v] = call[t].point]
    /\ \E r \in {"Delete", "Retain"} : reclaim' = [reclaim EXCEPT ![v] = r]
    /\ pc' = [pc EXCEPT ![t] = "idle"]
    /\ call' = [call EXCEPT ![t] = NoCall]
    /\ UNCHANGED <<lock, cache, service>>

\* The provisioner learns that the volume is deleted and removes the PV.
RemovePV(t) ==
    LET v == call[t].name IN
    /\ pc[t] = "deleted"
    /\ call[t].ctx = "live"
    /\ claim' = [claim EXCEPT ![v] = "gone"]
    /\ pv' = [pv EXCEPT ![v] = None]
    /\ pc' = [pc EXCEPT ![t] = "idle"]
    /\ call' = [call EXCEPT ![t] = NoCall]
    /\ UNCHANGED <<reclaim, lock, cache, service>>

\* Nobody waits for the answer any more.
DropAnswer(t) ==
    /\ pc[t] \in {"created", "deleted"}
    /\ call[t].ctx = "expired"
    /\ pc' = [pc EXCEPT ![t] = "idle"]
    /\ call' = [call EXCEPT ![t] = NoCall]
    /\ UNCHANGED <<lock, cache, service, cluster>>

ReleaseClaim(v) ==
    /\ claim[v] = "bound"
    /\ claim' = [claim EXCEPT ![v] = "released"]
    /\ UNCHANGED <<pv, reclaim, server, service>>

PatchReclaimPolicy(v) ==
    /\ pv[v] # None
    /\ \E r \in {"Delete", "Retain"} \ {reclaim[v]} :
          reclaim' = [reclaim EXCEPT ![v] = r]
    /\ UNCHANGED <<claim, pv, server, service>>

\* An access point opens the volume it was made for, under any name.
Usable(v, p) == where[v] \in {"live", "archived"} /\ point[p] = "live"

\* A pod (or a mount that outlives it) writes a file.
WriteFile(v) ==
    /\ pv[v] # None
    /\ Usable(v, pv[v])
    /\ files' = [files EXCEPT ![v] = TRUE]
    /\ UNCHANGED <<where, archive, point, server, cluster>>

-----------------------------------------------------------------------------
CreateVolume(t) ==
    \/ CreateVolumeBegin(t)
    \/ CreateVolumeAtMaster(t)
    \/ CreateAccessPoint(t)
    \/ GetAccessToken(t)

DeleteVolume(t) ==
    \/ DeleteVolumeGetPV(t)
    \/ DeleteVolumeBegin(t)
    \/ IsVolumeExists(t)
    \/ MountKodoFSLocally(t)
    \/ CleanVolume(t)
    \/ UmountTemporary(t)
    \/ RemoveAccessPoint(t)
    \/ RemoveVolume(t)
    \/ ArchiveNameExists(t)
    \/ RenameVolume(t)

Receive(t) == SavePV(t) \/ RemovePV(t) \/ DropAnswer(t)

Next ==
    \/ \E t \in Calls :
          \/ CreateVolume(t)
          \/ DeleteVolume(t)
          \/ TemporaryMountDies(t)
          \/ RemoteCallFails(t)
          \/ Expire(t)
          \/ Receive(t)
    \/ \E t \in Calls, c \in Controllers, v \in Volumes :
          RequestCreate(t, c, v) \/ RequestDelete(t, c, v)
    \/ \E c \in Controllers : Crash(c)
    \/ \E v \in Volumes :
          ReleaseClaim(v) \/ PatchReclaimPolicy(v) \/ WriteFile(v)

Spec == Init /\ [][Next]_vars
-----------------------------------------------------------------------------
(***************************************************************************)
(* Safety                                                                  *)
(***************************************************************************)

\* A volume whose PV is bound can be mounted: it is there under its own name
\* and the access point CreateVolume put in its attributes is live, whatever
\* retries, expired requests and crashes of other processes came before.
BoundVolumeUsable ==
    \A v \in Volumes :
        claim[v] = "bound" => pv[v] # None /\ where[v] = "live" /\ Usable(v, pv[v])

\* Files vanish, and a volume is removed, only by the hand of a request that
\* read reclaim policy Delete when the claim had been released.  (The policy
\* may have been set to Retain since, and another process may have archived
\* the volume since: the temporary mount follows the rename.)
ReclaimOnlyOnDelete ==
    [][\A v \in Volumes :
          (files[v] /\ ~ files'[v]) \/ (where[v] # "removed" /\ where'[v] = "removed")
             => \E t \in Calls :
                   /\ pc[t] \in {"clean", "removeVolume"}
                   /\ call[t].name = v
                   /\ call[t].reclaim = "Delete"
                   /\ claim[v] # "bound"]_vars

\* DeleteVolume reports success, and Kubernetes forgets the PV, only when the
\* volume no longer exists under its name and the access point of the PV is
\* gone, however many attempts were cut short before, in whatever process; and
\* it does not come back.
DeletedLeavesNothing ==
    /\ \A t \in Calls :
          pc[t] = "deleted" =>
              where[call[t].name] # "live" /\ point[call[t].point] = "removed"
    /\ \A v \in Volumes : claim[v] = "gone" => where[v] \in {"archived", "removed"}

\* DeleteVolume removes the access point before the volume.  When the second
\* removal fails, every retry must mount the volume to empty it, with the token
\* of an access point that no longer exists: no later request can finish, the
\* volume and its PV stay until someone removes them by hand (or archives the
\* volume, which needs the reclaim policy to be changed).
HalfDeleted(v) ==
    /\ where[v] = "live"
    /\ claim[v] = "released"
    /\ point[pv[v]] = "removed"
    /\ \A t \in Calls :
          call[t].name = v => pc[t] \notin {"removePoint", "removeVolume", "deleted", "umount", "clean"}

HalfDeletedStays ==
    [][\A v \in Volumes :
          HalfDeleted(v) => HalfDeleted(v)' \/ where'[v] = "archived"]_vars

\* What DeleteVolume logs, "KodoFS volume is deleted, archive to", is true: a
\* request that has archived its volume does not end in an error.  (A request is
\* sent under the policy Delete, and archives if the PV was patched to Retain
\* before the handler read it.)
ArchivedMeansDeleted ==
    [][\A t \in Calls :
          call[t].archived /\ pc'[t] = "idle" => pc[t] = "deleted"]_vars
=============================================================================

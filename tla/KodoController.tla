--------------------------- MODULE KodoController ---------------------------
(***************************************************************************)
(* Dynamic provisioning of Kodo volumes: CreateVolume and DeleteVolume of  *)
(* the plugin's controller server (plugin/kodo_controller_server.go), run  *)
(* by several plugin processes at once, against the Kodo bucket service,   *)
(* the Qiniu IAM service and Kubernetes.                                   *)
(*                                                                         *)
(* Every remote call of a handler is a step of its own.  A call may fail   *)
(* before the service sees it ("request" lost) or after the service did    *)
(* the work ("response" lost); the caller may give up (its context         *)
(* expires) and the process may crash.  Each plugin process has a mutex    *)
(* and a map of the volumes it created; two processes share nothing but    *)
(* the services, and the provisioner may turn from one to the other.       *)
(***************************************************************************)
EXTENDS Naturals, FiniteSets

CONSTANTS
    Controllers,          \* plugin processes that serve the CSI controller API
    Calls,                \* gRPC requests that may be in progress at a time
    Volumes,              \* PV names (the "name" of CreateVolume)
    Suffixes,             \* what randomBucketName(16) may return
    Policies,             \* IAM policy names
    normalizePolicyName,  \* plugin/utils.go: the policy name of a PV name
    Faults,               \* which failures the environment may cause
    None                  \* "nothing": nil, absent, not set

(***************************************************************************)
(* normalizePolicyName only deletes "-" from the PV name.  Names made by   *)
(* the external provisioner are "pvc-" and a UUID, all of one shape, so    *)
(* two of them never get the same policy name.                             *)
(***************************************************************************)
ASSUME PolicyNameAssumption ==
    /\ normalizePolicyName \in [Volumes -> Policies]
    /\ \A v, w \in Volumes :
          normalizePolicyName[v] = normalizePolicyName[w] => v = w

\* A bucket name is pvName + "-" + randomBucketName(16); the suffix has a fixed
\* length, so a name determines its PV name and its suffix.
Buckets == Volumes \X Suffixes

\* A key pair is told apart only by the attempt that created its IAM user,
\* and an attempt by the bucket name it drew.
Volume == [bucket : Buckets, key : Buckets]

ASSUME NoneAssumption ==
    /\ None \notin Controllers \cup Calls \cup Volumes \cup Buckets
    /\ None \notin Volume

VARIABLES
    pc,        \* pc[t]: the next step of request t
    call,      \* call[t]: the handler's local variables
    lock,      \* lock[c]: the request that holds cs.volumesLock, or None
    cache,     \* cache[c][v]: cs.volumes
    bstate,    \* Kodo: has the bucket been created, dropped
    data,      \* Kodo: the bucket holds objects
    users,     \* IAM: users[v] is the key of IAM user v, None if there is none
    policies,  \* IAM: policies[p] is the bucket policy p allows, or None
    grants,    \* IAM: the pairs <<user, policy>> granted
    claim,     \* Kubernetes: what has become of the claim for v
    pv,        \* Kubernetes: the volume attributes of PV v, or None
    reclaim    \* Kubernetes: spec.persistentVolumeReclaimPolicy of PV v

server  == <<pc, call, lock, cache>>
service == <<bstate, data, users, policies, grants>>
cluster == <<claim, pv, reclaim>>
vars    == <<pc, call, lock, cache, bstate, data, users, policies, grants,
             claim, pv, reclaim>>

CreateCritical ==
    {"createBucket", "lookup", "createUser", "getKey", "createPolicy", "grant"}
DeleteCritical ==
    {"revoke", "deletePolicy", "deleteUser", "cleanObjects", "deleteBucket"}
Critical == CreateCritical \cup DeleteCritical

\* The steps that call a service (or reject the request): each may fail.
Remote == Critical \cup {"createLock", "getPV"}

\* CreateIAMUser and GetIAMUserKeyPair are called with context.Background():
\* they go on although the request has expired.  createLock does not look at
\* the context either.
IgnoresContext == {"createLock", "createUser", "getKey"}

Creating == CreateCritical \cup {"createLock", "created"}
Deleting == DeleteCritical \cup {"getPV", "deleteLock", "deleted"}

\* Where a handler knows the bucket, and where it knows the key pair.
HasKey    == {"createPolicy", "grant", "created"}
HasBucket == HasKey \cup DeleteCritical
                \cup {"lookup", "createUser", "getKey", "deleteLock", "deleted"}

Call == [server  : Controllers \cup {None},
         name    : Volumes \cup {None},
         ctx     : {"live", "expired"},
         bucket  : Buckets \cup {None},
         key     : Buckets \cup {None},
         reclaim : {"Delete", "Retain"}]

NoCall == [server |-> None, name |-> None, ctx |-> "live",
           bucket |-> None, key |-> None, reclaim |-> "Retain"]

ServerType ==
    /\ pc \in [Calls -> Creating \cup Deleting \cup {"idle"}]
    /\ call \in [Calls -> Call]
    /\ \A t \in Calls :
          /\ pc[t] # "idle" => call[t].server \in Controllers /\ call[t].name \in Volumes
          /\ pc[t] \in HasBucket => call[t].bucket \in Buckets
          /\ pc[t] \in HasKey => call[t].key \in Buckets
    /\ lock \in [Controllers -> Calls \cup {None}]
    /\ cache \in [Controllers -> [Volumes -> Volume \cup {None}]]

ServiceType ==
    /\ bstate \in [Buckets -> {"fresh", "live", "dropped"}]
    /\ data \in [Buckets -> BOOLEAN]
    /\ users \in [Volumes -> Buckets \cup {None}]
    /\ policies \in [Policies -> Buckets \cup {None}]
    /\ grants \subseteq Volumes \X Policies

ClusterType ==
    /\ claim \in [Volumes -> {"wanted", "bound", "released", "gone"}]
    /\ pv \in [Volumes -> Volume \cup {None}]
    /\ reclaim \in [Volumes -> {"Delete", "Retain"}]

\* Every variable holds what its declaration says; a request under way has a
\* server and a volume name, and from some step on a bucket and a key.
TypeOK == ServerType /\ ServiceType /\ ClusterType

Init ==
    /\ pc = [t \in Calls |-> "idle"]
    /\ call = [t \in Calls |-> NoCall]
    /\ lock = [c \in Controllers |-> None]
    /\ cache = [c \in Controllers |-> [v \in Volumes |-> None]]
    /\ bstate = [b \in Buckets |-> "fresh"]
    /\ data = [b \in Buckets |-> FALSE]
    /\ users = [v \in Volumes |-> None]
    /\ policies = [p \in Policies |-> None]
    /\ grants = {}
    /\ claim = [v \in Volumes |-> "wanted"]
    /\ pv = [v \in Volumes |-> None]
    /\ reclaim = [v \in Volumes |-> "Delete"]

-----------------------------------------------------------------------------
(***************************************************************************)
(* How a handler moves on                                                  *)
(***************************************************************************)

PolicyOf(t) == normalizePolicyName[call[t].name]

\* Faulty: every call is made with context.Background().
MayRunForever(t) == TRUE

\* A step that honours the context does its work only while it is live.
MayRun(t) == call[t].ctx = "live" \/ pc[t] \in IgnoresContext

\* The deferred volumesLock.Unlock() of both handlers.
Unlocked(t) ==
    [c \in Controllers |-> IF lock[c] = t THEN None ELSE lock[c]]

\* Faulty: an error path without the Unlock.
ReturnErrorLocked(t) ==
    /\ pc' = [pc EXCEPT ![t] = "idle"]
    /\ call' = [call EXCEPT ![t] = NoCall]
    /\ UNCHANGED <<lock, cache>>

\* The handler returns an error: the lock is released, the caller learns
\* nothing but the failure, the map cs.volumes keeps what it has.
ReturnError(t) ==
    /\ pc' = [pc EXCEPT ![t] = "idle"]
    /\ call' = [call EXCEPT ![t] = NoCall]
    /\ lock' = Unlocked(t)
    /\ UNCHANGED cache

Goto(t, next) ==
    /\ pc' = [pc EXCEPT ![t] = next]
    /\ UNCHANGED <<call, lock, cache>>

\* After the service did the work: the handler goes on, or the answer is lost.
Answered(t, next) ==
    \/ Goto(t, next)
    \/ <<pc[t], "response">> \in Faults /\ ReturnError(t)

\* The handler returns success; the response is on its way to the provisioner.
ReturnOK(t, next) ==
    /\ pc' = [pc EXCEPT ![t] = next]
    /\ lock' = Unlocked(t)

-----------------------------------------------------------------------------
(***************************************************************************)
(* CreateVolume                                                            *)
(***************************************************************************)

\* Lock; a volume in cs.volumes is returned as it is.
CreateVolumeBegin(t) ==
    LET c == call[t].server
        v == call[t].name IN
    /\ pc[t] = "createLock"
    /\ lock[c] = None
    /\ IF cache[c][v] # None
          THEN /\ call' = [call EXCEPT ![t].bucket = cache[c][v].bucket,
                                       ![t].key    = cache[c][v].key]
               /\ pc' = [pc EXCEPT ![t] = "created"]
               /\ UNCHANGED <<lock, cache>>
          ELSE /\ lock' = [lock EXCEPT ![c] = t]
               /\ pc' = [pc EXCEPT ![t] = "createBucket"]
               /\ UNCHANGED <<call, cache>>
    /\ UNCHANGED <<service, cluster>>

\* A new random name is drawn for every attempt; 16 random characters are
\* taken never to repeat, so the name is not found and the bucket is made.
CreateBucket(t) ==
    /\ pc[t] = "createBucket"
    /\ MayRun(t)
    /\ \E suffix \in Suffixes : LET b == <<call[t].name, suffix>> IN
          /\ bstate[b] = "fresh"
          /\ bstate' = [bstate EXCEPT ![b] = "live"]
          /\ \/ /\ pc' = [pc EXCEPT ![t] = "lookup"]
                /\ call' = [call EXCEPT ![t].bucket = b]
                /\ UNCHANGED <<lock, cache>>
             \/ <<"createBucket", "response">> \in Faults /\ ReturnError(t)
    /\ UNCHANGED <<data, users, policies, grants, cluster>>

\* The bucket is found again; the S3 endpoint and region are looked up.
LookupBucketAndRegion(t) ==
    /\ pc[t] = "lookup"
    /\ MayRun(t)
    /\ bstate[call[t].bucket] = "live"
    /\ Goto(t, "createUser")
    /\ UNCHANGED <<service, cluster>>

\* Faulty: "already exists" counts as success.
CreateIAMUserAdopting(t) ==
    /\ pc[t] = "createUser"
    /\ users' = [users EXCEPT ![call[t].name] = IF @ = None THEN call[t].bucket ELSE @]
    /\ Answered(t, "getKey")
    /\ UNCHANGED <<bstate, data, policies, grants, cluster>>

CreateIAMUser(t) ==
    /\ pc[t] = "createUser"
    /\ users[call[t].name] = None
    /\ users' = [users EXCEPT ![call[t].name] = call[t].bucket]
    /\ Answered(t, "getKey")
    /\ UNCHANGED <<bstate, data, policies, grants, cluster>>

\* Faulty: the key pair is assigned to a shadowed variable.
GetIAMUserKeyPairShadowed(t) ==
    /\ pc[t] = "getKey"
    /\ users[call[t].name] # None
    /\ Goto(t, "createPolicy")
    /\ UNCHANGED <<service, cluster>>

\* The first key pair of the user, or a new one.
GetIAMUserKeyPair(t) ==
    /\ pc[t] = "getKey"
    /\ users[call[t].name] # None
    /\ call' = [call EXCEPT ![t].key = users[call[t].name]]
    /\ pc' = [pc EXCEPT ![t] = "createPolicy"]
    /\ UNCHANGED <<lock, cache, service, cluster>>

CreateIAMPolicy(t) ==
    /\ pc[t] = "createPolicy"
    /\ MayRun(t)
    /\ policies[PolicyOf(t)] = None
    /\ policies' = [policies EXCEPT ![PolicyOf(t)] = call[t].bucket]
    /\ Answered(t, "grant")
    /\ UNCHANGED <<bstate, data, users, grants, cluster>>

\* Faulty: the volume is put in cs.volumes and returned although the grant
\* failed.
GrantErrorIgnored(t) ==
    /\ pc[t] = "grant"
    /\ ReturnOK(t, "created")
    /\ cache' = [cache EXCEPT ![call[t].server][call[t].name] =
                    [bucket |-> call[t].bucket, key |-> call[t].key]]
    /\ UNCHANGED <<call, service, cluster>>

\* Faulty: the volume is put in cs.volumes before the error is looked at.
GrantCachesFirst(t) ==
    /\ pc[t] = "grant"
    /\ MayRun(t)
    /\ cache' = [cache EXCEPT ![call[t].server][call[t].name] =
                    [bucket |-> call[t].bucket, key |-> call[t].key]]
    /\ \/ /\ grants' = grants \cup {<<call[t].name, PolicyOf(t)>>}
          /\ ReturnOK(t, "created")
          /\ UNCHANGED call
       \/ /\ pc' = [pc EXCEPT ![t] = "idle"]
          /\ call' = [call EXCEPT ![t] = NoCall]
          /\ lock' = Unlocked(t)
          /\ UNCHANGED grants
    /\ UNCHANGED <<bstate, data, users, policies, cluster>>

\* The last remote call; on success the volume enters cs.volumes and is
\* returned.
GrantIAMPolicyToUser(t) ==
    /\ pc[t] = "grant"
    /\ MayRun(t)
    /\ users[call[t].name] # None
    /\ policies[PolicyOf(t)] # None
    /\ grants' = grants \cup {<<call[t].name, PolicyOf(t)>>}
    /\ \/ /\ ReturnOK(t, "created")
          /\ cache' = [cache EXCEPT ![call[t].server][call[t].name] =
                          [bucket |-> call[t].bucket, key |-> call[t].key]]
          /\ UNCHANGED call
       \/ <<"grant", "response">> \in Faults /\ ReturnError(t)
    /\ UNCHANGED <<bstate, data, users, policies, cluster>>

-----------------------------------------------------------------------------
(***************************************************************************)
(* DeleteVolume                                                            *)
(***************************************************************************)

\* The PV is read, and its attributes parsed, before the lock is taken.
DeleteVolumeGetPV(t) ==
    LET v == call[t].name IN
    /\ pc[t] = "getPV"
    /\ MayRun(t)
    /\ pv[v] # None
    /\ call' = [call EXCEPT ![t].bucket  = pv[v].bucket,
                            ![t].reclaim = reclaim[v]]
    /\ pc' = [pc EXCEPT ![t] = "deleteLock"]
    /\ UNCHANGED <<lock, cache, service, cluster>>

\* Lock; the volume leaves cs.volumes before anything is undone.
DeleteVolumeBegin(t) ==
    LET c == call[t].server
        v == call[t].name IN
    /\ pc[t] = "deleteLock"
    /\ lock[c] = None
    /\ lock' = [lock EXCEPT ![c] = t]
    /\ cache' = [cache EXCEPT ![c][v] = None]
    /\ pc' = [pc EXCEPT ![t] = "revoke"]
    /\ UNCHANGED <<call, service, cluster>>

\* Faulty: the policy is revoked but not deleted.
RevokeOnly(t) ==
    /\ pc[t] = "revoke"
    /\ MayRun(t)
    /\ grants' = grants \ {<<call[t].name, PolicyOf(t)>>}
    /\ Answered(t, "deleteUser")
    /\ UNCHANGED <<bstate, data, users, policies, cluster>>

\* A service may also answer 200 to the removal of what is not there.
RevokeIAMPolicyFromUser(t) ==
    /\ pc[t] = "revoke"
    /\ MayRun(t)
    /\ grants' = grants \ {<<call[t].name, PolicyOf(t)>>}
    /\ Answered(t, "deletePolicy")
    /\ UNCHANGED <<bstate, data, users, policies, cluster>>

DeleteIAMPolicy(t) ==
    /\ pc[t] = "deletePolicy"
    /\ MayRun(t)
    /\ policies' = [policies EXCEPT ![PolicyOf(t)] = None]
    /\ grants' = {g \in grants : g[2] # PolicyOf(t)}
    /\ Answered(t, "deleteUser")
    /\ UNCHANGED <<bstate, data, users, cluster>>

\* Faulty: the reclaim policy is not looked at.
AfterDeleteIAMUserAlways(t) ==
    \/ Goto(t, "cleanObjects")
    \/ <<"deleteUser", "response">> \in Faults /\ ReturnError(t)

\* The bucket is touched only under reclaim policy Delete.
AfterDeleteIAMUser(t) ==
    \/ call[t].reclaim = "Delete" /\ Goto(t, "cleanObjects")
    \/ call[t].reclaim # "Delete" /\ ReturnOK(t, "deleted") /\ UNCHANGED <<call, cache>>
    \/ <<"deleteUser", "response">> \in Faults /\ ReturnError(t)

DeleteIAMUser(t) ==
    /\ pc[t] = "deleteUser"
    /\ MayRun(t)
    /\ users' = [users EXCEPT ![call[t].name] = None]
    /\ grants' = {g \in grants : g[1] # call[t].name}
    /\ AfterDeleteIAMUser(t)
    /\ UNCHANGED <<bstate, data, policies, cluster>>

\* Faulty: nothing is deleted.
CleanObjectsSkipped(t) ==
    /\ pc[t] = "cleanObjects"
    /\ MayRun(t)
    /\ Answered(t, "deleteBucket")
    /\ UNCHANGED <<service, cluster>>

\* CleanObjects reports success although objects remain when a batch is
\* answered 298 or the first page of the listing is cut ("partial").
CleanObjects(t) ==
    LET b == call[t].bucket IN
    /\ pc[t] = "cleanObjects"
    /\ MayRun(t)
    /\ bstate[b] = "live"
    /\ \/ data' = [data EXCEPT ![b] = FALSE]
       \/ <<"cleanObjects", "partial">> \in Faults /\ UNCHANGED data
    /\ Answered(t, "deleteBucket")
    /\ UNCHANGED <<bstate, users, policies, grants, cluster>>

\* Kodo drops empty buckets only.
DeleteBucket(t) ==
    LET b == call[t].bucket IN
    /\ pc[t] = "deleteBucket"
    /\ MayRun(t)
    /\ bstate[b] = "live"
    /\ ~ data[b]
    /\ bstate' = [bstate EXCEPT ![b] = "dropped"]
    /\ \/ ReturnOK(t, "deleted") /\ UNCHANGED <<call, cache>>
       \/ <<"deleteBucket", "response">> \in Faults /\ ReturnError(t)
    /\ UNCHANGED <<data, users, policies, grants, cluster>>

-----------------------------------------------------------------------------
(***************************************************************************)
(* Errors, expiry, crashes                                                 *)
(***************************************************************************)

\* What the services refuse: names that exist or do not, a bucket that still
\* holds objects.
Refusal(t) ==
    LET v == call[t].name
        b == call[t].bucket IN
    CASE pc[t] = "lookup"       -> bstate[b] # "live"
      [] pc[t] = "createUser"   -> users[v] # None
      [] pc[t] = "getKey"       -> users[v] = None
      [] pc[t] = "createPolicy" -> policies[PolicyOf(t)] # None
      [] pc[t] = "grant"        -> users[v] = None \/ policies[PolicyOf(t)] = None
      [] pc[t] = "getPV"        -> pv[v] = None
      [] pc[t] = "revoke"       -> <<v, PolicyOf(t)>> \notin grants
      [] pc[t] = "deletePolicy" -> policies[PolicyOf(t)] = None
      [] pc[t] = "deleteUser"   -> users[v] = None
      [] pc[t] = "cleanObjects" -> bstate[b] # "live"
      [] pc[t] = "deleteBucket" -> bstate[b] # "live" \/ data[b]
      [] OTHER                  -> FALSE

\* A remote call fails and the service did nothing: the service refused, the
\* request got lost, or the context had expired before it was sent.
RemoteCallFails(t) ==
    /\ pc[t] \in Remote
    /\ pc[t] = "createLock" => lock[call[t].server] = None
    /\ \/ Refusal(t)
       \/ <<pc[t], "request">> \in Faults
       \/ ~ MayRun(t)
    /\ ReturnError(t)
    /\ UNCHANGED <<service, cluster>>

\* The provisioner's timeout (or its death) cancels the request's context.
Expire(t) ==
    /\ <<"context", "expire">> \in Faults
    /\ pc[t] # "idle"
    /\ call[t].ctx = "live"
    /\ call' = [call EXCEPT ![t].ctx = "expired"]
    /\ UNCHANGED <<pc, lock, cache, service, cluster>>

\* The plugin process dies: its requests, its lock and its map are gone.
Crash(c) ==
    /\ <<"process", "crash">> \in Faults
    /\ pc' = [t \in Calls |-> IF call[t].server = c THEN "idle" ELSE pc[t]]
    /\ call' = [t \in Calls |-> IF call[t].server = c THEN NoCall ELSE call[t]]
    /\ lock' = [lock EXCEPT ![c] = None]
    /\ cache' = [cache EXCEPT ![c] = [v \in Volumes |-> None]]
    /\ UNCHANGED <<service, cluster>>

-----------------------------------------------------------------------------
(***************************************************************************)
(* The environment: the external provisioner, the user, the workload.      *)
(* One provisioner leads at a time; it sends a request for a volume only   *)
(* when its earlier ones for it were answered or have expired.             *)
(***************************************************************************)

Unclaimed(v) ==
    \A t \in Calls : call[t].name = v => call[t].ctx = "expired"

Request(t, c, v, step) ==
    /\ pc[t] = "idle"
    /\ Unclaimed(v)
    /\ pc' = [pc EXCEPT ![t] = step]
    /\ call' = [call EXCEPT ![t] = [NoCall EXCEPT !.server = c, !.name = v]]
    /\ UNCHANGED <<lock, cache, service, cluster>>

RequestCreate(t, c, v) ==
    claim[v] = "wanted" /\ Request(t, c, v, "createLock")

RequestDelete(t, c, v) ==
    /\ claim[v] = "released"
    /\ reclaim[v] = "Delete"
    /\ Request(t, c, v, "getPV")

\* The provisioner receives the volume and saves the PV.
SavePV(t) ==
    LET v == call[t].name IN
    /\ pc[t] = "created"
    /\ call[t].ctx = "live"
    /\ claim[v] = "wanted"
    /\ claim' = [claim EXCEPT ![v] = "bound"]
    /\ pv' = [pv EXCEPT ![v] = [bucket |-> call[t].bucket, key |-> call[t].key]]
    /\ reclaim' \in {[reclaim EXCEPT ![v] = r] : r \in {"Delete", "Retain"}}
    /\ pc' = [pc EXCEPT ![t] = "idle"]
    /\ call' = [call EXCEPT ![t] = NoCall]
    /\ UNCHANGED <<lock, cache, service>>

\* The provisioner learns that the volume is deleted and removes the PV.
RemovePV(t) ==
    LET v == call[t].name IN
    /\ pc[t] = "deleted"
    /\ call[t].ctx = "live"
    /\ claim' = [claim EXCEPT ![v] = "gone"]
    /\ pv' = [pv EXCEPT ![v] = None]
    /\ pc' = [pc EXCEPT ![t] = "idle"]
    /\ call' = [call EXCEPT ![t] = NoCall]
    /\ UNCHANGED <<reclaim, lock, cache, service>>

\* Nobody waits for the answer any more.
DropAnswer(t) ==
    /\ pc[t] \in {"created", "deleted"}
    /\ call[t].ctx = "expired"
    /\ pc' = [pc EXCEPT ![t] = "idle"]
    /\ call' = [call EXCEPT ![t] = NoCall]
    /\ UNCHANGED <<lock, cache, service, cluster>>

ReleaseClaim(v) ==
    /\ claim[v] = "bound"
    /\ claim' = [claim EXCEPT ![v] = "released"]
    /\ UNCHANGED <<pv, reclaim, server, service>>

PatchReclaimPolicy(v) ==
    /\ pv[v] # None
    /\ \E r \in {"Delete", "Retain"} \ {reclaim[v]} :
          reclaim' = [reclaim EXCEPT ![v] = r]
    /\ UNCHANGED <<claim, pv, server, service>>

\* A key pair opens bucket b when its user still exists and is granted the
\* policy that names b.
Usable(v, volume) ==
    /\ bstate[volume.bucket] = "live"
    /\ users[v] = volume.key
    /\ <<v, normalizePolicyName[v]>> \in grants
    /\ policies[normalizePolicyName[v]] = volume.bucket

\* A pod (or a mount that outlives it) writes an object.
WriteObject(v) ==
    /\ pv[v] # None
    /\ Usable(v, pv[v])
    /\ data' = [data EXCEPT ![pv[v].bucket] = TRUE]
    /\ UNCHANGED <<bstate, users, policies, grants, server, cluster>>

-----------------------------------------------------------------------------
CreateVolume(t) ==
    \/ CreateVolumeBegin(t)
    \/ CreateBucket(t)
    \/ LookupBucketAndRegion(t)
    \/ CreateIAMUser(t)
    \/ GetIAMUserKeyPair(t)
    \/ CreateIAMPolicy(t)
    \/ GrantIAMPolicyToUser(t)

DeleteVolume(t) ==
    \/ DeleteVolumeGetPV(t)
    \/ DeleteVolumeBegin(t)
    \/ RevokeIAMPolicyFromUser(t)
    \/ DeleteIAMPolicy(t)
    \/ DeleteIAMUser(t)
    \/ CleanObjects(t)
    \/ DeleteBucket(t)

Receive(t) == SavePV(t) \/ RemovePV(t) \/ DropAnswer(t)

Next ==
    \/ \E t \in Calls :
          \/ CreateVolume(t)
          \/ DeleteVolume(t)
          \/ RemoteCallFails(t)
          \/ Expire(t)
          \/ Receive(t)
    \/ \E t \in Calls, c \in Controllers, v \in Volumes :
          RequestCreate(t, c, v) \/ RequestDelete(t, c, v)
    \/ \E c \in Controllers : Crash(c)
    \/ \E v \in Volumes :
          ReleaseClaim(v) \/ PatchReclaimPolicy(v) \/ WriteObject(v)

Spec == Init /\ [][Next]_vars
-----------------------------------------------------------------------------
(***************************************************************************)
(* Safety                                                                  *)
(***************************************************************************)

\* A volume whose PV is bound can be used: the bucket CreateVolume put in its
\* attributes is there, the IAM user of its key pair still exists and is
\* granted the policy that names that very bucket, whatever attempts of other
\* processes, retries and crashes came before or are still under way.
BoundVolumeUsable ==
    \A v \in Volumes : claim[v] = "bound" => pv[v] # None /\ Usable(v, pv[v])

\* What CreateVolume would return from cs.volumes without asking any service
\* is usable as long as the provisioner may ask for it, in every process.
CacheUsable ==
    \A c \in Controllers, v \in Volumes :
        cache[c][v] # None /\ claim[v] \in {"wanted", "bound"} =>
            Usable(v, cache[c][v])

\* No two attempts to create one volume are both past CreateIAMUser while the
\* volume is wanted: the uniqueness of the IAM user name excludes the other
\* processes, which the lock does not.
PastCreateIAMUser(v) ==
    {t \in Calls : call[t].name = v /\ pc[t] \in {"getKey", "createPolicy", "grant"}}

OneCreator ==
    \A v \in Volumes :
        claim[v] = "wanted" =>
            \A t, u \in PastCreateIAMUser(v) : t = u

\* When DeleteVolume starts to clean a bucket nobody can write to it any more:
\* no policy names the bucket.
NoWriterWhileCleaning ==
    \A t \in Calls :
        pc[t] \in {"cleanObjects", "deleteBucket"} =>
            \A p \in Policies : policies[p] # call[t].bucket

\* Once DeleteVolume has been reported to have succeeded, nothing is granted
\* to the volume's IAM user, even if an expired CreateVolume for it still
\* runs in some process and makes the user again.
DeletedMeansRevoked ==
    \A v \in Volumes :
        (\/ claim[v] = "gone"
         \/ \E t \in Calls : call[t].name = v /\ pc[t] = "deleted" /\ call[t].ctx = "live")
        => /\ \A g \in grants : g[1] # v
           /\ policies[normalizePolicyName[v]] = None

\* Objects vanish and buckets are dropped only for a released PV, by a request
\* that read reclaim policy Delete.
Reclaims(t, b) ==
    /\ pc[t] \in {"cleanObjects", "deleteBucket"}
    /\ call[t].bucket = b
    /\ call[t].reclaim = "Delete"
    /\ claim[call[t].name] = "released"
    /\ pv[call[t].name].bucket = b

ReclaimOnlyOnDelete ==
    [][\A b \in Buckets :
          (data[b] /\ ~ data'[b]) \/ (bstate[b] = "live" /\ bstate'[b] # "live")
             => \E t \in Calls : Reclaims(t, b)]_vars

\* An IAM user left behind by an attempt that failed, or whose answer was lost
\* together with the map, is never adopted: the volume stays unprovisionable.
Stuck(v) ==
    /\ claim[v] = "wanted"
    /\ users[v] # None
    /\ \A c \in Controllers : cache[c][v] = None
    /\ \A t \in Calls :
          call[t].name = v => pc[t] \notin {"getKey", "createPolicy", "grant", "created"}

OrphanUserBlocksVolume ==
    [][\A v \in Volumes : Stuck(v) => Stuck(v)']_vars

-----------------------------------------------------------------------------
(***************************************************************************)
(* The inductive invariant behind BoundVolumeUsable                        *)
(***************************************************************************)

\* Nothing of v has been undone yet.
Early(v) == claim[v] \in {"wanted", "bound"}

\* DeleteVolume runs only for volumes that were released.
DeleteOnlyReleased ==
    \A t \in Calls :
        pc[t] \in Deleting => ~ Early(call[t].name)

\* Every bucket a volume's record names was made for that volume.
OwnBuckets ==
    /\ \A v \in Volumes : pv[v] # None => pv[v].bucket[1] = v
    /\ \A c \in Controllers, v \in Volumes :
          cache[c][v] # None => cache[c][v].bucket[1] = v
    /\ \A t \in Calls :
          pc[t] \in HasBucket => call[t].bucket[1] = call[t].name

\* How far an attempt has got while its volume is wanted (or bound): its
\* bucket is there, the key it holds is that of the volume's user, the policy
\* names its bucket, and in the end all of it is usable.
AttemptProgress ==
    \A t \in Calls :
        pc[t] \in HasBucket /\ Early(call[t].name) =>
            /\ bstate[call[t].bucket] = "live"
            /\ pc[t] \in {"getKey", "createPolicy", "grant"} => users[call[t].name] # None
            /\ pc[t] \in {"createPolicy", "grant"} => users[call[t].name] = call[t].key
            /\ pc[t] = "grant" => policies[PolicyOf(t)] = call[t].bucket
            /\ pc[t] = "created" =>
                  Usable(call[t].name, [bucket |-> call[t].bucket, key |-> call[t].key])

\* While v is early, everything recorded about it is usable: a service state
\* that only DeleteVolume could change.
IInv ==
    /\ TypeOK
    /\ DeleteOnlyReleased
    /\ OwnBuckets
    /\ AttemptProgress
    /\ CacheUsable
    /\ BoundVolumeUsable

-----------------------------------------------------------------------------
(***************************************************************************)
(* Liveness.  Handlers run on (goroutines are scheduled), Go's mutex does  *)
(* not starve a waiter, the provisioner retries until it has an answer,    *)
(* and a remote call that is retried for ever does not fail every time.    *)
(***************************************************************************)

For(v, step(_)) == \E t \in Calls : call[t].name = v /\ step(t)

Fairness(v) ==
    /\ WF_vars(For(v, CreateVolume) \/ For(v, DeleteVolume) \/ For(v, Receive))
    /\ SF_vars(For(v, CreateVolumeBegin) \/ For(v, DeleteVolumeBegin))
    /\ SF_vars(For(v, CreateBucket) \/ For(v, DeleteVolumeGetPV))
    /\ WF_vars(\E t \in Calls, c \in Controllers :
                  RequestCreate(t, c, v) \/ RequestDelete(t, c, v))

FairSpec == Spec /\ \A v \in Volumes : Fairness(v)

\* A wanted volume is provisioned.
Provisioned == \A v \in Volumes : claim[v] = "wanted" ~> claim[v] # "wanted"

\* A released volume is deleted unless its reclaim policy is set to Retain.
Reclaimed ==
    \A v \in Volumes :
        claim[v] = "released" ~> claim[v] = "gone" \/ reclaim[v] = "Retain"
=============================================================================

------------------------ MODULE KodoControllerProofs ------------------------
(***************************************************************************)
(* Proofs, for any number of plugin processes, requests and volumes and    *)
(* any set of failures, that KodoController is type correct and that a     *)
(* bound volume is usable.                                                 *)
(***************************************************************************)
EXTENDS KodoController, TLAPS

\* The sets of step names are only ever used expanded.
USE DEF Creating, Deleting, CreateCritical, DeleteCritical, Critical, Remote, HasBucket, HasKey

-----------------------------------------------------------------------------
(* Type correctness *)

\* The initial state is well typed.
LEMMA InitType == Init => TypeOK
  BY DEF Init, TypeOK, ServerType, ServiceType, ClusterType, Call, NoCall

\* A request under way has a server, a volume name and a policy name.
LEMMA RequestType ==
    ASSUME TypeOK, NEW t \in Calls, pc[t] # "idle"
    PROVE  /\ call[t].server \in Controllers
           /\ call[t].name \in Volumes
           /\ call[t].bucket \in Buckets \cup {None}
           /\ call[t].key \in Buckets \cup {None}
           /\ pc[t] \in HasBucket => call[t].bucket \in Buckets
           /\ pc[t] \in HasKey => call[t].key \in Buckets
           /\ PolicyOf(t) \in Policies
  BY PolicyNameAssumption DEF TypeOK, ServerType, Call, PolicyOf

\* An error return leaves an idle request and everything else well typed.
LEMMA ReturnErrorType ==
    ASSUME ServerType, NEW t \in Calls, ReturnError(t)
    PROVE  ServerType'
  BY DEF ServerType, ReturnError, Unlocked, Call, NoCall

\* Going on to the next step keeps the processes well typed.
LEMMA GotoType ==
    ASSUME ServerType, NEW t \in Calls, pc[t] # "idle",
           NEW next \in Creating \cup Deleting,
           next \in HasBucket => call[t].bucket \in Buckets,
           next \in HasKey => call[t].key \in Buckets, Goto(t, next)
    PROVE  ServerType'
  BY DEF ServerType, Goto

\* So does either outcome of a remote call.
LEMMA AnsweredType ==
    ASSUME ServerType, NEW t \in Calls, pc[t] # "idle",
           NEW next \in Creating \cup Deleting,
           next \in HasBucket => call[t].bucket \in Buckets,
           next \in HasKey => call[t].key \in Buckets, Answered(t, next)
    PROVE  ServerType'
  BY GotoType, ReturnErrorType DEF Answered

\* So does a successful return that leaves the map alone.
LEMMA ReturnOKType ==
    ASSUME ServerType, NEW t \in Calls, pc[t] # "idle",
           NEW next \in Creating \cup Deleting,
           next \in HasBucket => call[t].bucket \in Buckets,
           next \in HasKey => call[t].key \in Buckets, ReturnOK(t, next), UNCHANGED <<call, cache>>
    PROVE  ServerType'
  BY DEF ServerType, ReturnOK, Unlocked

\* Setting some of a handler's local variables keeps the others.
LEMMA SetBucket ==
    ASSUME NEW r \in Call, NEW b \in Buckets \cup {None}
    PROVE  LET q == [r EXCEPT !.bucket = b] IN
           /\ q \in Call
           /\ q.server = r.server /\ q.name = r.name /\ q.ctx = r.ctx
           /\ q.bucket = b /\ q.key = r.key /\ q.reclaim = r.reclaim
  BY DEF Call

\* A handler that learns its key pair keeps its other local variables.
LEMMA SetKey ==
    ASSUME NEW r \in Call, NEW k \in Buckets \cup {None}
    PROVE  LET q == [r EXCEPT !.key = k] IN
           /\ q \in Call
           /\ q.server = r.server /\ q.name = r.name /\ q.ctx = r.ctx
           /\ q.bucket = r.bucket /\ q.key = k /\ q.reclaim = r.reclaim
  BY DEF Call

\* A request that expires keeps its local variables.
LEMMA SetExpired ==
    ASSUME NEW r \in Call
    PROVE  LET q == [r EXCEPT !.ctx = "expired"] IN
           /\ q \in Call
           /\ q.server = r.server /\ q.name = r.name
           /\ q.bucket = r.bucket /\ q.key = r.key /\ q.reclaim = r.reclaim
  BY DEF Call

\* So does a step that moves on and sets the local variables.
LEMMA SetLocalServerType ==
    ASSUME ServerType, NEW t \in Calls,
           NEW next \in Creating \cup Deleting \cup {"idle"},
           NEW r \in Call,
           next # "idle" => r.server \in Controllers /\ r.name \in Volumes,
           next \in HasBucket => r.bucket \in Buckets,
           next \in HasKey => r.key \in Buckets,
           pc' = [pc EXCEPT ![t] = next],
           call' = [call EXCEPT ![t] = r],
           UNCHANGED <<lock, cache>>
    PROVE  ServerType'
  BY DEF ServerType

\* The steps of CreateVolume keep the types.
LEMMA CreateVolumeType ==
    ASSUME TypeOK, NEW t \in Calls, CreateVolume(t)
    PROVE  TypeOK'
<1> USE DEF TypeOK
<1>0. pc[t] # "idle"
  BY DEF CreateVolume, CreateVolumeBegin, CreateBucket, LookupBucketAndRegion,
         CreateIAMUser, GetIAMUserKeyPair, CreateIAMPolicy, GrantIAMPolicyToUser
<1>r. /\ call[t].server \in Controllers
      /\ call[t].name \in Volumes
      /\ call[t].bucket \in Buckets \cup {None}
      /\ call[t].key \in Buckets \cup {None}
      /\ pc[t] \in HasBucket => call[t].bucket \in Buckets
      /\ pc[t] \in HasKey => call[t].key \in Buckets
      /\ PolicyOf(t) \in Policies
  BY <1>0, RequestType
<1>1. CASE CreateVolumeBegin(t)
  <2> DEFINE volume == cache[call[t].server][call[t].name]
  <2>1. ServiceType' /\ ClusterType'
    BY <1>1 DEF CreateVolumeBegin, ServiceType, ClusterType, service, cluster
  <2>2. CASE volume = None
    BY <1>1, <1>r, <2>1, <2>2 DEF CreateVolumeBegin, ServerType
  <2>3. CASE volume # None
    <3>1. volume.bucket \in Buckets /\ volume.key \in Buckets
      BY <1>r, <2>3 DEF ServerType, Volume
    <3> DEFINE r == [call[t] EXCEPT !.bucket = volume.bucket, !.key = volume.key]
    <3>2. /\ r \in Call /\ r.server = call[t].server /\ r.name = call[t].name
          /\ r.bucket \in Buckets /\ r.key \in Buckets
      <4>1. call[t] \in Call
        BY DEF ServerType
      <4>2. PICK b \in Buckets, k \in Buckets : b = volume.bucket /\ k = volume.key
        BY <3>1
      <4>3. r = [call[t] EXCEPT !.bucket = b, !.key = k]
        BY <4>2
      <4> HIDE DEF r
      <4> QED
        BY <4>1, <4>3 DEF Call
    <3>3. call' = [call EXCEPT ![t] = r] /\ pc' = [pc EXCEPT ![t] = "created"] /\ UNCHANGED <<lock, cache>>
      BY <1>1, <2>3 DEF CreateVolumeBegin
    <3> HIDE DEF r
    <3> QED
      BY <1>r, <2>1, <3>2, <3>3, SetLocalServerType
  <2> QED
    BY <2>2, <2>3
<1>2. CASE CreateBucket(t)
  <2>1. PICK suffix \in Suffixes :
           /\ bstate' = [bstate EXCEPT ![<<call[t].name, suffix>>] = "live"]
           /\ \/ /\ pc' = [pc EXCEPT ![t] = "lookup"]
                 /\ call' = [call EXCEPT ![t].bucket = <<call[t].name, suffix>>]
                 /\ UNCHANGED <<lock, cache>>
              \/ ReturnError(t)
    BY <1>2 DEF CreateBucket
  <2>2. <<call[t].name, suffix>> \in Buckets
    BY <1>r DEF Buckets
  <2>3. ServerType'
    <3>1. CASE ReturnError(t)
      BY <3>1, ReturnErrorType
    <3>2. CASE /\ pc' = [pc EXCEPT ![t] = "lookup"]
               /\ call' = [call EXCEPT ![t].bucket = <<call[t].name, suffix>>]
               /\ UNCHANGED <<lock, cache>>
      <4> DEFINE r == [call[t] EXCEPT !.bucket = <<call[t].name, suffix>>]
      <4>1. r \in Call /\ r.server = call[t].server /\ r.name = call[t].name /\ r.bucket \in Buckets
        BY <2>2, SetBucket DEF ServerType
      <4>2. call' = [call EXCEPT ![t] = r]
        BY <3>2
      <4> HIDE DEF r
      <4> QED
        BY <3>2, <4>1, <4>2, <1>r, SetLocalServerType
    <3> QED
      BY <2>1, <3>1, <3>2
  <2> QED
    BY <1>2, <2>1, <2>2, <2>3 DEF CreateBucket, ServiceType, ClusterType, cluster
<1>3. CASE LookupBucketAndRegion(t)
  BY <1>3, <1>0, <1>r, GotoType
     DEF LookupBucketAndRegion, ServiceType, ClusterType, service, cluster
<1>4. CASE CreateIAMUser(t)
  BY <1>4, <1>0, <1>r, AnsweredType DEF CreateIAMUser, ServiceType, ClusterType, cluster
<1>5. CASE GetIAMUserKeyPair(t)
  <2>1. users[call[t].name] \in Buckets /\ call[t].bucket \in Buckets
    BY <1>5, <1>r DEF ServiceType, GetIAMUserKeyPair
  <2> DEFINE r == [call[t] EXCEPT !.key = users[call[t].name]]
  <2>2. /\ r \in Call /\ r.server = call[t].server /\ r.name = call[t].name
        /\ r.bucket \in Buckets /\ r.key \in Buckets
    BY <2>1, SetKey DEF ServerType
  <2>3. call' = [call EXCEPT ![t] = r]
    BY <1>5 DEF GetIAMUserKeyPair
  <2> HIDE DEF r
  <2>4. ServerType'
    BY <1>5, <1>r, <2>2, <2>3, SetLocalServerType DEF GetIAMUserKeyPair
  <2> QED
    BY <1>5, <2>4 DEF GetIAMUserKeyPair, ServiceType, ClusterType, service, cluster
<1>6. CASE CreateIAMPolicy(t)
  BY <1>6, <1>0, <1>r, AnsweredType DEF CreateIAMPolicy, ServiceType, ClusterType, cluster
<1>7. CASE GrantIAMPolicyToUser(t)
  <2> DEFINE volume == [bucket |-> call[t].bucket, key |-> call[t].key]
  <2>1. ServiceType' /\ ClusterType'
    BY <1>7, <1>r DEF GrantIAMPolicyToUser, ServiceType, ClusterType, cluster
  <2>2. CASE ReturnError(t)
    BY <2>1, <2>2, ReturnErrorType
  <2>3. CASE /\ ReturnOK(t, "created")
             /\ cache' = [cache EXCEPT ![call[t].server][call[t].name] = volume]
             /\ UNCHANGED call
    <3>1. volume \in Volume
      BY <1>7, <1>r DEF Volume, GrantIAMPolicyToUser
    <3> HIDE DEF volume
    <3>2. cache' \in [Controllers -> [Volumes -> Volume \cup {None}]]
      BY <1>r, <2>3, <3>1 DEF ServerType
    <3> QED
      BY <1>7, <1>0, <1>r, <2>1, <2>3, <3>2 DEF GrantIAMPolicyToUser, ReturnOK, ServerType, Unlocked
  <2> QED
    BY <1>7, <2>2, <2>3 DEF GrantIAMPolicyToUser
<1> QED
  BY SMTT(30), <1>1, <1>2, <1>3, <1>4, <1>5, <1>6, <1>7 DEF CreateVolume

\* The steps of DeleteVolume keep the types.
LEMMA DeleteVolumeType ==
    ASSUME TypeOK, NEW t \in Calls, DeleteVolume(t)
    PROVE  TypeOK'
<1> USE DEF TypeOK
<1>0. pc[t] # "idle"
  BY DEF DeleteVolume, DeleteVolumeGetPV, DeleteVolumeBegin, RevokeIAMPolicyFromUser,
         DeleteIAMPolicy, DeleteIAMUser, CleanObjects, DeleteBucket
<1>r. /\ call[t].server \in Controllers
      /\ call[t].name \in Volumes
      /\ call[t].bucket \in Buckets \cup {None}
      /\ pc[t] \in HasBucket => call[t].bucket \in Buckets
      /\ PolicyOf(t) \in Policies
  BY <1>0, RequestType
<1>1. CASE DeleteVolumeGetPV(t)
  <2> DEFINE r == [call[t] EXCEPT !.bucket = pv[call[t].name].bucket,
                                  !.reclaim = reclaim[call[t].name]]
  <2>1. r \in Call /\ r.server = call[t].server /\ r.name = call[t].name /\ r.bucket \in Buckets
    <3>1. pv[call[t].name].bucket \in Buckets
      BY <1>1, <1>r DEF DeleteVolumeGetPV, ClusterType, Volume
    <3>2. reclaim[call[t].name] \in {"Delete", "Retain"}
      BY <1>r DEF ClusterType
    <3> QED
      <4>1. call[t] \in Call
        BY DEF ServerType
      <4>2. PICK b \in Buckets, p \in {"Delete", "Retain"} :
               b = pv[call[t].name].bucket /\ p = reclaim[call[t].name]
        BY <3>1, <3>2
      <4>3. r = [call[t] EXCEPT !.bucket = b, !.reclaim = p]
        BY <4>2
      <4> HIDE DEF r
      <4> QED
        BY <4>1, <4>3 DEF Call
  <2>2. call' = [call EXCEPT ![t] = r] /\ pc' = [pc EXCEPT ![t] = "deleteLock"] /\ UNCHANGED <<lock, cache>>
    BY <1>1 DEF DeleteVolumeGetPV
  <2> HIDE DEF r
  <2>3. ServerType'
    BY <1>r, <2>1, <2>2, SetLocalServerType
  <2> QED
    BY <1>1, <2>3 DEF DeleteVolumeGetPV, ServiceType, ClusterType, service, cluster
<1>2. CASE DeleteVolumeBegin(t)
  BY <1>2, <1>r
     DEF DeleteVolumeBegin, ServerType, ServiceType, ClusterType, service, cluster
<1>3. CASE RevokeIAMPolicyFromUser(t)
  BY <1>3, <1>0, <1>r, AnsweredType
     DEF RevokeIAMPolicyFromUser, ServiceType, ClusterType, cluster
<1>4. CASE DeleteIAMPolicy(t)
  BY <1>4, <1>0, <1>r, AnsweredType DEF DeleteIAMPolicy, ServiceType, ClusterType, cluster
<1>5. CASE DeleteIAMUser(t)
  <2>1. ServerType'
    BY <1>5, <1>0, <1>r, GotoType, ReturnOKType, ReturnErrorType
       DEF DeleteIAMUser, AfterDeleteIAMUser
  <2> QED
    BY <1>5, <2>1, <1>r DEF DeleteIAMUser, ServiceType, ClusterType, cluster
<1>6. CASE CleanObjects(t)
  BY <1>6, <1>0, <1>r, AnsweredType DEF CleanObjects, ServiceType, ClusterType, cluster
<1>7. CASE DeleteBucket(t)
  <2>1. ServerType'
    BY <1>7, <1>0, <1>r, ReturnOKType, ReturnErrorType DEF DeleteBucket
  <2> QED
    BY <1>7, <2>1, <1>r DEF DeleteBucket, ServiceType, ClusterType, cluster
<1> QED
  BY <1>1, <1>2, <1>3, <1>4, <1>5, <1>6, <1>7 DEF DeleteVolume

\* Every step keeps the types.
LEMMA NextType == TypeOK /\ [Next]_vars => TypeOK'
<1> SUFFICES ASSUME TypeOK, [Next]_vars PROVE TypeOK'
  OBVIOUS
<1>u. CASE UNCHANGED vars
  BY <1>u DEF vars, TypeOK, ServerType, ServiceType, ClusterType
<1>1. ASSUME NEW t \in Calls, CreateVolume(t) PROVE TypeOK'
  BY <1>1, CreateVolumeType
<1>2. ASSUME NEW t \in Calls, DeleteVolume(t) PROVE TypeOK'
  BY <1>2, DeleteVolumeType
<1>3. ASSUME NEW t \in Calls, RemoteCallFails(t) PROVE TypeOK'
  BY <1>3, ReturnErrorType DEF RemoteCallFails, TypeOK, ServiceType, ClusterType, service, cluster
<1>4. ASSUME NEW t \in Calls, Expire(t) PROVE TypeOK'
  BY <1>4, SetExpired
     DEF Expire, TypeOK, ServerType, ServiceType, ClusterType, service, cluster
<1>5. ASSUME NEW t \in Calls, Receive(t) PROVE TypeOK'
  <2>1. NoCall \in Call
    BY DEF NoCall, Call
  <2>2. pc' = [pc EXCEPT ![t] = "idle"] /\ call' = [call EXCEPT ![t] = NoCall] /\ UNCHANGED <<lock, cache>>
    BY <1>5 DEF Receive, SavePV, RemovePV, DropAnswer
  <2>3. ServerType'
    BY <2>1, <2>2, SetLocalServerType DEF TypeOK
  <2>4. CASE SavePV(t)
    <3>1. /\ call[t].name \in Volumes
          /\ call[t].bucket \in Buckets
          /\ call[t].key \in Buckets
      BY <2>4 DEF SavePV, TypeOK, ServerType, HasKey, HasBucket
    <3>2. [bucket |-> call[t].bucket, key |-> call[t].key] \in Volume
      BY <3>1 DEF Volume
    <3>3. pv' \in [Volumes -> Volume \cup {None}]
      BY <2>4, <3>1, <3>2 DEF SavePV, TypeOK, ClusterType
    <3>4. PICK r \in {"Delete", "Retain"} : reclaim' = [reclaim EXCEPT ![call[t].name] = r]
      BY <2>4 DEF SavePV
    <3>5. ClusterType'
      BY <2>4, <3>1, <3>3, <3>4 DEF SavePV, TypeOK, ClusterType
    <3> QED
      BY <2>3, <2>4, <3>5 DEF SavePV, TypeOK, ServiceType, service
  <2>5. CASE RemovePV(t) \/ DropAnswer(t)
    BY ZenonT(60), <2>3, <2>5
       DEF RemovePV, DropAnswer, TypeOK, ServerType, ServiceType, ClusterType, service, cluster
  <2> QED
    BY <1>5, <2>4, <2>5 DEF Receive
<1>6. ASSUME NEW t \in Calls, NEW c \in Controllers, NEW v \in Volumes,
             RequestCreate(t, c, v) \/ RequestDelete(t, c, v)
      PROVE  TypeOK'
  <2> DEFINE r == [NoCall EXCEPT !.server = c, !.name = v]
  <2>1. r \in Call /\ r.server = c /\ r.name = v
    BY DEF NoCall, Call
  <2>2. PICK next \in {"createLock", "getPV"} : Request(t, c, v, next)
    BY <1>6 DEF RequestCreate, RequestDelete
  <2>3. call' = [call EXCEPT ![t] = r] /\ pc' = [pc EXCEPT ![t] = next] /\ UNCHANGED <<lock, cache>>
    BY <2>2 DEF Request
  <2> HIDE DEF r
  <2>4. ServerType'
    BY <2>1, <2>3, SetLocalServerType DEF TypeOK
  <2> QED
    BY <2>2, <2>4 DEF Request, TypeOK, ServiceType, ClusterType, service, cluster
<1>7. ASSUME NEW c \in Controllers, Crash(c) PROVE TypeOK'
  BY <1>7 DEF Crash, TypeOK, ServerType, ServiceType, ClusterType, Call, NoCall, service, cluster
<1>8. ASSUME NEW v \in Volumes, ReleaseClaim(v) \/ PatchReclaimPolicy(v) \/ WriteObject(v)
      PROVE  TypeOK'
  BY ZenonT(60), <1>8
     DEF ReleaseClaim, PatchReclaimPolicy, WriteObject, TypeOK, ServerType, ServiceType,
              ClusterType, Volume, server, service, cluster
<1> QED
  BY <1>u, <1>1, <1>2, <1>3, <1>4, <1>5, <1>6, <1>7, <1>8 DEF Next

\* KodoController is type correct.
THEOREM TypeCorrect == Spec => []TypeOK
  BY InitType, NextType, PTL DEF Spec

-----------------------------------------------------------------------------
(***************************************************************************)
(* A bound volume is usable.  Only DeleteVolume takes away what a volume   *)
(* needs, it runs only for released volumes, and it touches only names     *)
(* that belong to its own volume (ServiceStable).  So what an attempt has  *)
(* obtained stays obtained while its volume is early, up to the moment     *)
(* when the volume is put in cs.volumes, returned and saved.               *)
(***************************************************************************)

\* What a step may do to request u without being a step of its handler.
Stays(u) ==
    /\ pc'[u] = pc[u]
    /\ call'[u].name = call[u].name
    /\ call'[u].bucket = call[u].bucket
    /\ call'[u].key = call[u].key

\* A handler's step leaves the other requests alone.
LEMMA OthersStay ==
    ASSUME TypeOK, NEW t \in Calls,
           \/ CreateVolume(t) \/ DeleteVolume(t) \/ RemoteCallFails(t) \/ Expire(t) \/ Receive(t)
           \/ \E c \in Controllers, v \in Volumes : RequestCreate(t, c, v) \/ RequestDelete(t, c, v),
           NEW u \in Calls, u # t
    PROVE  pc'[u] = pc[u] /\ call'[u] = call[u]
<1> USE DEF TypeOK, ServerType
<1>1. CASE CreateVolume(t)
  BY <1>1 DEF CreateVolume, CreateVolumeBegin, CreateBucket, LookupBucketAndRegion, CreateIAMUser,
              GetIAMUserKeyPair, CreateIAMPolicy, GrantIAMPolicyToUser, Answered, Goto, ReturnOK,
              ReturnError
<1>2. CASE DeleteVolume(t)
  BY <1>2 DEF DeleteVolume, DeleteVolumeGetPV, DeleteVolumeBegin, RevokeIAMPolicyFromUser,
              DeleteIAMPolicy, DeleteIAMUser, AfterDeleteIAMUser, CleanObjects, DeleteBucket,
              Answered, Goto, ReturnOK, ReturnError
<1>3. CASE RemoteCallFails(t) \/ Expire(t) \/ Receive(t)
  BY <1>3 DEF RemoteCallFails, Expire, Receive, SavePV, RemovePV, DropAnswer, ReturnError
<1>4. ASSUME NEW c \in Controllers, NEW v \in Volumes,
             RequestCreate(t, c, v) \/ RequestDelete(t, c, v)
      PROVE  pc'[u] = pc[u] /\ call'[u] = call[u]
  BY <1>4 DEF RequestCreate, RequestDelete, Request
<1> QED
  BY <1>1, <1>2, <1>3, <1>4

\* Request u stays where it is, ends, begins, or its handler does a step.
LEMMA RequestSteps ==
    ASSUME TypeOK, [Next]_vars, NEW u \in Calls
    PROVE  \/ Stays(u)
           \/ pc'[u] = "idle"
           \/ CreateVolume(u)
           \/ DeleteVolume(u)
           \/ \E c \in Controllers, v \in Volumes : RequestCreate(u, c, v) \/ RequestDelete(u, c, v)
<1> USE DEF TypeOK
<1>1. ASSUME UNCHANGED <<pc, call>> PROVE Stays(u)
  BY <1>1 DEF Stays
<1>2. ASSUME NEW t \in Calls, RemoteCallFails(t) \/ Receive(t) PROVE Stays(u) \/ pc'[u] = "idle"
  <2>1. CASE u # t
    BY <1>2, <2>1, OthersStay DEF Stays
  <2>2. CASE u = t
    BY <1>2, <2>2
       DEF ServerType, RemoteCallFails, Receive, SavePV, RemovePV, DropAnswer, ReturnError
  <2> QED
    BY <2>1, <2>2
<1>3. ASSUME NEW t \in Calls, Expire(t) PROVE Stays(u)
  <2>1. CASE u # t
    BY <1>3, <2>1, OthersStay DEF Stays
  <2>2. CASE u = t
    BY <1>3, <2>2, SetExpired DEF ServerType, Expire, Stays
  <2> QED
    BY <2>1, <2>2
<1>4. ASSUME NEW t \in Calls, CreateVolume(t) \/ DeleteVolume(t), u # t PROVE Stays(u)
  BY <1>4, OthersStay DEF Stays
<1>5. ASSUME NEW t \in Calls, NEW c \in Controllers, NEW v \in Volumes,
             RequestCreate(t, c, v) \/ RequestDelete(t, c, v), u # t
      PROVE  Stays(u)
  BY <1>5, OthersStay DEF Stays
<1>6. ASSUME NEW c \in Controllers, Crash(c) PROVE Stays(u) \/ pc'[u] = "idle"
  BY <1>6 DEF Crash, Stays
<1>7. ASSUME NEW v \in Volumes, ReleaseClaim(v) \/ PatchReclaimPolicy(v) \/ WriteObject(v)
      PROVE  UNCHANGED <<pc, call>>
  BY <1>7 DEF ReleaseClaim, PatchReclaimPolicy, WriteObject, server
<1> QED
  BY <1>1, <1>2, <1>3, <1>4, <1>5, <1>6, <1>7 DEF Next, vars

\* A claim that was released does not become wanted or bound again.
LEMMA EarlyBefore ==
    ASSUME TypeOK, [Next]_vars, NEW v \in Volumes, Early(v)'
    PROVE  Early(v)
<1> USE DEF TypeOK, ClusterType, Early
<1>1. ASSUME UNCHANGED claim PROVE Early(v)
  BY <1>1
<1>2. ASSUME NEW t \in Calls, Receive(t) PROVE Early(v)
  <2>1. CASE SavePV(t)
    BY <2>1 DEF SavePV, ServerType
  <2>2. CASE RemovePV(t) \/ DropAnswer(t)
    BY <2>2 DEF RemovePV, DropAnswer, cluster, ServerType
  <2> QED
    BY <1>2, <2>1, <2>2 DEF Receive
<1>3. ASSUME NEW w \in Volumes, ReleaseClaim(w) PROVE Early(v)
  BY SMTT(30), <1>3 DEF ReleaseClaim
<1>4. ASSUME NEW t \in Calls, CreateVolume(t) \/ DeleteVolume(t) PROVE UNCHANGED claim
  BY <1>4 DEF CreateVolume, CreateVolumeBegin, CreateBucket, LookupBucketAndRegion, CreateIAMUser,
              GetIAMUserKeyPair, CreateIAMPolicy, GrantIAMPolicyToUser,
              DeleteVolume, DeleteVolumeGetPV, DeleteVolumeBegin, RevokeIAMPolicyFromUser,
              DeleteIAMPolicy, DeleteIAMUser, CleanObjects, DeleteBucket, cluster
<1> QED
  BY <1>1, <1>2, <1>3, <1>4
     DEF Next, vars, RemoteCallFails, Expire, RequestCreate, RequestDelete, Request, Crash,
         PatchReclaimPolicy, WriteObject, cluster

\* What the services hold for an early volume, no step takes away.
Kept(v) ==
    /\ \A b \in Buckets : b[1] = v /\ bstate[b] = "live" => bstate'[b] = "live"
    /\ users[v] # None => users'[v] = users[v]
    /\ policies[normalizePolicyName[v]] # None =>
          policies'[normalizePolicyName[v]] = policies[normalizePolicyName[v]]
    /\ <<v, normalizePolicyName[v]>> \in grants => <<v, normalizePolicyName[v]>> \in grants'

\* CreateVolume takes nothing away from the services.
LEMMA CreateVolumeKeeps ==
    ASSUME TypeOK, NEW t \in Calls, CreateVolume(t), NEW v \in Volumes
    PROVE  Kept(v)
<1> USE DEF TypeOK, ServiceType, Kept
<1>r. call[t].name \in Volumes /\ PolicyOf(t) \in Policies
  BY RequestType DEF CreateVolume, CreateVolumeBegin, CreateBucket, LookupBucketAndRegion,
     CreateIAMUser, GetIAMUserKeyPair, CreateIAMPolicy, GrantIAMPolicyToUser
<1>1. CASE CreateVolumeBegin(t) \/ LookupBucketAndRegion(t) \/ GetIAMUserKeyPair(t)
  BY <1>1 DEF CreateVolumeBegin, LookupBucketAndRegion, GetIAMUserKeyPair, service
<1>2. CASE CreateBucket(t)
  BY <1>2, <1>r DEF CreateBucket, Buckets
<1>3. CASE CreateIAMUser(t)
  BY <1>3, <1>r DEF CreateIAMUser
<1>4. CASE CreateIAMPolicy(t)
  BY <1>4, <1>r DEF CreateIAMPolicy
<1>5. CASE GrantIAMPolicyToUser(t)
  BY <1>5, <1>r DEF GrantIAMPolicyToUser
<1> QED
  BY SMTT(30), <1>1, <1>2, <1>3, <1>4, <1>5 DEF CreateVolume

\* DeleteVolume takes things away only from the volume it deletes, whose
\* claim was released, and from that volume's own bucket.
LEMMA DeleteVolumeKeeps ==
    ASSUME TypeOK, OwnBuckets, NEW t \in Calls, DeleteVolume(t),
           NEW v \in Volumes, v # call[t].name
    PROVE  Kept(v)
<1> USE DEF TypeOK, ServiceType, Kept
<1>r. call[t].name \in Volumes /\ PolicyOf(t) \in Policies /\ PolicyOf(t) # normalizePolicyName[v]
  BY RequestType, PolicyNameAssumption
     DEF DeleteVolume, DeleteVolumeGetPV, DeleteVolumeBegin, RevokeIAMPolicyFromUser,
         DeleteIAMPolicy, DeleteIAMUser, CleanObjects, DeleteBucket, PolicyOf
<1>1. CASE DeleteVolumeGetPV(t) \/ DeleteVolumeBegin(t) \/ CleanObjects(t)
  BY <1>1 DEF DeleteVolumeGetPV, DeleteVolumeBegin, CleanObjects, service
<1>2. CASE RevokeIAMPolicyFromUser(t)
  BY <1>2 DEF RevokeIAMPolicyFromUser
<1>3. CASE DeleteIAMPolicy(t)
  BY <1>3, <1>r DEF DeleteIAMPolicy
<1>4. CASE DeleteIAMUser(t)
  BY <1>4, <1>r DEF DeleteIAMUser
<1>5. CASE DeleteBucket(t)
  <2>1. call[t].bucket[1] = call[t].name
    BY SMTT(30), <1>5 DEF DeleteBucket, OwnBuckets
  <2> QED
    BY <1>5, <2>1 DEF DeleteBucket
<1> QED
  BY <1>1, <1>2, <1>3, <1>4, <1>5 DEF DeleteVolume

\* No step takes away what the services hold for an early volume.
LEMMA ServiceStable ==
    ASSUME TypeOK, DeleteOnlyReleased, OwnBuckets, [Next]_vars, NEW v \in Volumes, Early(v)
    PROVE  Kept(v)
<1>1. ASSUME UNCHANGED <<bstate, users, policies, grants>> PROVE Kept(v)
  BY <1>1 DEF Kept
<1>2. ASSUME NEW t \in Calls, CreateVolume(t) PROVE Kept(v)
  BY <1>2, CreateVolumeKeeps
<1>3. ASSUME NEW t \in Calls, DeleteVolume(t) PROVE Kept(v)
  <2>1. pc[t] \in Deleting
    BY <1>3 DEF DeleteVolume, DeleteVolumeGetPV, DeleteVolumeBegin, RevokeIAMPolicyFromUser,
         DeleteIAMPolicy, DeleteIAMUser, CleanObjects, DeleteBucket
  <2>2. call[t].name # v
    BY <2>1 DEF DeleteOnlyReleased
  <2> QED
    BY <1>3, <2>2, DeleteVolumeKeeps
<1> QED
  BY <1>1, <1>2, <1>3
     DEF Next, vars, RemoteCallFails, Expire, Receive, SavePV, RemovePV, DropAnswer,
         RequestCreate, RequestDelete, Request, Crash, ReleaseClaim, PatchReclaimPolicy,
         WriteObject, service

\* A volume of an early PV that is usable stays usable.
LEMMA UsableStable ==
    ASSUME TypeOK, DeleteOnlyReleased, OwnBuckets, [Next]_vars, NEW v \in Volumes, Early(v),
           NEW volume \in Volume, volume.bucket[1] = v, Usable(v, volume)
    PROVE  Usable(v, volume)'
<1>1. volume.bucket \in Buckets /\ volume.key \in Buckets
  BY DEF Volume
<1>2. volume.bucket # None /\ volume.key # None
  BY <1>1, NoneAssumption
<1> QED
  BY <1>1, <1>2, ServiceStable DEF Usable, Kept

\* DeleteVolume's handler does not change which volume it deletes.
LEMMA DeleteVolumeMoves ==
    ASSUME TypeOK, NEW u \in Calls, DeleteVolume(u), pc'[u] # "idle"
    PROVE  /\ pc[u] \in Deleting /\ pc'[u] \in Deleting
           /\ call'[u].name = call[u].name
           /\ call'[u].bucket = IF pc[u] = "getPV" THEN pv[call[u].name].bucket ELSE call[u].bucket
           /\ pc[u] = "getPV" => pv[call[u].name] # None
           /\ pc[u] # "getPV" => pc[u] \in HasBucket
<1> USE DEF TypeOK, ServerType
<1>1. CASE DeleteVolumeGetPV(u)
  <2>1. call'[u] = [call[u] EXCEPT !.bucket = pv[call[u].name].bucket,
                                   !.reclaim = reclaim[call[u].name]]
    BY <1>1 DEF DeleteVolumeGetPV
  <2>2. call[u] \in Call
    OBVIOUS
  <2>3. /\ call'[u].name = call[u].name
        /\ call'[u].bucket = pv[call[u].name].bucket
    BY <2>1, <2>2 DEF Call
  <2> QED
    BY <1>1, <2>3 DEF DeleteVolumeGetPV
<1>2. CASE ~ DeleteVolumeGetPV(u)
  BY SMTT(30), <1>2 DEF DeleteVolume, DeleteVolumeBegin, RevokeIAMPolicyFromUser, DeleteIAMPolicy,
     DeleteIAMUser, AfterDeleteIAMUser, CleanObjects, DeleteBucket, Answered, Goto, ReturnOK,
     ReturnError
<1> QED
  BY <1>1, <1>2

\* Nor does CreateVolume's handler change which volume it creates.
LEMMA CreateVolumeMoves ==
    ASSUME TypeOK, NEW u \in Calls, CreateVolume(u), pc'[u] # "idle"
    PROVE  /\ pc[u] \in Creating /\ pc'[u] \in Creating
           /\ call'[u].name = call[u].name
           /\ \/ /\ pc[u] = "createLock" /\ pc'[u] = "createBucket"
              \/ /\ pc[u] = "createLock" /\ pc'[u] = "created"
                 /\ cache[call[u].server][call[u].name] # None
                 /\ call'[u].bucket = cache[call[u].server][call[u].name].bucket
                 /\ call'[u].key = cache[call[u].server][call[u].name].key
              \/ /\ pc[u] = "createBucket" /\ pc'[u] = "lookup"
                 /\ call'[u].bucket \in Buckets
                 /\ call'[u].bucket[1] = call[u].name
                 /\ bstate'[call'[u].bucket] = "live"
              \/ /\ pc[u] = "lookup" /\ pc'[u] = "createUser"
                 /\ call'[u].bucket = call[u].bucket
              \/ /\ pc[u] = "createUser" /\ pc'[u] = "getKey"
                 /\ call'[u].bucket = call[u].bucket
                 /\ users'[call[u].name] = call[u].bucket
              \/ /\ pc[u] = "getKey" /\ pc'[u] = "createPolicy"
                 /\ call'[u].bucket = call[u].bucket
                 /\ call'[u].key = users[call[u].name]
              \/ /\ pc[u] = "createPolicy" /\ pc'[u] = "grant"
                 /\ call'[u].bucket = call[u].bucket
                 /\ call'[u].key = call[u].key
                 /\ policies'[PolicyOf(u)] = call[u].bucket
              \/ /\ pc[u] = "grant" /\ pc'[u] = "created"
                 /\ call'[u].bucket = call[u].bucket
                 /\ call'[u].key = call[u].key
                 /\ <<call[u].name, PolicyOf(u)>> \in grants'
<1> USE DEF TypeOK, ServerType
<1>0. call[u] \in Call
  OBVIOUS
<1>r. pc[u] # "idle" => call[u].name \in Volumes /\ PolicyOf(u) \in Policies
  BY RequestType
<1>1. CASE CreateVolumeBegin(u)
  <2> DEFINE volume == cache[call[u].server][call[u].name]
  <2>1. CASE volume = None
    BY <1>1, <2>1 DEF CreateVolumeBegin
  <2>2. CASE volume # None
    <3>1. call'[u] = [call[u] EXCEPT !.bucket = volume.bucket, !.key = volume.key]
      BY <1>1, <2>2 DEF CreateVolumeBegin
    <3>2. /\ call'[u].name = call[u].name
          /\ call'[u].bucket = volume.bucket
          /\ call'[u].key = volume.key
      BY <3>1, <1>0 DEF Call
    <3> QED
      BY <1>1, <2>2, <3>2 DEF CreateVolumeBegin
  <2> QED
    BY <2>1, <2>2
<1>2. CASE CreateBucket(u)
  <2>1. PICK suffix \in Suffixes :
           /\ bstate' = [bstate EXCEPT ![<<call[u].name, suffix>>] = "live"]
           /\ pc' = [pc EXCEPT ![u] = "lookup"]
           /\ call' = [call EXCEPT ![u].bucket = <<call[u].name, suffix>>]
    BY <1>2 DEF CreateBucket, ReturnError
  <2>2. PICK b \in Buckets : b = <<call[u].name, suffix>>
    BY <1>2, <1>r DEF CreateBucket, Buckets
  <2>3. call'[u] = [call[u] EXCEPT !.bucket = b]
    BY <2>1, <2>2
  <2>4. call'[u].name = call[u].name /\ call'[u].bucket = b
    BY <2>3, <1>0 DEF Call
  <2>5. bstate'[b] = "live"
    BY <2>1, <2>2 DEF ServiceType
  <2>6. b[1] = call[u].name
    BY <2>2
  <2> QED
    BY <1>2, <2>1, <2>4, <2>5, <2>6 DEF CreateBucket
<1>3. CASE LookupBucketAndRegion(u)
  BY <1>3 DEF LookupBucketAndRegion, Goto
<1>4. CASE CreateIAMUser(u)
  BY <1>4, <1>r DEF CreateIAMUser, ServiceType, Answered, Goto, ReturnError
<1>5. CASE GetIAMUserKeyPair(u)
  <2>1. PICK k \in Buckets \cup {None} : k = users[call[u].name]
    BY <1>5, <1>r DEF GetIAMUserKeyPair, ServiceType
  <2>2. call'[u] = [call[u] EXCEPT !.key = k]
    BY <1>5, <2>1 DEF GetIAMUserKeyPair
  <2>3. call'[u].name = call[u].name /\ call'[u].bucket = call[u].bucket /\ call'[u].key = k
    BY <2>2, <1>0 DEF Call
  <2> QED
    BY <1>5, <2>1, <2>3 DEF GetIAMUserKeyPair
<1>6. CASE CreateIAMPolicy(u)
  BY <1>6, <1>r DEF CreateIAMPolicy, ServiceType, Answered, Goto, ReturnError
<1>7. CASE GrantIAMPolicyToUser(u)
  BY <1>7, <1>r DEF GrantIAMPolicyToUser, ServiceType, ReturnOK, ReturnError
<1> QED
  BY <1>1, <1>2, <1>3, <1>4, <1>5, <1>6, <1>7 DEF CreateVolume

\* A new request names its volume.
LEMMA RequestBegins ==
    ASSUME TypeOK, NEW u \in Calls, NEW c \in Controllers, NEW v \in Volumes,
           RequestCreate(u, c, v) \/ RequestDelete(u, c, v)
    PROVE  /\ pc'[u] \in {"createLock", "getPV"}
           /\ pc'[u] = "getPV" => claim[v] = "released"
           /\ call'[u].name = v
           /\ UNCHANGED claim
<1>1. call'[u] = [NoCall EXCEPT !.server = c, !.name = v]
  BY DEF RequestCreate, RequestDelete, Request, TypeOK, ServerType
<1>2. call'[u].name = v
  BY <1>1 DEF NoCall
<1> QED
  BY <1>2 DEF RequestCreate, RequestDelete, Request, cluster, TypeOK, ServerType

\* DeleteVolume runs only for released volumes.
LEMMA DeleteOnlyReleasedStep ==
    TypeOK /\ DeleteOnlyReleased /\ [Next]_vars => DeleteOnlyReleased'
<1> SUFFICES ASSUME TypeOK, DeleteOnlyReleased, [Next]_vars,
                    NEW u \in Calls, pc'[u] \in Deleting
             PROVE  claim'[call'[u].name] \notin {"wanted", "bound"}
  BY DEF DeleteOnlyReleased, Early
<1>0. TypeOK'
  BY NextType
<1>1. call'[u].name \in Volumes
  BY <1>0 DEF TypeOK, ServerType
<1>2. SUFFICES claim[call'[u].name] \notin {"wanted", "bound"}
  <2>1. ASSUME NEW v \in Volumes, claim'[v] \in {"wanted", "bound"}
        PROVE  claim[v] \in {"wanted", "bound"}
    BY <2>1, EarlyBefore DEF Early
  <2> QED
    BY <1>1, <2>1
<1>3. CASE Stays(u)
  BY <1>3 DEF Stays, DeleteOnlyReleased, Early
<1>4. CASE CreateVolume(u)
  BY <1>4, CreateVolumeMoves
<1>5. CASE DeleteVolume(u)
  BY <1>5, DeleteVolumeMoves DEF DeleteOnlyReleased, Early
<1>6. ASSUME NEW c \in Controllers, NEW v \in Volumes,
             RequestCreate(u, c, v) \/ RequestDelete(u, c, v)
      PROVE  claim[call'[u].name] \notin {"wanted", "bound"}
  BY <1>6, RequestBegins
<1> QED
  BY <1>3, <1>4, <1>5, <1>6, RequestSteps

\* An entry of cs.volumes stays, disappears, or was just made by the grant
\* that ended a CreateVolume.
LEMMA CacheSteps ==
    ASSUME TypeOK, [Next]_vars, NEW c \in Controllers, NEW v \in Volumes
    PROVE  \/ cache'[c][v] = cache[c][v]
           \/ cache'[c][v] = None
           \/ \E t \in Calls :
                 /\ GrantIAMPolicyToUser(t)
                 /\ call[t].name = v
                 /\ cache'[c][v] = [bucket |-> call[t].bucket, key |-> call[t].key]
<1> USE DEF TypeOK, ServerType
<1>1. ASSUME UNCHANGED cache PROVE cache'[c][v] = cache[c][v]
  BY <1>1
<1>2. ASSUME NEW t \in Calls, GrantIAMPolicyToUser(t), ~ UNCHANGED cache
      PROVE  \/ cache'[c][v] = cache[c][v]
             \/ /\ call[t].name = v
                /\ cache'[c][v] = [bucket |-> call[t].bucket, key |-> call[t].key]
  BY <1>2 DEF GrantIAMPolicyToUser, ReturnError
<1>3. ASSUME NEW t \in Calls, CreateVolume(t), ~ GrantIAMPolicyToUser(t) PROVE UNCHANGED cache
  BY <1>3 DEF CreateVolume, CreateVolumeBegin, CreateBucket, LookupBucketAndRegion, CreateIAMUser,
              GetIAMUserKeyPair, CreateIAMPolicy, Answered, Goto, ReturnError
<1>4. ASSUME NEW t \in Calls, DeleteVolume(t)
      PROVE  cache'[c][v] = cache[c][v] \/ cache'[c][v] = None
  BY SMTT(30), <1>4 DEF DeleteVolume, DeleteVolumeGetPV, DeleteVolumeBegin, RevokeIAMPolicyFromUser,
              DeleteIAMPolicy, DeleteIAMUser, AfterDeleteIAMUser, CleanObjects, DeleteBucket,
              Answered, Goto, ReturnError
<1>5. ASSUME NEW d \in Controllers, Crash(d)
      PROVE  cache'[c][v] = cache[c][v] \/ cache'[c][v] = None
  BY <1>5 DEF Crash
<1>6. ASSUME NEW t \in Calls, RemoteCallFails(t) \/ Expire(t) \/ Receive(t) PROVE UNCHANGED cache
  BY <1>6 DEF RemoteCallFails, ReturnError, Expire, Receive, SavePV, RemovePV, DropAnswer
<1> QED
  BY <1>1, <1>2, <1>3, <1>4, <1>5, <1>6
     DEF Next, vars, RequestCreate, RequestDelete, Request, ReleaseClaim, PatchReclaimPolicy,
         WriteObject, server

\* The attributes of a PV stay, disappear with it, or were just saved from
\* the answer to a CreateVolume.
LEMMA PVSteps ==
    ASSUME TypeOK, [Next]_vars, NEW v \in Volumes
    PROVE  \/ pv'[v] = pv[v] /\ (claim'[v] = "bound" => claim[v] = "bound")
           \/ pv'[v] = None /\ claim'[v] = "gone"
           \/ \E t \in Calls :
                 /\ SavePV(t)
                 /\ call[t].name = v
                 /\ claim[v] = "wanted"
                 /\ pv'[v] = [bucket |-> call[t].bucket, key |-> call[t].key]
<1> USE DEF TypeOK, ServerType, ClusterType
<1>1. ASSUME UNCHANGED <<claim, pv>>
      PROVE  pv'[v] = pv[v] /\ (claim'[v] = "bound" => claim[v] = "bound")
  BY <1>1
<1>2. ASSUME NEW t \in Calls, SavePV(t)
      PROVE  \/ pv'[v] = pv[v] /\ (claim'[v] = "bound" => claim[v] = "bound")
             \/ /\ call[t].name = v
                /\ claim[v] = "wanted"
                /\ pv'[v] = [bucket |-> call[t].bucket, key |-> call[t].key]
  BY <1>2 DEF SavePV
<1>3. ASSUME NEW t \in Calls, RemovePV(t)
      PROVE  \/ pv'[v] = pv[v] /\ (claim'[v] = "bound" => claim[v] = "bound")
             \/ pv'[v] = None /\ claim'[v] = "gone"
  BY <1>3 DEF RemovePV
<1>4. ASSUME NEW w \in Volumes, ReleaseClaim(w)
      PROVE  pv'[v] = pv[v] /\ (claim'[v] = "bound" => claim[v] = "bound")
  BY <1>4 DEF ReleaseClaim
<1>5. ASSUME NEW t \in Calls, CreateVolume(t) \/ DeleteVolume(t) PROVE UNCHANGED <<claim, pv>>
  BY <1>5 DEF CreateVolume, CreateVolumeBegin, CreateBucket, LookupBucketAndRegion, CreateIAMUser,
              GetIAMUserKeyPair, CreateIAMPolicy, GrantIAMPolicyToUser,
              DeleteVolume, DeleteVolumeGetPV, DeleteVolumeBegin, RevokeIAMPolicyFromUser,
              DeleteIAMPolicy, DeleteIAMUser, CleanObjects, DeleteBucket, cluster
<1> QED
  BY ZenonT(60), <1>1, <1>2, <1>3, <1>4, <1>5
     DEF Next, vars, RemoteCallFails, Expire, Receive, DropAnswer, RequestCreate, RequestDelete,
         Request, Crash, PatchReclaimPolicy, WriteObject, cluster

\* Buckets are named after their volumes wherever they are recorded.
LEMMA OwnBucketsStep ==
    TypeOK /\ OwnBuckets /\ [Next]_vars => OwnBuckets'
<1> SUFFICES ASSUME TypeOK, OwnBuckets, [Next]_vars PROVE OwnBuckets'
  OBVIOUS
<1>1. ASSUME NEW v \in Volumes, pv'[v] # None PROVE pv'[v].bucket[1] = v
  <2>1. CASE pv'[v] = pv[v]
    BY <1>1, <2>1 DEF OwnBuckets
  <2>2. ASSUME NEW t \in Calls, SavePV(t), call[t].name = v,
               pv'[v] = [bucket |-> call[t].bucket, key |-> call[t].key]
        PROVE  pv'[v].bucket[1] = v
    BY <2>2 DEF SavePV, OwnBuckets
  <2> QED
    BY <1>1, <2>1, <2>2, PVSteps
<1>2. ASSUME NEW c \in Controllers, NEW v \in Volumes, cache'[c][v] # None
      PROVE  cache'[c][v].bucket[1] = v
  <2>1. CASE cache'[c][v] = cache[c][v]
    BY <1>2, <2>1 DEF OwnBuckets
  <2>2. ASSUME NEW t \in Calls, GrantIAMPolicyToUser(t), call[t].name = v,
               cache'[c][v] = [bucket |-> call[t].bucket, key |-> call[t].key]
        PROVE  cache'[c][v].bucket[1] = v
    BY <2>2 DEF GrantIAMPolicyToUser, OwnBuckets
  <2> QED
    BY <1>2, <2>1, <2>2, CacheSteps
<1>3. ASSUME NEW u \in Calls, pc'[u] \in HasBucket PROVE call'[u].bucket[1] = call'[u].name
  <2>1. CASE Stays(u)
    BY <1>3, <2>1 DEF Stays, OwnBuckets
  <2>2. CASE CreateVolume(u)
    <3>1. pc[u] # "idle"
      BY <1>3, <2>2, CreateVolumeMoves
    <3>2. call[u].server \in Controllers /\ call[u].name \in Volumes
      BY <3>1, RequestType
    <3>3. /\ call'[u].name = call[u].name
          /\ \/ call'[u].bucket[1] = call[u].name
             \/ /\ cache[call[u].server][call[u].name] # None
                /\ call'[u].bucket = cache[call[u].server][call[u].name].bucket
             \/ call'[u].bucket = call[u].bucket /\ pc[u] \in HasBucket
      BY <1>3, <2>2, CreateVolumeMoves
    <3> QED
      BY <3>2, <3>3 DEF OwnBuckets
  <2>3. CASE DeleteVolume(u)
    <3>1. call[u].name \in Volumes
      BY <1>3, <2>3, DeleteVolumeMoves, RequestType
    <3> QED
      BY <1>3, <2>3, <3>1, DeleteVolumeMoves DEF OwnBuckets
  <2>4. ASSUME NEW c \in Controllers, NEW v \in Volumes,
               RequestCreate(u, c, v) \/ RequestDelete(u, c, v)
        PROVE  FALSE
    BY <1>3, <2>4, RequestBegins
  <2> QED
    BY <1>3, <2>1, <2>2, <2>3, <2>4, RequestSteps
<1> QED
  BY <1>1, <1>2, <1>3 DEF OwnBuckets

\* What CreateVolume's attempts have obtained stays obtained.
LEMMA AttemptProgressStep ==
    IInv /\ [Next]_vars => AttemptProgress'
<1> SUFFICES ASSUME IInv, [Next]_vars, NEW u \in Calls,
                    pc'[u] \in HasBucket, claim'[call'[u].name] \in {"wanted", "bound"}
             PROVE  /\ bstate'[call'[u].bucket] = "live"
                    /\ pc'[u] \in {"getKey", "createPolicy", "grant"} => users'[call'[u].name] # None
                    /\ pc'[u] \in {"createPolicy", "grant"} => users'[call'[u].name] = call'[u].key
                    /\ pc'[u] = "grant" =>
                          policies'[normalizePolicyName[call'[u].name]] = call'[u].bucket
                    /\ pc'[u] = "created" =>
                          /\ users'[call'[u].name] = call'[u].key
                          /\ <<call'[u].name, normalizePolicyName[call'[u].name]>> \in grants'
                          /\ policies'[normalizePolicyName[call'[u].name]] = call'[u].bucket
  BY DEF AttemptProgress, Early, PolicyOf, Usable
<1> USE DEF IInv
<1>0. TypeOK' /\ OwnBuckets'
  BY NextType, OwnBucketsStep
<1>1. PICK v \in Volumes, b \in Buckets : v = call'[u].name /\ b = call'[u].bucket /\ b[1] = v
  BY <1>0 DEF TypeOK, ServerType, OwnBuckets
<1> DEFINE p == normalizePolicyName[v]
<1>2. Early(v)
  BY <1>1, EarlyBefore DEF Early
<1>3. Kept(v)
  BY <1>2, ServiceStable
<1>4. b # None
  BY NoneAssumption
<1>s. ASSUME pc[u] \in HasBucket, call[u].name = v
      PROVE  /\ call[u].bucket \in Buckets /\ bstate[call[u].bucket] = "live"
             /\ pc[u] \in {"getKey", "createPolicy", "grant"} => users[v] # None
             /\ pc[u] \in {"createPolicy", "grant"} => users[v] = call[u].key
             /\ pc[u] = "grant" => policies[p] = call[u].bucket
             /\ pc[u] = "created" =>
                   users[v] = call[u].key /\ <<v, p>> \in grants /\ policies[p] = call[u].bucket
             /\ pc[u] \in HasKey => call[u].key # None
  BY <1>s, <1>2, NoneAssumption DEF AttemptProgress, Usable, PolicyOf, TypeOK, ServerType
<1>5. CASE Stays(u)
  BY <1>1, <1>3, <1>4, <1>5, <1>s DEF Stays, Kept
<1>6. CASE CreateVolume(u)
  <2>1. call[u].name = v /\ pc[u] # "idle"
    BY <1>1, <1>6, CreateVolumeMoves
  <2>2. PolicyOf(u) = p /\ call[u].server \in Controllers
    BY <2>1, RequestType DEF PolicyOf
  <2>3. CASE pc'[u] = "lookup"
    BY <1>1, <1>6, <2>3, CreateVolumeMoves
  <2>4. CASE pc'[u] = "createUser"
    <3>1. pc[u] = "lookup" /\ call[u].bucket = b
      BY <1>1, <1>6, <2>4, CreateVolumeMoves
    <3> QED
      BY <1>1, <1>3, <1>s, <2>1, <2>4, <3>1 DEF Kept
  <2>5. CASE pc'[u] = "getKey"
    <3>1. pc[u] = "createUser" /\ call[u].bucket = b /\ users'[v] = b
      BY ZenonT(60), <1>1, <1>6, <2>1, <2>5, CreateVolumeMoves
    <3> QED
      BY <1>1, <1>3, <1>4, <1>s, <2>1, <2>5, <3>1 DEF Kept
  <2>6. CASE pc'[u] = "createPolicy"
    <3>1. pc[u] = "getKey" /\ call[u].bucket = b /\ call'[u].key = users[v]
      BY ZenonT(60), <1>1, <1>6, <2>1, <2>6, CreateVolumeMoves
    <3> QED
      BY <1>1, <1>3, <1>s, <2>1, <2>6, <3>1 DEF Kept
  <2>7. CASE pc'[u] = "grant"
    <3>1. /\ pc[u] = "createPolicy" /\ call[u].bucket = b /\ call'[u].key = call[u].key
          /\ policies'[p] = b
      BY ZenonT(60), <1>1, <1>6, <2>1, <2>2, <2>7, CreateVolumeMoves
    <3> QED
      BY <1>1, <1>3, <1>s, <2>1, <2>7, <3>1 DEF Kept
  <2>8. CASE pc'[u] = "created"
    <3>1. CASE pc[u] = "grant"
      BY <1>1, <1>3, <1>4, <1>6, <1>s, <2>1, <2>2, <2>8, <3>1, CreateVolumeMoves DEF Kept
    <3>2. CASE pc[u] # "grant"
      <4> DEFINE volume == cache[call[u].server][v]
      <4>1. volume # None /\ b = volume.bucket /\ call'[u].key = volume.key
        <5>1. /\ cache[call[u].server][call[u].name] # None
              /\ call'[u].bucket = cache[call[u].server][call[u].name].bucket
              /\ call'[u].key = cache[call[u].server][call[u].name].key
          BY <1>6, <2>8, <3>2, CreateVolumeMoves
        <5> QED
          BY <1>1, <2>1, <5>1
      <4>2. Usable(v, volume)
        BY <1>2, <2>2, <4>1 DEF CacheUsable, Early
      <4>3. volume.key # None
        BY <2>2, <4>1, NoneAssumption DEF TypeOK, ServerType, Volume
      <4> HIDE DEF volume
      <4> QED
        BY <1>1, <1>3, <1>4, <2>8, <4>1, <4>2, <4>3 DEF Kept, Usable
    <3> QED
      BY <3>1, <3>2
  <2> QED
    BY <1>6, <2>3, <2>4, <2>5, <2>6, <2>7, <2>8, CreateVolumeMoves
<1>7. CASE DeleteVolume(u)
  <2>1. pc[u] \in Deleting /\ call[u].name = v
    BY <1>1, <1>7, DeleteVolumeMoves
  <2> QED
    BY <1>2, <2>1 DEF DeleteOnlyReleased
<1>8. ASSUME NEW c \in Controllers, NEW w \in Volumes,
             RequestCreate(u, c, w) \/ RequestDelete(u, c, w)
      PROVE  FALSE
  BY <1>8, RequestBegins
<1> QED
  BY <1>5, <1>6, <1>7, <1>8, RequestSteps

\* What cs.volumes holds stays usable.
LEMMA CacheUsableStep ==
    IInv /\ [Next]_vars => CacheUsable'
<1> SUFFICES ASSUME IInv, [Next]_vars, NEW c \in Controllers, NEW v \in Volumes,
                    cache'[c][v] # None, claim'[v] \in {"wanted", "bound"}
             PROVE  LET volume == cache'[c][v] IN
                    /\ bstate'[volume.bucket] = "live"
                    /\ users'[v] = volume.key
                    /\ <<v, normalizePolicyName[v]>> \in grants'
                    /\ policies'[normalizePolicyName[v]] = volume.bucket
  BY DEF CacheUsable, Usable
<1> USE DEF IInv
<1>1. Early(v)
  BY EarlyBefore DEF Early
<1>2. CASE cache'[c][v] = cache[c][v]
  <2>1. PICK volume \in Volume : volume = cache[c][v]
    BY <1>2 DEF TypeOK, ServerType
  <2>2. Usable(v, volume) /\ volume.bucket[1] = v
    BY <1>1, <1>2, <2>1 DEF CacheUsable, Early, OwnBuckets
  <2>3. Usable(v, volume)'
    BY <1>1, <2>2, UsableStable
  <2> QED
    BY <1>2, <2>1, <2>3 DEF Usable
<1>3. ASSUME NEW t \in Calls, GrantIAMPolicyToUser(t), call[t].name = v,
             cache'[c][v] = [bucket |-> call[t].bucket, key |-> call[t].key]
      PROVE  LET volume == cache'[c][v] IN
             /\ bstate'[volume.bucket] = "live"
             /\ users'[v] = volume.key
             /\ <<v, normalizePolicyName[v]>> \in grants'
             /\ policies'[normalizePolicyName[v]] = volume.bucket
  <2>1. pc[t] = "grant"
    BY <1>3 DEF GrantIAMPolicyToUser
  <2>2. /\ bstate[call[t].bucket] = "live"
        /\ users[v] = call[t].key
        /\ policies[normalizePolicyName[v]] = call[t].bucket
    BY <1>1, <1>3, <2>1 DEF AttemptProgress, PolicyOf
  <2> QED
    BY <1>3, <2>2 DEF GrantIAMPolicyToUser, PolicyOf
<1> QED
  BY ZenonT(60), <1>2, <1>3, CacheSteps

\* A bound volume stays usable, and one that becomes bound is.
LEMMA BoundVolumeUsableStep ==
    IInv /\ [Next]_vars => BoundVolumeUsable'
<1> SUFFICES ASSUME IInv, [Next]_vars, NEW v \in Volumes, claim'[v] = "bound"
             PROVE  /\ pv'[v] # None
                    /\ bstate'[pv'[v].bucket] = "live"
                    /\ users'[v] = pv'[v].key
                    /\ <<v, normalizePolicyName[v]>> \in grants'
                    /\ policies'[normalizePolicyName[v]] = pv'[v].bucket
  BY DEF BoundVolumeUsable, Usable
<1> USE DEF IInv
<1>1. CASE pv'[v] = pv[v] /\ claim[v] = "bound"
  <2>1. PICK volume \in Volume : volume = pv[v]
    BY <1>1 DEF BoundVolumeUsable, TypeOK, ClusterType
  <2>2. Usable(v, volume) /\ volume.bucket[1] = v
    BY <1>1, <2>1, NoneAssumption DEF BoundVolumeUsable, OwnBuckets
  <2>3. Usable(v, volume)'
    BY <1>1, <2>2, UsableStable DEF Early
  <2> QED
    BY <1>1, <2>1, <2>3, NoneAssumption DEF Usable
<1>2. ASSUME NEW t \in Calls, SavePV(t), call[t].name = v, claim[v] = "wanted",
             pv'[v] = [bucket |-> call[t].bucket, key |-> call[t].key]
      PROVE  /\ pv'[v] # None
             /\ bstate'[pv'[v].bucket] = "live"
             /\ users'[v] = pv'[v].key
             /\ <<v, normalizePolicyName[v]>> \in grants'
             /\ policies'[normalizePolicyName[v]] = pv'[v].bucket
  <2>1. pc[t] = "created" /\ UNCHANGED <<bstate, users, grants, policies>>
    BY <1>2 DEF SavePV, service
  <2>2. pv'[v] \in Volume
    BY <1>2, <2>1 DEF TypeOK, ServerType, Volume
  <2>3. Usable(v, [bucket |-> call[t].bucket, key |-> call[t].key])
    BY <1>2, <2>1 DEF AttemptProgress, Early
  <2> QED
    BY <1>2, <2>1, <2>2, <2>3, NoneAssumption DEF Usable
<1> QED
  BY <1>1, <1>2, PVSteps

\* Nothing has begun in the initial state.
LEMMA InitIInv == Init => IInv
  BY InitType
     DEF Init, IInv, DeleteOnlyReleased, OwnBuckets, AttemptProgress, CacheUsable,
         BoundVolumeUsable

\* The invariant is inductive.
LEMMA NextIInv == IInv /\ [Next]_vars => IInv'
  BY NextType, DeleteOnlyReleasedStep, OwnBucketsStep, AttemptProgressStep, CacheUsableStep,
     BoundVolumeUsableStep DEF IInv

\* CreateVolume's cached answers and every bound PV are usable, whatever
\* fails, for any number of processes, requests and volumes.
THEOREM BoundVolumesAreUsable == Spec => [](BoundVolumeUsable /\ CacheUsable)
<1>1. IInv => BoundVolumeUsable /\ CacheUsable
  BY DEF IInv
<1> QED
  BY <1>1, InitIInv, NextIInv, PTL DEF Spec

-----------------------------------------------------------------------------
(***************************************************************************)
(* At most one attempt is past CreateIAMUser: the user exists from that    *)
(* step on, and CreateIAMUser refuses a name that exists.                  *)
(***************************************************************************)

\* Who enters the part after CreateIAMUser found no user.
LEMMA EntersPastCreateIAMUser ==
    ASSUME TypeOK, [Next]_vars, NEW u \in Calls,
           pc'[u] \in {"getKey", "createPolicy", "grant"},
           ~ (pc[u] \in {"getKey", "createPolicy", "grant"} /\ call'[u].name = call[u].name)
    PROVE  CreateIAMUser(u) /\ call'[u].name = call[u].name
<1>1. CASE Stays(u)
  BY <1>1 DEF Stays
<1>2. CASE CreateVolume(u)
  <2>1. pc[u] = "createUser" /\ call'[u].name = call[u].name
    BY <1>2, CreateVolumeMoves
  <2> QED
    BY <1>2, <2>1 DEF CreateVolume, CreateVolumeBegin, CreateBucket, LookupBucketAndRegion,
                      GetIAMUserKeyPair, CreateIAMPolicy, GrantIAMPolicyToUser
<1>3. CASE DeleteVolume(u)
  BY <1>3, DeleteVolumeMoves
<1>4. ASSUME NEW c \in Controllers, NEW v \in Volumes,
             RequestCreate(u, c, v) \/ RequestDelete(u, c, v)
      PROVE  FALSE
  BY <1>4, RequestBegins
<1> QED
  BY <1>1, <1>2, <1>3, <1>4, RequestSteps

\* A claim that is wanted has been wanted all along.
LEMMA WantedBefore ==
    ASSUME TypeOK, [Next]_vars, NEW v \in Volumes, claim'[v] = "wanted"
    PROVE  claim[v] = "wanted"
<1>1. CASE claim[v] = "bound"
  <2>1. ASSUME UNCHANGED claim PROVE FALSE
    BY <1>1, <2>1
  <2>2. ASSUME NEW t \in Calls, Receive(t) PROVE FALSE
    BY SMTT(30), <1>1, <2>2
       DEF Receive, SavePV, RemovePV, DropAnswer, cluster, TypeOK, ServerType, ClusterType
  <2>3. ASSUME NEW w \in Volumes, ReleaseClaim(w) PROVE FALSE
    BY <1>1, <2>3 DEF ReleaseClaim, TypeOK, ClusterType
  <2>4. ASSUME NEW t \in Calls, CreateVolume(t) \/ DeleteVolume(t) PROVE UNCHANGED claim
    BY <2>4 DEF CreateVolume, CreateVolumeBegin, CreateBucket, LookupBucketAndRegion, CreateIAMUser,
                GetIAMUserKeyPair, CreateIAMPolicy, GrantIAMPolicyToUser,
                DeleteVolume, DeleteVolumeGetPV, DeleteVolumeBegin, RevokeIAMPolicyFromUser,
                DeleteIAMPolicy, DeleteIAMUser, CleanObjects, DeleteBucket, cluster
  <2> QED
    BY <2>1, <2>2, <2>3, <2>4
       DEF Next, vars, RemoteCallFails, Expire, RequestCreate, RequestDelete, Request, Crash,
           PatchReclaimPolicy, WriteObject, cluster
<1>2. Early(v)
  BY EarlyBefore DEF Early
<1> QED
  BY <1>1, <1>2 DEF Early

\* A step never lets a second attempt past CreateIAMUser.
LEMMA OneCreatorStep == IInv /\ OneCreator /\ [Next]_vars => OneCreator'
<1> SUFFICES ASSUME IInv, OneCreator, [Next]_vars, NEW v \in Volumes, claim'[v] = "wanted",
                    NEW t \in Calls, NEW u \in Calls, t # u,
                    pc'[t] \in {"getKey", "createPolicy", "grant"}, call'[t].name = v,
                    pc'[u] \in {"getKey", "createPolicy", "grant"}, call'[u].name = v
             PROVE  FALSE
  BY DEF OneCreator, PastCreateIAMUser
<1> DEFINE Past(w) == pc[w] \in {"getKey", "createPolicy", "grant"} /\ call[w].name = v
<1>0. TypeOK /\ claim[v] = "wanted"
  BY WantedBefore DEF IInv
<1>1. ASSUME NEW w \in Calls, Past(w) PROVE users[v] # None
  BY <1>0, <1>1 DEF IInv, AttemptProgress, Early
<1>2. Past(t) \/ (CreateIAMUser(t) /\ call[t].name = v)
  BY <1>0, EntersPastCreateIAMUser
<1>3. Past(u) \/ (CreateIAMUser(u) /\ call[u].name = v)
  BY <1>0, EntersPastCreateIAMUser
<1>4. ~ (Past(t) /\ Past(u))
  BY <1>0 DEF OneCreator, PastCreateIAMUser
<1>5. ASSUME NEW w \in Calls, CreateIAMUser(w), call[w].name = v PROVE users[v] = None
  BY <1>5 DEF CreateIAMUser
<1>6. CreateIAMUser(t) /\ CreateIAMUser(u)
  BY <1>1, <1>2, <1>3, <1>4, <1>5
<1>7. pc'[u] = pc[u]
  BY <1>0, <1>6, OthersStay DEF CreateVolume
<1> QED
  BY <1>6, <1>7 DEF CreateIAMUser

\* While a volume is wanted at most one CreateVolume, over all processes, is
\* past CreateIAMUser.
THEOREM OneCreatorAtATime == Spec => []OneCreator
<1>1. Init => OneCreator
  BY DEF Init, OneCreator, PastCreateIAMUser
<1> QED
  BY <1>1, InitIInv, NextIInv, OneCreatorStep, PTL DEF Spec
=============================================================================

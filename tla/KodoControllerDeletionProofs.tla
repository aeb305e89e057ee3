-------------------- MODULE KodoControllerDeletionProofs ---------------------
(***************************************************************************)
(* Proofs about DeleteVolume of KodoController, for any number of plugin   *)
(* processes, requests and volumes and any set of failures: nobody can     *)
(* write to a bucket that is being cleaned, a deleted volume leaves no     *)
(* rights behind, a bucket is reclaimed only for a released PV under       *)
(* reclaim policy Delete, and an orphaned IAM user is never adopted.       *)
(*                                                                         *)
(* Two processes share no lock, so the argument is about the provisioner   *)
(* and the contexts of the requests: at most one request for a volume is   *)
(* live, a live CreateVolume is for a wanted claim and a live DeleteVolume *)
(* for a released one.  All that gives rights away looks at the context.   *)
(***************************************************************************)
EXTENDS KodoControllerProofs

USE DEF Creating, Deleting, CreateCritical, DeleteCritical, Critical, Remote, HasBucket, HasKey

-----------------------------------------------------------------------------
(***************************************************************************)
(* The inductive invariant, on top of IInv                                 *)
(***************************************************************************)

\* The provisioner has at most one request for a volume under way; earlier
\* ones that still run have expired.
OneLive ==
    \A t, u \in Calls :
        /\ call[t].name = call[u].name /\ call[t].name # None
        /\ call[t].ctx = "live" /\ call[u].ctx = "live"
        => t = u

\* What the claim of a volume is while a request for it is live.
LiveCreator ==
    \A t \in Calls :
        pc[t] \in Creating /\ call[t].ctx = "live" => claim[call[t].name] = "wanted"

LiveDeleter ==
    \A t \in Calls :
        pc[t] \in Deleting /\ call[t].ctx = "live" =>
            /\ claim[call[t].name] = "released"
            /\ pc[t] # "getPV" => /\ pv[call[t].name] # None
                                  /\ pv[call[t].name].bucket = call[t].bucket

\* Only under reclaim policy Delete is the bucket touched.
ReadPolicy ==
    \A t \in Calls :
        pc[t] \in {"cleanObjects", "deleteBucket"} => call[t].reclaim = "Delete"

\* A policy names a bucket of the volume it is called after.
PolicyOwner ==
    \A p \in Policies :
        policies[p] # None => normalizePolicyName[policies[p][1]] = p

\* v has no policy; nothing is granted to v.
NoPolicy(v) == policies[normalizePolicyName[v]] = None
NoGrant(v)  == \A g \in grants : g[1] # v

\* What DeleteVolume has undone stays undone, whoever still runs.
Undone ==
    /\ \A t \in Calls :
          /\ pc[t] \in {"deleteUser", "cleanObjects", "deleteBucket", "deleted"} =>
                NoPolicy(call[t].name)
          /\ pc[t] \in {"cleanObjects", "deleteBucket", "deleted"} => NoGrant(call[t].name)
    /\ \A v \in Volumes : claim[v] = "gone" => NoPolicy(v) /\ NoGrant(v)

DInv ==
    /\ IInv
    /\ OneLive
    /\ LiveCreator
    /\ LiveDeleter
    /\ ReadPolicy
    /\ PolicyOwner
    /\ Undone

-----------------------------------------------------------------------------
(***************************************************************************)
(* What a step does to the requests, the claims and the services           *)
(***************************************************************************)

\* What a step that is not one of u's handler leaves to request u.
Lasts(u) ==
    /\ pc'[u] = pc[u]
    /\ call'[u].name = call[u].name
    /\ call'[u].bucket = call[u].bucket
    /\ call'[u].reclaim = call[u].reclaim
    /\ call'[u].ctx = "live" => call[u].ctx = "live"

\* The request u is over and its slot free.
Ended(u) == pc'[u] = "idle" /\ call'[u] = NoCall

\* u's handler went on: the volume and the context are the same, the reclaim
\* policy too once it has been read.
GoesOn(u) ==
    /\ CreateVolume(u) \/ DeleteVolume(u)
    /\ pc'[u] # "idle"
    /\ call'[u].name = call[u].name
    /\ call'[u].ctx = call[u].ctx
    /\ pc[u] # "getPV" => call'[u].reclaim = call[u].reclaim

\* The provisioner has just sent request u, for a volume it has no other live
\* request for; the other requests stay as they are.
Begun(u) ==
    /\ \A w \in Calls \ {u} : pc'[w] = pc[w] /\ call'[w] = call[w]
    /\ \E v \in Volumes :
          /\ pc[u] = "idle"
          /\ call'[u].name = v
          /\ Unclaimed(v)
          /\ \/ pc'[u] = "createLock" /\ claim[v] = "wanted"
             \/ pc'[u] = "getPV" /\ claim[v] = "released"

\* A step of DeleteVolume ends the request or goes on with the same request.
LEMMA DeleteVolumeGoesOn ==
    ASSUME TypeOK, NEW u \in Calls, DeleteVolume(u)
    PROVE  Ended(u) \/ GoesOn(u)
<1> USE DEF TypeOK, ServerType
<1>1. CASE DeleteVolumeGetPV(u)
  <2>1. call'[u] = [call[u] EXCEPT !.bucket = pv[call[u].name].bucket,
                                   !.reclaim = reclaim[call[u].name]]
    BY <1>1 DEF DeleteVolumeGetPV
  <2>2. call[u] \in Call
    OBVIOUS
  <2>3. call'[u].name = call[u].name /\ call'[u].ctx = call[u].ctx
    BY <2>1, <2>2 DEF Call
  <2> QED
    BY <1>1, <2>3 DEF DeleteVolumeGetPV, GoesOn
<1>2. CASE ~ DeleteVolumeGetPV(u)
  BY <1>2 DEF DeleteVolume, DeleteVolumeBegin, RevokeIAMPolicyFromUser, DeleteIAMPolicy,
     DeleteIAMUser, AfterDeleteIAMUser, CleanObjects, DeleteBucket, Answered, Goto, ReturnOK,
     ReturnError, Ended, GoesOn
<1> QED
  BY <1>1, <1>2

\* So does a step of CreateVolume.
LEMMA CreateVolumeGoesOn ==
    ASSUME TypeOK, NEW u \in Calls, CreateVolume(u)
    PROVE  Ended(u) \/ GoesOn(u)
<1> USE DEF TypeOK, ServerType
<1>0. call[u] \in Call
  OBVIOUS
<1>1. CASE CreateVolumeBegin(u)
  <2> DEFINE volume == cache[call[u].server][call[u].name]
  <2>1. CASE volume = None
    BY <1>1, <2>1 DEF CreateVolumeBegin, GoesOn
  <2>2. CASE volume # None
    <3>1. call'[u] = [call[u] EXCEPT !.bucket = volume.bucket, !.key = volume.key]
      BY <1>1, <2>2 DEF CreateVolumeBegin
    <3>2. /\ call'[u].name = call[u].name /\ call'[u].ctx = call[u].ctx
          /\ call'[u].reclaim = call[u].reclaim
      BY <3>1, <1>0 DEF Call
    <3> QED
      BY <1>1, <2>2, <3>2 DEF CreateVolumeBegin, GoesOn
  <2> QED
    BY <2>1, <2>2
<1>2. CASE CreateBucket(u)
  <2>1. CASE ReturnError(u)
    BY <2>1 DEF ReturnError, Ended
  <2>2. CASE ~ ReturnError(u)
    <3>1. PICK suffix \in Suffixes :
             /\ pc' = [pc EXCEPT ![u] = "lookup"]
             /\ call' = [call EXCEPT ![u].bucket = <<call[u].name, suffix>>]
      BY <1>2, <2>2 DEF CreateBucket
    <3>2. PICK b : b = <<call[u].name, suffix>>
      OBVIOUS
    <3>3. call'[u] = [call[u] EXCEPT !.bucket = b]
      BY <3>1, <3>2
    <3>4. /\ call'[u].name = call[u].name /\ call'[u].ctx = call[u].ctx
          /\ call'[u].reclaim = call[u].reclaim
      BY <3>3, <1>0 DEF Call
    <3> QED
      BY <1>2, <3>1, <3>4 DEF CreateBucket, GoesOn
  <2> QED
    BY <2>1, <2>2
<1>3. CASE GetIAMUserKeyPair(u)
  <2>1. PICK k : k = users[call[u].name]
    OBVIOUS
  <2>2. call'[u] = [call[u] EXCEPT !.key = k]
    BY <1>3, <2>1 DEF GetIAMUserKeyPair
  <2>3. /\ call'[u].name = call[u].name /\ call'[u].ctx = call[u].ctx
        /\ call'[u].reclaim = call[u].reclaim
    BY <2>2, <1>0 DEF Call
  <2> QED
    BY <1>3, <2>3 DEF GetIAMUserKeyPair, GoesOn
<1>4. CASE LookupBucketAndRegion(u) \/ CreateIAMUser(u) \/ CreateIAMPolicy(u)
           \/ GrantIAMPolicyToUser(u)
  BY <1>4 DEF LookupBucketAndRegion, CreateIAMUser, CreateIAMPolicy, GrantIAMPolicyToUser,
     Answered, Goto, ReturnOK, ReturnError, Ended, GoesOn, CreateVolume
<1> QED
  BY <1>1, <1>2, <1>3, <1>4 DEF CreateVolume

\* A request lasts, ends, goes on or begins.
LEMMA CallSteps ==
    ASSUME TypeOK, [Next]_vars, NEW u \in Calls
    PROVE  Lasts(u) \/ Ended(u) \/ GoesOn(u) \/ Begun(u)
<1> USE DEF TypeOK
<1>1. ASSUME UNCHANGED <<pc, call>> PROVE Lasts(u)
  BY <1>1 DEF Lasts
<1>2. ASSUME NEW t \in Calls, RemoteCallFails(t) \/ Receive(t) PROVE Lasts(u) \/ Ended(u)
  <2>1. CASE u # t
    BY <1>2, <2>1, OthersStay DEF Lasts
  <2>2. CASE u = t
    BY <1>2, <2>2 DEF ServerType, RemoteCallFails, Receive, SavePV, RemovePV, DropAnswer,
                      ReturnError, Ended
  <2> QED
    BY <2>1, <2>2
<1>3. ASSUME NEW t \in Calls, Expire(t) PROVE Lasts(u)
  <2>1. CASE u # t
    BY <1>3, <2>1, OthersStay DEF Lasts
  <2>2. CASE u = t
    BY <1>3, <2>2, SetExpired DEF ServerType, Expire, Lasts
  <2> QED
    BY <2>1, <2>2
<1>4. ASSUME NEW t \in Calls, CreateVolume(t) \/ DeleteVolume(t)
      PROVE  Lasts(u) \/ Ended(u) \/ GoesOn(u)
  <2>1. CASE u # t
    BY <1>4, <2>1, OthersStay DEF Lasts
  <2>2. CASE u = t
    BY <1>4, <2>2, CreateVolumeGoesOn, DeleteVolumeGoesOn
  <2> QED
    BY <2>1, <2>2
<1>5. ASSUME NEW t \in Calls, NEW c \in Controllers, NEW v \in Volumes,
             RequestCreate(t, c, v) \/ RequestDelete(t, c, v)
      PROVE  Lasts(u) \/ Begun(u)
  <2>1. CASE u # t
    BY <1>5, <2>1, OthersStay DEF Lasts
  <2>2. CASE u = t
    <3>1. call'[u].name = v
      BY <1>5, <2>2, RequestBegins
    <3>2. \A w \in Calls \ {u} : pc'[w] = pc[w] /\ call'[w] = call[w]
      BY <1>5, <2>2, OthersStay
    <3> QED
      BY <1>5, <2>2, <3>1, <3>2 DEF RequestCreate, RequestDelete, Request, Begun, ServerType
  <2> QED
    BY <2>1, <2>2
<1>6. ASSUME NEW c \in Controllers, Crash(c) PROVE Lasts(u) \/ Ended(u)
  BY <1>6 DEF Crash, Lasts, Ended
<1>7. ASSUME NEW v \in Volumes, ReleaseClaim(v) \/ PatchReclaimPolicy(v) \/ WriteObject(v)
      PROVE  UNCHANGED <<pc, call>>
  BY SMTT(30), <1>7 DEF ReleaseClaim, PatchReclaimPolicy, WriteObject, server
<1> QED
  BY <1>1, <1>2, <1>3, <1>4, <1>5, <1>6, <1>7 DEF Next, vars

\* Only the provisioner, on an answer it still waits for, and the user change
\* a claim or the PV.
LEMMA ClaimSteps ==
    ASSUME TypeOK, [Next]_vars, NEW v \in Volumes
    PROVE  \/ claim'[v] = claim[v] /\ pv'[v] = pv[v]
           \/ \E t \in Calls : SavePV(t) /\ call[t].name = v
           \/ \E t \in Calls : RemovePV(t) /\ call[t].name = v
           \/ ReleaseClaim(v)
<1> USE DEF TypeOK, ClusterType
<1>1. ASSUME NEW t \in Calls, Receive(t)
      PROVE  \/ claim'[v] = claim[v] /\ pv'[v] = pv[v]
             \/ SavePV(t) /\ call[t].name = v
             \/ RemovePV(t) /\ call[t].name = v
  BY <1>1 DEF Receive, SavePV, RemovePV, DropAnswer, cluster
<1>2. ASSUME NEW w \in Volumes, ReleaseClaim(w)
      PROVE  \/ claim'[v] = claim[v] /\ pv'[v] = pv[v]
             \/ ReleaseClaim(v)
  BY <1>2 DEF ReleaseClaim
<1>3. ASSUME NEW t \in Calls, CreateVolume(t) \/ DeleteVolume(t) PROVE UNCHANGED <<claim, pv>>
  BY <1>3 DEF CreateVolume, CreateVolumeBegin, CreateBucket, LookupBucketAndRegion, CreateIAMUser,
              GetIAMUserKeyPair, CreateIAMPolicy, GrantIAMPolicyToUser,
              DeleteVolume, DeleteVolumeGetPV, DeleteVolumeBegin, RevokeIAMPolicyFromUser,
              DeleteIAMPolicy, DeleteIAMUser, CleanObjects, DeleteBucket, cluster
<1>4. ASSUME UNCHANGED <<claim, pv>> PROVE claim'[v] = claim[v] /\ pv'[v] = pv[v]
  BY SMTT(30), <1>4
<1> QED
  BY <1>1, <1>2, <1>3, <1>4
     DEF Next, vars, RemoteCallFails, Expire, RequestCreate, RequestDelete, Request, Crash,
         PatchReclaimPolicy, WriteObject, cluster

\* Rights are made only by CreateIAMPolicy and by the grant, which both look
\* at the context: only for a volume that is still wanted.
LEMMA RightsSteps ==
    ASSUME TypeOK, LiveCreator, [Next]_vars, NEW v \in Volumes, claim[v] # "wanted"
    PROVE  /\ NoPolicy(v) => policies'[normalizePolicyName[v]] = None
           /\ NoGrant(v) => \A g \in grants' : g[1] # v
<1> USE DEF TypeOK, ServiceType, NoPolicy, NoGrant
<1> DEFINE Goal == /\ NoPolicy(v) => policies'[normalizePolicyName[v]] = None
                   /\ NoGrant(v) => \A g \in grants' : g[1] # v
<1>1. ASSUME UNCHANGED <<policies, grants>> PROVE Goal
  BY <1>1
<1>2. ASSUME NEW t \in Calls, CreateIAMPolicy(t) PROVE Goal
  <2>1. pc[t] = "createPolicy" /\ call[t].ctx = "live"
    BY <1>2 DEF CreateIAMPolicy, MayRun, IgnoresContext
  <2>2. call[t].name \in Volumes /\ call[t].name # v
    BY <2>1, RequestType DEF LiveCreator
  <2>3. PolicyOf(t) # normalizePolicyName[v] /\ normalizePolicyName[v] \in Policies
    BY <2>2, PolicyNameAssumption DEF PolicyOf
  <2> QED
    BY <1>2, <2>3 DEF CreateIAMPolicy
<1>3. ASSUME NEW t \in Calls, GrantIAMPolicyToUser(t) PROVE Goal
  <2>1. pc[t] = "grant" /\ call[t].ctx = "live"
    BY <1>3 DEF GrantIAMPolicyToUser, MayRun, IgnoresContext
  <2>2. call[t].name # v
    BY <2>1 DEF LiveCreator
  <2> QED
    BY <1>3, <2>2 DEF GrantIAMPolicyToUser
<1>4. ASSUME NEW t \in Calls, CreateVolume(t), ~ CreateIAMPolicy(t), ~ GrantIAMPolicyToUser(t)
      PROVE  UNCHANGED <<policies, grants>>
  BY <1>4 DEF CreateVolume, CreateVolumeBegin, CreateBucket, LookupBucketAndRegion, CreateIAMUser,
              GetIAMUserKeyPair, service
<1>5. ASSUME NEW t \in Calls, DeleteVolume(t) PROVE Goal
  <2>1. normalizePolicyName[v] \in Policies
    BY PolicyNameAssumption
  <2>2. grants' \subseteq grants
    BY <1>5 DEF DeleteVolume, DeleteVolumeGetPV, DeleteVolumeBegin, RevokeIAMPolicyFromUser,
                DeleteIAMPolicy, DeleteIAMUser, CleanObjects, DeleteBucket, service
  <2>3. UNCHANGED policies \/ policies' = [policies EXCEPT ![PolicyOf(t)] = None]
    BY <1>5 DEF DeleteVolume, DeleteVolumeGetPV, DeleteVolumeBegin, RevokeIAMPolicyFromUser,
                DeleteIAMPolicy, DeleteIAMUser, CleanObjects, DeleteBucket, service
  <2> QED
    BY <2>1, <2>2, <2>3
<1> QED
  BY <1>1, <1>2, <1>3, <1>4, <1>5
     DEF Next, vars, RemoteCallFails, Expire, Receive, SavePV, RemovePV, DropAnswer,
         RequestCreate, RequestDelete, Request, Crash, ReleaseClaim, PatchReclaimPolicy,
         WriteObject, service

-----------------------------------------------------------------------------
(***************************************************************************)
(* Every step preserves the invariant                                      *)
(***************************************************************************)

\* A request that is live, or that has a volume, was so before the step or has
\* just begun.
LEMMA LiveBefore ==
    ASSUME TypeOK, [Next]_vars, NEW u \in Calls, call'[u].name # None, call'[u].ctx = "live"
    PROVE  Begun(u) \/ (call[u].name = call'[u].name /\ call[u].ctx = "live")
<1>1. NoCall.name = None
  BY DEF NoCall
<1> QED
  BY <1>1, CallSteps DEF Lasts, Ended, GoesOn

\* The provisioner never has two live requests for a volume.
LEMMA OneLiveStep == TypeOK /\ OneLive /\ [Next]_vars => OneLive'
<1> SUFFICES ASSUME TypeOK, OneLive, [Next]_vars, NEW t \in Calls, NEW u \in Calls, t # u,
                    call'[t].name = call'[u].name, call'[t].name # None,
                    call'[t].ctx = "live", call'[u].ctx = "live"
             PROVE  FALSE
  BY DEF OneLive
<1>1. CASE Begun(t) /\ Begun(u)
  BY <1>1 DEF Begun
<1>2. ASSUME NEW w \in Calls, Begun(w), NEW x \in Calls, ~ Begun(x),
             call'[w].name = call'[x].name, call'[x].name # None, call'[x].ctx = "live"
      PROVE  FALSE
  <2>1. call[x].name = call'[w].name /\ call[x].ctx = "live"
    BY <1>2, LiveBefore
  <2>2. Unclaimed(call'[w].name)
    BY <1>2 DEF Begun
  <2> QED
    BY <2>1, <2>2 DEF Unclaimed
<1>3. CASE ~ Begun(u) /\ ~ Begun(t)
  BY <1>3, LiveBefore DEF OneLive
<1> QED
  BY <1>1, <1>2, <1>3

\* A live CreateVolume is for a claim that is still wanted: only its own
\* answer binds the claim.
LEMMA LiveCreatorStep == DInv /\ [Next]_vars => LiveCreator'
<1> SUFFICES ASSUME DInv, [Next]_vars, NEW u \in Calls,
                    pc'[u] \in Creating, call'[u].ctx = "live"
             PROVE  claim'[call'[u].name] = "wanted"
  BY DEF LiveCreator
<1> USE DEF DInv, IInv
<1>0. TypeOK'
  BY NextType
<1>1. PICK v \in Volumes : v = call'[u].name
  BY <1>0 DEF TypeOK, ServerType
<1>2. v # None
  BY NoneAssumption
<1>3. CASE Begun(u)
  <2>1. claim[v] = "wanted" /\ pc[u] = "idle"
    BY <1>1, <1>3 DEF Begun
  <2>2. ASSUME NEW t \in Calls, SavePV(t) PROVE FALSE
    BY <1>3, <2>1, <2>2 DEF SavePV, Begun, TypeOK, ServerType
  <2>3. ASSUME NEW t \in Calls, RemovePV(t) PROVE FALSE
    BY <1>3, <2>1, <2>3 DEF RemovePV, Begun, TypeOK, ServerType
  <2> QED
    BY <1>1, <2>1, <2>2, <2>3, ClaimSteps DEF ReleaseClaim
<1>4. CASE ~ Begun(u)
  <2>1. call[u].name = v /\ call[u].ctx = "live"
    BY <1>1, <1>2, <1>4, LiveBefore
  <2>2. pc[u] \in Creating
    BY <1>4, CallSteps, CreateVolumeMoves, DeleteVolumeMoves DEF Lasts, Ended, GoesOn
  <2>3. claim[v] = "wanted"
    BY <2>1, <2>2 DEF LiveCreator
  <2>4. ASSUME NEW t \in Calls, SavePV(t), call[t].name = v PROVE FALSE
    <3>1. t = u
      BY <1>2, <2>1, <2>4 DEF OneLive, SavePV
    <3> QED
      BY <2>4, <3>1 DEF SavePV, TypeOK, ServerType
  <2>5. ASSUME NEW t \in Calls, RemovePV(t), call[t].name = v PROVE FALSE
    BY <2>3, <2>5 DEF RemovePV, LiveDeleter
  <2> QED
    BY <1>1, <2>3, <2>4, <2>5, ClaimSteps DEF ReleaseClaim
<1> QED
  BY <1>3, <1>4

\* A live DeleteVolume is for a claim that is still released, and works on the
\* bucket the PV still names: only its own answer removes the PV.
LEMMA LiveDeleterStep == DInv /\ [Next]_vars => LiveDeleter'
<1> SUFFICES ASSUME DInv, [Next]_vars, NEW u \in Calls,
                    pc'[u] \in Deleting, call'[u].ctx = "live"
             PROVE  /\ claim'[call'[u].name] = "released"
                    /\ pc'[u] # "getPV" => /\ pv'[call'[u].name] # None
                                           /\ pv'[call'[u].name].bucket = call'[u].bucket
  BY DEF LiveDeleter
<1> USE DEF DInv, IInv
<1>0. TypeOK'
  BY NextType
<1>1. PICK v \in Volumes : v = call'[u].name
  BY <1>0 DEF TypeOK, ServerType
<1>2. v # None
  BY NoneAssumption
<1>3. CASE Begun(u)
  <2>1. claim[v] = "released" /\ pc[u] = "idle" /\ pc'[u] = "getPV"
    BY <1>1, <1>3 DEF Begun
  <2>2. ASSUME NEW t \in Calls, SavePV(t) \/ RemovePV(t) PROVE FALSE
    BY <1>3, <2>1, <2>2 DEF SavePV, RemovePV, Begun, TypeOK, ServerType
  <2> QED
    BY <1>1, <2>1, <2>2, ClaimSteps DEF ReleaseClaim
<1>4. CASE ~ Begun(u)
  <2>1. call[u].name = v /\ call[u].ctx = "live"
    BY <1>1, <1>2, <1>4, LiveBefore
  <2>2. /\ pc[u] \in Deleting
        /\ \/ pc[u] = "getPV" /\ pc'[u] = "getPV"
           \/ pc[u] = "getPV" /\ pv[v] # None /\ call'[u].bucket = pv[v].bucket
           \/ pc[u] # "getPV" /\ call'[u].bucket = call[u].bucket
    BY <1>4, <2>1, CallSteps, CreateVolumeMoves, DeleteVolumeMoves DEF Lasts, Ended, GoesOn
  <2>3. claim[v] = "released"
    BY <2>1, <2>2 DEF LiveDeleter
  <2>4. pc'[u] # "getPV" => pv[v] # None /\ pv[v].bucket = call'[u].bucket
    BY <2>1, <2>2 DEF LiveDeleter
  <2>5. ASSUME NEW t \in Calls, SavePV(t), call[t].name = v PROVE FALSE
    BY <2>3, <2>5 DEF SavePV
  <2>6. ASSUME NEW t \in Calls, RemovePV(t), call[t].name = v PROVE FALSE
    <3>1. t = u
      BY <1>2, <2>1, <2>6 DEF OneLive, RemovePV
    <3> QED
      BY <2>6, <3>1 DEF RemovePV, TypeOK, ServerType
  <2> QED
    BY <1>1, <2>3, <2>4, <2>5, <2>6, ClaimSteps DEF ReleaseClaim
<1> QED
  BY <1>3, <1>4

\* What DeleteVolume has just undone, and what it read before it cleans.
LEMMA DeleteVolumeUndoes ==
    ASSUME TypeOK, NEW u \in Calls, DeleteVolume(u), pc'[u] # "idle"
    PROVE  /\ pc'[u] = "deleteUser" => policies'[PolicyOf(u)] = None
           /\ pc'[u] \in {"cleanObjects", "deleteBucket", "deleted"} =>
                 pc[u] \in {"deleteUser", "cleanObjects", "deleteBucket"}
           /\ pc[u] = "deleteUser" => \A g \in grants' : g[1] # call[u].name
           /\ pc[u] = "deleteUser" /\ pc'[u] # "deleted" => call[u].reclaim = "Delete"
           /\ pc[u] = "deleteBucket" => pc'[u] = "deleted"
<1> USE DEF TypeOK, ServerType, ServiceType
<1>r. pc[u] # "idle" => PolicyOf(u) \in Policies
  BY RequestType
<1>1. CASE DeleteVolumeGetPV(u) \/ DeleteVolumeBegin(u) \/ RevokeIAMPolicyFromUser(u)
           \/ CleanObjects(u) \/ DeleteBucket(u)
  BY <1>1 DEF DeleteVolumeGetPV, DeleteVolumeBegin, RevokeIAMPolicyFromUser, CleanObjects,
              DeleteBucket, Answered, Goto, ReturnOK, ReturnError
<1>2. CASE DeleteIAMPolicy(u)
  BY <1>2, <1>r DEF DeleteIAMPolicy, Answered, Goto, ReturnError
<1>3. CASE DeleteIAMUser(u)
  BY <1>3 DEF DeleteIAMUser, AfterDeleteIAMUser, Goto, ReturnOK, ReturnError
<1> QED
  BY <1>1, <1>2, <1>3 DEF DeleteVolume

\* Buckets are cleaned by requests that read reclaim policy Delete.
LEMMA ReadPolicyStep == TypeOK /\ ReadPolicy /\ [Next]_vars => ReadPolicy'
<1> SUFFICES ASSUME TypeOK, ReadPolicy, [Next]_vars, NEW u \in Calls,
                    pc'[u] \in {"cleanObjects", "deleteBucket"}
             PROVE  call'[u].reclaim = "Delete"
  BY DEF ReadPolicy
<1>1. CASE Lasts(u)
  BY <1>1 DEF Lasts, ReadPolicy
<1>2. CASE GoesOn(u)
  <2>1. DeleteVolume(u)
    BY <1>2, CreateVolumeMoves DEF GoesOn
  <2> QED
    BY <1>2, <2>1, DeleteVolumeUndoes DEF GoesOn, ReadPolicy
<1> QED
  BY <1>1, <1>2, CallSteps DEF Ended, Begun

\* A policy is called after the volume whose bucket it names.
LEMMA PolicyOwnerStep == IInv /\ PolicyOwner /\ [Next]_vars => PolicyOwner'
<1> SUFFICES ASSUME IInv, PolicyOwner, [Next]_vars, NEW p \in Policies, policies'[p] # None
             PROVE  normalizePolicyName[policies'[p][1]] = p
  BY DEF PolicyOwner
<1> USE DEF IInv, TypeOK, ServiceType
<1>1. CASE policies'[p] = policies[p]
  BY <1>1 DEF PolicyOwner
<1>2. ASSUME NEW t \in Calls, CreateIAMPolicy(t), policies'[p] # policies[p]
      PROVE  normalizePolicyName[policies'[p][1]] = p
  <2>1. pc[t] = "createPolicy"
    BY <1>2 DEF CreateIAMPolicy
  <2>2. call[t].bucket[1] = call[t].name
    BY <2>1 DEF OwnBuckets
  <2>3. p = PolicyOf(t) /\ policies'[p] = call[t].bucket
    BY <1>2 DEF CreateIAMPolicy
  <2> QED
    BY <2>2, <2>3 DEF PolicyOf
<1>3. ASSUME NEW t \in Calls, DeleteIAMPolicy(t) PROVE policies'[p] = policies[p]
  BY SMTT(30), <1>3 DEF DeleteIAMPolicy
<1>4. ASSUME NEW t \in Calls, CreateVolume(t) \/ DeleteVolume(t),
             ~ CreateIAMPolicy(t), ~ DeleteIAMPolicy(t)
      PROVE  UNCHANGED policies
  BY <1>4 DEF CreateVolume, CreateVolumeBegin, CreateBucket, LookupBucketAndRegion, CreateIAMUser,
              GetIAMUserKeyPair, GrantIAMPolicyToUser, DeleteVolume, DeleteVolumeGetPV,
              DeleteVolumeBegin, RevokeIAMPolicyFromUser, DeleteIAMUser, CleanObjects, DeleteBucket,
              service
<1> QED
  BY ZenonT(60), <1>1, <1>2, <1>3, <1>4
     DEF Next, vars, RemoteCallFails, Expire, Receive, SavePV, RemovePV, DropAnswer,
         RequestCreate, RequestDelete, Request, Crash, ReleaseClaim, PatchReclaimPolicy,
         WriteObject, service

\* What DeleteVolume has undone for a volume nobody does again.
LEMMA UndoneStep == DInv /\ [Next]_vars => Undone'
<1> SUFFICES ASSUME DInv, [Next]_vars
             PROVE  /\ \A t \in Calls :
                          /\ pc'[t] \in {"deleteUser", "cleanObjects", "deleteBucket", "deleted"} =>
                                policies'[normalizePolicyName[call'[t].name]] = None
                          /\ pc'[t] \in {"cleanObjects", "deleteBucket", "deleted"} =>
                                \A g \in grants' : g[1] # call'[t].name
                    /\ \A v \in Volumes : claim'[v] = "gone" =>
                          /\ policies'[normalizePolicyName[v]] = None
                          /\ \A g \in grants' : g[1] # v
  BY DEF Undone, NoPolicy, NoGrant
<1> USE DEF DInv, IInv
<1>0. TypeOK'
  BY NextType
<1>1. ASSUME NEW t \in Calls, pc'[t] \in {"deleteUser", "cleanObjects", "deleteBucket", "deleted"}
      PROVE  /\ policies'[normalizePolicyName[call'[t].name]] = None
             /\ pc'[t] # "deleteUser" => \A g \in grants' : g[1] # call'[t].name
  <2>1. PICK v \in Volumes : v = call'[t].name
    BY <1>0, <1>1 DEF TypeOK, ServerType
  <2>2. CASE Lasts(t)
    <3>1. call[t].name = v /\ pc'[t] = pc[t]
      BY <2>1, <2>2 DEF Lasts
    <3>2. claim[v] # "wanted"
      BY <1>1, <3>1 DEF DeleteOnlyReleased, Early
    <3>3. NoPolicy(v) /\ (pc'[t] # "deleteUser" => NoGrant(v))
      BY <1>1, <3>1 DEF Undone
    <3> QED
      BY <2>1, <3>2, <3>3, RightsSteps
  <2>3. CASE GoesOn(t)
    <3>0. DeleteVolume(t) /\ call[t].name = v /\ pc'[t] # "idle" /\ PolicyOf(t) = normalizePolicyName[v]
      BY <1>1, <2>1, <2>3, CreateVolumeMoves DEF GoesOn, PolicyOf
    <3>1. pc[t] \in Deleting
      BY <3>0, DeleteVolumeMoves
    <3>2. claim[v] # "wanted"
      BY <3>0, <3>1 DEF DeleteOnlyReleased, Early
    <3>3. CASE pc'[t] = "deleteUser"
      BY <2>1, <3>0, <3>3, DeleteVolumeUndoes
    <3>4. CASE pc'[t] # "deleteUser"
      <4>1. pc[t] \in {"deleteUser", "cleanObjects", "deleteBucket"}
        BY <1>1, <3>0, <3>4, DeleteVolumeUndoes
      <4>2. NoPolicy(v) /\ (pc[t] # "deleteUser" => NoGrant(v))
        BY <3>0, <4>1 DEF Undone
      <4>3. pc[t] = "deleteUser" => \A g \in grants' : g[1] # v
        BY <3>0, DeleteVolumeUndoes
      <4> QED
        BY <2>1, <3>2, <4>2, <4>3, RightsSteps
    <3> QED
      BY <3>3, <3>4
  <2> QED
    BY <1>1, <2>2, <2>3, CallSteps DEF Ended, Begun
<1>2. ASSUME NEW v \in Volumes, claim'[v] = "gone"
      PROVE  policies'[normalizePolicyName[v]] = None /\ \A g \in grants' : g[1] # v
  <2>1. CASE claim[v] = "gone"
    BY <2>1, RightsSteps DEF Undone
  <2>2. CASE claim[v] # "gone"
    <3>1. PICK t \in Calls : RemovePV(t) /\ call[t].name = v
      BY ZenonT(60), <1>2, <2>2, ClaimSteps DEF SavePV, ReleaseClaim, TypeOK, ClusterType
    <3>2. NoPolicy(v) /\ NoGrant(v) /\ UNCHANGED <<policies, grants>>
      BY <3>1 DEF RemovePV, Undone, service
    <3> QED
      BY <3>2 DEF NoPolicy, NoGrant
  <2> QED
    BY <2>1, <2>2
<1> QED
  BY <1>1, <1>2

\* Nothing has begun in the initial state.
LEMMA InitDInv == Init => DInv
<1>1. Init => IInv
  BY InitIInv
<1>2. Init => OneLive
  BY DEF Init, OneLive, NoCall
<1> QED
  BY <1>1, <1>2 DEF Init, DInv, LiveCreator, LiveDeleter, ReadPolicy, PolicyOwner, Undone

\* The invariant is inductive.
LEMMA NextDInv == DInv /\ [Next]_vars => DInv'
<1> SUFFICES ASSUME DInv, [Next]_vars PROVE DInv'
  OBVIOUS
<1>1. TypeOK
  BY DEF DInv, IInv
<1> QED
  BY <1>1, NextIInv, OneLiveStep, LiveCreatorStep, LiveDeleterStep, ReadPolicyStep, PolicyOwnerStep,
     UndoneStep DEF DInv

-----------------------------------------------------------------------------
(***************************************************************************)
(* The theorems                                                            *)
(***************************************************************************)

\* The inductive invariant of KodoController, which the provers see step by
\* step and TLC checks on small instances.
THEOREM EverythingRecordedIsUsable == Spec => []IInv
  BY InitIInv, NextIInv, PTL DEF Spec

\* While DeleteVolume cleans and drops a bucket no IAM policy names it, so
\* that nobody can write to it again.
THEOREM NoWriters == Spec => []NoWriterWhileCleaning
<1>1. DInv => NoWriterWhileCleaning
  <2> SUFFICES ASSUME DInv, NEW t \in Calls, pc[t] \in {"cleanObjects", "deleteBucket"},
                      NEW p \in Policies, policies[p] = call[t].bucket
               PROVE  FALSE
    BY DEF NoWriterWhileCleaning
  <2> USE DEF DInv, IInv
  <2>1. call[t].bucket \in Buckets /\ call[t].bucket[1] = call[t].name
    BY RequestType DEF OwnBuckets
  <2>2. policies[p] # None
    BY <2>1, NoneAssumption
  <2>3. normalizePolicyName[call[t].name] = p
    BY <2>1, <2>2 DEF PolicyOwner
  <2> QED
    BY <2>2, <2>3 DEF Undone, NoPolicy
<1> QED
  BY <1>1, InitDInv, NextDInv, PTL DEF Spec

\* A DeleteVolume that reported success leaves no policy of the volume and
\* nothing granted to its IAM user, also later, whatever old attempts to
\* create the volume still run.
THEOREM DeletionRevokes == Spec => []DeletedMeansRevoked
<1>1. DInv => DeletedMeansRevoked
  <2> SUFFICES ASSUME DInv, NEW v \in Volumes,
                      \/ claim[v] = "gone"
                      \/ \E t \in Calls : call[t].name = v /\ pc[t] = "deleted"
               PROVE  NoPolicy(v) /\ NoGrant(v)
    BY DEF DeletedMeansRevoked, NoPolicy, NoGrant
  <2> QED
    BY DEF DInv, Undone
<1> QED
  BY <1>1, InitDInv, NextDInv, PTL DEF Spec

\* Objects vanish and buckets are dropped only by a DeleteVolume for a PV that
\* is still released and names the bucket, and that read policy Delete.
THEOREM ReclaimsOnlyOnDelete == Spec => ReclaimOnlyOnDelete
<1> DEFINE Destroyed(b) == (data[b] /\ ~ data'[b]) \/ (bstate[b] = "live" /\ bstate'[b] # "live")
<1>1. ASSUME DInv, [Next]_vars, NEW b \in Buckets, Destroyed(b)
      PROVE  \E t \in Calls : Reclaims(t, b)
  <2> USE DEF DInv, IInv, TypeOK, ServiceType
  <2>1. ASSUME NEW t \in Calls, CleanObjects(t) \/ DeleteBucket(t) PROVE Reclaims(t, b)
    <3>1. /\ pc[t] \in {"cleanObjects", "deleteBucket"}
          /\ call[t].ctx = "live"
      BY <2>1 DEF CleanObjects, DeleteBucket, MayRun, IgnoresContext
    <3>2. call[t].bucket = b
      BY <1>1, <2>1 DEF CleanObjects, DeleteBucket
    <3> QED
      BY <1>1, <3>1, <3>2 DEF Reclaims, ReadPolicy, LiveDeleter
  <2>2. ASSUME NEW t \in Calls, CreateVolume(t) PROVE FALSE
    <3>1. UNCHANGED data
      BY <2>2 DEF CreateVolume, CreateVolumeBegin, CreateBucket, LookupBucketAndRegion, CreateIAMUser,
                  GetIAMUserKeyPair, CreateIAMPolicy, GrantIAMPolicyToUser, service
    <3>2. CASE CreateBucket(t)
      BY SMTT(30), <1>1, <3>1, <3>2 DEF CreateBucket
    <3>3. CASE ~ CreateBucket(t)
      BY <1>1, <2>2, <3>1, <3>3 DEF CreateVolume, CreateVolumeBegin, LookupBucketAndRegion,
         CreateIAMUser, GetIAMUserKeyPair, CreateIAMPolicy, GrantIAMPolicyToUser, service
    <3> QED
      BY <3>2, <3>3
  <2>3. ASSUME NEW t \in Calls, DeleteVolume(t), ~ CleanObjects(t), ~ DeleteBucket(t)
        PROVE  UNCHANGED <<data, bstate>>
    BY <2>3 DEF DeleteVolume, DeleteVolumeGetPV, DeleteVolumeBegin, RevokeIAMPolicyFromUser,
                DeleteIAMPolicy, DeleteIAMUser, service
  <2>4. ASSUME NEW v \in Volumes, WriteObject(v) PROVE FALSE
    BY <1>1, <2>4 DEF WriteObject
  <2>5. ~ UNCHANGED <<data, bstate>>
    BY <1>1
  <2> QED
    BY ZenonT(60), <1>1, <2>1, <2>2, <2>3, <2>4, <2>5
       DEF Next, vars, RemoteCallFails, Expire, Receive, SavePV, RemovePV, DropAnswer,
           RequestCreate, RequestDelete, Request, Crash, ReleaseClaim, PatchReclaimPolicy, service
<1>2. DInv /\ [Next]_vars =>
         [\A b \in Buckets :
            (data[b] /\ ~ data'[b]) \/ (bstate[b] = "live" /\ bstate'[b] # "live")
               => \E t \in Calls : Reclaims(t, b)]_vars
  BY <1>1
<1> QED
  BY <1>2, InitDInv, NextDInv, PTL DEF Spec, ReclaimOnlyOnDelete

\* A volume whose IAM user was left behind by a failed attempt stays
\* unprovisionable: no attempt adopts the user, none removes it.
THEOREM OrphanUsersBlock == Spec => OrphanUserBlocksVolume
<1>1. ASSUME IInv, [Next]_vars, NEW v \in Volumes, Stuck(v) PROVE Stuck(v)'
  <2> USE <1>1 DEF IInv
  <2>0. TypeOK'
    BY NextType
  <2>1. Early(v) /\ claim[v] = "wanted" /\ users[v] # None
    BY <1>1 DEF Early, Stuck
  <2>2. claim'[v] = "wanted"
    <3>1. ASSUME NEW t \in Calls, SavePV(t), call[t].name = v PROVE FALSE
      BY <1>1, <3>1 DEF SavePV, Stuck
    <3>2. ASSUME NEW t \in Calls, RemovePV(t), call[t].name = v PROVE FALSE
      BY <2>1, <3>2 DEF RemovePV, DeleteOnlyReleased
    <3> QED
      BY <2>1, <3>1, <3>2, <1>1, ClaimSteps DEF ReleaseClaim
  <2>3. users'[v] # None
    BY <1>1, <2>1, ServiceStable DEF Kept
  <2>4. ASSUME NEW c \in Controllers PROVE cache'[c][v] = None
    <3>1. ASSUME NEW t \in Calls, GrantIAMPolicyToUser(t), call[t].name = v PROVE FALSE
      BY <1>1, <3>1 DEF GrantIAMPolicyToUser, Stuck
    <3>2. cache[c][v] = None
      BY <1>1 DEF Stuck
    <3> QED
      BY <1>1, <3>1, <3>2, CacheSteps
  <2>5. ASSUME NEW t \in Calls, call'[t].name = v,
               pc'[t] \in {"getKey", "createPolicy", "grant", "created"}
        PROVE  FALSE
    <3>1. CASE Lasts(t)
      BY <1>1, <2>5, <3>1 DEF Lasts, Stuck
    <3>2. CASE GoesOn(t)
      <4>1. CreateVolume(t) /\ call[t].name = v
        BY <2>5, <3>2, DeleteVolumeMoves DEF GoesOn
      <4>2. pc[t] \in {"createLock", "createUser"}
        BY <1>1, <2>5, <4>1, CreateVolumeMoves DEF Stuck
      <4>3. CASE pc[t] = "createLock"
        <5>1. call[t].server \in Controllers
          BY <4>3, RequestType
        <5>2. cache[call[t].server][v] # None
          BY <2>5, <4>1, <4>3, CreateVolumeMoves
        <5> QED
          BY <1>1, <5>1, <5>2 DEF Stuck
      <4>4. CASE pc[t] = "createUser"
        BY <2>1, <4>1, <4>4 DEF CreateVolume, CreateVolumeBegin, CreateBucket, LookupBucketAndRegion,
           CreateIAMUser, GetIAMUserKeyPair, CreateIAMPolicy, GrantIAMPolicyToUser
      <4> QED
        BY <4>2, <4>3, <4>4
    <3> QED
      BY <1>1, <2>5, <3>1, <3>2, CallSteps DEF Ended, Begun
  <2> QED
    BY <2>2, <2>3, <2>4, <2>5 DEF Stuck
<1>2. IInv /\ [Next]_vars => [\A v \in Volumes : Stuck(v) => Stuck(v)']_vars
  BY <1>1
<1> QED
  BY <1>2, InitIInv, NextIInv, PTL DEF Spec, OrphanUserBlocksVolume
=============================================================================

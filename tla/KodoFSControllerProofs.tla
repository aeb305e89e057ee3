----------------------- MODULE KodoFSControllerProofs -----------------------
(***************************************************************************)
(* Proofs for KodoFSController, for any number of plugin processes,        *)
(* requests, volumes and access points and any set of faults.              *)
(*                                                                         *)
(* Neither that a bound volume can be mounted nor that a deleted one is    *)
(* gone is inductive.  FSInv adds whose an access point is (Owned), which  *)
(* requests there can be for a claim in each of its states, with at most   *)
(* one that has not expired (Claims), that all deletions of a volume are   *)
(* about the access point of its PV, which is gone before the volume is    *)
(* (Retired), and that a volume is archived once (Numbered).  The lock of  *)
(* a process plays no part: requests run in several processes at once.     *)
(***************************************************************************)
EXTENDS KodoFSController, TLAPS

\* The sets of step names and the tuples of variables are only ever used expanded.
USE DEF CreateCritical, DeleteCritical, RetainCritical, Critical, Remote, IgnoresContext,
        Deleting, server, service, cluster

-----------------------------------------------------------------------------
(***************************************************************************)
(* The inductive invariant                                                 *)
(***************************************************************************)

\* The steps of CreateVolume, and those of DeleteVolume once it has read the PV.
Creating == CreateCritical \cup {"createLock", "created"}
Informed == DeleteCritical \cup RetainCritical \cup {"deleteLock", "deleted"}

Flags == files \in [Volumes -> BOOLEAN]

Types ==
    /\ pc \in [Calls -> Remote \cup {"idle", "created", "deleteLock", "deleted"}]
    /\ call \in [Calls -> Call]
    /\ lock \in [Controllers -> Calls \cup {None}]
    /\ cache \in [Controllers -> [Volumes -> Points \cup {None}]]
    /\ where \in [Volumes -> {"none", "live", "archived", "removed"}]
    /\ archive \in [Volumes -> 0..MaxArchive \cup {None}]
    /\ point \in [Points -> {"fresh", "live", "removed"}]
    /\ claim \in [Volumes -> {"wanted", "bound", "released", "gone"}]
    /\ pv \in [Volumes -> Points \cup {None}]
    /\ reclaim \in [Volumes -> {"Delete", "Retain"}]

\* What a request under way has read so far.
Requests ==
    \A t \in Calls :
        /\ pc[t] = "idle" => call[t] = NoCall
        /\ pc[t] # "idle" => call[t].server \in Controllers /\ call[t].name \in Volumes
        /\ pc[t] \in Informed \cup {"getToken", "created"} => call[t].point \in Points
        /\ pc[t] \in DeleteCritical => call[t].reclaim = "Delete"

\* An access point a request, a map or a PV names was created for that volume,
\* and the volume then existed.
CallPoints ==
    \A t \in Calls : call[t].point \in Points =>
        call[t].point[1] = call[t].name /\ point[call[t].point] # "fresh"
CachePoints ==
    \A c \in Controllers, v \in Volumes : cache[c][v] \in Points =>
        cache[c][v][1] = v /\ point[cache[c][v]] # "fresh"
PVPoints ==
    \A v \in Volumes : pv[v] \in Points => pv[v][1] = v /\ point[pv[v]] # "fresh"
PointsAfterVolume ==
    \A p \in Points : point[p] # "fresh" => where[p[1]] # "none"

Owned == CallPoints /\ CachePoints /\ PVPoints /\ PointsAfterVolume

\* What the state of a claim says of its volume, of the access points and of the
\* requests for it.
ClaimVolumes ==
    \A v \in Volumes :
        /\ claim[v] \in {"wanted", "bound"} => where[v] \in {"none", "live"}
        /\ claim[v] = "gone" => where[v] \in {"archived", "removed"}
        /\ pv[v] \in Points <=> claim[v] \in {"bound", "released"}
ClaimPoints ==
    \A p \in Points : claim[p[1]] \in {"wanted", "bound"} => point[p] # "removed"
ClaimRequests ==
    \A t \in Calls :
        /\ pc[t] \in Deleting => claim[call[t].name] \in {"released", "gone"}
        /\ pc[t] \in Creating /\ call[t].ctx = "live" => claim[call[t].name] = "wanted"
OneLive ==
    \A t, u \in Calls :
        /\ pc[t] # "idle" /\ call[t].ctx = "live"
        /\ pc[u] # "idle" /\ call[u].ctx = "live"
        /\ call[t].name = call[u].name
        => t = u

Claims == ClaimVolumes /\ ClaimPoints /\ ClaimRequests /\ OneLive

\* All deletions of a volume are about the access point of its PV, and it is
\* gone when the volume is.
SamePoint ==
    \A t \in Calls : pc[t] \in Informed /\ pv[call[t].name] \in Points =>
        call[t].point = pv[call[t].name]
PointGone ==
    \A t \in Calls : pc[t] \in Informed /\ where[call[t].name] \in {"archived", "removed"} =>
        point[call[t].point] = "removed"
PointFirst ==
    \A t \in Calls : pc[t] \in {"removeVolume", "archiveExists", "rename", "deleted"} =>
        point[call[t].point] = "removed"
NameFree ==
    \A t \in Calls : pc[t] = "deleted" => where[call[t].name] # "live"
PVPointGone ==
    \A v \in Volumes :
        pv[v] \in Points /\ where[v] \in {"archived", "removed"} => point[pv[v]] = "removed"

Retired == SamePoint /\ PointGone /\ PointFirst /\ NameFree /\ PVPointGone

\* A volume is archived once, under the number 0, and the loop of the requests
\* that look for a free name ends at 1.
Numbered ==
    /\ \A v \in Volumes :
          /\ archive[v] \in {None, 0}
          /\ archive[v] = 0 => where[v] = "archived"
    /\ \A t \in Calls :
          /\ call[t].i \in {0, 1}
          /\ call[t].i = 1 => archive[call[t].name] = 0

FSInv == Flags /\ Types /\ Requests /\ Owned /\ Claims /\ Retired /\ Numbered

-----------------------------------------------------------------------------
(***************************************************************************)
(* What the steps of a request do                                          *)
(***************************************************************************)

StepNames == Remote \cup {"idle", "created", "deleteLock", "deleted"}

\* A step of request t leaves the others alone.
Frame(t) ==
    /\ pc' \in [Calls -> StepNames]
    /\ call' \in [Calls -> Call]
    /\ lock' \in [Controllers -> Calls \cup {None}]
    /\ \A u \in Calls \ {t} : pc'[u] = pc[u] /\ call'[u] = call[u]

\* Request t goes on to the next step, with what identifies it.
Goes(t, next) ==
    /\ pc'[t] = next
    /\ call'[t].server = call[t].server
    /\ call'[t].name = call[t].name

\* Request t is over.
Ends(t) == pc'[t] = "idle" /\ call'[t] = NoCall

\* The locals of a request that is over.
LEMMA NoCallFields ==
    /\ NoCall \in Call
    /\ NoCall.point \notin Points /\ NoCall.i = 0 /\ NoCall.name = None /\ NoCall.name \notin Volumes
  BY ArchiveAssumption, NoneAssumption DEF Call, NoCall

\* An access point names its volume.
LEMMA PointVolume == \A p \in Points : p[1] \in Volumes
  BY DEF Points

\* The locals of a request but for the one that is set.
LEMMA SetPoint ==
    ASSUME NEW r \in Call, NEW p \in Points
    PROVE  LET q == [r EXCEPT !.point = p] IN
           /\ q \in Call
           /\ q.server = r.server /\ q.name = r.name /\ q.ctx = r.ctx /\ q.i = r.i
           /\ q.point = p /\ q.reclaim = r.reclaim
  BY DEF Call

\* The same for the state of the temporary mount.
LEMMA SetMounted ==
    ASSUME NEW r \in Call, NEW b \in BOOLEAN
    PROVE  LET q == [r EXCEPT !.mounted = b] IN
           /\ q \in Call
           /\ q.server = r.server /\ q.name = r.name /\ q.ctx = r.ctx /\ q.i = r.i
           /\ q.point = r.point /\ q.reclaim = r.reclaim
  BY DEF Call

\* The same for the context.
LEMMA SetExpired ==
    ASSUME NEW r \in Call
    PROVE  LET q == [r EXCEPT !.ctx = "expired"] IN
           /\ q \in Call
           /\ q.server = r.server /\ q.name = r.name /\ q.ctx = "expired" /\ q.i = r.i
           /\ q.point = r.point /\ q.reclaim = r.reclaim
  BY DEF Call

\* The same for the loop variable.
LEMMA SetI ==
    ASSUME NEW r \in Call, r.i < MaxArchive
    PROVE  LET q == [r EXCEPT !.i = @ + 1] IN
           /\ q \in Call
           /\ q.server = r.server /\ q.name = r.name /\ q.ctx = r.ctx /\ q.i = r.i + 1
           /\ q.point = r.point /\ q.reclaim = r.reclaim
  BY ArchiveAssumption DEF Call

\* The same after the rename.
LEMMA SetArchived ==
    ASSUME NEW r \in Call, r.i < MaxArchive
    PROVE  LET q == [r EXCEPT !.i = @ + 1, !.archived = TRUE] IN
           /\ q \in Call
           /\ q.server = r.server /\ q.name = r.name /\ q.ctx = r.ctx /\ q.i = r.i + 1
           /\ q.point = r.point /\ q.reclaim = r.reclaim
<1>1. PICK j \in 0..MaxArchive : j = r.i + 1
  BY ArchiveAssumption DEF Call
<1>2. [r EXCEPT !.i = @ + 1, !.archived = TRUE] = [r EXCEPT !.i = j, !.archived = TRUE]
  BY <1>1
<1>3. LET q == [r EXCEPT !.i = j, !.archived = TRUE] IN
      /\ q \in Call
      /\ q.server = r.server /\ q.name = r.name /\ q.ctx = r.ctx /\ q.i = j
      /\ q.point = r.point /\ q.reclaim = r.reclaim
  BY DEF Call
<1> QED
  BY <1>1, <1>2, <1>3

\* A request goes on with new locals.
LEMMA Updated ==
    ASSUME Types, NEW t \in Calls, NEW next \in StepNames, NEW r \in Call,
           pc' = [pc EXCEPT ![t] = next], call' = [call EXCEPT ![t] = r],
           lock' = lock \/ lock' = Unlocked(t) \/ \E c \in Controllers : lock' = [lock EXCEPT ![c] = t]
    PROVE  Frame(t) /\ pc'[t] = next /\ call'[t] = r
  BY DEF Types, Frame, StepNames, Unlocked

\* A request goes on with the locals it has.
LEMMA MovesOn ==
    ASSUME Types, NEW t \in Calls, NEW next \in StepNames,
           pc' = [pc EXCEPT ![t] = next], call' = call,
           lock' = lock \/ lock' = Unlocked(t) \/ \E c \in Controllers : lock' = [lock EXCEPT ![c] = t]
    PROVE  Frame(t) /\ pc'[t] = next /\ call'[t] = call[t]
  BY DEF Types, Frame, StepNames, Unlocked

\* A request returns an error.
LEMMA Fails ==
    ASSUME Types, NEW t \in Calls, ReturnError(t)
    PROVE  Frame(t) /\ Ends(t) /\ cache' = cache
<1>1. Frame(t) /\ pc'[t] = "idle" /\ call'[t] = NoCall
  BY NoCallFields, Updated DEF ReturnError, StepNames
<1> QED
  BY <1>1 DEF Ends, ReturnError

\* The volume in cs.volumes is returned, or the lock is taken.
CreateVolumeBeginDoes(t) ==
    /\ Frame(t) /\ pc[t] = "createLock"
    /\ call'[t].ctx = call[t].ctx /\ call'[t].i = call[t].i
    /\ UNCHANGED <<cache, service, cluster>>
    /\ \/ Goes(t, "createVolume") /\ call'[t].point = call[t].point
       \/ Goes(t, "created") /\ call'[t].point \in Points
            /\ call'[t].point = cache[call[t].server][call[t].name]

\* CreateVolumeBegin(t) does so.
LEMMA CreateVolumeBeginEffect ==
    ASSUME Types, Requests, NEW t \in Calls, CreateVolumeBegin(t)
    PROVE  CreateVolumeBeginDoes(t)
<1> USE DEF CreateVolumeBeginDoes
<1>0. call[t] \in Call
  BY DEF Types
<1> DEFINE p == cache[call[t].server][call[t].name]
<1>1. call[t].server \in Controllers /\ call[t].name \in Volumes /\ pc[t] = "createLock"
      /\ UNCHANGED <<cache, service, cluster>>
  BY DEF CreateVolumeBegin, Requests
<1>2. CASE p # None
  <2>1. p \in Points
    BY <1>1, <1>2 DEF Types
  <2> DEFINE r == [call[t] EXCEPT !.point = p]
  <2>2. call' = [call EXCEPT ![t] = r] /\ pc' = [pc EXCEPT ![t] = "created"] /\ lock' = lock
    BY <1>0, <1>2 DEF CreateVolumeBegin
  <2>3. /\ r \in Call /\ r.server = call[t].server /\ r.name = call[t].name /\ r.ctx = call[t].ctx
        /\ r.i = call[t].i /\ r.point = p
    BY <1>0, <2>1, SetPoint
  <2> HIDE DEF r
  <2>4. Frame(t) /\ pc'[t] = "created" /\ call'[t] = r
    BY <2>2, <2>3, Updated DEF StepNames
  <2> QED
    BY <1>1, <2>1, <2>3, <2>4 DEF Goes
<1>3. CASE p = None
  <2>1. call' = call /\ pc' = [pc EXCEPT ![t] = "createVolume"]
        /\ lock' = [lock EXCEPT ![call[t].server] = t]
    BY <1>3 DEF CreateVolumeBegin
  <2>2. Frame(t) /\ pc'[t] = "createVolume" /\ call'[t] = call[t]
    BY <1>1, <2>1, MovesOn DEF StepNames
  <2> QED
    BY <1>1, <2>2 DEF Goes
<1> QED
  BY <1>2, <1>3

\* The volume exists from here on, whether or not the answer arrives.
CreateVolumeAtMasterDoes(t) ==
    /\ Frame(t) /\ pc[t] = "createVolume" /\ call[t].ctx = "live"
    /\ where' = [where EXCEPT ![call[t].name] = "live"]
    /\ UNCHANGED <<cache, archive, files, point, cluster>>
    /\ \/ Goes(t, "createPoint") /\ call'[t] = call[t]
       \/ Ends(t)

\* CreateVolumeAtMaster(t) does so.
LEMMA CreateVolumeAtMasterEffect ==
    ASSUME Types, Requests, NEW t \in Calls, CreateVolumeAtMaster(t)
    PROVE  CreateVolumeAtMasterDoes(t)
<1> USE DEF CreateVolumeAtMasterDoes
<1>1. /\ pc[t] = "createVolume" /\ call[t].ctx = "live"
      /\ where' = [where EXCEPT ![call[t].name] = "live"]
      /\ UNCHANGED <<archive, files, point, cluster>> /\ Answered(t, "createPoint")
  BY DEF CreateVolumeAtMaster, MayRun
<1>2. CASE Goto(t, "createPoint")
  BY <1>1, <1>2, MovesOn DEF Goto, Goes, StepNames
<1>3. CASE ReturnError(t)
  BY <1>1, <1>3, Fails
<1> QED
  BY <1>1, <1>2, <1>3 DEF Answered

\* A fresh access point of the volume becomes live.
CreateAccessPointDoes(t) ==
    /\ Frame(t) /\ pc[t] = "createPoint" /\ call[t].ctx = "live"
    /\ where[call[t].name] = "live" /\ UNCHANGED <<cache, where, archive, files, cluster>>
    /\ \E p \in Points :
          /\ p[1] = call[t].name /\ point[p] = "fresh"
          /\ point' = [point EXCEPT ![p] = "live"]
          /\ \/ Goes(t, "getToken") /\ call'[t].point = p
                  /\ call'[t].ctx = call[t].ctx /\ call'[t].i = call[t].i
             \/ Ends(t)

\* CreateAccessPoint(t) does so.
LEMMA CreateAccessPointEffect ==
    ASSUME Types, Requests, NEW t \in Calls, CreateAccessPoint(t)
    PROVE  CreateAccessPointDoes(t)
<1> USE DEF CreateAccessPointDoes
<1>0. call[t] \in Call
  BY DEF Types
<1>1. /\ pc[t] = "createPoint" /\ call[t].ctx = "live" /\ where[call[t].name] = "live"
      /\ UNCHANGED <<where, archive, files, cluster>>
  BY DEF CreateAccessPoint, MayRun
<1>2. PICK id \in Ids : LET p == <<call[t].name, id>> IN
          /\ point[p] = "fresh"
          /\ point' = [point EXCEPT ![p] = "live"]
          /\ \/ /\ pc' = [pc EXCEPT ![t] = "getToken"]
                /\ call' = [call EXCEPT ![t].point = p]
                /\ UNCHANGED <<lock, cache>>
             \/ ReturnError(t)
  BY DEF CreateAccessPoint
<1> DEFINE p == <<call[t].name, id>>
<1>3. p \in Points /\ p[1] = call[t].name
  BY <1>1 DEF Requests, Points
<1>4. CASE ReturnError(t)
  BY <1>1, <1>2, <1>3, <1>4, Fails
<1>5. CASE pc' = [pc EXCEPT ![t] = "getToken"] /\ call' = [call EXCEPT ![t].point = p]
           /\ UNCHANGED <<lock, cache>>
  <2> DEFINE r == [call[t] EXCEPT !.point = p]
  <2> HIDE DEF p
  <2>1. call' = [call EXCEPT ![t] = r]
    BY <1>0, <1>5
  <2>2. /\ r \in Call /\ r.server = call[t].server /\ r.name = call[t].name /\ r.ctx = call[t].ctx
        /\ r.i = call[t].i /\ r.point = p
    BY <1>0, <1>3, SetPoint
  <2> HIDE DEF r
  <2>3. "getToken" \in StepNames
    BY DEF StepNames
  <2>4. Frame(t) /\ pc'[t] = "getToken" /\ call'[t] = r
    BY ZenonT(60), <1>5, <2>1, <2>2, <2>3, Updated
  <2>5. point[p] = "fresh" /\ point' = [point EXCEPT ![p] = "live"]
    BY <1>2 DEF p
  <2> QED
    BY <1>1, <1>3, <1>5, <2>2, <2>4, <2>5 DEF Goes
<1> QED
  BY <1>2, <1>4, <1>5

\* The request learns the access point and the reclaim policy of the PV.
DeleteVolumeGetPVDoes(t) ==
    /\ Frame(t) /\ pc[t] = "getPV" /\ pv[call[t].name] \in Points
    /\ UNCHANGED <<cache, service, cluster>>
    /\ Goes(t, "deleteLock") /\ call'[t].ctx = call[t].ctx /\ call'[t].i = call[t].i
    /\ call'[t].point = pv[call[t].name]

\* DeleteVolumeGetPV(t) does so.
LEMMA DeleteVolumeGetPVEffect ==
    ASSUME Types, Requests, NEW t \in Calls, DeleteVolumeGetPV(t)
    PROVE  DeleteVolumeGetPVDoes(t)
<1> USE DEF DeleteVolumeGetPVDoes
<1>0. call[t] \in Call
  BY DEF Types
<1> DEFINE v == call[t].name
<1>1. v \in Volumes /\ pc[t] = "getPV" /\ pv[v] \in Points /\ reclaim[v] \in {"Delete", "Retain"}
      /\ pc' = [pc EXCEPT ![t] = "deleteLock"] /\ UNCHANGED <<lock, cache, service, cluster>>
  BY DEF DeleteVolumeGetPV, Requests, Types
<1>2. PICK p \in Points, k \in {"Delete", "Retain"} : p = pv[v] /\ k = reclaim[v]
  BY <1>1
<1> DEFINE r == [call[t] EXCEPT !.point = p, !.reclaim = k]
<1>3. call' = [call EXCEPT ![t] = r]
  BY <1>0, <1>2 DEF DeleteVolumeGetPV
<1>4. /\ r \in Call /\ r.server = call[t].server /\ r.name = v /\ r.ctx = call[t].ctx
      /\ r.i = call[t].i /\ r.point = p
  BY <1>0, <1>2 DEF Call
<1> HIDE DEF r
<1>5. Frame(t) /\ pc'[t] = "deleteLock" /\ call'[t] = r
  BY ZenonT(60), <1>1, <1>3, <1>4, Updated DEF StepNames
<1> QED
  BY <1>1, <1>2, <1>4, <1>5 DEF Goes

\* The volume is to be emptied, or it counts as deleted.
IsVolumeExistsDoes(t) ==
    /\ Frame(t) /\ pc[t] = "exists" /\ UNCHANGED <<cache, service, cluster>> /\ call'[t] = call[t]
    /\ \/ Goes(t, "mount") /\ where[call[t].name] = "live"
       \/ Goes(t, "deleted") /\ where[call[t].name] # "live"

\* IsVolumeExists(t) does so.
LEMMA IsVolumeExistsEffect ==
    ASSUME Types, Requests, NEW t \in Calls, IsVolumeExists(t)
    PROVE  IsVolumeExistsDoes(t)
<1> USE DEF IsVolumeExistsDoes
<1>1. pc[t] = "exists" /\ UNCHANGED <<service, cluster>>
  BY DEF IsVolumeExists
<1>2. CASE where[call[t].name] = "live" /\ Goto(t, "mount")
  BY <1>1, <1>2, MovesOn DEF Goto, Goes, StepNames
<1>3. CASE where[call[t].name] # "live" /\ ReturnOK(t, "deleted") /\ UNCHANGED <<call, cache>>
  BY <1>1, <1>3, MovesOn DEF ReturnOK, Goes, StepNames
<1> QED
  BY <1>2, <1>3 DEF IsVolumeExists

\* The volume is mounted on the host of the controller.
MountKodoFSLocallyDoes(t) ==
    /\ Frame(t) /\ pc[t] = "mount" /\ point[call[t].point] = "live"
    /\ UNCHANGED <<cache, service, cluster>>
    /\ Goes(t, "clean") /\ call'[t].ctx = call[t].ctx /\ call'[t].i = call[t].i
    /\ call'[t].point = call[t].point /\ call'[t].reclaim = call[t].reclaim

\* MountKodoFSLocally(t) does so.
LEMMA MountKodoFSLocallyEffect ==
    ASSUME Types, Requests, NEW t \in Calls, MountKodoFSLocally(t)
    PROVE  MountKodoFSLocallyDoes(t)
<1> USE DEF MountKodoFSLocallyDoes
<1>0. call[t] \in Call
  BY DEF Types
<1> DEFINE r == [call[t] EXCEPT !.mounted = TRUE]
<1>1. pc[t] = "mount" /\ point[call[t].point] = "live" /\ pc' = [pc EXCEPT ![t] = "clean"]
       /\ UNCHANGED <<lock, cache, service, cluster>>
  BY DEF MountKodoFSLocally
<1>2. call' = [call EXCEPT ![t] = r]
  BY <1>0 DEF MountKodoFSLocally
<1>3. /\ r \in Call /\ r.server = call[t].server /\ r.name = call[t].name /\ r.ctx = call[t].ctx
      /\ r.i = call[t].i /\ r.point = call[t].point /\ r.reclaim = call[t].reclaim
  BY <1>0, SetMounted
<1> HIDE DEF r
<1>4. Frame(t) /\ pc'[t] = "clean" /\ call'[t] = r
  BY <1>1, <1>2, <1>3, Updated DEF StepNames
<1> QED
  BY <1>1, <1>3, <1>4 DEF Goes

\* Only the request that uses the mount is concerned.
TemporaryMountDiesDoes(t) ==
    /\ Frame(t) /\ UNCHANGED <<cache, service, cluster>>
    /\ Goes(t, pc[t]) /\ call'[t].ctx = call[t].ctx /\ call'[t].i = call[t].i
    /\ call'[t].point = call[t].point /\ call'[t].reclaim = call[t].reclaim
    /\ pc[t] # "idle"

\* TemporaryMountDies(t) does so.
LEMMA TemporaryMountDiesEffect ==
    ASSUME Types, Requests, NEW t \in Calls, TemporaryMountDies(t)
    PROVE  TemporaryMountDiesDoes(t)
<1> USE DEF TemporaryMountDiesDoes
<1>0. call[t] \in Call
  BY DEF Types
<1> DEFINE r == [call[t] EXCEPT !.mounted = FALSE]
<1>1. pc' = pc /\ UNCHANGED <<lock, cache, service, cluster>>
  BY DEF TemporaryMountDies
<1>2. call' = [call EXCEPT ![t] = r]
  BY <1>0 DEF TemporaryMountDies
<1>3. /\ r \in Call /\ r.server = call[t].server /\ r.name = call[t].name /\ r.ctx = call[t].ctx
      /\ r.i = call[t].i /\ r.point = call[t].point /\ r.reclaim = call[t].reclaim
  BY <1>0, SetMounted
<1> HIDE DEF r
<1>4. Frame(t) /\ pc'[t] = pc[t] /\ call'[t] = r
  <2>1. pc[t] \in StepNames /\ pc' = [pc EXCEPT ![t] = pc[t]]
    BY <1>1 DEF Types, StepNames
  <2> QED
    BY <1>1, <1>2, <1>3, <2>1, Updated
<1>5. pc[t] # "idle"
  <2>1. call[t].mounted /\ ~ NoCall.mounted
    BY DEF TemporaryMountDies, NoCall
  <2> QED
    BY <2>1, Zenon DEF Requests
<1> QED
  BY <1>1, <1>3, <1>4, <1>5 DEF Goes

\* The context of the request ends, nothing else.
ExpireDoes(t) ==
    /\ Frame(t) /\ UNCHANGED <<cache, service, cluster>> /\ pc[t] # "idle"
    /\ Goes(t, pc[t]) /\ call'[t].ctx = "expired" /\ call'[t].i = call[t].i
    /\ call'[t].point = call[t].point /\ call'[t].reclaim = call[t].reclaim

\* Expire(t) does so.
LEMMA ExpireEffect ==
    ASSUME Types, Requests, NEW t \in Calls, Expire(t)
    PROVE  ExpireDoes(t)
<1> USE DEF ExpireDoes
<1>0. call[t] \in Call
  BY DEF Types
<1> DEFINE r == [call[t] EXCEPT !.ctx = "expired"]
<1>1. pc[t] # "idle" /\ pc' = pc /\ UNCHANGED <<lock, cache, service, cluster>>
  BY DEF Expire
<1>2. call' = [call EXCEPT ![t] = r]
  BY <1>0 DEF Expire
<1>3. /\ r \in Call /\ r.server = call[t].server /\ r.name = call[t].name /\ r.ctx = "expired"
      /\ r.i = call[t].i /\ r.point = call[t].point /\ r.reclaim = call[t].reclaim
  BY <1>0, SetExpired
<1> HIDE DEF r
<1>4. Frame(t) /\ pc'[t] = pc[t] /\ call'[t] = r
  <2>1. pc[t] \in StepNames /\ pc' = [pc EXCEPT ![t] = pc[t]]
    BY <1>1 DEF Types, StepNames
  <2> QED
    BY ZenonT(60), <1>1, <1>2, <1>3, <2>1, Updated
<1> QED
  BY <1>1, <1>3, <1>4 DEF Goes

\* The request goes on or ends in an error: umount is never taken for done.
UmountTemporaryDoes(t) ==
    /\ Frame(t) /\ pc[t] = "umount" /\ UNCHANGED <<cache, service, cluster>>
    /\ \/ /\ Goes(t, "removePoint") /\ call'[t].ctx = call[t].ctx /\ call'[t].i = call[t].i
          /\ call'[t].point = call[t].point /\ call'[t].reclaim = call[t].reclaim
       \/ Ends(t)

\* UmountTemporary(t) does so.
LEMMA UmountTemporaryEffect ==
    ASSUME Types, Requests, NEW t \in Calls, UmountTemporary(t)
    PROVE  UmountTemporaryDoes(t)
<1> USE DEF UmountTemporaryDoes
<1>0. call[t] \in Call
  BY DEF Types
<1> DEFINE r == [call[t] EXCEPT !.mounted = FALSE]
<1>1. pc[t] = "umount" /\ UNCHANGED <<service, cluster>>
  BY DEF UmountTemporary
<1>2. CASE ReturnError(t)
  BY <1>1, <1>2, Fails
<1>3. CASE call' = [call EXCEPT ![t].mounted = FALSE] /\ pc' = [pc EXCEPT ![t] = "removePoint"]
           /\ UNCHANGED <<lock, cache>>
  <2>1. call' = [call EXCEPT ![t] = r]
    BY <1>0, <1>3
  <2>2. /\ r \in Call /\ r.server = call[t].server /\ r.name = call[t].name /\ r.ctx = call[t].ctx
        /\ r.i = call[t].i /\ r.point = call[t].point /\ r.reclaim = call[t].reclaim
    BY <1>0, SetMounted
  <2> HIDE DEF r
  <2>3. Frame(t) /\ pc'[t] = "removePoint" /\ call'[t] = r
    BY ZenonT(60), <1>3, <2>1, <2>2, Updated DEF StepNames
  <2> QED
    BY <1>1, <1>3, <2>2, <2>3 DEF Goes
<1> QED
  BY <1>2, <1>3, Zenon DEF UmountTemporary, isKodoFSMounted

\* The access point of the request is removed, whether or not the answer arrives.
RemoveAccessPointDoes(t) ==
    /\ Frame(t) /\ pc[t] \in {"removePoint", "retainPoint"}
    /\ point' = [point EXCEPT ![call[t].point] = "removed"]
    /\ UNCHANGED <<cache, where, archive, files, cluster>>
    /\ \/ Goes(t, "removeVolume") /\ pc[t] = "removePoint" /\ call'[t] = call[t]
       \/ Goes(t, "archiveExists") /\ pc[t] = "retainPoint" /\ call'[t] = call[t]
       \/ Ends(t)

\* RemoveAccessPoint(t) does so.
LEMMA RemoveAccessPointEffect ==
    ASSUME Types, Requests, NEW t \in Calls, RemoveAccessPoint(t)
    PROVE  RemoveAccessPointDoes(t)
<1> USE DEF RemoveAccessPointDoes
<1>1. /\ pc[t] \in {"removePoint", "retainPoint"}
      /\ point' = [point EXCEPT ![call[t].point] = "removed"]
      /\ UNCHANGED <<where, archive, files, cluster>>
      /\ Answered(t, IF pc[t] = "removePoint" THEN "removeVolume" ELSE "archiveExists")
  BY DEF RemoveAccessPoint
<1>2. CASE Goto(t, "removeVolume") /\ pc[t] = "removePoint"
  BY <1>1, <1>2, MovesOn DEF Goto, Goes, StepNames
<1>3. CASE Goto(t, "archiveExists") /\ pc[t] = "retainPoint"
  BY <1>1, <1>3, MovesOn DEF Goto, Goes, StepNames
<1>4. CASE ReturnError(t)
  BY <1>1, <1>4, Fails
<1> QED
  BY <1>1, <1>2, <1>3, <1>4 DEF Answered

\* The volume is removed, whether or not the answer arrives.
RemoveVolumeDoes(t) ==
    /\ Frame(t) /\ pc[t] = "removeVolume" /\ where[call[t].name] = "live"
    /\ where' = [where EXCEPT ![call[t].name] = "removed"]
    /\ files' = [files EXCEPT ![call[t].name] = FALSE]
    /\ UNCHANGED <<cache, archive, point, cluster>>
    /\ \/ Goes(t, "deleted") /\ call'[t] = call[t]
       \/ Ends(t)

\* RemoveVolume(t) does so.
LEMMA RemoveVolumeEffect ==
    ASSUME Types, Requests, NEW t \in Calls, RemoveVolume(t)
    PROVE  RemoveVolumeDoes(t)
<1> USE DEF RemoveVolumeDoes
<1>1. /\ pc[t] = "removeVolume" /\ where[call[t].name] = "live"
      /\ where' = [where EXCEPT ![call[t].name] = "removed"]
      /\ files' = [files EXCEPT ![call[t].name] = FALSE]
      /\ UNCHANGED <<archive, point, cluster>>
  BY DEF RemoveVolume
<1>2. CASE ReturnOK(t, "deleted") /\ UNCHANGED <<call, cache>>
  BY <1>1, <1>2, MovesOn DEF ReturnOK, Goes, StepNames
<1>3. CASE ReturnError(t)
  BY <1>1, <1>3, Fails
<1> QED
  BY <1>2, <1>3 DEF RemoveVolume

\* A name that is taken is passed over.
ArchiveNameExistsDoes(t) ==
    /\ Frame(t) /\ pc[t] = "archiveExists" /\ UNCHANGED <<cache, service, cluster>>
    /\ call'[t].ctx = call[t].ctx
    /\ call'[t].point = call[t].point /\ call'[t].reclaim = call[t].reclaim
    /\ \/ /\ Goes(t, "archiveExists") /\ archive[call[t].name] = call[t].i
          /\ call'[t].i = call[t].i + 1
       \/ Goes(t, "rename") /\ call'[t].i = call[t].i

\* ArchiveNameExists(t) does so.
LEMMA ArchiveNameExistsEffect ==
    ASSUME Types, Requests, NEW t \in Calls, ArchiveNameExists(t)
    PROVE  ArchiveNameExistsDoes(t)
<1> USE DEF ArchiveNameExistsDoes
<1>0. call[t] \in Call
  BY DEF Types
<1> DEFINE r == [call[t] EXCEPT !.i = @ + 1]
<1>1. pc[t] = "archiveExists" /\ UNCHANGED <<lock, cache, service, cluster>>
  BY DEF ArchiveNameExists
<1>2. CASE archive[call[t].name] = call[t].i
  <2>1. call' = [call EXCEPT ![t] = r] /\ pc' = pc /\ call[t].i < MaxArchive
    BY <1>0, <1>2 DEF ArchiveNameExists
  <2>2. /\ r \in Call /\ r.server = call[t].server /\ r.name = call[t].name /\ r.ctx = call[t].ctx
        /\ r.i = call[t].i + 1 /\ r.point = call[t].point /\ r.reclaim = call[t].reclaim
    BY <1>0, <2>1, SetI
  <2> HIDE DEF r
  <2>3. "archiveExists" \in StepNames /\ pc' = [pc EXCEPT ![t] = "archiveExists"]
    BY <1>1, <2>1 DEF Types, StepNames
  <2>4. Frame(t) /\ pc'[t] = "archiveExists" /\ call'[t] = r
    BY <1>1, <2>1, <2>2, <2>3, Updated
  <2> QED
    BY <1>1, <1>2, <2>2, <2>4 DEF Goes
<1>3. CASE archive[call[t].name] # call[t].i
  <2>1. call' = call /\ pc' = [pc EXCEPT ![t] = "rename"]
    BY <1>3 DEF ArchiveNameExists
  <2>2. Frame(t) /\ pc'[t] = "rename" /\ call'[t] = call[t]
    BY <1>1, <2>1, MovesOn DEF StepNames
  <2> QED
    BY <1>1, <2>2 DEF Goes
<1> QED
  BY <1>2, <1>3

\* The volume is archived, whether or not the answer arrives.
RenameVolumeDoes(t) ==
    /\ Frame(t) /\ pc[t] = "rename" /\ where[call[t].name] = "live"
    /\ where' = [where EXCEPT ![call[t].name] = "archived"]
    /\ archive' = [archive EXCEPT ![call[t].name] = call[t].i] /\ call[t].i \in 0..MaxArchive
    /\ UNCHANGED <<cache, files, point, cluster>>
    /\ \/ /\ Goes(t, "archiveExists")
          /\ call'[t].ctx = call[t].ctx /\ call'[t].i = call[t].i + 1
          /\ call'[t].point = call[t].point /\ call'[t].reclaim = call[t].reclaim
       \/ Ends(t)

\* RenameVolume(t) does so.
LEMMA RenameVolumeEffect ==
    ASSUME Types, Requests, NEW t \in Calls, RenameVolume(t)
    PROVE  RenameVolumeDoes(t)
<1> USE DEF RenameVolumeDoes
<1>0. call[t] \in Call
  BY DEF Types
<1> DEFINE r == [call[t] EXCEPT !.i = @ + 1, !.archived = TRUE]
<1>1. /\ pc[t] = "rename" /\ where[call[t].name] = "live"
      /\ where' = [where EXCEPT ![call[t].name] = "archived"]
      /\ archive' = [archive EXCEPT ![call[t].name] = call[t].i]
      /\ UNCHANGED <<files, point, cluster>> /\ call[t].i \in 0..MaxArchive
  BY <1>0 DEF RenameVolume, Call
<1>2. CASE ReturnError(t)
  BY <1>1, <1>2, Fails
<1>3. CASE /\ call[t].i < MaxArchive
           /\ call' = [call EXCEPT ![t].i = @ + 1, ![t].archived = TRUE]
           /\ pc' = [pc EXCEPT ![t] = "archiveExists"]
           /\ UNCHANGED <<lock, cache>>
  <2>1. call' = [call EXCEPT ![t] = r]
    BY <1>0, <1>3
  <2>2. /\ r \in Call /\ r.server = call[t].server /\ r.name = call[t].name /\ r.ctx = call[t].ctx
        /\ r.i = call[t].i + 1 /\ r.point = call[t].point /\ r.reclaim = call[t].reclaim
    BY <1>0, <1>3, SetArchived
  <2> HIDE DEF r
  <2>3. Frame(t) /\ pc'[t] = "archiveExists" /\ call'[t] = r
    BY ZenonT(60), <1>3, <2>1, <2>2, Updated DEF StepNames
  <2> QED
    BY <1>1, <1>3, <2>2, <2>3 DEF Goes
<1> QED
  BY <1>2, <1>3 DEF RenameVolume

\* The steps of a request that change nothing but the request.
LocalAction(t) ==
    \/ CreateVolumeBegin(t) \/ DeleteVolumeGetPV(t) \/ IsVolumeExists(t)
    \/ MountKodoFSLocally(t) \/ UmountTemporary(t) \/ ArchiveNameExists(t)
    \/ TemporaryMountDies(t) \/ RemoteCallFails(t) \/ Expire(t) \/ DropAnswer(t)

\* They end the request or take it on, with an access point the map or the PV
\* names; they get past the removal of the access point only when the volume is
\* gone.
LocalActionDoes(t) ==
    /\ Frame(t) /\ UNCHANGED <<cache, where, archive, point, claim, pv>>
    /\ \/ Ends(t)
       \/ /\ pc[t] # "idle" /\ Goes(t, pc'[t])
          /\ call'[t].ctx = "live" => call[t].ctx = "live"
          /\ pc'[t] \in Deleting => pc[t] \in Deleting
          /\ pc'[t] \in Creating => pc[t] \in Creating
          /\ \/ call'[t].point = call[t].point /\ (pc'[t] \in Informed => pc[t] \in Informed)
             \/ call'[t].point = cache[call[t].server][call[t].name] /\ pc'[t] = "created"
             \/ call'[t].point = pv[call[t].name] /\ pc'[t] = "deleteLock"
                  /\ pv[call[t].name] \in Points
          /\ pc'[t] \in {"removeVolume", "archiveExists", "rename"} => pc[t] = "archiveExists" \/ pc[t] = pc'[t]
          /\ pc'[t] = "deleted" => pc[t] = "deleted" \/ where[call[t].name] # "live"

\* LocalAction(t) does so.
LEMMA LocalActionEffect ==
    ASSUME Types, Requests, NEW t \in Calls, LocalAction(t)
    PROVE  LocalActionDoes(t)
<1> USE DEF LocalActionDoes, Goes, Informed, Creating
<1>1. CASE CreateVolumeBegin(t)
  <2>1. CreateVolumeBeginDoes(t)
    BY <1>1, CreateVolumeBeginEffect
  <2> QED
    BY <2>1 DEF CreateVolumeBeginDoes
<1>2. CASE DeleteVolumeGetPV(t)
  <2>1. DeleteVolumeGetPVDoes(t)
    BY <1>2, DeleteVolumeGetPVEffect
  <2> QED
    BY <2>1 DEF DeleteVolumeGetPVDoes
<1>3. CASE IsVolumeExists(t)
  <2>1. IsVolumeExistsDoes(t)
    BY <1>3, IsVolumeExistsEffect
  <2> QED
    BY <2>1 DEF IsVolumeExistsDoes
<1>4. CASE MountKodoFSLocally(t)
  <2>1. MountKodoFSLocallyDoes(t)
    BY <1>4, MountKodoFSLocallyEffect
  <2> QED
    BY <2>1 DEF MountKodoFSLocallyDoes
<1>5. CASE UmountTemporary(t)
  <2>1. UmountTemporaryDoes(t)
    BY <1>5, UmountTemporaryEffect
  <2> QED
    BY <2>1 DEF UmountTemporaryDoes
<1>6. CASE ArchiveNameExists(t)
  <2>1. ArchiveNameExistsDoes(t)
    BY <1>6, ArchiveNameExistsEffect
  <2> QED
    BY <2>1 DEF ArchiveNameExistsDoes
<1>7. CASE TemporaryMountDies(t)
  <2>1. TemporaryMountDiesDoes(t)
    BY <1>7, TemporaryMountDiesEffect
  <2> QED
    BY <2>1 DEF TemporaryMountDiesDoes
<1>8. CASE RemoteCallFails(t)
  BY <1>8, Fails DEF RemoteCallFails
<1>9. CASE Expire(t)
  <2>1. ExpireDoes(t)
    BY <1>9, ExpireEffect
  <2> QED
    BY <2>1 DEF ExpireDoes
<1>10. CASE DropAnswer(t)
  BY ZenonT(60), <1>10, NoCallFields, Updated DEF DropAnswer, Ends, StepNames
<1> QED
  BY <1>1, <1>2, <1>3, <1>4, <1>5, <1>6, <1>7, <1>8, <1>9, <1>10 DEF LocalAction

-----------------------------------------------------------------------------
(***************************************************************************)
(* Steps                                                                   *)
(***************************************************************************)

\* A volume holds files or does not.
LEMMA FlagsStep ==
    ASSUME Flags, [Next]_vars
    PROVE  Flags'
<1>1. ASSUME NEW t \in Calls, CreateVolumeBegin(t) PROVE Flags'
  BY <1>1, Zenon DEF CreateVolumeBegin, Flags
<1>2. ASSUME NEW t \in Calls, CreateVolumeAtMaster(t) PROVE Flags'
  BY <1>2, Zenon DEF CreateVolumeAtMaster, MayRun, Answered, Goto, ReturnError, Unlocked, Flags
<1>3. ASSUME NEW t \in Calls, CreateAccessPoint(t) PROVE Flags'
  BY <1>3, Zenon DEF CreateAccessPoint, MayRun, ReturnError, Unlocked, Flags
<1>4. ASSUME NEW t \in Calls, GetAccessToken(t) PROVE Flags'
  BY <1>4, Zenon DEF GetAccessToken, MayRun, ReturnOK, Unlocked, Flags
<1>5. ASSUME NEW t \in Calls, DeleteVolumeGetPV(t) PROVE Flags'
  BY <1>5, Zenon DEF DeleteVolumeGetPV, MayRun, Flags
<1>6. ASSUME NEW t \in Calls, DeleteVolumeBegin(t) PROVE Flags'
  BY <1>6, Zenon DEF DeleteVolumeBegin, FirstDeleteStep, Flags
<1>7. ASSUME NEW t \in Calls, IsVolumeExists(t) PROVE Flags'
  BY <1>7, Zenon DEF IsVolumeExists, MayRun, Goto, ReturnOK, Unlocked, Flags
<1>8. ASSUME NEW t \in Calls, MountKodoFSLocally(t) PROVE Flags'
  BY <1>8, Zenon DEF MountKodoFSLocally, MayRun, Flags
<1>9. ASSUME NEW t \in Calls, CleanVolume(t) PROVE Flags'
  BY <1>9, Zenon DEF CleanVolume, Goto, Flags
<1>10. ASSUME NEW t \in Calls, UmountTemporary(t) PROVE Flags'
  BY <1>10, Zenon DEF UmountTemporary, isKodoFSMounted, ReturnError, Unlocked, Flags
<1>11. ASSUME NEW t \in Calls, RemoveAccessPoint(t) PROVE Flags'
  BY <1>11, Zenon DEF RemoveAccessPoint, MayRun, Answered, Goto, ReturnError, Unlocked, Flags
<1>12. ASSUME NEW t \in Calls, RemoveVolume(t) PROVE Flags'
  BY <1>12, Zenon DEF RemoveVolume, MayRun, ReturnOK, ReturnError, Unlocked, Flags
<1>13. ASSUME NEW t \in Calls, ArchiveNameExists(t) PROVE Flags'
  BY <1>13, Zenon DEF ArchiveNameExists, MayRun, Flags
<1>14. ASSUME NEW t \in Calls, RenameVolume(t) PROVE Flags'
  BY <1>14, Zenon DEF RenameVolume, MayRun, ReturnError, Unlocked, Flags
<1>15. ASSUME NEW t \in Calls, TemporaryMountDies(t) PROVE Flags'
  BY <1>15, Zenon DEF TemporaryMountDies, Flags
<1>16. ASSUME NEW t \in Calls, RemoteCallFails(t) PROVE Flags'
  BY <1>16, Zenon DEF RemoteCallFails, ReturnError, Unlocked, Flags
<1>17. ASSUME NEW t \in Calls, Expire(t) PROVE Flags'
  BY <1>17, Zenon DEF Expire, Flags
<1>18. ASSUME NEW t \in Calls, SavePV(t) PROVE Flags'
  BY <1>18, Zenon DEF SavePV, Flags
<1>19. ASSUME NEW t \in Calls, RemovePV(t) PROVE Flags'
  BY <1>19, Zenon DEF RemovePV, Flags
<1>20. ASSUME NEW t \in Calls, DropAnswer(t) PROVE Flags'
  BY <1>20, Zenon DEF DropAnswer, Flags
<1>21. ASSUME NEW t \in Calls, NEW c \in Controllers, NEW v \in Volumes, RequestCreate(t, c, v)
      PROVE  Flags'
  BY <1>21, Zenon DEF RequestCreate, Request, Flags
<1>22. ASSUME NEW t \in Calls, NEW c \in Controllers, NEW v \in Volumes, RequestDelete(t, c, v)
      PROVE  Flags'
  BY <1>22, Zenon DEF RequestDelete, Request, Flags
<1>23. ASSUME NEW c \in Controllers, Crash(c) PROVE Flags'
  BY <1>23, Zenon DEF Crash, Flags
<1>24. ASSUME NEW v \in Volumes, ReleaseClaim(v) PROVE Flags'
  BY <1>24, Zenon DEF ReleaseClaim, Flags
<1>25. ASSUME NEW v \in Volumes, PatchReclaimPolicy(v) PROVE Flags'
  BY <1>25, Zenon DEF PatchReclaimPolicy, Flags
<1>26. ASSUME NEW v \in Volumes, WriteFile(v) PROVE Flags'
  BY <1>26, Zenon DEF WriteFile, Flags
<1>27. CASE UNCHANGED vars
  BY <1>27, Zenon DEF vars, Flags
<1> QED
  BY <1>1, <1>2, <1>3, <1>4, <1>5, <1>6, <1>7, <1>8, <1>9, <1>10, <1>11, <1>12, <1>13, <1>14,
     <1>15, <1>16, <1>17, <1>18, <1>19, <1>20, <1>21, <1>22, <1>23, <1>24, <1>25, <1>26, <1>27
     DEF Next, CreateVolume, DeleteVolume, Receive

\* The other variables keep their types.
LEMMA TypesStep ==
    ASSUME Types, Requests, [Next]_vars
    PROVE  Types'
<1>1. ASSUME NEW t \in Calls, CreateVolumeBegin(t) PROVE Types'
  <2>1. CreateVolumeBeginDoes(t)
    BY <1>1, CreateVolumeBeginEffect
  <2> QED
    BY <2>1, NoneAssumption, ArchiveAssumption, NoCallFields, PointVolume
       DEF CreateVolumeBeginDoes, Frame, Goes, Ends, StepNames, Types, Requests, Informed
<1>2. ASSUME NEW t \in Calls, CreateVolumeAtMaster(t) PROVE Types'
  <2>1. CreateVolumeAtMasterDoes(t)
    BY <1>2, CreateVolumeAtMasterEffect
  <2> QED
    BY <2>1, NoneAssumption, ArchiveAssumption, NoCallFields, PointVolume
       DEF CreateVolumeAtMasterDoes, Frame, Goes, Ends, StepNames, Types, Requests, Informed
<1>3. ASSUME NEW t \in Calls, CreateAccessPoint(t) PROVE Types'
  <2>1. CreateAccessPointDoes(t)
    BY <1>3, CreateAccessPointEffect
  <2> QED
    BY <2>1, NoneAssumption, ArchiveAssumption, NoCallFields, PointVolume
       DEF CreateAccessPointDoes, Frame, Goes, Ends, StepNames, Types, Requests, Informed
<1>4. ASSUME NEW t \in Calls, GetAccessToken(t) PROVE Types'
  BY <1>4, ArchiveAssumption, NoneAssumption
     DEF GetAccessToken, MayRun, ReturnOK, Unlocked, Types, Requests, Informed, Call, NoCall,
         Points
<1>5. ASSUME NEW t \in Calls, DeleteVolumeGetPV(t) PROVE Types'
  <2>1. DeleteVolumeGetPVDoes(t)
    BY <1>5, DeleteVolumeGetPVEffect
  <2> QED
    BY <2>1, NoneAssumption, ArchiveAssumption, NoCallFields, PointVolume
       DEF DeleteVolumeGetPVDoes, Frame, Goes, Ends, StepNames, Types, Requests, Informed
<1>6. ASSUME NEW t \in Calls, DeleteVolumeBegin(t) PROVE Types'
  BY <1>6, ArchiveAssumption, NoneAssumption
     DEF DeleteVolumeBegin, FirstDeleteStep, Types, Requests, Informed, Call, NoCall, Points
<1>7. ASSUME NEW t \in Calls, IsVolumeExists(t) PROVE Types'
  <2>1. IsVolumeExistsDoes(t)
    BY <1>7, IsVolumeExistsEffect
  <2> QED
    BY <2>1, NoneAssumption, ArchiveAssumption, NoCallFields, PointVolume
       DEF IsVolumeExistsDoes, Frame, Goes, Ends, StepNames, Types, Requests, Informed
<1>8. ASSUME NEW t \in Calls, MountKodoFSLocally(t) PROVE Types'
  <2>1. MountKodoFSLocallyDoes(t)
    BY <1>8, MountKodoFSLocallyEffect
  <2> QED
    BY <2>1, NoneAssumption, ArchiveAssumption, NoCallFields, PointVolume
       DEF MountKodoFSLocallyDoes, Frame, Goes, Ends, StepNames, Types, Requests, Informed
<1>9. ASSUME NEW t \in Calls, CleanVolume(t) PROVE Types'
  BY <1>9, ArchiveAssumption, NoneAssumption
     DEF CleanVolume, Goto, Types, Requests, Informed, Call, NoCall, Points
<1>10. ASSUME NEW t \in Calls, UmountTemporary(t) PROVE Types'
  <2>1. UmountTemporaryDoes(t)
    BY <1>10, UmountTemporaryEffect
  <2> QED
    BY <2>1, NoneAssumption, ArchiveAssumption, NoCallFields, PointVolume
       DEF UmountTemporaryDoes, Frame, Goes, Ends, StepNames, Types, Requests, Informed
<1>11. ASSUME NEW t \in Calls, RemoveAccessPoint(t) PROVE Types'
  <2>1. RemoveAccessPointDoes(t)
    BY <1>11, RemoveAccessPointEffect
  <2> QED
    BY <2>1, NoneAssumption, ArchiveAssumption, NoCallFields, PointVolume
       DEF RemoveAccessPointDoes, Frame, Goes, Ends, StepNames, Types, Requests, Informed
<1>12. ASSUME NEW t \in Calls, RemoveVolume(t) PROVE Types'
  <2>1. RemoveVolumeDoes(t)
    BY <1>12, RemoveVolumeEffect
  <2> QED
    BY <2>1, NoneAssumption, ArchiveAssumption, NoCallFields, PointVolume
       DEF RemoveVolumeDoes, Frame, Goes, Ends, StepNames, Types, Requests, Informed
<1>13. ASSUME NEW t \in Calls, ArchiveNameExists(t) PROVE Types'
  <2>1. ArchiveNameExistsDoes(t)
    BY <1>13, ArchiveNameExistsEffect
  <2> QED
    BY <2>1, NoneAssumption, ArchiveAssumption, NoCallFields, PointVolume
       DEF ArchiveNameExistsDoes, Frame, Goes, Ends, StepNames, Types, Requests, Informed
<1>14. ASSUME NEW t \in Calls, RenameVolume(t) PROVE Types'
  <2>1. RenameVolumeDoes(t)
    BY <1>14, RenameVolumeEffect
  <2> QED
    BY <2>1, NoneAssumption, ArchiveAssumption, NoCallFields, PointVolume
       DEF RenameVolumeDoes, Frame, Goes, Ends, StepNames, Types, Requests, Informed
<1>15. ASSUME NEW t \in Calls, TemporaryMountDies(t) PROVE Types'
  <2>1. TemporaryMountDiesDoes(t)
    BY <1>15, TemporaryMountDiesEffect
  <2> QED
    BY <2>1, NoneAssumption, ArchiveAssumption, NoCallFields, PointVolume
       DEF TemporaryMountDiesDoes, Frame, Goes, Ends, StepNames, Types, Requests, Informed
<1>16. ASSUME NEW t \in Calls, RemoteCallFails(t) PROVE Types'
  BY <1>16, ArchiveAssumption, NoneAssumption
     DEF RemoteCallFails, ReturnError, Unlocked, Types, Requests, Informed, Call, NoCall, Points
<1>17. ASSUME NEW t \in Calls, Expire(t) PROVE Types'
  <2>1. ExpireDoes(t)
    BY <1>17, ExpireEffect
  <2> QED
    BY <2>1, NoneAssumption, ArchiveAssumption, NoCallFields, PointVolume
       DEF ExpireDoes, Frame, Goes, Ends, StepNames, Types, Requests, Informed
<1>18. ASSUME NEW t \in Calls, SavePV(t) PROVE Types'
  BY <1>18, ArchiveAssumption, NoneAssumption
     DEF SavePV, Types, Requests, Informed, Call, NoCall, Points
<1>19. ASSUME NEW t \in Calls, RemovePV(t) PROVE Types'
  BY <1>19, ArchiveAssumption, NoneAssumption
     DEF RemovePV, Types, Requests, Informed, Call, NoCall, Points
<1>20. ASSUME NEW t \in Calls, DropAnswer(t) PROVE Types'
  BY <1>20, ArchiveAssumption, NoneAssumption
     DEF DropAnswer, Types, Requests, Informed, Call, NoCall, Points
<1>21. ASSUME NEW t \in Calls, NEW c \in Controllers, NEW v \in Volumes, RequestCreate(t, c, v)
      PROVE  Types'
  BY ZenonT(60), <1>21, ArchiveAssumption, NoneAssumption
     DEF RequestCreate, Request, Types, Requests, Informed, Call, NoCall, Points
<1>22. ASSUME NEW t \in Calls, NEW c \in Controllers, NEW v \in Volumes, RequestDelete(t, c, v)
      PROVE  Types'
  BY ZenonT(60), <1>22, ArchiveAssumption, NoneAssumption
     DEF RequestDelete, Request, Types, Requests, Informed, Call, NoCall, Points
<1>23. ASSUME NEW c \in Controllers, Crash(c) PROVE Types'
  BY <1>23, ArchiveAssumption, NoneAssumption
     DEF Crash, Types, Requests, Informed, Call, NoCall, Points
<1>24. ASSUME NEW v \in Volumes, ReleaseClaim(v) PROVE Types'
  BY <1>24, ArchiveAssumption, NoneAssumption
     DEF ReleaseClaim, Types, Requests, Informed, Call, NoCall, Points
<1>25. ASSUME NEW v \in Volumes, PatchReclaimPolicy(v) PROVE Types'
  BY <1>25, ArchiveAssumption, NoneAssumption
     DEF PatchReclaimPolicy, Types, Requests, Informed, Call, NoCall, Points
<1>26. ASSUME NEW v \in Volumes, WriteFile(v) PROVE Types'
  BY <1>26, ArchiveAssumption, NoneAssumption
     DEF WriteFile, Types, Requests, Informed, Call, NoCall, Points
<1>27. CASE UNCHANGED vars
  BY <1>27, ArchiveAssumption, NoneAssumption
     DEF vars, Types, Requests, Informed, Call, NoCall, Points
<1> QED
  BY <1>1, <1>2, <1>3, <1>4, <1>5, <1>6, <1>7, <1>8, <1>9, <1>10, <1>11, <1>12, <1>13, <1>14,
     <1>15, <1>16, <1>17, <1>18, <1>19, <1>20, <1>21, <1>22, <1>23, <1>24, <1>25, <1>26, <1>27
     DEF Next, CreateVolume, DeleteVolume, Receive

\* A request knows what it has read.
LEMMA RequestsStep ==
    ASSUME Types, Requests, [Next]_vars
    PROVE  Requests'
<1>1. ASSUME NEW t \in Calls, CreateVolumeBegin(t) PROVE Requests'
  <2>1. CreateVolumeBeginDoes(t)
    BY <1>1, CreateVolumeBeginEffect
  <2> QED
    BY <2>1, NoneAssumption, ArchiveAssumption, NoCallFields, PointVolume
       DEF CreateVolumeBeginDoes, Frame, Goes, Ends, StepNames, Types, Requests, Informed
<1>2. ASSUME NEW t \in Calls, CreateVolumeAtMaster(t) PROVE Requests'
  <2>1. CreateVolumeAtMasterDoes(t)
    BY <1>2, CreateVolumeAtMasterEffect
  <2> QED
    BY <2>1, NoneAssumption, ArchiveAssumption, NoCallFields, PointVolume
       DEF CreateVolumeAtMasterDoes, Frame, Goes, Ends, StepNames, Types, Requests, Informed
<1>3. ASSUME NEW t \in Calls, CreateAccessPoint(t) PROVE Requests'
  <2>1. CreateAccessPointDoes(t)
    BY <1>3, CreateAccessPointEffect
  <2> QED
    BY <2>1, NoneAssumption, ArchiveAssumption, NoCallFields, PointVolume
       DEF CreateAccessPointDoes, Frame, Goes, Ends, StepNames, Types, Requests, Informed
<1>4. ASSUME NEW t \in Calls, GetAccessToken(t) PROVE Requests'
  BY <1>4, ArchiveAssumption, NoneAssumption
     DEF GetAccessToken, MayRun, ReturnOK, Unlocked, Types, Requests, Informed, Call, NoCall
<1>5. ASSUME NEW t \in Calls, DeleteVolumeGetPV(t) PROVE Requests'
  <2>1. DeleteVolumeGetPVDoes(t)
    BY <1>5, DeleteVolumeGetPVEffect
  <2> QED
    BY <2>1, NoneAssumption, ArchiveAssumption, NoCallFields, PointVolume
       DEF DeleteVolumeGetPVDoes, Frame, Goes, Ends, StepNames, Types, Requests, Informed
<1>6. ASSUME NEW t \in Calls, DeleteVolumeBegin(t) PROVE Requests'
  BY <1>6, ArchiveAssumption, NoneAssumption
     DEF DeleteVolumeBegin, FirstDeleteStep, Types, Requests, Informed, Call, NoCall
<1>7. ASSUME NEW t \in Calls, IsVolumeExists(t) PROVE Requests'
  <2>1. IsVolumeExistsDoes(t)
    BY <1>7, IsVolumeExistsEffect
  <2> QED
    BY <2>1, NoneAssumption, ArchiveAssumption, NoCallFields, PointVolume
       DEF IsVolumeExistsDoes, Frame, Goes, Ends, StepNames, Types, Requests, Informed
<1>8. ASSUME NEW t \in Calls, MountKodoFSLocally(t) PROVE Requests'
  <2>1. MountKodoFSLocallyDoes(t)
    BY <1>8, MountKodoFSLocallyEffect
  <2> QED
    BY <2>1, NoneAssumption, ArchiveAssumption, NoCallFields, PointVolume
       DEF MountKodoFSLocallyDoes, Frame, Goes, Ends, StepNames, Types, Requests, Informed
<1>9. ASSUME NEW t \in Calls, CleanVolume(t) PROVE Requests'
  BY <1>9, ArchiveAssumption, NoneAssumption
     DEF CleanVolume, Goto, Types, Requests, Informed, Call, NoCall
<1>10. ASSUME NEW t \in Calls, UmountTemporary(t) PROVE Requests'
  <2>1. UmountTemporaryDoes(t)
    BY <1>10, UmountTemporaryEffect
  <2> QED
    BY <2>1, NoneAssumption, ArchiveAssumption, NoCallFields, PointVolume
       DEF UmountTemporaryDoes, Frame, Goes, Ends, StepNames, Types, Requests, Informed
<1>11. ASSUME NEW t \in Calls, RemoveAccessPoint(t) PROVE Requests'
  <2>1. RemoveAccessPointDoes(t)
    BY <1>11, RemoveAccessPointEffect
  <2> QED
    BY <2>1, NoneAssumption, ArchiveAssumption, NoCallFields, PointVolume
       DEF RemoveAccessPointDoes, Frame, Goes, Ends, StepNames, Types, Requests, Informed
<1>12. ASSUME NEW t \in Calls, RemoveVolume(t) PROVE Requests'
  <2>1. RemoveVolumeDoes(t)
    BY <1>12, RemoveVolumeEffect
  <2> QED
    BY <2>1, NoneAssumption, ArchiveAssumption, NoCallFields, PointVolume
       DEF RemoveVolumeDoes, Frame, Goes, Ends, StepNames, Types, Requests, Informed
<1>13. ASSUME NEW t \in Calls, ArchiveNameExists(t) PROVE Requests'
  <2>1. ArchiveNameExistsDoes(t)
    BY <1>13, ArchiveNameExistsEffect
  <2> QED
    BY <2>1, NoneAssumption, ArchiveAssumption, NoCallFields, PointVolume
       DEF ArchiveNameExistsDoes, Frame, Goes, Ends, StepNames, Types, Requests, Informed
<1>14. ASSUME NEW t \in Calls, RenameVolume(t) PROVE Requests'
  <2>1. RenameVolumeDoes(t)
    BY <1>14, RenameVolumeEffect
  <2> QED
    BY <2>1, NoneAssumption, ArchiveAssumption, NoCallFields, PointVolume
       DEF RenameVolumeDoes, Frame, Goes, Ends, StepNames, Types, Requests, Informed
<1>15. ASSUME NEW t \in Calls, TemporaryMountDies(t) PROVE Requests'
  <2>1. TemporaryMountDiesDoes(t)
    BY <1>15, TemporaryMountDiesEffect
  <2> QED
    BY <2>1, NoneAssumption, ArchiveAssumption, NoCallFields, PointVolume
       DEF TemporaryMountDiesDoes, Frame, Goes, Ends, StepNames, Types, Requests, Informed
<1>16. ASSUME NEW t \in Calls, RemoteCallFails(t) PROVE Requests'
  BY <1>16, ArchiveAssumption, NoneAssumption
     DEF RemoteCallFails, ReturnError, Unlocked, Types, Requests, Informed, Call, NoCall
<1>17. ASSUME NEW t \in Calls, Expire(t) PROVE Requests'
  <2>1. ExpireDoes(t)
    BY <1>17, ExpireEffect
  <2> QED
    BY <2>1, NoneAssumption, ArchiveAssumption, NoCallFields, PointVolume
       DEF ExpireDoes, Frame, Goes, Ends, StepNames, Types, Requests, Informed
<1>18. ASSUME NEW t \in Calls, SavePV(t) PROVE Requests'
  BY <1>18, ArchiveAssumption, NoneAssumption DEF SavePV, Types, Requests, Informed, Call, NoCall
<1>19. ASSUME NEW t \in Calls, RemovePV(t) PROVE Requests'
  BY <1>19, ArchiveAssumption, NoneAssumption
     DEF RemovePV, Types, Requests, Informed, Call, NoCall
<1>20. ASSUME NEW t \in Calls, DropAnswer(t) PROVE Requests'
  BY <1>20, ArchiveAssumption, NoneAssumption
     DEF DropAnswer, Types, Requests, Informed, Call, NoCall
<1>21. ASSUME NEW t \in Calls, NEW c \in Controllers, NEW v \in Volumes, RequestCreate(t, c, v)
      PROVE  Requests'
  BY <1>21, ArchiveAssumption, NoneAssumption
     DEF RequestCreate, Request, Types, Requests, Informed, Call, NoCall
<1>22. ASSUME NEW t \in Calls, NEW c \in Controllers, NEW v \in Volumes, RequestDelete(t, c, v)
      PROVE  Requests'
  BY <1>22, ArchiveAssumption, NoneAssumption
     DEF RequestDelete, Request, Types, Requests, Informed, Call, NoCall
<1>23. ASSUME NEW c \in Controllers, Crash(c) PROVE Requests'
  BY <1>23, ArchiveAssumption, NoneAssumption DEF Crash, Types, Requests, Informed, Call, NoCall
<1>24. ASSUME NEW v \in Volumes, ReleaseClaim(v) PROVE Requests'
  BY <1>24, ArchiveAssumption, NoneAssumption
     DEF ReleaseClaim, Types, Requests, Informed, Call, NoCall
<1>25. ASSUME NEW v \in Volumes, PatchReclaimPolicy(v) PROVE Requests'
  BY <1>25, ArchiveAssumption, NoneAssumption
     DEF PatchReclaimPolicy, Types, Requests, Informed, Call, NoCall
<1>26. ASSUME NEW v \in Volumes, WriteFile(v) PROVE Requests'
  BY <1>26, ArchiveAssumption, NoneAssumption
     DEF WriteFile, Types, Requests, Informed, Call, NoCall
<1>27. CASE UNCHANGED vars
  BY <1>27, ArchiveAssumption, NoneAssumption DEF vars, Types, Requests, Informed, Call, NoCall
<1> QED
  BY <1>1, <1>2, <1>3, <1>4, <1>5, <1>6, <1>7, <1>8, <1>9, <1>10, <1>11, <1>12, <1>13, <1>14,
     <1>15, <1>16, <1>17, <1>18, <1>19, <1>20, <1>21, <1>22, <1>23, <1>24, <1>25, <1>26, <1>27
     DEF Next, CreateVolume, DeleteVolume, Receive

\* Access points are handed on only within a volume.
LEMMA OwnedStep ==
    ASSUME Types, Requests, Owned, [Next]_vars
    PROVE  Owned'
<1>1. ASSUME NEW t \in Calls, LocalAction(t) PROVE Owned'
  <2>1. LocalActionDoes(t)
    BY <1>1, LocalActionEffect
  <2>2. CallPoints'
    BY SMTT(30), <2>1, NoneAssumption, NoCallFields, PointVolume
       DEF LocalActionDoes, Frame, Goes, Ends, CallPoints, Owned, CachePoints, PVPoints, Types,
           Requests
  <2>3. CachePoints'
    BY <2>1, NoneAssumption, NoCallFields, PointVolume
       DEF LocalActionDoes, Frame, Goes, Ends, CachePoints, Owned, CallPoints, Types, Requests
  <2>4. PVPoints'
    BY <2>1, NoneAssumption, NoCallFields, PointVolume
       DEF LocalActionDoes, Frame, Goes, Ends, PVPoints, Owned, CallPoints, Types, Requests
  <2>5. PointsAfterVolume'
    BY <2>1, NoneAssumption, NoCallFields, PointVolume
       DEF LocalActionDoes, Frame, Goes, Ends, PointsAfterVolume, Owned, CallPoints, Types,
           Requests
  <2> QED
    BY <2>2, <2>3, <2>4, <2>5 DEF Owned
<1>2. ASSUME NEW t \in Calls, CreateVolumeAtMaster(t) PROVE Owned'
  <2>1. CreateVolumeAtMasterDoes(t)
    BY <1>2, CreateVolumeAtMasterEffect
  <2>2. CallPoints'
    <3>1. /\ point' = point
          /\ \A u \in Calls : \/ call'[u] = NoCall
                              \/ call'[u].point = call[u].point /\ call'[u].name = call[u].name
      BY <2>1 DEF CreateVolumeAtMasterDoes, Frame, Goes, Ends
    <3> QED
      BY <3>1, NoCallFields DEF Owned, CallPoints
  <2>3. CachePoints'
    BY <2>1, NoneAssumption, NoCallFields, PointVolume
       DEF CreateVolumeAtMasterDoes, Frame, Goes, Ends, CachePoints, Owned, CallPoints, Types,
           Requests
  <2>4. PVPoints'
    BY <2>1, NoneAssumption, NoCallFields, PointVolume
       DEF CreateVolumeAtMasterDoes, Frame, Goes, Ends, PVPoints, Owned, CallPoints, Types,
           Requests
  <2>5. PointsAfterVolume'
    BY <2>1, NoneAssumption, NoCallFields, PointVolume
       DEF CreateVolumeAtMasterDoes, Frame, Goes, Ends, PointsAfterVolume, Owned, CallPoints,
           Types, Requests
  <2> QED
    BY <2>2, <2>3, <2>4, <2>5 DEF Owned
<1>3. ASSUME NEW t \in Calls, CreateAccessPoint(t) PROVE Owned'
  <2>1. CreateAccessPointDoes(t)
    BY <1>3, CreateAccessPointEffect
  <2>2. CallPoints'
    BY SMTT(30), <2>1, NoneAssumption, NoCallFields, PointVolume
       DEF CreateAccessPointDoes, Frame, Goes, Ends, CallPoints, Owned, CachePoints, PVPoints,
           Types, Requests
  <2>3. CachePoints'
    BY <2>1, NoneAssumption, NoCallFields, PointVolume
       DEF CreateAccessPointDoes, Frame, Goes, Ends, CachePoints, Owned, CallPoints, Types,
           Requests
  <2>4. PVPoints'
    BY <2>1, NoneAssumption, NoCallFields, PointVolume
       DEF CreateAccessPointDoes, Frame, Goes, Ends, PVPoints, Owned, CallPoints, Types,
           Requests
  <2>5. PointsAfterVolume'
    BY <2>1, NoneAssumption, NoCallFields, PointVolume
       DEF CreateAccessPointDoes, Frame, Goes, Ends, PointsAfterVolume, Owned, CallPoints,
           Types, Requests
  <2> QED
    BY <2>2, <2>3, <2>4, <2>5 DEF Owned
<1>4. ASSUME NEW t \in Calls, GetAccessToken(t) PROVE Owned'
  BY <1>4, ArchiveAssumption, NoneAssumption
     DEF GetAccessToken, MayRun, ReturnOK, Unlocked, Types, Requests, Owned, CallPoints,
         CachePoints, PVPoints, PointsAfterVolume, Informed, Call, NoCall, Points
<1>5. ASSUME NEW t \in Calls, DeleteVolumeBegin(t) PROVE Owned'
  BY <1>5, ArchiveAssumption, NoneAssumption
     DEF DeleteVolumeBegin, FirstDeleteStep, Types, Requests, Owned, CallPoints, CachePoints,
         PVPoints, PointsAfterVolume, Informed, Call, NoCall, Points
<1>6. ASSUME NEW t \in Calls, CleanVolume(t) PROVE Owned'
  BY <1>6, ArchiveAssumption, NoneAssumption
     DEF CleanVolume, Goto, Types, Requests, Owned, CallPoints, CachePoints, PVPoints,
         PointsAfterVolume, Informed, Call, NoCall, Points
<1>7. ASSUME NEW t \in Calls, RemoveAccessPoint(t) PROVE Owned'
  <2>1. RemoveAccessPointDoes(t)
    BY <1>7, RemoveAccessPointEffect
  <2>2. CallPoints'
    BY <2>1, NoneAssumption, NoCallFields, PointVolume
       DEF RemoveAccessPointDoes, Frame, Goes, Ends, CallPoints, Owned, CachePoints, PVPoints,
           Types, Requests
  <2>3. CachePoints'
    BY <2>1, NoneAssumption, NoCallFields, PointVolume
       DEF RemoveAccessPointDoes, Frame, Goes, Ends, CachePoints, Owned, CallPoints, Types,
           Requests
  <2>4. PVPoints'
    BY <2>1, NoneAssumption, NoCallFields, PointVolume
       DEF RemoveAccessPointDoes, Frame, Goes, Ends, PVPoints, Owned, CallPoints, Types,
           Requests
  <2>5. PointsAfterVolume'
    BY <2>1, NoneAssumption, NoCallFields, PointVolume
       DEF RemoveAccessPointDoes, Frame, Goes, Ends, PointsAfterVolume, Owned, CallPoints,
           Types, Requests
  <2> QED
    BY <2>2, <2>3, <2>4, <2>5 DEF Owned
<1>8. ASSUME NEW t \in Calls, RemoveVolume(t) PROVE Owned'
  <2>1. RemoveVolumeDoes(t)
    BY <1>8, RemoveVolumeEffect
  <2>2. CallPoints'
    <3>1. /\ point' = point
          /\ \A u \in Calls : \/ call'[u] = NoCall
                              \/ call'[u].point = call[u].point /\ call'[u].name = call[u].name
      BY <2>1 DEF RemoveVolumeDoes, Frame, Goes, Ends
    <3> QED
      BY <3>1, NoCallFields DEF Owned, CallPoints
  <2>3. CachePoints'
    BY <2>1, NoneAssumption, NoCallFields, PointVolume
       DEF RemoveVolumeDoes, Frame, Goes, Ends, CachePoints, Owned, CallPoints, Types, Requests
  <2>4. PVPoints'
    BY <2>1, NoneAssumption, NoCallFields, PointVolume
       DEF RemoveVolumeDoes, Frame, Goes, Ends, PVPoints, Owned, CallPoints, Types, Requests
  <2>5. PointsAfterVolume'
    BY <2>1, NoneAssumption, NoCallFields, PointVolume
       DEF RemoveVolumeDoes, Frame, Goes, Ends, PointsAfterVolume, Owned, CallPoints, Types,
           Requests
  <2> QED
    BY <2>2, <2>3, <2>4, <2>5 DEF Owned
<1>9. ASSUME NEW t \in Calls, RenameVolume(t) PROVE Owned'
  <2>1. RenameVolumeDoes(t)
    BY <1>9, RenameVolumeEffect
  <2>2. CallPoints'
    <3>1. /\ point' = point
          /\ \A u \in Calls : \/ call'[u] = NoCall
                              \/ call'[u].point = call[u].point /\ call'[u].name = call[u].name
      BY <2>1 DEF RenameVolumeDoes, Frame, Goes, Ends
    <3> QED
      BY <3>1, NoCallFields DEF Owned, CallPoints
  <2>3. CachePoints'
    BY <2>1, NoneAssumption, NoCallFields, PointVolume
       DEF RenameVolumeDoes, Frame, Goes, Ends, CachePoints, Owned, CallPoints, Types, Requests
  <2>4. PVPoints'
    BY <2>1, NoneAssumption, NoCallFields, PointVolume
       DEF RenameVolumeDoes, Frame, Goes, Ends, PVPoints, Owned, CallPoints, Types, Requests
  <2>5. PointsAfterVolume'
    BY <2>1, NoneAssumption, NoCallFields, PointVolume
       DEF RenameVolumeDoes, Frame, Goes, Ends, PointsAfterVolume, Owned, CallPoints, Types,
           Requests
  <2> QED
    BY <2>2, <2>3, <2>4, <2>5 DEF Owned
<1>10. ASSUME NEW t \in Calls, SavePV(t) PROVE Owned'
  BY <1>10, ArchiveAssumption, NoneAssumption
     DEF SavePV, Types, Requests, Owned, CallPoints, CachePoints, PVPoints, PointsAfterVolume,
         Informed, Call, NoCall, Points
<1>11. ASSUME NEW t \in Calls, RemovePV(t) PROVE Owned'
  BY <1>11, ArchiveAssumption, NoneAssumption
     DEF RemovePV, Types, Requests, Owned, CallPoints, CachePoints, PVPoints,
         PointsAfterVolume, Informed, Call, NoCall, Points
<1>12. ASSUME NEW t \in Calls, NEW c \in Controllers, NEW v \in Volumes, RequestCreate(t, c, v)
      PROVE  Owned'
  BY <1>12, ArchiveAssumption, NoneAssumption
     DEF RequestCreate, Request, Types, Requests, Owned, CallPoints, CachePoints, PVPoints,
         PointsAfterVolume, Informed, Call, NoCall, Points
<1>13. ASSUME NEW t \in Calls, NEW c \in Controllers, NEW v \in Volumes, RequestDelete(t, c, v)
      PROVE  Owned'
  BY <1>13, ArchiveAssumption, NoneAssumption
     DEF RequestDelete, Request, Types, Requests, Owned, CallPoints, CachePoints, PVPoints,
         PointsAfterVolume, Informed, Call, NoCall, Points
<1>14. ASSUME NEW c \in Controllers, Crash(c) PROVE Owned'
  BY <1>14, ArchiveAssumption, NoneAssumption
     DEF Crash, Types, Requests, Owned, CallPoints, CachePoints, PVPoints, PointsAfterVolume,
         Informed, Call, NoCall, Points
<1>15. ASSUME NEW v \in Volumes, ReleaseClaim(v) PROVE Owned'
  BY <1>15, ArchiveAssumption, NoneAssumption
     DEF ReleaseClaim, Types, Requests, Owned, CallPoints, CachePoints, PVPoints,
         PointsAfterVolume, Informed, Call, NoCall, Points
<1>16. ASSUME NEW v \in Volumes, PatchReclaimPolicy(v) PROVE Owned'
  BY <1>16, ArchiveAssumption, NoneAssumption
     DEF PatchReclaimPolicy, Types, Requests, Owned, CallPoints, CachePoints, PVPoints,
         PointsAfterVolume, Informed, Call, NoCall, Points
<1>17. ASSUME NEW v \in Volumes, WriteFile(v) PROVE Owned'
  BY <1>17, ArchiveAssumption, NoneAssumption
     DEF WriteFile, Types, Requests, Owned, CallPoints, CachePoints, PVPoints,
         PointsAfterVolume, Informed, Call, NoCall, Points
<1>18. CASE UNCHANGED vars
  BY <1>18, ArchiveAssumption, NoneAssumption
     DEF vars, Types, Requests, Owned, CallPoints, CachePoints, PVPoints, PointsAfterVolume,
         Informed, Call, NoCall, Points
<1> QED
  BY <1>1, <1>2, <1>3, <1>4, <1>5, <1>6, <1>7, <1>8, <1>9, <1>10, <1>11, <1>12, <1>13, <1>14,
     <1>15, <1>16, <1>17, <1>18
     DEF Next, CreateVolume, DeleteVolume, Receive, LocalAction

\* The state of a claim decides which requests may run.
LEMMA ClaimsStep ==
    ASSUME Types, Requests, Owned, Claims, Retired, [Next]_vars
    PROVE  Claims'
<1>1. ASSUME NEW t \in Calls, LocalAction(t) PROVE Claims'
  <2>1. LocalActionDoes(t)
    BY <1>1, LocalActionEffect
  <2>2. ClaimVolumes'
    BY <2>1, NoneAssumption, NoCallFields, PointVolume
       DEF LocalActionDoes, Frame, Goes, Ends, ClaimVolumes, Claims, ClaimRequests, Creating,
           Types, Requests
  <2>3. ClaimPoints'
    BY <2>1, NoneAssumption, NoCallFields, PointVolume
       DEF LocalActionDoes, Frame, Goes, Ends, ClaimPoints, Claims, ClaimRequests, Owned,
           CallPoints, Creating, Types, Requests
  <2>4. ClaimRequests'
    BY <2>1, NoneAssumption, NoCallFields, PointVolume
       DEF LocalActionDoes, Frame, Goes, Ends, ClaimRequests, Claims, Creating, Types, Requests
  <2>5. OneLive'
    BY <2>1, NoneAssumption, NoCallFields, PointVolume
       DEF LocalActionDoes, Frame, Goes, Ends, OneLive, Claims, Types, Requests
  <2> QED
    BY <2>2, <2>3, <2>4, <2>5 DEF Claims
<1>2. ASSUME NEW t \in Calls, CreateVolumeAtMaster(t) PROVE Claims'
  <2>1. CreateVolumeAtMasterDoes(t)
    BY <1>2, CreateVolumeAtMasterEffect
  <2>2. ClaimVolumes'
    BY <2>1, NoneAssumption, NoCallFields, PointVolume
       DEF CreateVolumeAtMasterDoes, Frame, Goes, Ends, ClaimVolumes, Claims, ClaimRequests,
           Creating, Types, Requests
  <2>3. ClaimPoints'
    BY <2>1, NoneAssumption, NoCallFields, PointVolume
       DEF CreateVolumeAtMasterDoes, Frame, Goes, Ends, ClaimPoints, Claims, ClaimRequests,
           Owned, CallPoints, Creating, Types, Requests
  <2>4. ClaimRequests'
    BY <2>1, NoneAssumption, NoCallFields, PointVolume
       DEF CreateVolumeAtMasterDoes, Frame, Goes, Ends, ClaimRequests, Claims, Creating, Types,
           Requests
  <2>5. OneLive'
    BY <2>1, NoneAssumption, NoCallFields, PointVolume
       DEF CreateVolumeAtMasterDoes, Frame, Goes, Ends, OneLive, Claims, Types, Requests
  <2> QED
    BY <2>2, <2>3, <2>4, <2>5 DEF Claims
<1>3. ASSUME NEW t \in Calls, CreateAccessPoint(t) PROVE Claims'
  <2>1. CreateAccessPointDoes(t)
    BY <1>3, CreateAccessPointEffect
  <2>2. ClaimVolumes'
    BY <2>1, NoneAssumption, NoCallFields, PointVolume
       DEF CreateAccessPointDoes, Frame, Goes, Ends, ClaimVolumes, Claims, ClaimRequests,
           Creating, Types, Requests
  <2>3. ClaimPoints'
    BY <2>1, NoneAssumption, NoCallFields, PointVolume
       DEF CreateAccessPointDoes, Frame, Goes, Ends, ClaimPoints, Claims, ClaimRequests, Owned,
           CallPoints, Creating, Types, Requests
  <2>4. ClaimRequests'
    BY <2>1, NoneAssumption, NoCallFields, PointVolume
       DEF CreateAccessPointDoes, Frame, Goes, Ends, ClaimRequests, Claims, Creating, Types,
           Requests
  <2>5. OneLive'
    BY SMTT(30), <2>1, NoneAssumption, NoCallFields, PointVolume
       DEF CreateAccessPointDoes, Frame, Goes, Ends, OneLive, Claims, Types, Requests
  <2> QED
    BY <2>2, <2>3, <2>4, <2>5 DEF Claims
<1>4. ASSUME NEW t \in Calls, GetAccessToken(t) PROVE Claims'
  BY <1>4, ArchiveAssumption, NoneAssumption
     DEF GetAccessToken, MayRun, ReturnOK, Unlocked, Types, Requests, Owned, CallPoints,
         CachePoints, PVPoints, PointsAfterVolume, Claims, ClaimVolumes, ClaimPoints,
         ClaimRequests, OneLive, Retired, SamePoint, PointGone, PointFirst, NameFree,
         PVPointGone, Informed, Creating, Call, NoCall, Points
<1>5. ASSUME NEW t \in Calls, DeleteVolumeBegin(t) PROVE Claims'
  BY <1>5, ArchiveAssumption, NoneAssumption
     DEF DeleteVolumeBegin, FirstDeleteStep, Types, Requests, Owned, CallPoints, CachePoints,
         PVPoints, PointsAfterVolume, Claims, ClaimVolumes, ClaimPoints, ClaimRequests,
         OneLive, Retired, SamePoint, PointGone, PointFirst, NameFree, PVPointGone, Informed,
         Creating, Call, NoCall, Points
<1>6. ASSUME NEW t \in Calls, CleanVolume(t) PROVE Claims'
  BY <1>6, ArchiveAssumption, NoneAssumption
     DEF CleanVolume, Goto, Types, Requests, Owned, CallPoints, CachePoints, PVPoints,
         PointsAfterVolume, Claims, ClaimVolumes, ClaimPoints, ClaimRequests, OneLive, Retired,
         SamePoint, PointGone, PointFirst, NameFree, PVPointGone, Informed, Creating, Call,
         NoCall, Points
<1>7. ASSUME NEW t \in Calls, RemoveAccessPoint(t) PROVE Claims'
  <2>1. RemoveAccessPointDoes(t)
    BY <1>7, RemoveAccessPointEffect
  <2>2. ClaimVolumes'
    BY <2>1, NoneAssumption, NoCallFields, PointVolume
       DEF RemoveAccessPointDoes, Frame, Goes, Ends, ClaimVolumes, Claims, ClaimRequests,
           Creating, Types, Requests
  <2>3. ClaimPoints'
    BY SMTT(30), <2>1, NoneAssumption, NoCallFields, PointVolume
       DEF RemoveAccessPointDoes, Frame, Goes, Ends, ClaimPoints, Claims, ClaimRequests, Owned,
           CallPoints, Creating, Types, Requests
  <2>4. ClaimRequests'
    BY <2>1, NoneAssumption, NoCallFields, PointVolume
       DEF RemoveAccessPointDoes, Frame, Goes, Ends, ClaimRequests, Claims, Creating, Types,
           Requests
  <2>5. OneLive'
    BY <2>1, NoneAssumption, NoCallFields, PointVolume
       DEF RemoveAccessPointDoes, Frame, Goes, Ends, OneLive, Claims, Types, Requests
  <2> QED
    BY <2>2, <2>3, <2>4, <2>5 DEF Claims
<1>8. ASSUME NEW t \in Calls, RemoveVolume(t) PROVE Claims'
  <2>1. RemoveVolumeDoes(t)
    BY <1>8, RemoveVolumeEffect
  <2>2. ClaimVolumes'
    BY <2>1, NoneAssumption, NoCallFields, PointVolume
       DEF RemoveVolumeDoes, Frame, Goes, Ends, ClaimVolumes, Claims, ClaimRequests, Creating,
           Types, Requests
  <2>3. ClaimPoints'
    BY <2>1, NoneAssumption, NoCallFields, PointVolume
       DEF RemoveVolumeDoes, Frame, Goes, Ends, ClaimPoints, Claims, ClaimRequests, Owned,
           CallPoints, Creating, Types, Requests
  <2>4. ClaimRequests'
    BY <2>1, NoneAssumption, NoCallFields, PointVolume
       DEF RemoveVolumeDoes, Frame, Goes, Ends, ClaimRequests, Claims, Creating, Types, Requests
  <2>5. OneLive'
    BY <2>1, NoneAssumption, NoCallFields, PointVolume
       DEF RemoveVolumeDoes, Frame, Goes, Ends, OneLive, Claims, Types, Requests
  <2> QED
    BY <2>2, <2>3, <2>4, <2>5 DEF Claims
<1>9. ASSUME NEW t \in Calls, RenameVolume(t) PROVE Claims'
  <2>1. RenameVolumeDoes(t)
    BY <1>9, RenameVolumeEffect
  <2>2. ClaimVolumes'
    BY <2>1, NoneAssumption, NoCallFields, PointVolume
       DEF RenameVolumeDoes, Frame, Goes, Ends, ClaimVolumes, Claims, ClaimRequests, Creating,
           Types, Requests
  <2>3. ClaimPoints'
    BY <2>1, NoneAssumption, NoCallFields, PointVolume
       DEF RenameVolumeDoes, Frame, Goes, Ends, ClaimPoints, Claims, ClaimRequests, Owned,
           CallPoints, Creating, Types, Requests
  <2>4. ClaimRequests'
    BY <2>1, NoneAssumption, NoCallFields, PointVolume
       DEF RenameVolumeDoes, Frame, Goes, Ends, ClaimRequests, Claims, Creating, Types, Requests
  <2>5. OneLive'
    BY SMTT(30), <2>1, NoneAssumption, NoCallFields, PointVolume
       DEF RenameVolumeDoes, Frame, Goes, Ends, OneLive, Claims, Types, Requests
  <2> QED
    BY <2>2, <2>3, <2>4, <2>5 DEF Claims
<1>10. ASSUME NEW t \in Calls, SavePV(t) PROVE Claims'
  BY <1>10, ArchiveAssumption, NoneAssumption
     DEF SavePV, Types, Requests, Owned, CallPoints, CachePoints, PVPoints, PointsAfterVolume,
         Claims, ClaimVolumes, ClaimPoints, ClaimRequests, OneLive, Retired, SamePoint,
         PointGone, PointFirst, NameFree, PVPointGone, Informed, Creating, Call, NoCall, Points
<1>11. ASSUME NEW t \in Calls, RemovePV(t) PROVE Claims'
  BY <1>11, ArchiveAssumption, NoneAssumption
     DEF RemovePV, Types, Requests, Owned, CallPoints, CachePoints, PVPoints,
         PointsAfterVolume, Claims, ClaimVolumes, ClaimPoints, ClaimRequests, OneLive, Retired,
         SamePoint, PointGone, PointFirst, NameFree, PVPointGone, Informed, Creating, Call,
         NoCall, Points
<1>12. ASSUME NEW t \in Calls, NEW c \in Controllers, NEW v \in Volumes, RequestCreate(t, c, v)
      PROVE  Claims'
  BY <1>12, ArchiveAssumption, NoneAssumption
     DEF RequestCreate, Request, Types, Requests, Owned, CallPoints, CachePoints, PVPoints,
         PointsAfterVolume, Claims, ClaimVolumes, ClaimPoints, ClaimRequests, OneLive, Retired,
         SamePoint, PointGone, PointFirst, NameFree, PVPointGone, Informed, Creating, Call,
         NoCall, Points
<1>13. ASSUME NEW t \in Calls, NEW c \in Controllers, NEW v \in Volumes, RequestDelete(t, c, v)
      PROVE  Claims'
  BY <1>13, ArchiveAssumption, NoneAssumption
     DEF RequestDelete, Request, Types, Requests, Owned, CallPoints, CachePoints, PVPoints,
         PointsAfterVolume, Claims, ClaimVolumes, ClaimPoints, ClaimRequests, OneLive, Retired,
         SamePoint, PointGone, PointFirst, NameFree, PVPointGone, Informed, Creating, Call,
         NoCall, Points
<1>14. ASSUME NEW c \in Controllers, Crash(c) PROVE Claims'
  BY <1>14, ArchiveAssumption, NoneAssumption
     DEF Crash, Types, Requests, Owned, CallPoints, CachePoints, PVPoints, PointsAfterVolume,
         Claims, ClaimVolumes, ClaimPoints, ClaimRequests, OneLive, Retired, SamePoint,
         PointGone, PointFirst, NameFree, PVPointGone, Informed, Creating, Call, NoCall, Points
<1>15. ASSUME NEW v \in Volumes, ReleaseClaim(v) PROVE Claims'
  BY <1>15, ArchiveAssumption, NoneAssumption
     DEF ReleaseClaim, Types, Requests, Owned, CallPoints, CachePoints, PVPoints,
         PointsAfterVolume, Claims, ClaimVolumes, ClaimPoints, ClaimRequests, OneLive, Retired,
         SamePoint, PointGone, PointFirst, NameFree, PVPointGone, Informed, Creating, Call,
         NoCall, Points
<1>16. ASSUME NEW v \in Volumes, PatchReclaimPolicy(v) PROVE Claims'
  BY <1>16, ArchiveAssumption, NoneAssumption
     DEF PatchReclaimPolicy, Types, Requests, Owned, CallPoints, CachePoints, PVPoints,
         PointsAfterVolume, Claims, ClaimVolumes, ClaimPoints, ClaimRequests, OneLive, Retired,
         SamePoint, PointGone, PointFirst, NameFree, PVPointGone, Informed, Creating, Call,
         NoCall, Points
<1>17. ASSUME NEW v \in Volumes, WriteFile(v) PROVE Claims'
  BY <1>17, ArchiveAssumption, NoneAssumption
     DEF WriteFile, Types, Requests, Owned, CallPoints, CachePoints, PVPoints,
         PointsAfterVolume, Claims, ClaimVolumes, ClaimPoints, ClaimRequests, OneLive, Retired,
         SamePoint, PointGone, PointFirst, NameFree, PVPointGone, Informed, Creating, Call,
         NoCall, Points
<1>18. CASE UNCHANGED vars
  BY <1>18, ArchiveAssumption, NoneAssumption
     DEF vars, Types, Requests, Owned, CallPoints, CachePoints, PVPoints, PointsAfterVolume,
         Claims, ClaimVolumes, ClaimPoints, ClaimRequests, OneLive, Retired, SamePoint,
         PointGone, PointFirst, NameFree, PVPointGone, Informed, Creating, Call, NoCall, Points
<1> QED
  BY <1>1, <1>2, <1>3, <1>4, <1>5, <1>6, <1>7, <1>8, <1>9, <1>10, <1>11, <1>12, <1>13, <1>14,
     <1>15, <1>16, <1>17, <1>18
     DEF Next, CreateVolume, DeleteVolume, Receive, LocalAction

\* The access point goes before the volume.
LEMMA RetiredStep ==
    ASSUME Types, Requests, Owned, Claims, Retired, [Next]_vars
    PROVE  Retired'
<1>1. ASSUME NEW t \in Calls, LocalAction(t) PROVE Retired'
  <2>1. LocalActionDoes(t)
    BY <1>1, LocalActionEffect
  <2>2. SamePoint'
    BY <2>1, NoneAssumption, NoCallFields, PointVolume
       DEF LocalActionDoes, Frame, Goes, Ends, SamePoint, Retired, Informed, Types, Requests
  <2>3. PointGone'
    BY <2>1, NoneAssumption, NoCallFields, PointVolume
       DEF LocalActionDoes, Frame, Goes, Ends, PointGone, Retired, SamePoint, PVPointGone,
           PointFirst, Claims, ClaimVolumes, ClaimRequests, Creating, Informed, Types, Requests
  <2>4. PointFirst'
    BY <2>1, NoneAssumption, NoCallFields, PointVolume
       DEF LocalActionDoes, Frame, Goes, Ends, PointFirst, Retired, PointGone, Owned,
           CallPoints, PointsAfterVolume, Informed, Types, Requests
  <2>5. NameFree'
    BY <2>1, NoneAssumption, NoCallFields, PointVolume
       DEF LocalActionDoes, Frame, Goes, Ends, NameFree, Retired, Claims, ClaimRequests,
           Creating, Types, Requests
  <2>6. PVPointGone'
    BY <2>1, NoneAssumption, NoCallFields, PointVolume
       DEF LocalActionDoes, Frame, Goes, Ends, PVPointGone, Retired, SamePoint, PointFirst,
           Claims, ClaimRequests, Owned, PVPoints, Creating, Informed, Types, Requests
  <2> QED
    BY <2>2, <2>3, <2>4, <2>5, <2>6 DEF Retired
<1>2. ASSUME NEW t \in Calls, CreateVolumeAtMaster(t) PROVE Retired'
  <2>1. CreateVolumeAtMasterDoes(t)
    BY <1>2, CreateVolumeAtMasterEffect
  <2>2. SamePoint'
    BY SMTT(30), <2>1, NoneAssumption, NoCallFields, PointVolume
       DEF CreateVolumeAtMasterDoes, Frame, Goes, Ends, SamePoint, Retired, Informed, Types,
           Requests
  <2>3. PointGone'
    BY <2>1, NoneAssumption, NoCallFields, PointVolume
       DEF CreateVolumeAtMasterDoes, Frame, Goes, Ends, PointGone, Retired, SamePoint,
           PVPointGone, PointFirst, Claims, ClaimVolumes, ClaimRequests, Creating, Informed,
           Types, Requests
  <2>4. PointFirst'
    BY <2>1, NoneAssumption, NoCallFields, PointVolume
       DEF CreateVolumeAtMasterDoes, Frame, Goes, Ends, PointFirst, Retired, PointGone, Owned,
           CallPoints, PointsAfterVolume, Informed, Types, Requests
  <2>5. NameFree'
    BY <2>1, NoneAssumption, NoCallFields, PointVolume
       DEF CreateVolumeAtMasterDoes, Frame, Goes, Ends, NameFree, Retired, Claims,
           ClaimRequests, Creating, Types, Requests
  <2>6. PVPointGone'
    BY <2>1, NoneAssumption, NoCallFields, PointVolume
       DEF CreateVolumeAtMasterDoes, Frame, Goes, Ends, PVPointGone, Retired, SamePoint,
           PointFirst, Claims, ClaimRequests, Owned, PVPoints, Creating, Informed, Types,
           Requests
  <2> QED
    BY <2>2, <2>3, <2>4, <2>5, <2>6 DEF Retired
<1>3. ASSUME NEW t \in Calls, CreateAccessPoint(t) PROVE Retired'
  <2>1. CreateAccessPointDoes(t)
    BY <1>3, CreateAccessPointEffect
  <2>2. SamePoint'
    BY <2>1, NoneAssumption, NoCallFields, PointVolume
       DEF CreateAccessPointDoes, Frame, Goes, Ends, SamePoint, Retired, Informed, Types,
           Requests
  <2>3. PointGone'
    BY <2>1, NoneAssumption, NoCallFields, PointVolume
       DEF CreateAccessPointDoes, Frame, Goes, Ends, PointGone, Retired, SamePoint,
           PVPointGone, PointFirst, Claims, ClaimVolumes, ClaimRequests, Creating, Informed,
           Types, Requests
  <2>4. PointFirst'
    BY <2>1, NoneAssumption, NoCallFields, PointVolume
       DEF CreateAccessPointDoes, Frame, Goes, Ends, PointFirst, Retired, PointGone, Owned,
           CallPoints, PointsAfterVolume, Informed, Types, Requests
  <2>5. NameFree'
    BY <2>1, NoneAssumption, NoCallFields, PointVolume
       DEF CreateAccessPointDoes, Frame, Goes, Ends, NameFree, Retired, Claims, ClaimRequests,
           Creating, Types, Requests
  <2>6. PVPointGone'
    BY <2>1, NoneAssumption, NoCallFields, PointVolume
       DEF CreateAccessPointDoes, Frame, Goes, Ends, PVPointGone, Retired, SamePoint,
           PointFirst, Claims, ClaimRequests, Owned, PVPoints, Creating, Informed, Types,
           Requests
  <2> QED
    BY <2>2, <2>3, <2>4, <2>5, <2>6 DEF Retired
<1>4. ASSUME NEW t \in Calls, GetAccessToken(t) PROVE Retired'
  BY <1>4, ArchiveAssumption, NoneAssumption
     DEF GetAccessToken, MayRun, ReturnOK, Unlocked, Types, Requests, Owned, CallPoints,
         CachePoints, PVPoints, PointsAfterVolume, Claims, ClaimVolumes, ClaimPoints,
         ClaimRequests, OneLive, Retired, SamePoint, PointGone, PointFirst, NameFree,
         PVPointGone, Informed, Creating, Call, NoCall, Points
<1>5. ASSUME NEW t \in Calls, DeleteVolumeBegin(t) PROVE Retired'
  BY <1>5, ArchiveAssumption, NoneAssumption
     DEF DeleteVolumeBegin, FirstDeleteStep, Types, Requests, Owned, CallPoints, CachePoints,
         PVPoints, PointsAfterVolume, Claims, ClaimVolumes, ClaimPoints, ClaimRequests,
         OneLive, Retired, SamePoint, PointGone, PointFirst, NameFree, PVPointGone, Informed,
         Creating, Call, NoCall, Points
<1>6. ASSUME NEW t \in Calls, CleanVolume(t) PROVE Retired'
  BY <1>6, ArchiveAssumption, NoneAssumption
     DEF CleanVolume, Goto, Types, Requests, Owned, CallPoints, CachePoints, PVPoints,
         PointsAfterVolume, Claims, ClaimVolumes, ClaimPoints, ClaimRequests, OneLive, Retired,
         SamePoint, PointGone, PointFirst, NameFree, PVPointGone, Informed, Creating, Call,
         NoCall, Points
<1>7. ASSUME NEW t \in Calls, RemoveAccessPoint(t) PROVE Retired'
  <2>1. RemoveAccessPointDoes(t)
    BY <1>7, RemoveAccessPointEffect
  <2>2. SamePoint'
    BY <2>1, NoneAssumption, NoCallFields, PointVolume
       DEF RemoveAccessPointDoes, Frame, Goes, Ends, SamePoint, Retired, Informed, Types,
           Requests
  <2>3. PointGone'
    BY <2>1, NoneAssumption, NoCallFields, PointVolume
       DEF RemoveAccessPointDoes, Frame, Goes, Ends, PointGone, Retired, SamePoint,
           PVPointGone, PointFirst, Claims, ClaimVolumes, ClaimRequests, Creating, Informed,
           Types, Requests
  <2>4. PointFirst'
    BY <2>1, NoneAssumption, NoCallFields, PointVolume
       DEF RemoveAccessPointDoes, Frame, Goes, Ends, PointFirst, Retired, PointGone, Owned,
           CallPoints, PointsAfterVolume, Informed, Types, Requests
  <2>5. NameFree'
    BY <2>1, NoneAssumption, NoCallFields, PointVolume
       DEF RemoveAccessPointDoes, Frame, Goes, Ends, NameFree, Retired, Claims, ClaimRequests,
           Creating, Types, Requests
  <2>6. PVPointGone'
    BY <2>1, NoneAssumption, NoCallFields, PointVolume
       DEF RemoveAccessPointDoes, Frame, Goes, Ends, PVPointGone, Retired, SamePoint,
           PointFirst, Claims, ClaimRequests, Owned, PVPoints, Creating, Informed, Types,
           Requests
  <2> QED
    BY <2>2, <2>3, <2>4, <2>5, <2>6 DEF Retired
<1>8. ASSUME NEW t \in Calls, RemoveVolume(t) PROVE Retired'
  <2>1. RemoveVolumeDoes(t)
    BY <1>8, RemoveVolumeEffect
  <2>2. SamePoint'
    BY <2>1, NoneAssumption, NoCallFields, PointVolume
       DEF RemoveVolumeDoes, Frame, Goes, Ends, SamePoint, Retired, Informed, Types, Requests
  <2>3. PointGone'
    BY <2>1, NoneAssumption, NoCallFields, PointVolume
       DEF RemoveVolumeDoes, Frame, Goes, Ends, PointGone, Retired, SamePoint, PVPointGone,
           PointFirst, Claims, ClaimVolumes, ClaimRequests, Creating, Informed, Types, Requests
  <2>4. PointFirst'
    BY <2>1, NoneAssumption, NoCallFields, PointVolume
       DEF RemoveVolumeDoes, Frame, Goes, Ends, PointFirst, Retired, PointGone, Owned,
           CallPoints, PointsAfterVolume, Informed, Types, Requests
  <2>5. NameFree'
    BY <2>1, NoneAssumption, NoCallFields, PointVolume
       DEF RemoveVolumeDoes, Frame, Goes, Ends, NameFree, Retired, Claims, ClaimRequests,
           Creating, Types, Requests
  <2>6. PVPointGone'
    BY SMTT(30), <2>1, NoneAssumption, NoCallFields, PointVolume
       DEF RemoveVolumeDoes, Frame, Goes, Ends, PVPointGone, Retired, SamePoint, PointFirst,
           Claims, ClaimRequests, Owned, PVPoints, Creating, Informed, Types, Requests
  <2> QED
    BY <2>2, <2>3, <2>4, <2>5, <2>6 DEF Retired
<1>9. ASSUME NEW t \in Calls, RenameVolume(t) PROVE Retired'
  <2>1. RenameVolumeDoes(t)
    BY <1>9, RenameVolumeEffect
  <2>2. SamePoint'
    BY SMTT(30), <2>1, NoneAssumption, NoCallFields, PointVolume
       DEF RenameVolumeDoes, Frame, Goes, Ends, SamePoint, Retired, Informed, Types, Requests
  <2>3. PointGone'
    BY <2>1, NoneAssumption, NoCallFields, PointVolume
       DEF RenameVolumeDoes, Frame, Goes, Ends, PointGone, Retired, SamePoint, PVPointGone,
           PointFirst, Claims, ClaimVolumes, ClaimRequests, Creating, Informed, Types, Requests
  <2>4. PointFirst'
    BY <2>1, NoneAssumption, NoCallFields, PointVolume
       DEF RenameVolumeDoes, Frame, Goes, Ends, PointFirst, Retired, PointGone, Owned,
           CallPoints, PointsAfterVolume, Informed, Types, Requests
  <2>5. NameFree'
    BY <2>1, NoneAssumption, NoCallFields, PointVolume
       DEF RenameVolumeDoes, Frame, Goes, Ends, NameFree, Retired, Claims, ClaimRequests,
           Creating, Types, Requests
  <2>6. PVPointGone'
    BY <2>1, NoneAssumption, NoCallFields, PointVolume
       DEF RenameVolumeDoes, Frame, Goes, Ends, PVPointGone, Retired, SamePoint, PointFirst,
           Claims, ClaimRequests, Owned, PVPoints, Creating, Informed, Types, Requests
  <2> QED
    BY <2>2, <2>3, <2>4, <2>5, <2>6 DEF Retired
<1>10. ASSUME NEW t \in Calls, SavePV(t) PROVE Retired'
  BY <1>10, ArchiveAssumption, NoneAssumption
     DEF SavePV, Types, Requests, Owned, CallPoints, CachePoints, PVPoints, PointsAfterVolume,
         Claims, ClaimVolumes, ClaimPoints, ClaimRequests, OneLive, Retired, SamePoint,
         PointGone, PointFirst, NameFree, PVPointGone, Informed, Creating, Call, NoCall, Points
<1>11. ASSUME NEW t \in Calls, RemovePV(t) PROVE Retired'
  BY <1>11, ArchiveAssumption, NoneAssumption
     DEF RemovePV, Types, Requests, Owned, CallPoints, CachePoints, PVPoints,
         PointsAfterVolume, Claims, ClaimVolumes, ClaimPoints, ClaimRequests, OneLive, Retired,
         SamePoint, PointGone, PointFirst, NameFree, PVPointGone, Informed, Creating, Call,
         NoCall, Points
<1>12. ASSUME NEW t \in Calls, NEW c \in Controllers, NEW v \in Volumes, RequestCreate(t, c, v)
      PROVE  Retired'
  BY <1>12, ArchiveAssumption, NoneAssumption
     DEF RequestCreate, Request, Types, Requests, Owned, CallPoints, CachePoints, PVPoints,
         PointsAfterVolume, Claims, ClaimVolumes, ClaimPoints, ClaimRequests, OneLive, Retired,
         SamePoint, PointGone, PointFirst, NameFree, PVPointGone, Informed, Creating, Call,
         NoCall, Points
<1>13. ASSUME NEW t \in Calls, NEW c \in Controllers, NEW v \in Volumes, RequestDelete(t, c, v)
      PROVE  Retired'
  BY <1>13, ArchiveAssumption, NoneAssumption
     DEF RequestDelete, Request, Types, Requests, Owned, CallPoints, CachePoints, PVPoints,
         PointsAfterVolume, Claims, ClaimVolumes, ClaimPoints, ClaimRequests, OneLive, Retired,
         SamePoint, PointGone, PointFirst, NameFree, PVPointGone, Informed, Creating, Call,
         NoCall, Points
<1>14. ASSUME NEW c \in Controllers, Crash(c) PROVE Retired'
  BY <1>14, ArchiveAssumption, NoneAssumption
     DEF Crash, Types, Requests, Owned, CallPoints, CachePoints, PVPoints, PointsAfterVolume,
         Claims, ClaimVolumes, ClaimPoints, ClaimRequests, OneLive, Retired, SamePoint,
         PointGone, PointFirst, NameFree, PVPointGone, Informed, Creating, Call, NoCall, Points
<1>15. ASSUME NEW v \in Volumes, ReleaseClaim(v) PROVE Retired'
  BY <1>15, ArchiveAssumption, NoneAssumption
     DEF ReleaseClaim, Types, Requests, Owned, CallPoints, CachePoints, PVPoints,
         PointsAfterVolume, Claims, ClaimVolumes, ClaimPoints, ClaimRequests, OneLive, Retired,
         SamePoint, PointGone, PointFirst, NameFree, PVPointGone, Informed, Creating, Call,
         NoCall, Points
<1>16. ASSUME NEW v \in Volumes, PatchReclaimPolicy(v) PROVE Retired'
  BY <1>16, ArchiveAssumption, NoneAssumption
     DEF PatchReclaimPolicy, Types, Requests, Owned, CallPoints, CachePoints, PVPoints,
         PointsAfterVolume, Claims, ClaimVolumes, ClaimPoints, ClaimRequests, OneLive, Retired,
         SamePoint, PointGone, PointFirst, NameFree, PVPointGone, Informed, Creating, Call,
         NoCall, Points
<1>17. ASSUME NEW v \in Volumes, WriteFile(v) PROVE Retired'
  BY <1>17, ArchiveAssumption, NoneAssumption
     DEF WriteFile, Types, Requests, Owned, CallPoints, CachePoints, PVPoints,
         PointsAfterVolume, Claims, ClaimVolumes, ClaimPoints, ClaimRequests, OneLive, Retired,
         SamePoint, PointGone, PointFirst, NameFree, PVPointGone, Informed, Creating, Call,
         NoCall, Points
<1>18. CASE UNCHANGED vars
  BY <1>18, ArchiveAssumption, NoneAssumption
     DEF vars, Types, Requests, Owned, CallPoints, CachePoints, PVPoints, PointsAfterVolume,
         Claims, ClaimVolumes, ClaimPoints, ClaimRequests, OneLive, Retired, SamePoint,
         PointGone, PointFirst, NameFree, PVPointGone, Informed, Creating, Call, NoCall, Points
<1> QED
  BY <1>1, <1>2, <1>3, <1>4, <1>5, <1>6, <1>7, <1>8, <1>9, <1>10, <1>11, <1>12, <1>13, <1>14,
     <1>15, <1>16, <1>17, <1>18
     DEF Next, CreateVolume, DeleteVolume, Receive, LocalAction

\* No volume is archived twice.
LEMMA NumberedStep ==
    ASSUME Types, Requests, Owned, Claims, Numbered, [Next]_vars
    PROVE  Numbered'
<1>1. ASSUME NEW t \in Calls, CreateVolumeBegin(t) PROVE Numbered'
  <2>1. CreateVolumeBeginDoes(t)
    BY <1>1, CreateVolumeBeginEffect
  <2> QED
    BY <2>1, NoneAssumption, ArchiveAssumption, NoCallFields, PointVolume
       DEF CreateVolumeBeginDoes, Frame, Goes, Ends, StepNames, Types, Requests, Claims,
           ClaimVolumes, ClaimRequests, Numbered, Creating
<1>2. ASSUME NEW t \in Calls, CreateVolumeAtMaster(t) PROVE Numbered'
  <2>1. CreateVolumeAtMasterDoes(t)
    BY <1>2, CreateVolumeAtMasterEffect
  <2>2. archive' = archive /\ \A u \in Calls : call'[u] = call[u] \/ call'[u] = NoCall
    BY <2>1 DEF CreateVolumeAtMasterDoes, Frame, Ends
  <2>3. \A v \in Volumes : where[v] = "archived" => where'[v] = "archived"
    BY <2>1 DEF CreateVolumeAtMasterDoes, Types, Requests, Claims, ClaimVolumes, ClaimRequests, Creating
  <2> QED
    BY <2>2, <2>3, NoCallFields DEF Numbered
<1>3. ASSUME NEW t \in Calls, CreateAccessPoint(t) PROVE Numbered'
  <2>1. CreateAccessPointDoes(t)
    BY <1>3, CreateAccessPointEffect
  <2> QED
    BY SMTT(30), <2>1, NoneAssumption, ArchiveAssumption, NoCallFields, PointVolume
       DEF CreateAccessPointDoes, Frame, Goes, Ends, StepNames, Types, Requests, Claims,
           ClaimVolumes, ClaimRequests, Numbered, Creating
<1>4. ASSUME NEW t \in Calls, GetAccessToken(t) PROVE Numbered'
  BY <1>4, ArchiveAssumption, NoneAssumption
     DEF GetAccessToken, MayRun, ReturnOK, Unlocked, Types, Requests, Claims, ClaimVolumes,
         ClaimRequests, Numbered, Creating, Call, NoCall
<1>5. ASSUME NEW t \in Calls, DeleteVolumeGetPV(t) PROVE Numbered'
  <2>1. DeleteVolumeGetPVDoes(t)
    BY <1>5, DeleteVolumeGetPVEffect
  <2> QED
    BY <2>1, NoneAssumption, ArchiveAssumption, NoCallFields, PointVolume
       DEF DeleteVolumeGetPVDoes, Frame, Goes, Ends, StepNames, Types, Requests, Claims,
           ClaimVolumes, ClaimRequests, Numbered, Creating
<1>6. ASSUME NEW t \in Calls, DeleteVolumeBegin(t) PROVE Numbered'
  BY <1>6, ArchiveAssumption, NoneAssumption
     DEF DeleteVolumeBegin, FirstDeleteStep, Types, Requests, Claims, ClaimVolumes,
         ClaimRequests, Numbered, Creating, Call, NoCall
<1>7. ASSUME NEW t \in Calls, IsVolumeExists(t) PROVE Numbered'
  <2>1. IsVolumeExistsDoes(t)
    BY <1>7, IsVolumeExistsEffect
  <2> QED
    BY <2>1, NoneAssumption, ArchiveAssumption, NoCallFields, PointVolume
       DEF IsVolumeExistsDoes, Frame, Goes, Ends, StepNames, Types, Requests, Claims,
           ClaimVolumes, ClaimRequests, Numbered, Creating
<1>8. ASSUME NEW t \in Calls, MountKodoFSLocally(t) PROVE Numbered'
  <2>1. MountKodoFSLocallyDoes(t)
    BY <1>8, MountKodoFSLocallyEffect
  <2> QED
    BY <2>1, NoneAssumption, ArchiveAssumption, NoCallFields, PointVolume
       DEF MountKodoFSLocallyDoes, Frame, Goes, Ends, StepNames, Types, Requests, Claims,
           ClaimVolumes, ClaimRequests, Numbered, Creating
<1>9. ASSUME NEW t \in Calls, CleanVolume(t) PROVE Numbered'
  BY <1>9, ArchiveAssumption, NoneAssumption
     DEF CleanVolume, Goto, Types, Requests, Claims, ClaimVolumes, ClaimRequests, Numbered,
         Creating, Call, NoCall
<1>10. ASSUME NEW t \in Calls, UmountTemporary(t) PROVE Numbered'
  <2>1. UmountTemporaryDoes(t)
    BY <1>10, UmountTemporaryEffect
  <2> QED
    BY <2>1, NoneAssumption, ArchiveAssumption, NoCallFields, PointVolume
       DEF UmountTemporaryDoes, Frame, Goes, Ends, StepNames, Types, Requests, Claims,
           ClaimVolumes, ClaimRequests, Numbered, Creating
<1>11. ASSUME NEW t \in Calls, RemoveAccessPoint(t) PROVE Numbered'
  <2>1. RemoveAccessPointDoes(t)
    BY <1>11, RemoveAccessPointEffect
  <2> QED
    BY <2>1, NoneAssumption, ArchiveAssumption, NoCallFields, PointVolume
       DEF RemoveAccessPointDoes, Frame, Goes, Ends, StepNames, Types, Requests, Claims,
           ClaimVolumes, ClaimRequests, Numbered, Creating
<1>12. ASSUME NEW t \in Calls, RemoveVolume(t) PROVE Numbered'
  <2>1. RemoveVolumeDoes(t)
    BY <1>12, RemoveVolumeEffect
  <2>2. archive' = archive /\ \A u \in Calls : call'[u] = call[u] \/ call'[u] = NoCall
    BY <2>1 DEF RemoveVolumeDoes, Frame, Ends
  <2>3. \A v \in Volumes : where[v] = "archived" => where'[v] = "archived"
    BY <2>1 DEF RemoveVolumeDoes, Types
  <2> QED
    BY <2>2, <2>3, NoCallFields DEF Numbered
<1>13. ASSUME NEW t \in Calls, ArchiveNameExists(t) PROVE Numbered'
  <2>1. ArchiveNameExistsDoes(t)
    BY <1>13, ArchiveNameExistsEffect
  <2> QED
    BY <2>1, NoneAssumption, ArchiveAssumption, NoCallFields, PointVolume
       DEF ArchiveNameExistsDoes, Frame, Goes, Ends, StepNames, Types, Requests, Claims,
           ClaimVolumes, ClaimRequests, Numbered, Creating
<1>14. ASSUME NEW t \in Calls, RenameVolume(t) PROVE Numbered'
  <2>1. RenameVolumeDoes(t)
    BY <1>14, RenameVolumeEffect
  <2>2. call[t].name \in Volumes
    BY <2>1 DEF RenameVolumeDoes, Requests
  <2>3. call[t].i = 0
    BY <2>1, <2>2 DEF RenameVolumeDoes, Numbered
  <2>4. /\ archive' = [archive EXCEPT ![call[t].name] = 0]
        /\ where' = [where EXCEPT ![call[t].name] = "archived"]
    BY <2>1, <2>3 DEF RenameVolumeDoes
  <2>5. \A u \in Calls : \/ call'[u] = NoCall \/ call'[u] = call[u]
                         \/ call'[u].i = 1 /\ call'[u].name = call[t].name
    BY <2>1, <2>3 DEF RenameVolumeDoes, Frame, Goes, Ends
  <2> QED
    BY <2>2, <2>4, <2>5, NoCallFields DEF Numbered, Types
<1>15. ASSUME NEW t \in Calls, TemporaryMountDies(t) PROVE Numbered'
  <2>1. TemporaryMountDiesDoes(t)
    BY <1>15, TemporaryMountDiesEffect
  <2> QED
    BY SMTT(30), <2>1, NoneAssumption, ArchiveAssumption, NoCallFields, PointVolume
       DEF TemporaryMountDiesDoes, Frame, Goes, Ends, StepNames, Types, Requests, Claims,
           ClaimVolumes, ClaimRequests, Numbered, Creating
<1>16. ASSUME NEW t \in Calls, RemoteCallFails(t) PROVE Numbered'
  BY <1>16, ArchiveAssumption, NoneAssumption
     DEF RemoteCallFails, ReturnError, Unlocked, Types, Requests, Claims, ClaimVolumes,
         ClaimRequests, Numbered, Creating, Call, NoCall
<1>17. ASSUME NEW t \in Calls, Expire(t) PROVE Numbered'
  <2>1. ExpireDoes(t)
    BY <1>17, ExpireEffect
  <2> QED
    BY SMTT(30), <2>1, NoneAssumption, ArchiveAssumption, NoCallFields, PointVolume
       DEF ExpireDoes, Frame, Goes, Ends, StepNames, Types, Requests, Claims, ClaimVolumes,
           ClaimRequests, Numbered, Creating
<1>18. ASSUME NEW t \in Calls, SavePV(t) PROVE Numbered'
  BY <1>18, ArchiveAssumption, NoneAssumption
     DEF SavePV, Types, Requests, Claims, ClaimVolumes, ClaimRequests, Numbered, Creating,
         Call, NoCall
<1>19. ASSUME NEW t \in Calls, RemovePV(t) PROVE Numbered'
  BY <1>19, ArchiveAssumption, NoneAssumption
     DEF RemovePV, Types, Requests, Claims, ClaimVolumes, ClaimRequests, Numbered, Creating,
         Call, NoCall
<1>20. ASSUME NEW t \in Calls, DropAnswer(t) PROVE Numbered'
  BY <1>20, ArchiveAssumption, NoneAssumption
     DEF DropAnswer, Types, Requests, Claims, ClaimVolumes, ClaimRequests, Numbered, Creating,
         Call, NoCall
<1>21. ASSUME NEW t \in Calls, NEW c \in Controllers, NEW v \in Volumes, RequestCreate(t, c, v)
      PROVE  Numbered'
  BY <1>21, ArchiveAssumption, NoneAssumption
     DEF RequestCreate, Request, Types, Requests, Claims, ClaimVolumes, ClaimRequests,
         Numbered, Creating, Call, NoCall
<1>22. ASSUME NEW t \in Calls, NEW c \in Controllers, NEW v \in Volumes, RequestDelete(t, c, v)
      PROVE  Numbered'
  BY <1>22, ArchiveAssumption, NoneAssumption
     DEF RequestDelete, Request, Types, Requests, Claims, ClaimVolumes, ClaimRequests,
         Numbered, Creating, Call, NoCall
<1>23. ASSUME NEW c \in Controllers, Crash(c) PROVE Numbered'
  BY <1>23, ArchiveAssumption, NoneAssumption
     DEF Crash, Types, Requests, Claims, ClaimVolumes, ClaimRequests, Numbered, Creating, Call,
         NoCall
<1>24. ASSUME NEW v \in Volumes, ReleaseClaim(v) PROVE Numbered'
  BY <1>24, ArchiveAssumption, NoneAssumption
     DEF ReleaseClaim, Types, Requests, Claims, ClaimVolumes, ClaimRequests, Numbered,
         Creating, Call, NoCall
<1>25. ASSUME NEW v \in Volumes, PatchReclaimPolicy(v) PROVE Numbered'
  BY <1>25, ArchiveAssumption, NoneAssumption
     DEF PatchReclaimPolicy, Types, Requests, Claims, ClaimVolumes, ClaimRequests, Numbered,
         Creating, Call, NoCall
<1>26. ASSUME NEW v \in Volumes, WriteFile(v) PROVE Numbered'
  BY <1>26, ArchiveAssumption, NoneAssumption
     DEF WriteFile, Types, Requests, Claims, ClaimVolumes, ClaimRequests, Numbered, Creating,
         Call, NoCall
<1>27. CASE UNCHANGED vars
  BY <1>27, ArchiveAssumption, NoneAssumption
     DEF vars, Types, Requests, Claims, ClaimVolumes, ClaimRequests, Numbered, Creating, Call,
         NoCall
<1> QED
  BY <1>1, <1>2, <1>3, <1>4, <1>5, <1>6, <1>7, <1>8, <1>9, <1>10, <1>11, <1>12, <1>13, <1>14,
     <1>15, <1>16, <1>17, <1>18, <1>19, <1>20, <1>21, <1>22, <1>23, <1>24, <1>25, <1>26, <1>27
     DEF Next, CreateVolume, DeleteVolume, Receive

\* What a step that empties or removes a volume is.
ReclaimsOnDelete ==
    \A v \in Volumes :
        (files[v] /\ ~ files'[v]) \/ (where[v] # "removed" /\ where'[v] = "removed")
           => \E t \in Calls :
                 /\ pc[t] \in {"clean", "removeVolume"}
                 /\ call[t].name = v
                 /\ call[t].reclaim = "Delete"
                 /\ claim[v] # "bound"

\* Only CleanVolume and RemoveVolume take files away.
LEMMA ReclaimStep ==
    ASSUME Flags, Types, Requests, Claims, [Next]_vars
    PROVE  ReclaimsOnDelete
<1>1. ASSUME NEW t \in Calls, CreateVolumeBegin(t) PROVE ReclaimsOnDelete
  <2>1. CreateVolumeBeginDoes(t)
    BY <1>1, CreateVolumeBeginEffect
  <2> QED
    BY <2>1, NoneAssumption, ArchiveAssumption, NoCallFields, PointVolume
       DEF CreateVolumeBeginDoes, Frame, Goes, Ends, StepNames, Flags, Types, Requests, Claims,
           ClaimRequests, ReclaimsOnDelete, Creating
<1>2. ASSUME NEW t \in Calls, CreateVolumeAtMaster(t) PROVE ReclaimsOnDelete
  <2>1. CreateVolumeAtMasterDoes(t)
    BY <1>2, CreateVolumeAtMasterEffect
  <2> QED
    BY <2>1, NoneAssumption, ArchiveAssumption, NoCallFields, PointVolume
       DEF CreateVolumeAtMasterDoes, Frame, Goes, Ends, StepNames, Flags, Types, Requests,
           Claims, ClaimRequests, ReclaimsOnDelete, Creating
<1>3. ASSUME NEW t \in Calls, CreateAccessPoint(t) PROVE ReclaimsOnDelete
  <2>1. CreateAccessPointDoes(t)
    BY <1>3, CreateAccessPointEffect
  <2> QED
    BY <2>1, NoneAssumption, ArchiveAssumption, NoCallFields, PointVolume
       DEF CreateAccessPointDoes, Frame, Goes, Ends, StepNames, Flags, Types, Requests, Claims,
           ClaimRequests, ReclaimsOnDelete, Creating
<1>4. ASSUME NEW t \in Calls, GetAccessToken(t) PROVE ReclaimsOnDelete
  BY <1>4, ArchiveAssumption, NoneAssumption
     DEF GetAccessToken, MayRun, ReturnOK, Unlocked, Flags, Types, Requests, Claims,
         ClaimRequests, ReclaimsOnDelete, Creating
<1>5. ASSUME NEW t \in Calls, DeleteVolumeGetPV(t) PROVE ReclaimsOnDelete
  <2>1. DeleteVolumeGetPVDoes(t)
    BY <1>5, DeleteVolumeGetPVEffect
  <2> QED
    BY <2>1, NoneAssumption, ArchiveAssumption, NoCallFields, PointVolume
       DEF DeleteVolumeGetPVDoes, Frame, Goes, Ends, StepNames, Flags, Types, Requests, Claims,
           ClaimRequests, ReclaimsOnDelete, Creating
<1>6. ASSUME NEW t \in Calls, DeleteVolumeBegin(t) PROVE ReclaimsOnDelete
  BY <1>6, ArchiveAssumption, NoneAssumption
     DEF DeleteVolumeBegin, FirstDeleteStep, Flags, Types, Requests, Claims, ClaimRequests,
         ReclaimsOnDelete, Creating
<1>7. ASSUME NEW t \in Calls, IsVolumeExists(t) PROVE ReclaimsOnDelete
  <2>1. IsVolumeExistsDoes(t)
    BY <1>7, IsVolumeExistsEffect
  <2> QED
    BY <2>1, NoneAssumption, ArchiveAssumption, NoCallFields, PointVolume
       DEF IsVolumeExistsDoes, Frame, Goes, Ends, StepNames, Flags, Types, Requests, Claims,
           ClaimRequests, ReclaimsOnDelete, Creating
<1>8. ASSUME NEW t \in Calls, MountKodoFSLocally(t) PROVE ReclaimsOnDelete
  <2>1. MountKodoFSLocallyDoes(t)
    BY <1>8, MountKodoFSLocallyEffect
  <2> QED
    BY <2>1, NoneAssumption, ArchiveAssumption, NoCallFields, PointVolume
       DEF MountKodoFSLocallyDoes, Frame, Goes, Ends, StepNames, Flags, Types, Requests,
           Claims, ClaimRequests, ReclaimsOnDelete, Creating
<1>9. ASSUME NEW t \in Calls, CleanVolume(t) PROVE ReclaimsOnDelete
  BY <1>9, ArchiveAssumption, NoneAssumption
     DEF CleanVolume, Goto, Flags, Types, Requests, Claims, ClaimRequests, ReclaimsOnDelete,
         Creating
<1>10. ASSUME NEW t \in Calls, UmountTemporary(t) PROVE ReclaimsOnDelete
  <2>1. UmountTemporaryDoes(t)
    BY <1>10, UmountTemporaryEffect
  <2> QED
    BY <2>1, NoneAssumption, ArchiveAssumption, NoCallFields, PointVolume
       DEF UmountTemporaryDoes, Frame, Goes, Ends, StepNames, Flags, Types, Requests, Claims,
           ClaimRequests, ReclaimsOnDelete, Creating
<1>11. ASSUME NEW t \in Calls, RemoveAccessPoint(t) PROVE ReclaimsOnDelete
  <2>1. RemoveAccessPointDoes(t)
    BY <1>11, RemoveAccessPointEffect
  <2> QED
    BY <2>1, NoneAssumption, ArchiveAssumption, NoCallFields, PointVolume
       DEF RemoveAccessPointDoes, Frame, Goes, Ends, StepNames, Flags, Types, Requests, Claims,
           ClaimRequests, ReclaimsOnDelete, Creating
<1>12. ASSUME NEW t \in Calls, RemoveVolume(t) PROVE ReclaimsOnDelete
  <2>1. RemoveVolumeDoes(t)
    BY <1>12, RemoveVolumeEffect
  <2> QED
    BY <2>1, NoneAssumption, ArchiveAssumption, NoCallFields, PointVolume
       DEF RemoveVolumeDoes, Frame, Goes, Ends, StepNames, Flags, Types, Requests, Claims,
           ClaimRequests, ReclaimsOnDelete, Creating
<1>13. ASSUME NEW t \in Calls, ArchiveNameExists(t) PROVE ReclaimsOnDelete
  <2>1. ArchiveNameExistsDoes(t)
    BY <1>13, ArchiveNameExistsEffect
  <2> QED
    BY <2>1, NoneAssumption, ArchiveAssumption, NoCallFields, PointVolume
       DEF ArchiveNameExistsDoes, Frame, Goes, Ends, StepNames, Flags, Types, Requests, Claims,
           ClaimRequests, ReclaimsOnDelete, Creating
<1>14. ASSUME NEW t \in Calls, RenameVolume(t) PROVE ReclaimsOnDelete
  <2>1. RenameVolumeDoes(t)
    BY <1>14, RenameVolumeEffect
  <2> QED
    BY <2>1, NoneAssumption, ArchiveAssumption, NoCallFields, PointVolume
       DEF RenameVolumeDoes, Frame, Goes, Ends, StepNames, Flags, Types, Requests, Claims,
           ClaimRequests, ReclaimsOnDelete, Creating
<1>15. ASSUME NEW t \in Calls, TemporaryMountDies(t) PROVE ReclaimsOnDelete
  <2>1. TemporaryMountDiesDoes(t)
    BY <1>15, TemporaryMountDiesEffect
  <2> QED
    BY <2>1, NoneAssumption, ArchiveAssumption, NoCallFields, PointVolume
       DEF TemporaryMountDiesDoes, Frame, Goes, Ends, StepNames, Flags, Types, Requests,
           Claims, ClaimRequests, ReclaimsOnDelete, Creating
<1>16. ASSUME NEW t \in Calls, RemoteCallFails(t) PROVE ReclaimsOnDelete
  BY <1>16, ArchiveAssumption, NoneAssumption
     DEF RemoteCallFails, ReturnError, Unlocked, Flags, Types, Requests, Claims, ClaimRequests,
         ReclaimsOnDelete, Creating
<1>17. ASSUME NEW t \in Calls, Expire(t) PROVE ReclaimsOnDelete
  <2>1. ExpireDoes(t)
    BY <1>17, ExpireEffect
  <2> QED
    BY <2>1, NoneAssumption, ArchiveAssumption, NoCallFields, PointVolume
       DEF ExpireDoes, Frame, Goes, Ends, StepNames, Flags, Types, Requests, Claims,
           ClaimRequests, ReclaimsOnDelete, Creating
<1>18. ASSUME NEW t \in Calls, SavePV(t) PROVE ReclaimsOnDelete
  BY <1>18, ArchiveAssumption, NoneAssumption
     DEF SavePV, Flags, Types, Requests, Claims, ClaimRequests, ReclaimsOnDelete, Creating
<1>19. ASSUME NEW t \in Calls, RemovePV(t) PROVE ReclaimsOnDelete
  BY <1>19, ArchiveAssumption, NoneAssumption
     DEF RemovePV, Flags, Types, Requests, Claims, ClaimRequests, ReclaimsOnDelete, Creating
<1>20. ASSUME NEW t \in Calls, DropAnswer(t) PROVE ReclaimsOnDelete
  BY <1>20, ArchiveAssumption, NoneAssumption
     DEF DropAnswer, Flags, Types, Requests, Claims, ClaimRequests, ReclaimsOnDelete, Creating
<1>21. ASSUME NEW t \in Calls, NEW c \in Controllers, NEW v \in Volumes, RequestCreate(t, c, v)
      PROVE  ReclaimsOnDelete
  BY <1>21, ArchiveAssumption, NoneAssumption
     DEF RequestCreate, Request, Flags, Types, Requests, Claims, ClaimRequests,
         ReclaimsOnDelete, Creating
<1>22. ASSUME NEW t \in Calls, NEW c \in Controllers, NEW v \in Volumes, RequestDelete(t, c, v)
      PROVE  ReclaimsOnDelete
  BY <1>22, ArchiveAssumption, NoneAssumption
     DEF RequestDelete, Request, Flags, Types, Requests, Claims, ClaimRequests,
         ReclaimsOnDelete, Creating
<1>23. ASSUME NEW c \in Controllers, Crash(c) PROVE ReclaimsOnDelete
  BY <1>23, ArchiveAssumption, NoneAssumption
     DEF Crash, Flags, Types, Requests, Claims, ClaimRequests, ReclaimsOnDelete, Creating
<1>24. ASSUME NEW v \in Volumes, ReleaseClaim(v) PROVE ReclaimsOnDelete
  BY <1>24, ArchiveAssumption, NoneAssumption
     DEF ReleaseClaim, Flags, Types, Requests, Claims, ClaimRequests, ReclaimsOnDelete, Creating
<1>25. ASSUME NEW v \in Volumes, PatchReclaimPolicy(v) PROVE ReclaimsOnDelete
  BY <1>25, ArchiveAssumption, NoneAssumption
     DEF PatchReclaimPolicy, Flags, Types, Requests, Claims, ClaimRequests, ReclaimsOnDelete,
         Creating
<1>26. ASSUME NEW v \in Volumes, WriteFile(v) PROVE ReclaimsOnDelete
  BY <1>26, ArchiveAssumption, NoneAssumption
     DEF WriteFile, Flags, Types, Requests, Claims, ClaimRequests, ReclaimsOnDelete, Creating
<1>27. CASE UNCHANGED vars
  BY <1>27, ArchiveAssumption, NoneAssumption
     DEF vars, Flags, Types, Requests, Claims, ClaimRequests, ReclaimsOnDelete, Creating
<1> QED
  BY <1>1, <1>2, <1>3, <1>4, <1>5, <1>6, <1>7, <1>8, <1>9, <1>10, <1>11, <1>12, <1>13, <1>14,
     <1>15, <1>16, <1>17, <1>18, <1>19, <1>20, <1>21, <1>22, <1>23, <1>24, <1>25, <1>26, <1>27
     DEF Next, CreateVolume, DeleteVolume, Receive

\* No request can finish what is half done.
LEMMA HalfDeletedStep ==
    ASSUME Types, Requests, Owned, Claims, Retired, NEW w \in Volumes, HalfDeleted(w), [Next]_vars
    PROVE  HalfDeleted(w)' \/ where'[w] = "archived"
<1>1. ASSUME NEW t \in Calls, CreateVolumeBegin(t) PROVE HalfDeleted(w)' \/ where'[w] = "archived"
  <2>1. CreateVolumeBeginDoes(t)
    BY <1>1, CreateVolumeBeginEffect
  <2> QED
    BY <2>1, NoneAssumption, ArchiveAssumption, NoCallFields, PointVolume
       DEF CreateVolumeBeginDoes, Frame, Goes, Ends, StepNames, Types, Requests, Claims,
           ClaimRequests, ClaimVolumes, Retired, SamePoint, HalfDeleted, Creating, Informed
<1>2. ASSUME NEW t \in Calls, CreateVolumeAtMaster(t) PROVE HalfDeleted(w)' \/ where'[w] = "archived"
  <2>1. CreateVolumeAtMasterDoes(t)
    BY <1>2, CreateVolumeAtMasterEffect
  <2> QED
    BY <2>1, NoneAssumption, ArchiveAssumption, NoCallFields, PointVolume
       DEF CreateVolumeAtMasterDoes, Frame, Goes, Ends, StepNames, Types, Requests, Claims,
           ClaimRequests, ClaimVolumes, Retired, SamePoint, HalfDeleted, Creating, Informed
<1>3. ASSUME NEW t \in Calls, CreateAccessPoint(t) PROVE HalfDeleted(w)' \/ where'[w] = "archived"
  <2>1. CreateAccessPointDoes(t)
    BY <1>3, CreateAccessPointEffect
  <2> QED
    BY <2>1, NoneAssumption, ArchiveAssumption, NoCallFields, PointVolume
       DEF CreateAccessPointDoes, Frame, Goes, Ends, StepNames, Types, Requests, Claims,
           ClaimRequests, ClaimVolumes, Retired, SamePoint, HalfDeleted, Creating, Informed
<1>4. ASSUME NEW t \in Calls, GetAccessToken(t) PROVE HalfDeleted(w)' \/ where'[w] = "archived"
  BY <1>4, ArchiveAssumption, NoneAssumption
     DEF GetAccessToken, MayRun, ReturnOK, Unlocked, Types, Requests, Claims, ClaimRequests,
         ClaimVolumes, Retired, SamePoint, HalfDeleted, Creating, Informed, Call, NoCall
<1>5. ASSUME NEW t \in Calls, DeleteVolumeGetPV(t) PROVE HalfDeleted(w)' \/ where'[w] = "archived"
  <2>1. DeleteVolumeGetPVDoes(t)
    BY <1>5, DeleteVolumeGetPVEffect
  <2> QED
    BY <2>1, NoneAssumption, ArchiveAssumption, NoCallFields, PointVolume
       DEF DeleteVolumeGetPVDoes, Frame, Goes, Ends, StepNames, Types, Requests, Claims,
           ClaimRequests, ClaimVolumes, Retired, SamePoint, HalfDeleted, Creating, Informed
<1>6. ASSUME NEW t \in Calls, DeleteVolumeBegin(t) PROVE HalfDeleted(w)' \/ where'[w] = "archived"
  BY <1>6, ArchiveAssumption, NoneAssumption
     DEF DeleteVolumeBegin, FirstDeleteStep, Types, Requests, Claims, ClaimRequests,
         ClaimVolumes, Retired, SamePoint, HalfDeleted, Creating, Informed, Call, NoCall
<1>7. ASSUME NEW t \in Calls, IsVolumeExists(t) PROVE HalfDeleted(w)' \/ where'[w] = "archived"
  <2>1. IsVolumeExistsDoes(t)
    BY <1>7, IsVolumeExistsEffect
  <2> QED
    BY <2>1, NoneAssumption, ArchiveAssumption, NoCallFields, PointVolume
       DEF IsVolumeExistsDoes, Frame, Goes, Ends, StepNames, Types, Requests, Claims,
           ClaimRequests, ClaimVolumes, Retired, SamePoint, HalfDeleted, Creating, Informed
<1>8. ASSUME NEW t \in Calls, MountKodoFSLocally(t) PROVE HalfDeleted(w)' \/ where'[w] = "archived"
  <2>1. MountKodoFSLocallyDoes(t)
    BY <1>8, MountKodoFSLocallyEffect
  <2> QED
    BY <2>1, NoneAssumption, ArchiveAssumption, NoCallFields, PointVolume
       DEF MountKodoFSLocallyDoes, Frame, Goes, Ends, StepNames, Types, Requests, Claims,
           ClaimRequests, ClaimVolumes, Retired, SamePoint, HalfDeleted, Creating, Informed
<1>9. ASSUME NEW t \in Calls, CleanVolume(t) PROVE HalfDeleted(w)' \/ where'[w] = "archived"
  BY <1>9, ArchiveAssumption, NoneAssumption
     DEF CleanVolume, Goto, Types, Requests, Claims, ClaimRequests, ClaimVolumes, Retired,
         SamePoint, HalfDeleted, Creating, Informed, Call, NoCall
<1>10. ASSUME NEW t \in Calls, UmountTemporary(t) PROVE HalfDeleted(w)' \/ where'[w] = "archived"
  <2>1. UmountTemporaryDoes(t)
    BY <1>10, UmountTemporaryEffect
  <2> QED
    BY <2>1, NoneAssumption, ArchiveAssumption, NoCallFields, PointVolume
       DEF UmountTemporaryDoes, Frame, Goes, Ends, StepNames, Types, Requests, Claims,
           ClaimRequests, ClaimVolumes, Retired, SamePoint, HalfDeleted, Creating, Informed
<1>11. ASSUME NEW t \in Calls, RemoveAccessPoint(t) PROVE HalfDeleted(w)' \/ where'[w] = "archived"
  <2>1. RemoveAccessPointDoes(t)
    BY <1>11, RemoveAccessPointEffect
  <2> QED
    BY <2>1, NoneAssumption, ArchiveAssumption, NoCallFields, PointVolume
       DEF RemoveAccessPointDoes, Frame, Goes, Ends, StepNames, Types, Requests, Claims,
           ClaimRequests, ClaimVolumes, Retired, SamePoint, HalfDeleted, Creating, Informed
<1>12. ASSUME NEW t \in Calls, RemoveVolume(t) PROVE HalfDeleted(w)' \/ where'[w] = "archived"
  <2>1. RemoveVolumeDoes(t)
    BY <1>12, RemoveVolumeEffect
  <2> QED
    BY <2>1, NoneAssumption, ArchiveAssumption, NoCallFields, PointVolume
       DEF RemoveVolumeDoes, Frame, Goes, Ends, StepNames, Types, Requests, Claims,
           ClaimRequests, ClaimVolumes, Retired, SamePoint, HalfDeleted, Creating, Informed
<1>13. ASSUME NEW t \in Calls, ArchiveNameExists(t) PROVE HalfDeleted(w)' \/ where'[w] = "archived"
  <2>1. ArchiveNameExistsDoes(t)
    BY <1>13, ArchiveNameExistsEffect
  <2> QED
    BY <2>1, NoneAssumption, ArchiveAssumption, NoCallFields, PointVolume
       DEF ArchiveNameExistsDoes, Frame, Goes, Ends, StepNames, Types, Requests, Claims,
           ClaimRequests, ClaimVolumes, Retired, SamePoint, HalfDeleted, Creating, Informed
<1>14. ASSUME NEW t \in Calls, RenameVolume(t) PROVE HalfDeleted(w)' \/ where'[w] = "archived"
  <2>1. RenameVolumeDoes(t)
    BY <1>14, RenameVolumeEffect
  <2> QED
    BY <2>1, NoneAssumption, ArchiveAssumption, NoCallFields, PointVolume
       DEF RenameVolumeDoes, Frame, Goes, Ends, StepNames, Types, Requests, Claims,
           ClaimRequests, ClaimVolumes, Retired, SamePoint, HalfDeleted, Creating, Informed
<1>15. ASSUME NEW t \in Calls, TemporaryMountDies(t) PROVE HalfDeleted(w)' \/ where'[w] = "archived"
  <2>1. TemporaryMountDiesDoes(t)
    BY <1>15, TemporaryMountDiesEffect
  <2> QED
    BY <2>1, NoneAssumption, ArchiveAssumption, NoCallFields, PointVolume
       DEF TemporaryMountDiesDoes, Frame, Goes, Ends, StepNames, Types, Requests, Claims,
           ClaimRequests, ClaimVolumes, Retired, SamePoint, HalfDeleted, Creating, Informed
<1>16. ASSUME NEW t \in Calls, RemoteCallFails(t) PROVE HalfDeleted(w)' \/ where'[w] = "archived"
  BY <1>16, ArchiveAssumption, NoneAssumption
     DEF RemoteCallFails, ReturnError, Unlocked, Types, Requests, Claims, ClaimRequests,
         ClaimVolumes, Retired, SamePoint, HalfDeleted, Creating, Informed, Call, NoCall
<1>17. ASSUME NEW t \in Calls, Expire(t) PROVE HalfDeleted(w)' \/ where'[w] = "archived"
  <2>1. ExpireDoes(t)
    BY <1>17, ExpireEffect
  <2> QED
    BY <2>1, NoneAssumption, ArchiveAssumption, NoCallFields, PointVolume
       DEF ExpireDoes, Frame, Goes, Ends, StepNames, Types, Requests, Claims, ClaimRequests,
           ClaimVolumes, Retired, SamePoint, HalfDeleted, Creating, Informed
<1>18. ASSUME NEW t \in Calls, SavePV(t) PROVE HalfDeleted(w)' \/ where'[w] = "archived"
  BY <1>18, ArchiveAssumption, NoneAssumption
     DEF SavePV, Types, Requests, Claims, ClaimRequests, ClaimVolumes, Retired, SamePoint,
         HalfDeleted, Creating, Informed, Call, NoCall
<1>19. ASSUME NEW t \in Calls, RemovePV(t) PROVE HalfDeleted(w)' \/ where'[w] = "archived"
  BY <1>19, ArchiveAssumption, NoneAssumption
     DEF RemovePV, Types, Requests, Claims, ClaimRequests, ClaimVolumes, Retired, SamePoint,
         HalfDeleted, Creating, Informed, Call, NoCall
<1>20. ASSUME NEW t \in Calls, DropAnswer(t) PROVE HalfDeleted(w)' \/ where'[w] = "archived"
  BY <1>20, ArchiveAssumption, NoneAssumption
     DEF DropAnswer, Types, Requests, Claims, ClaimRequests, ClaimVolumes, Retired, SamePoint,
         HalfDeleted, Creating, Informed, Call, NoCall
<1>21. ASSUME NEW t \in Calls, NEW c \in Controllers, NEW v \in Volumes, RequestCreate(t, c, v)
      PROVE  HalfDeleted(w)' \/ where'[w] = "archived"
  BY <1>21, ArchiveAssumption, NoneAssumption
     DEF RequestCreate, Request, Types, Requests, Claims, ClaimRequests, ClaimVolumes, Retired,
         SamePoint, HalfDeleted, Creating, Informed, Call, NoCall
<1>22. ASSUME NEW t \in Calls, NEW c \in Controllers, NEW v \in Volumes, RequestDelete(t, c, v)
      PROVE  HalfDeleted(w)' \/ where'[w] = "archived"
  BY <1>22, ArchiveAssumption, NoneAssumption
     DEF RequestDelete, Request, Types, Requests, Claims, ClaimRequests, ClaimVolumes, Retired,
         SamePoint, HalfDeleted, Creating, Informed, Call, NoCall
<1>23. ASSUME NEW c \in Controllers, Crash(c) PROVE HalfDeleted(w)' \/ where'[w] = "archived"
  BY <1>23, ArchiveAssumption, NoneAssumption
     DEF Crash, Types, Requests, Claims, ClaimRequests, ClaimVolumes, Retired, SamePoint,
         HalfDeleted, Creating, Informed, Call, NoCall
<1>24. ASSUME NEW v \in Volumes, ReleaseClaim(v) PROVE HalfDeleted(w)' \/ where'[w] = "archived"
  BY <1>24, ArchiveAssumption, NoneAssumption
     DEF ReleaseClaim, Types, Requests, Claims, ClaimRequests, ClaimVolumes, Retired,
         SamePoint, HalfDeleted, Creating, Informed, Call, NoCall
<1>25. ASSUME NEW v \in Volumes, PatchReclaimPolicy(v) PROVE HalfDeleted(w)' \/ where'[w] = "archived"
  BY <1>25, ArchiveAssumption, NoneAssumption
     DEF PatchReclaimPolicy, Types, Requests, Claims, ClaimRequests, ClaimVolumes, Retired,
         SamePoint, HalfDeleted, Creating, Informed, Call, NoCall
<1>26. ASSUME NEW v \in Volumes, WriteFile(v) PROVE HalfDeleted(w)' \/ where'[w] = "archived"
  BY <1>26, ArchiveAssumption, NoneAssumption
     DEF WriteFile, Types, Requests, Claims, ClaimRequests, ClaimVolumes, Retired, SamePoint,
         HalfDeleted, Creating, Informed, Call, NoCall
<1>27. CASE UNCHANGED vars
  BY <1>27, ArchiveAssumption, NoneAssumption
     DEF vars, Types, Requests, Claims, ClaimRequests, ClaimVolumes, Retired, SamePoint,
         HalfDeleted, Creating, Informed, Call, NoCall
<1> QED
  BY <1>1, <1>2, <1>3, <1>4, <1>5, <1>6, <1>7, <1>8, <1>9, <1>10, <1>11, <1>12, <1>13, <1>14,
     <1>15, <1>16, <1>17, <1>18, <1>19, <1>20, <1>21, <1>22, <1>23, <1>24, <1>25, <1>26, <1>27
     DEF Next, CreateVolume, DeleteVolume, Receive

-----------------------------------------------------------------------------
(***************************************************************************)
(* The theorems                                                            *)
(***************************************************************************)

\* FSInv is an invariant of the KodoFS controller.
THEOREM FSInvariant == Spec => []FSInv
<1>1. Init => FSInv
  <2>1. Init => Flags
    BY ZenonT(60) DEF Init, Flags
  <2>2. Init => Types
    BY ArchiveAssumption DEF Init, Types, Call, NoCall
  <2>3. Init => Requests /\ Numbered
    BY NoneAssumption, ArchiveAssumption
       DEF Init, Requests, Numbered, Informed, NoCall
  <2>4. Init => Owned
    BY NoneAssumption DEF Init, Owned, CallPoints, CachePoints, PVPoints, PointsAfterVolume, NoCall
  <2>5. Init => Claims /\ Retired
    BY NoneAssumption DEF Init, Claims, ClaimVolumes, ClaimPoints, ClaimRequests, OneLive, Retired, SamePoint,
       PointGone, PointFirst, NameFree, PVPointGone, Informed, Creating, NoCall,
       CreateCritical, Points
  <2> QED
    BY <2>1, <2>2, <2>3, <2>4, <2>5 DEF FSInv
<1>2. FSInv /\ [Next]_vars => FSInv'
  BY FlagsStep, TypesStep, RequestsStep, OwnedStep, ClaimsStep, RetiredStep, NumberedStep DEF FSInv
<1> QED
  BY <1>1, <1>2, PTL DEF Spec

\* The variables hold what they are declared to hold, and the loop that looks
\* for a free archive name ends below the bound of the model.
THEOREM TypeCorrect == Spec => []TypeOK
<1>1. FSInv => TypeOK
  <2>1. FSInv => files \in [Volumes -> BOOLEAN]
    BY Zenon DEF FSInv, Flags
  <2>2. FSInv => \A t \in Calls : pc[t] = "rename" => call[t].i < MaxArchive
    BY ArchiveAssumption DEF FSInv, Numbered
  <2> QED
    BY <2>1, <2>2 DEF FSInv, Types, TypeOK
<1> QED
  BY <1>1, FSInvariant, PTL

\* A volume whose PV is bound is there under its own name, and the access point
\* in the PV is live, whatever retries, expired requests and crashes came
\* before.
THEOREM BoundIsUsable == Spec => []BoundVolumeUsable
<1>1. FSInv => BoundVolumeUsable
  <2> SUFFICES ASSUME FSInv, NEW v \in Volumes, claim[v] = "bound"
               PROVE  pv[v] # None /\ where[v] = "live" /\ Usable(v, pv[v])
    BY DEF BoundVolumeUsable
  <2>1. pv[v] \in Points /\ pv[v][1] = v /\ point[pv[v]] # "fresh"
    BY DEF FSInv, Claims, ClaimVolumes, Owned, PVPoints
  <2>2. where[v] = "live" /\ point[pv[v]] # "removed"
    BY <2>1, PointVolume DEF FSInv, Claims, ClaimVolumes, ClaimPoints, Owned, PVPoints, PointsAfterVolume, Types
  <2> QED
    BY <2>1, <2>2, NoneAssumption DEF FSInv, Types, Usable
<1> QED
  BY <1>1, FSInvariant, PTL

\* DeleteVolume reports success, and the PV goes, only when the volume is gone
\* from its name and the access point of the PV is removed; it stays so.
THEOREM DeletedIsGone == Spec => []DeletedLeavesNothing
<1>1. FSInv => DeletedLeavesNothing
  BY DEF FSInv, Claims, ClaimVolumes, Retired, PointFirst, NameFree, DeletedLeavesNothing
<1> QED
  BY <1>1, FSInvariant, PTL

\* Files vanish, and a volume is removed, only by a request that read reclaim
\* policy Delete, and never while the volume is bound.
THEOREM ReclaimsOnlyOnDelete == Spec => ReclaimOnlyOnDelete
<1>1. FSInv /\ [Next]_vars => ReclaimsOnDelete
  BY ReclaimStep DEF FSInv
<1> QED
  BY <1>1, FSInvariant, PTL DEF ReclaimOnlyOnDelete, ReclaimsOnDelete, Spec

\* A volume that has lost its access point but is still there stays so: no later
\* DeleteVolume gets past the mount that needs the access point.
THEOREM HalfDeletedIsStuck == Spec => HalfDeletedStays
<1>1. FSInv /\ [Next]_vars =>
        \A v \in Volumes : HalfDeleted(v) => HalfDeleted(v)' \/ where'[v] = "archived"
  BY HalfDeletedStep DEF FSInv
<1> QED
  BY <1>1, FSInvariant, PTL DEF HalfDeletedStays, Spec
=============================================================================

# TLA+ models of the Qiniu Kubernetes CSI driver

The driver gives Kubernetes volumes on two Qiniu storage services: *Kodo*
(object storage, mounted with rclone) and *KodoFS* (a file system). This
directory holds TLA+ models of its concurrent and failure-prone parts, the TLC
configurations that check them, and TLAPS proofs.

To check a model: `tlc -config KodoController.cfg MCKodoController`; to check
proofs: `tlapm KodoControllerProofs.tla`, and likewise the other `...Proofs`
modules. `PROJECT.json` lists components,
runs, mutants (faulty variants that a property must reject), the source lines of
each definition, findings, hazards and theorems.

## 1. The system

| Part | Source | State | Operations |
|---|---|---|---|
| Kodo controller server | `plugin/kodo_controller_server.go` | `volumes` map, `volumesLock` | CreateVolume, DeleteVolume |
| KodoFS controller server | `plugin/kodofs_controller_server.go` | the same | CreateVolume, DeleteVolume (temporary mount, archive of retained volumes) |
| Kodo / IAM client | `qiniu/kodo.go` | process-wide cache of regions, endpoints, buckets | buckets, IAM users, key pairs, policies, grants |
| Bucket clean-up | `qiniu/kodo.go` (CleanObjects, listObjects, deleteObjects) | channels and goroutines of one call | list, batch, delete |
| KodoFS client | `qiniu/kodofs.go` | none | volumes, access points, tokens |
| Node servers | `plugin/kodo_node_server.go`, `plugin/kodofs_node_server.go` | the host's mount table | publish, unpublish |
| Connector client | `plugin/utils.go` | one connection | mountKodo, mountKodoFS, cleanAfterKodoUmount, mountKodoFSLocally |
| Connector daemon | `connector/main.go`, `connector/utils.go` | goroutines per connection, rclone configuration, cache and log files | init, request data, umount |
| Protocol | `protocol/` | none | command types and command lines |
| Parameters | `plugin/kodo_parameters.go`, `plugin/kodofs_parameters.go` | none | parse storage class, PV attributes and secrets |
| Signing, start-up | `qiniu/auth.go`, `plugin/main.go`, `plugin/driver.go` | none | |

How they interact:

* The external provisioner calls the controller over gRPC with a timeout
  (`k8s/kodo/kodo-provisioner.yaml`: 150 s) and retries. Two replicas of the
  plugin run; the provisioners elect a leader, so requests for one volume can
  reach both processes one after the other while the first still runs.
* The controller calls Kodo, IAM and Kubernetes over HTTP. There is no
  transaction and no undo; the only record of a finished CreateVolume, until the
  PV is saved, is the map in memory.
* The node plugin asks the connector daemon on the host, over a unix socket, to
  run rclone or kodofs. The connector answers with the command's output and its
  exit code. It gives each connection 30 seconds.

What is hard: two processes that do not share a lock; failure between two of
the steps of CreateVolume or DeleteVolume; steps that run with
`context.Background()` after the request has expired; a pipeline of goroutines
in which any one may stop first; unbuffered channels between goroutines that may
be gone; a deadline that races the command; closing a channel others send on.

What makes the parts correct:

* *Controller*: a bound volume is usable; a deleted one leaves no access behind;
  data is destroyed only for a released volume with policy Delete; retries make
  progress.
* *Clean-up*: success means that every object was dealt with; the caller always
  gets an answer.
* *Connector*: what the client is told about the mount is true; the client
  always gets an answer; nothing outlives the session.
* *Node servers*: publish and unpublish are idempotent.
* *Cache*: an entry is never older than its TTL, and one caller's failure is not
  another's.
* *Parameters*: what CreateVolume writes into the PV is what publish reads.

## 2. Modules

| Module | Models | Status |
|---|---|---|
| `KodoController` | CreateVolume, DeleteVolume and their environment | checked, proved |
| `KodoControllerProofs` | theorems about CreateVolume | |
| `KodoControllerDeletionProofs` | theorems about DeleteVolume, on top of the former | |
| `ObjectCleaner` | CleanObjects in detail (one step of `KodoController`) | checked, proved |
| `BucketCleanup` | what CleanObjects promises | `ObjectCleaner` implements it: checked, proved |
| `ObjectCleanerProofs` | theorems about the clean-up and its refinement | |
| `ConnectorSession` | one connection to the connector, both ends | checked, proved |
| `ConnectorSessionProofs` | theorems about a session | |
| `NodeMount` | publish and unpublish, the mount table, the files that sessions share | checked, proved |
| `NodeMountProofs` | theorems about the node | |
| `KodoFSController` | CreateVolume and DeleteVolume of KodoFS, `qiniu/kodofs.go` | checked, proved |
| `KodoFSControllerProofs` | theorems about it | |
| `EndpointCache` | getCacheValueByKey and the look-ups that go through it twice | checked, proved |
| `FreshLookup` | what a cached look-up promises | `EndpointCache` implements it: checked, proved |
| `EndpointCacheProofs` | theorems about the cache and its refinement | |
| `Parameters` | StorageClass and Secret to PV attributes to mount command | checked, proved |
| `ParametersProofs` | theorems about it | |
| `MC...` | instances for TLC | |

### KodoController

A request `t` is at step `pc[t]` with local variables `call[t]` (process, volume
name, context, bucket, key, the reclaim policy it read). `lock[c]` and
`cache[c]` are `volumesLock` and `volumes` of process `c`. `bstate`, `data`,
`users`, `policies` and `grants` are what Kodo and IAM hold; `claim`, `pv` and
`reclaim` what Kubernetes holds.

Every remote call is an action named after the client's method: its guard is
what the service demands (an IAM user name must be unused, a bucket must be
empty to be dropped), its effect what the service does. After it the handler
goes on or, if the answer is lost, returns an error although the work is done.
`RemoteCallFails` is every error path on which the service did nothing. A step
that uses the request's context runs only while the context is live (`MayRun`);
CreateIAMUser and GetIAMUserKeyPair do not. `ReturnError` is the deferred unlock
and the early return.

Abstractions: a bucket name is a PV name and a random suffix that is never drawn
twice; a key pair is known by the attempt that made its user; the attributes of
a volume are its bucket and its key pair. The policy name of a volume is an
injective function of its name, which holds for the names the provisioner makes
(`PolicyNameAssumption`). Removing what is not there may be refused or accepted
by IAM: the model allows both. `CleanObjects` is one step here.

The environment is external: it sends requests, gives up, crashes, saves and
removes PVs, patches the reclaim policy and writes objects whenever a key pair
allows it. The provisioner sends a request for a volume only if its earlier ones
for that volume have been answered or have expired.

### ObjectCleaner

Objects are the numbers of their entries in the listing. One variable per
channel and per goroutine; a send and a receive are steps; a `select` is a
disjunction. The two lister goroutines (HTTP decoder and loop) and their
channels are one stage. `counter` is the WaitGroup of deleteObjects: a goroutine
starts (`Spawn`) before `wg.Add(1)` counts it (`Count`), as in the code, and
`Done` on a counter of zero is the state `main = "panic"`; the same holds of the
forwarder and listObjects' own WaitGroup.

A delete request is the worker's (`WorkerDelete`: an answer or an error) and the
service's: `ServiceDelete` removes the objects of a request one by one, while its
worker waits, after it has given up, and after the process has died. Status 298
counts as an answer although objects are left.

`BucketCleanup` says what DeleteVolume may rely on: success means that the
listing had named all objects, or none of them (a first page that cannot be
decoded), that each object it had named was in a delete request that was answered,
and that nothing of the bucket is touched any more. After a failure requests that
were sent may still be carried out. The mapping takes the bucket's contents, the
objects listed so far (`seen`), those in answered requests (`tried`), and the
status the caller sees.

### ConnectorSession

One connection of a kind (`kodo`, `kodofs`, `umount`). `reader` and `writer` are
the goroutines of handleConn, `handler` is handleCmd, `output` its two
outputReaders, `runner` the goroutine that runs the command. Both channels are
unbuffered, so a send and its receive are one action. `isClosed`, the closed
channels and the contexts are derived from where the goroutines are (`IsClosed`,
`PipesOpen`, `Cancelled`). The command is a process of the host that prints
lines, asks questions (kodofs: the master address and the access token), mounts
and exits, or fails, or hangs. Messages are abstracted to their kind; JSON and
command lines are left out. Looking at `isClosed` and the send that follows are
two steps, which is the race in the code. Killing the command models
`exec.CommandContext`; with systemd-run the unit itself may survive.

### NodeMount

Two pods of one node, each with a target path; a path belongs to the Kodo volume
or to a KodoFS volume (`kodo`). `pc[t]` is the step of a request and of the
session it opens; `mounts[p]` counts the entries of the mount table for `p`,
since a second mount lies on the first. `conf`, `parent`, `cache`, `logDir` and
`logs` are the files that the sessions of a Kodo volume share; `cleaners` are the
sessions of KodoUmountCmd, which go on after NodeUnpublishVolume has answered.
`eof` and `doubtful` record what the exceptions of the properties name.
The inside of a session is abstracted to what `ConnectorSession` shows of it: its
result is true, or an error, or (end of the connection) taken for success. Making
or removing a directory is a step; so is truncating the configuration and writing
it; if another session has removed the file in between, the text goes to the
unlinked one. `isMounted` is TRUE, because the filter in the code skips no entry and a host
always has some mount. kubelet is external: it sends one request for a path at a
time, retries, and forgets what is under way when it restarts.

### KodoFSController

Built like `KodoController`: `pc`, `call`, `lock`, `cache` for the handlers;
`where` (none, live, archived, removed), `archive`, `files` and `point` for the
KodoFS master. An access point is known by its volume and an id that is not drawn
twice; an access token by its access point. DeleteVolume's temporary mount is the
flag `mounted` of the request: it survives a rename, may die
(`TemporaryMountDies`), and goes with every return (`ReturnError`, `ReturnOK`:
the deferred calls). The archive loop is `ArchiveNameExists` and `RenameVolume`.
Whether the master refuses a second volume of one name, or the removal of what is
not there, the code does not tell: the model allows both.

### EndpointCache

Callers ask for *upper* keys (an endpoint of a region, a bucket by name), which
are filled from one *lower* key (the regions, the list of buckets), which alone
costs a request. `cacheMap` is the sync.Map with its deadlines, `flight` the
single-flight group. A value is the time at which the service knew it, so that
its age can be read off; "no such bucket" and "no such region" (nil) are values
like any other, and cached. An answer that does not do (a region whose address is
missing or does not parse) is `ExtractFails`. The waiters of a flight get its error
(the context is that of whoever opened it) and wait as long as it takes. Only requests
take time. `FreshLookup` promises an answer whose age is bounded by the sum of
the two times to live, or an error, and that only if some request failed, or its
answer did not do, while the caller was asking.

### Parameters

A text stands for what it parses to: a number, or `Bad`; 0 is the empty text,
address or mode, the switch "false" and the number zero.
One field stands for all that the code treats alike (named in the module). The
loop over the StorageClass visits the entries in any order, as the range over a
Go map does, and keys that differ in case name one field. The attributes are the
texts CreateVolume formats from the parsed values; publish parses them and looks
into the Secret, by exact name, for what they leave open. `fsType` and
`blockSize` are cut to the numbers their type can hold (`% FsTypeSpan`,
`% BlockSpan`; 2^8 and 2^32 in the code). The administrator writes the
StorageClass entry by entry before the volume is there (`WriteClass`) and edits
fields of the Secret at any time (`EditSecret`). Left out are the bucket, the S3
endpoint and the S3 region, with their fall-backs (`kodo_parameters.go` 83-172),
and the gateway and access token of KodoFS, which CreateVolume always writes.
What the services refuse (a blank key or region, an empty address) is external
(`Accepted`).

## 3. Runs

| Run | Instance | States | Shows |
|---|---|---|---|
| `kodo_controller` | 2 processes, 3 requests, 1 volume, 2 bucket names, all faults, symmetry | 211 000 | safety of the controller |
| `kodo_controller_liveness` | 1 process, 2 requests, 2 volumes, 2 bucket names | 28 000 | provisioning and reclaim finish |
| `object_cleaner` | 4 objects, pages of 2, 2 workers, batches of 2, channels of 1, all faults | 55 000 | nothing is lost, the promise is kept, the caller returns |
| `object_cleaner_stuck` | 5 objects, batches of 1, failing deletes | | finding 1 |
| `connector_session` | all kinds, 2 questions, 1 line, all faults | 136 000 | truth, clean-up and end of a session |
| `connector_session_nil` | mounts, no faults | | finding 2 |
| `kodofs_controller` | 2 processes, 3 requests, 1 volume, 2 access points, 2 archive numbers, all faults, symmetry | 258 000 | safety of the KodoFS controller |
| `kodofs_archive` | 1 process, 1 request, no faults | | finding 3 |
| `node_mount` | 2 paths, 2 requests, 2 mounts on a path, 1 restart of kubelet, all faults, symmetry | 2 377 000 | what kubelet is told is true; shared files |
| `node_unpublish` | 1 path, 1 restart of kubelet, no other fault | | finding 4 |
| `endpoint_cache` | 3 callers, 2 upper keys, times to live 1 and 2, 3 instants | 424 000 | bounded age, no needless request, every call returns |
| `parameters` | both drivers, StorageClasses of 2 entries, 2 edits of the Secret, spans 2 and 4 | 725 000 | a volume is mounted as it was created |

**kodo_controller.** `BoundVolumeUsable`, and `CacheUsable` within `IInv`: what
CreateVolume hands out works. `OneCreator`: it is the uniqueness of the IAM user
name, not the lock, that keeps processes apart. `NoWriterWhileCleaning` and
`DeletedMeansRevoked`: deletion closes access first and leaves none, even if an
expired CreateVolume is still running. `ReclaimOnlyOnDelete`: when data may
vanish. `OrphanUserBlocksVolume` states a limitation: once an attempt has left an
IAM user and no record of it, no retry ever provisions the volume, because
CreateIAMUser refuses the name. Deadlock is checked: some step is always
possible. Two processes are what the deployment has; three requests let two
race while one expired one lingers; two bucket names let an attempt fail and
be repeated. Volumes interact only through the lock and the names of policies,
so one volume is enough here, and two are used in the liveness run.

**kodo_controller_liveness.** Failures are limited to those before an attempt
has changed anything: the others can make a volume unprovisionable
(`OrphanUserBlocksVolume`). Fairness: goroutines run; Go's mutex hands over to
a waiter that has starved (so strong fairness for taking the lock); the
provisioner retries; a call that is retried for ever does not fail every time.

**object_cleaner.** Two workers, so that one can fail and one go on; channels so
short that each of them fills up; two pages, so that the marker matters. Weak
fairness for each goroutine; strong fairness of `NextEntry` says that the
service does not cut page after page before its first line.
`CleanupRefined` and `Terminates` name their exceptions: a first page that
cannot be decoded is taken for an empty bucket; the caller returns unless the
context expires, a WaitGroup panics, or all workers fail. No fairness is assumed
of `ServiceDelete`.
`NothingLostBeforeFailure`: a name taken from the listing is in some stage or
answered. `PanicOnlyUncounted`: the counter can go below zero only in the window
between a `go` statement and the Add that follows it.

**connector_session.** Weak fairness for every goroutine, for the client, for
the clock and for the death of a killed process, none for the command.
`ReportedMountIsReal`: a Terminate with code 0 is true. `AnswersMatchQuestions`:
the token is never entered as the address. `PanicOnlyFromOutput`: in a session
that is in time only a reader of the command's output can send on the closed
channel. `ConfigRemoved`: the file with the secret key goes. `ClientReturns`:
with one exception the client is answered; the exception (an answer that reaches
the reader after handleCmd has gone, while Terminate is lost to the deadline) is
real and leaves the client waiting for ever. `CleanupDone`: a clean-up that was
read is done.

**kodofs_controller.** `BoundVolumeUsable` as above: a second attempt may leave a
second access point, but the one in the PV stays. `DeletedLeavesNothing`: success
of DeleteVolume means that the volume is gone or archived and its access point
removed. (The path on which a failed umount is forgiven would break this; it is
dead, because `isMounted` is always true.) `ReclaimOnlyOnDelete`: files vanish
only by a request that read the policy Delete; it may have been changed since.
`HalfDeletedStays` states a limitation: when the access point was removed and the
volume was not, no retry finishes, because it has to mount the volume with the
token of the access point that is gone. Two access points let an attempt fail and
be repeated; the second archive number is the one on which the loop fails.

**node_mount.** `PublishedMeansMounted`: the sessions of one volume share a
configuration file, and the first to end removes the one the other's rclone is
about to read; that makes mounts fail, but never makes a failed one look good.
`UnpublishedMeansUnmounted`, `CacheInUseKept`: an unpublished path is free and
the clean-up after one pod leaves the caches of the others. The exceptions are
real: a second publish after a restart of kubelet mounts on top of the first, and
an unreadable mount table counts as "not mounted". `SecretFileRemoved`: the file
with the secret key outlives all sessions only if one of them ended before it had
run its command to the end, which the code does not clean up after. Two paths
and two requests are what sharing needs; a third path adds no new kind of step.
Deadlock is checked.

**node_unpublish.** Fairness: handlers, sessions and clean-ups run; pods are
deleted; kubelet sends what it wants again (strong fairness, since a request of
the same path may be under way in between).

**endpoint_cache.** `LookupRefined` is the refinement of `FreshLookup`; the times
to live differ so that each level expires while the other is valid.
`FetchOnlyWhenStale`: the second look into the map, inside the flight, closes the
gap between the first look and the flight. `CallsReturn`: as long as the requests
end, every call returns: nested flights never wait for each other. That they end
is its premise and not a fairness assumption: look-ups run with
`context.Background()` (`kodo_parameters.go` 134, 150, 161) on an `http.Client`
without timeout (`kodo.go` 54), so a request may hang, and everybody who waits in
its flight hangs with it. Weak fairness is assumed of each caller's own steps
only: goroutines run. Three callers: one
leads the lower flight, one waits in it as leader of the other upper key, one
waits for that.

**parameters.** `RoundTrip`: the mount uses the values the volume was created
with, through formatting, cutting, parsing and an edited Secret. `ClassWins`: a
field the StorageClass has an entry for is mounted with the value of that entry,
whatever Secret and defaults say and in any order of the map, also when the value
is `false`, 0 or an empty address; of two spellings of one key either may win.
Blank texts and block sizes that are cut to zero say nothing, and the key of a
Kodo volume is that of its IAM user. `CreatedVolumeParses`: what was created can be
published and deleted. Each property names the fields a volume may be created
without. Two entries are enough for a clash and for two fields that depend on
each other, two edits for one before and one after the volume is created; spans of
2 and 4 (1 and 2 bits) put the largest number, the first that is cut to zero and a
default between them within reach.

The models of a single call or session may stop, so `object_cleaner`,
`connector_session`, `parameters` and the controller's liveness run do not check
for deadlock.

### Findings

1. `CleanObjects` can hang for ever, with `volumesLock` held. Every worker ends
   at its first error; when all have ended and the channel of batches is full,
   the batcher waits in a send that does not watch the context. With the code's
   numbers this takes about two thousand objects and ten failing requests.
2. `mountKodo` and `mountKodoFS` take the end of the connection for success.
   When the deadline of 30 s passes before the exit code was sent (in the run,
   before a command was started), NodePublishVolume reports that the volume is
   mounted.
3. The loop that archives a retained KodoFS volume has no exit on success: having
   renamed the volume it goes on with the next number, fails to rename what no
   longer has its old name, and DeleteVolume returns an error for a deletion it has
   done. Only a request whose PV is patched from Delete to Retain before the handler
   reads it gets there. It happens once: under Retain no request is sent, and after
   a patch back to Delete the next one finds no volume of the name and succeeds.
4. `isMounted` asks mountinfo to skip no entry, so it is true whenever anything is
   mounted. A NodeUnpublishVolume that is repeated (the first answer was lost)
   runs umount on a path that is not mounted, fails, and fails for ever.

Met while modelling `Parameters`, without a run of its own: `docs/private-cloud.md`
line 40 says that `s3forcePathStyle` is `true` when it is not configured;
`MountCommand` (`plugin/utils.go:315`) leaves it false.

## 4. Proofs

The theorems hold for all values of the constants that satisfy the assumptions
named in the modules: any number of processes, requests, volumes, paths, objects,
workers or callers, and any set of faults. Each proof module has an inductive
invariant, a conjunction of named parts, and lemmas that say for each action what
it preserves; TLC checked each invariant on the instance of the module's run
before it was proved.

| Module | Theorem | States |
|---|---|---|
| `KodoControllerProofs` | `TypeCorrect` | `TypeOK` |
| | `BoundVolumesAreUsable` | `BoundVolumeUsable` (and `CacheUsable`) |
| | `OneCreatorAtATime` | `OneCreator` |
| `KodoControllerDeletionProofs` | `EverythingRecordedIsUsable` | `IInv` |
| | `NoWriters` | `NoWriterWhileCleaning` |
| | `DeletionRevokes` | `DeletedMeansRevoked` |
| | `ReclaimsOnlyOnDelete` | `ReclaimOnlyOnDelete` |
| | `OrphanUsersBlock` | `OrphanUserBlocksVolume` |
| `ObjectCleanerProofs` | `TypeCorrect` | `TypeOK` |
| | `NothingIsLost` | `NothingLostBeforeFailure` |
| | `PanicsAreEarly` | `PanicOnlyUncounted` |
| | `CleanupImplemented` | `CleanupRefined` (`ObjectCleaner` implements `BucketCleanup`) |
| `EndpointCacheProofs` | `TypeCorrect` | `TypeOK` |
| | `FetchesAreNeeded` | `FetchOnlyWhenStale` |
| | `LookupImplemented` | `LookupRefined` (`EndpointCache` implements `FreshLookup`) |
| `ConnectorSessionProofs` | `TypeCorrect` | `TypeOK` |
| | `ReportsAreReal` | `ReportedMountIsReal` |
| | `AnswersMatch` | `AnswersMatchQuestions` |
| | `PanicsAreFromOutput` | `PanicOnlyFromOutput` |
| | `KeysAreGone` | the safety half of `ConfigRemoved` |
| `NodeMountProofs` | `TypeCorrect` | `TypeOK` |
| | `PublishedIsMounted` | `PublishedMeansMounted` |
| | `UnpublishedIsUnmounted` | `UnpublishedMeansUnmounted` |
| | `CacheIsKept` | `CacheInUseKept` |
| | `KeyFileIsRemoved` | `SecretFileRemoved` |
| `KodoFSControllerProofs` | `TypeCorrect` | `TypeOK` |
| | `BoundIsUsable` | `BoundVolumeUsable` |
| | `DeletedIsGone` | `DeletedLeavesNothing` |
| | `ReclaimsOnlyOnDelete` | `ReclaimOnlyOnDelete` |
| | `HalfDeletedIsStuck` | `HalfDeletedStays` |
| `ParametersProofs` | `TypeCorrect` | `TypeOK` |
| | `MountsAsCreated` | `RoundTrip` |
| | `TheClassWins` | `ClassWins` |
| | `CreatedIsPublished` | `CreatedVolumeParses` |

Beside these, the theorems `CacheInvariant`, `CleanerInvariant`,
`SessionInvariant`, `NodeInvariant`, `FSInvariant` and `ParamInvariant` state the
inductive invariants themselves.

**KodoControllerProofs** assumes `PolicyNameAssumption` and `NoneAssumption`.
`BoundVolumeUsable` is not inductive: it says nothing about the answer that will
become the PV. The invariant `IInv` adds `AttemptProgress` (what an attempt has
obtained so far, as long as nothing of the volume may be undone),
`CacheUsable`, `OwnBuckets` (each bucket belongs to the volume it is named
after) and `DeleteOnlyReleased` (DeleteVolume runs only for released volumes).
The argument: a volume that is wanted or bound is *early*; no DeleteVolume runs
for it (`DeleteOnlyReleased`), a DeleteVolume of another volume touches neither
its bucket (`OwnBuckets`) nor its user and policy (injective names), and
CreateVolume takes nothing away; so what the services hold for an early volume
stays (`ServiceStable`), and usable volumes stay usable (`UsableStable`). A
volume becomes usable in the grant, which `AttemptProgress` describes, and the
PV copies it. TLC checks `IInv` as an invariant of `kodo_controller`.
`OneCreator` follows since a second attempt would need `users[v] = None`, while
the first has made the user (`AttemptProgress`).

**KodoControllerDeletionProofs** has the same assumptions. An attempt to create
the volume may outlive it, in another process, so nothing that locks can help.
`DInv` adds to `IInv` what does: at most one request for a volume is live
(`OneLive`), a live CreateVolume is for a wanted claim and a live DeleteVolume for
a released one with the bucket of its PV (`LiveCreator`, `LiveDeleter`). Policies
and grants are only made under a live context, so what a DeleteVolume has undone
stays undone (`Undone`), and a policy names only buckets of its own volume
(`PolicyOwner`). `ReadPolicy` carries the reclaim policy to the step that
destroys.

**ObjectCleanerProofs** assumes `SizeAssumption` and `FaultAssumption`.
`CleanerInv` counts the goroutines against the WaitGroup and their errors against
the goroutines (`Counting`, which is why `errorsChan` never overflows), says how
far the caller is (`Phases`), that entries keep the order of the listing in and
between the channels (`Order`), that a stage that ended without an error left
nothing behind it (`Ends`) and that every entry taken is on its way or answered as
long as nothing was dropped (`Flow`). Success of the caller means that all
goroutines have finished without an error; by `Ends` each stage is then empty and
the listing had got to its end or to nothing, by `Flow` everything listed was
answered, and the step maps to `Succeed` of `BucketCleanup`. No request is then
left for the service to carry out (`NothingPending`).

**EndpointCacheProofs** assumes `CacheAssumption`. `CacheInv` adds to the types
who owns a flight (`FlightOwned`), how old the entries of each level and the
values on their way to a caller can be (`EntriesFresh`, `HandedFresh`: the lower
level adds its time to live to the age that the upper one is stored with), and
that an error on its way excuses everybody who asks (`FailureExcuses`). The
refinement maps each return to the abstract answer or failure and everything else
to a stutter or to the clock.

**ConnectorSessionProofs** assumes `SessionAssumption`. A question and its answer
pass through seven places (stdout, an outputReader, the writer, the socket and
back through socket, reader and stdin). `Questions`, `Exclusive`, `Unique` and
`OnlyWhenAsked` say that at most one place holds one, and that it belongs to the
question the command waits for; this is what `AnswersMatch` needs. `Flow` counts
what is under way and gives the bounds of `TypeOK`; `Results` follows the exit
code to the client; `Orderly` says when the reader and the handler may have ended
in an undisturbed mountKodo session.

**NodeMountProofs** assumes `NodeAssumption`. What kubelet was told rests on who
may still change the mount table. `Asked`: kubelet waits for at most one request
for a path, and that one does what kubelet wants there. `Told`: a session that ran
its command to the end has mounted the path, and it stays so until kubelet is done
with it. `Once`: a path that is not *doubtful* is mounted at most once in its life,
by the one request for it or by the process it left behind. `Done`: a path kubelet
is done with is quiet: neither mounted nor about to be. `Kept` and `KeyHeld` are
the same for the cache directory and for the file with the key.

**KodoFSControllerProofs** assumes `ArchiveAssumption` and `NoneAssumption`. The
former, `MaxArchive >= 2`, is no restriction: `Numbered` proves that a volume is
archived once, as number 0, and that the loop never gets past 1, so that the bound
hides no behaviour. `Owned` says whose an access point is, `Claims` which requests
there can be for a claim in each of its states, `Retired` that all deletions of a
volume are about the access point of its PV and that it goes before the volume
does. An operator `...Does(t)` with a lemma of its own gives the effect of each
action, and the parts of the invariant are proved from these effects
(`LocalAction` groups the steps that change only the request). The lock of a
process plays no part in the argument.

**ParametersProofs** assumes `WidthAssumption` (the spans are positive and the
default block size fits) and `MarkAssumption` (`Nil` and `Bad` are not records of
parameters). Lemmas about one field come first, by the type of the field: a text
that parses means a value of the type (`TextValue`), a value that is formatted is
parsed to itself, but the empty mode to "off" (`Reparse`), so the attributes are
read back as they were written (`ReadBack`). `ParamInv` says that the attributes
are those of the parameters the volume was created with, which have what a volume
is not created without (`Recorded`, `Settled`); that the last mount is what publish
reads now (`Current`); and from which entry each field was taken while the loop
runs, in any order, and afterwards (`Scanned`, `Honoured`). `RoundTrip` alone is
not inductive: it does not say that a field that is not open stays so when it is
read back, which is what keeps the Secret out. Nor is `ClassWins`: `Honoured` says
of the parameters the volume was created with that each field with an entry has
the value of one of its entries, or that one of them left open what the Secret or
the default completes, which a blank entry alone can do (`OpenIsBlank`).

Only model-checked:

* liveness, which is out of the prover's reach: `Provisioned`, `Reclaimed`,
  `Terminates`, `ClientReturns`, `CleanupDone`, `CallsReturn`, and that
  `ConfigRemoved` happens;
* what the findings refute.

## 5. Plan

All components whose state matters are modelled, every safety invariant and action
property that a passing run checks is proved, and so are both refinements. What is
left is to connect the models: `CleanObjects` is one step of `KodoController`, and
`BucketCleanup` says what that step may rely on; a session is abstracted in
`NodeMount` to what `ConnectorSession` shows of it. These two interfaces are argued
in the text above, not proved. The modules declare no RECURSIVE operator.

## 6. Not modelled

Request signing (`qiniu/auth.go`) and the user agent are stateless string
building: there is nothing to interleave, and abstracted to tokens they would say
nothing. Start-up of plugin and connector (flags, directories, log rotation, the
rclone version) runs once before any request. Health checks and the default
answers of csicommon keep no state; stage and unstage do nothing and report success. The encoding of requests and answers, URLs
and command lines are abstracted to what they say. Statically provisioned volumes
take the same handlers; the look-ups by which publish completes their parameters
(the bucket by name, the endpoint by region) are those of `EndpointCache`, and
`Parameters` covers volumes that CreateVolume made.

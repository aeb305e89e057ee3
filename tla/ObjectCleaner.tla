---------------------------- MODULE ObjectCleaner ----------------------------
(***************************************************************************)
(* KodoClient.CleanObjects (qiniu/kodo.go): emptying a bucket.             *)
(*                                                                         *)
(*   lister --listed--> forwarder --names--> batcher --batches--> workers  *)
(*                                                                         *)
(* The lister reads the pages of the listing, the forwarder passes object  *)
(* names on, the batcher groups them and the workers delete them, each in  *)
(* a goroutine of its own; the channels are bounded.  The caller waits for *)
(* batcher and workers on one WaitGroup, for the forwarder on another, and *)
(* returns the first error it finds.  Objects are numbered in the order in *)
(* which they are listed; markers survive deletions, so a listing goes on  *)
(* where the last one stopped.                                             *)
(***************************************************************************)
EXTENDS Naturals, Sequences, FiniteSets

CONSTANTS
    N,         \* objects in the bucket
    PageSize,  \* entries the service puts on a page
    ListCap,   \* capacity of the lister's channel (1024 in the code)
    NameCap,   \* capacity of the forwarder's channel (10)
    W,         \* WORKER_COUNT (10), also the capacity of the batch channel
    MaxBatch,  \* MAX_BATCH_SIZE (100)
    Faults     \* failures that may happen

ASSUME SizeAssumption ==
    /\ N \in Nat
    /\ {PageSize, ListCap, NameCap, W, MaxBatch} \subseteq Nat \ {0}

FaultKinds ==
    {"lookup",   \* the bucket or an endpoint is not found
     "request",  \* a list request fails
     "cut",      \* a page ends in a line that cannot be decoded
     "batch",    \* a delete request fails
     "298",      \* a delete request succeeds for some objects only
     "expire"}   \* the context of DeleteVolume is cancelled

ASSUME FaultAssumption == Faults \subseteq FaultKinds

Objects == 1..N
Workers == 1..W
Error   == 0

VARIABLES
    expired,   \* ctx.Done() is closed
    bucket,    \* the objects that are left
    main,      \* the caller: CleanObjects and deleteObjects
    spawned,   \* goroutines of deleteObjects started: workers 1..W, then the batcher
    counter,   \* the counter of deleteObjects' WaitGroup
    lister,    \* the lister's next step
    pos,       \* entries the lister has taken
    pageEnd,   \* the last entry of the current page
    listed,    \* channel listedObjectResults
    forwarder, \* the forwarder's next step
    held,      \* the name the forwarder is sending
    listError, \* errorChan of CleanObjects holds an error
    names,     \* channel listedObjectNamesChan
    batcher,   \* the batcher's next step
    batch,     \* objectNames, the batch being filled
    batches,   \* channel batchDeleteObjectsChan
    worker,    \* worker[i]: its next step
    work,      \* work[i]: the batch it asks the service to delete, or gave up
    errors,    \* number of errors in errorsChan
    answered   \* history: objects in delete requests that were answered 200 or 298

listing == <<lister, pos, pageEnd>>
vars == <<expired, bucket, main, spawned, counter, lister, pos, pageEnd, listed, forwarder,
          held, listError, names, batcher, batch, batches, worker, work, errors, answered>>

Returned == {"ok", "failed"}

\* Everything is of its type, and no channel holds more than its capacity:
\* in particular errorsChan, made for one error of each goroutine.
TypeOK ==
    /\ expired \in BOOLEAN
    /\ bucket \subseteq Objects
    /\ main \in {"start", "add", "delete", "spawn", "count", "wait", "waitForwarder", "panic"}
                  \cup Returned
    /\ spawned \in 0..W + 1 /\ counter \in 0..spawned
    /\ lister \in {"off", "request", "page", "emit", "error", "done"}
    /\ pos \in 0..N /\ pageEnd \in 0..N
    /\ listed \in Seq(Objects \cup {Error}) /\ Len(listed) <= ListCap
    /\ forwarder \in {"off", "receive", "send", "done"}
    /\ held \in 0..N
    /\ listError \in BOOLEAN
    /\ names \in Seq(Objects) /\ Len(names) <= NameCap
    /\ batcher \in {"receive", "send", "flush", "done"}
    /\ batch \subseteq Objects /\ Cardinality(batch) <= MaxBatch
    /\ batches \in Seq(SUBSET Objects) /\ Len(batches) <= W
    /\ worker \in [Workers -> {"receive", "delete", "done"}]
    /\ work \in [Workers -> SUBSET Objects]
    /\ errors \in 0..W + 1
    /\ answered \subseteq Objects

Init ==
    /\ expired = FALSE
    /\ bucket = Objects
    /\ main = "start"
    /\ spawned = 0 /\ counter = 0
    /\ lister = "off" /\ pos = 0 /\ pageEnd = 0
    /\ listed = <<>>
    /\ forwarder = "off" /\ held = Error
    /\ listError = FALSE
    /\ names = <<>>
    /\ batcher = "receive" /\ batch = {}
    /\ batches = <<>>
    /\ worker = [i \in Workers |-> "receive"]
    /\ work = [i \in Workers |-> {}]
    /\ errors = 0
    /\ answered = {}

-----------------------------------------------------------------------------
(* The caller *)

\* listObjects finds the bucket and starts the lister; CleanObjects starts
\* the forwarder.
Start ==
    /\ main = "start"
    /\ \/ main' = "add" /\ lister' = "request" /\ forwarder' = "receive"
       \/ "lookup" \in Faults /\ main' = "failed" /\ UNCHANGED <<lister, forwarder>>
    /\ UNCHANGED <<expired, bucket, spawned, counter, pos, pageEnd, listed, held, listError,
                   names, batcher, batch, batches, worker, work, errors, answered>>

\* wg.Add(1) for the forwarder that already runs.
AddForwarder ==
    /\ main = "add"
    /\ main' = "delete"
    /\ UNCHANGED <<expired, bucket, spawned, counter, listing, listed, forwarder, held, listError,
                   names, batcher, batch, batches, worker, work, errors, answered>>

\* deleteObjects finds the bucket once more; if that fails, CleanObjects
\* returns and nobody reads the forwarder's channel.
DeleteObjects ==
    /\ main = "delete"
    /\ \/ main' = "spawn"
       \/ "lookup" \in Faults /\ main' = "failed"
    /\ UNCHANGED <<expired, bucket, spawned, counter, listing, listed, forwarder, held, listError,
                   names, batcher, batch, batches, worker, work, errors, answered>>

\* go func ...: the goroutine runs before it is counted.
Spawn ==
    /\ main = "spawn"
    /\ spawned' = spawned + 1
    /\ main' = "count"
    /\ UNCHANGED <<expired, bucket, counter, listing, listed, forwarder, held, listError,
                   names, batcher, batch, batches, worker, work, errors, answered>>

\* Faulty: the batcher, started last, is not counted.
CountWorkersOnly ==
    /\ main = "count"
    /\ counter' = IF spawned <= W THEN counter + 1 ELSE counter
    /\ main' = IF spawned = W + 1 THEN "wait" ELSE "spawn"
    /\ UNCHANGED <<expired, bucket, spawned, listing, listed, forwarder, held, listError,
                   names, batcher, batch, batches, worker, work, errors, answered>>

\* wg.Add(1), after the go statement.
Count ==
    /\ main = "count"
    /\ counter' = counter + 1
    /\ main' = IF spawned = W + 1 THEN "wait" ELSE "spawn"
    /\ UNCHANGED <<expired, bucket, spawned, listing, listed, forwarder, held, listError,
                   names, batcher, batch, batches, worker, work, errors, answered>>

\* wg.Wait() of deleteObjects, then the first error if there is one.
Wait ==
    /\ main = "wait"
    /\ counter = 0
    /\ main' = IF errors > 0 THEN "failed" ELSE "waitForwarder"
    /\ UNCHANGED <<expired, bucket, spawned, counter, listing, listed, forwarder, held, listError,
                   names, batcher, batch, batches, worker, work, errors, answered>>

\* wg.Wait() of CleanObjects, then the listing's error if there is one.
WaitForwarder ==
    /\ main = "waitForwarder"
    /\ forwarder = "done"
    /\ main' = IF listError THEN "failed" ELSE "ok"
    /\ UNCHANGED <<expired, bucket, spawned, counter, listing, listed, forwarder, held, listError,
                   names, batcher, batch, batches, worker, work, errors, answered>>

\* A goroutine's deferred wg.Done(), which panics when the counter is zero.
Done ==
    IF counter > 0 THEN counter' = counter - 1 /\ UNCHANGED main
                   ELSE main' = "panic" /\ UNCHANGED counter

\* The forwarder's, on the WaitGroup of CleanObjects, which counts it alone.
ForwarderDone == main' = IF main = "add" THEN "panic" ELSE main

Running == main # "panic"

-----------------------------------------------------------------------------
(* The lister *)

listRest == <<expired, bucket, main, spawned, counter, forwarder, held, listError, names, batcher,
              batch, batches, worker, work, errors, answered>>

SendListObjectsRequest ==
    /\ Running
    /\ lister = "request"
    /\ \/ /\ ~ expired
          /\ pageEnd' = IF pos + PageSize < N THEN pos + PageSize ELSE N
          /\ lister' = "page"
       \/ /\ expired \/ "request" \in Faults
          /\ lister' = "error" /\ UNCHANGED pageEnd
    /\ UNCHANGED <<pos, listed, listRest>>

\* The next line of the page.
NextEntry ==
    /\ Running
    /\ lister = "page"
    /\ pos < pageEnd
    /\ pos' = pos + 1
    /\ lister' = "emit"
    /\ UNCHANGED <<pageEnd, listed, listRest>>

\* The page ends, or is cut short by a line that cannot be decoded (which is
\* only logged) or by the context.  The marker is that of the last line read:
\* empty at the end of the listing, and as long as nothing has been read.
EndOfPage ==
    /\ Running
    /\ lister = "page"
    /\ pos = pageEnd \/ expired \/ "cut" \in Faults
    /\ lister' = IF pos \in {0, N} THEN "done" ELSE "request"
    /\ UNCHANGED <<pos, pageEnd, listed, listRest>>

EmitEntry ==
    /\ Running
    /\ lister = "emit"
    /\ \/ /\ Len(listed) < ListCap
          /\ listed' = Append(listed, pos)
          /\ lister' = "page"
       \/ expired /\ lister' = "error" /\ UNCHANGED listed
    /\ UNCHANGED <<pos, pageEnd, listRest>>

EmitError ==
    /\ Running
    /\ lister = "error"
    /\ Len(listed) < ListCap
    /\ listed' = Append(listed, Error)
    /\ lister' = "done"
    /\ UNCHANGED <<pos, pageEnd, listRest>>

Lister == SendListObjectsRequest \/ NextEntry \/ EndOfPage \/ EmitEntry \/ EmitError

-----------------------------------------------------------------------------
(* The forwarder; when it is done, names and errorChan are closed *)

forwardRest == <<expired, bucket, spawned, counter, listing, batcher, batch, batches, worker,
                 work, errors, answered>>

ForwardReceive ==
    /\ Running
    /\ forwarder = "receive"
    /\ \/ /\ listed # <<>>
          /\ listed' = Tail(listed)
          /\ IF Head(listed) = Error
                THEN /\ listError' = TRUE
                     /\ forwarder' = "done" /\ ForwarderDone /\ UNCHANGED held
                ELSE /\ forwarder' = "send" /\ held' = Head(listed)
                     /\ UNCHANGED <<main, listError>>
       \/ /\ listed = <<>> /\ lister = "done"
          /\ forwarder' = "done" /\ ForwarderDone
          /\ UNCHANGED <<listed, held, listError>>
    /\ UNCHANGED <<names, forwardRest>>

\* No select here: it waits until there is room, whatever happens.
ForwardSend ==
    /\ Running
    /\ forwarder = "send"
    /\ Len(names) < NameCap
    /\ names' = Append(names, held)
    /\ forwarder' = "receive" /\ held' = Error
    /\ UNCHANGED <<main, listed, listError, forwardRest>>

Forwarder == ForwardReceive \/ ForwardSend

-----------------------------------------------------------------------------
(* The batcher; when it is done, batches is closed *)

batchRest == <<expired, bucket, spawned, listing, listed, forwarder, held, listError,
               worker, work, answered>>

BatcherRuns == Running /\ spawned = W + 1

\* Faulty: what was gathered last is not sent.
BatchReceiveForgetful ==
    /\ BatcherRuns
    /\ batcher = "receive"
    /\ \/ /\ names # <<>>
          /\ names' = Tail(names)
          /\ batch' = batch \cup {Head(names)}
          /\ batcher' = IF Cardinality(batch') >= MaxBatch THEN "send" ELSE "receive"
          /\ UNCHANGED <<main, counter, errors>>
       \/ /\ names = <<>> /\ forwarder = "done"
          /\ batcher' = "done" /\ batch' = {} /\ Done
          /\ UNCHANGED <<names, errors>>
    /\ UNCHANGED <<batches, batchRest>>

\* select: the context, or the next name.
BatchReceive ==
    /\ BatcherRuns
    /\ batcher = "receive"
    /\ \/ /\ expired
          /\ errors' = errors + 1
          /\ batcher' = "done" /\ Done
          /\ UNCHANGED <<names, batch>>
       \/ /\ names # <<>>
          /\ names' = Tail(names)
          /\ batch' = batch \cup {Head(names)}
          /\ batcher' = IF Cardinality(batch') >= MaxBatch THEN "send" ELSE "receive"
          /\ UNCHANGED <<main, counter, errors>>
       \/ /\ names = <<>> /\ forwarder = "done"
          /\ IF batch = {}
                THEN batcher' = "done" /\ Done
                ELSE batcher' = "flush" /\ UNCHANGED <<main, counter>>
          /\ UNCHANGED <<names, batch, errors>>
    /\ UNCHANGED <<batches, batchRest>>

\* No select here either: with all workers gone and the channel full it waits
\* for ever.
BatchSend ==
    /\ BatcherRuns
    /\ batcher \in {"send", "flush"}
    /\ Len(batches) < W
    /\ batches' = Append(batches, batch)
    /\ batch' = {}
    /\ IF batcher = "send"
          THEN batcher' = "receive" /\ UNCHANGED <<main, counter>>
          ELSE batcher' = "done" /\ Done
    /\ UNCHANGED <<names, errors, batchRest>>

Batcher == BatchReceive \/ BatchSend

-----------------------------------------------------------------------------
(* The workers *)

workRest == <<expired, spawned, listing, listed, forwarder, held, listError, names,
              batcher, batch>>

WorkerRuns(i) == Running /\ i <= spawned

WorkerExit(i) ==
    /\ worker' = [worker EXCEPT ![i] = "done"]
    /\ Done

\* Faulty: the worker does not notice that the channel is closed.
WorkerReceiveUnchecked(i) ==
    /\ WorkerRuns(i)
    /\ worker[i] = "receive"
    /\ \/ /\ expired
          /\ errors' = errors + 1
          /\ WorkerExit(i)
          /\ UNCHANGED <<batches, work>>
       \/ /\ batches # <<>>
          /\ batches' = Tail(batches)
          /\ work' = [work EXCEPT ![i] = Head(batches)]
          /\ worker' = [worker EXCEPT ![i] = "delete"]
          /\ UNCHANGED <<main, counter, errors>>
    /\ UNCHANGED <<bucket, answered, workRest>>

\* select: the context, or the next batch.
WorkerReceive(i) ==
    /\ WorkerRuns(i)
    /\ worker[i] = "receive"
    /\ \/ /\ expired
          /\ errors' = errors + 1
          /\ WorkerExit(i)
          /\ UNCHANGED <<batches, work>>
       \/ /\ batches # <<>>
          /\ batches' = Tail(batches)
          /\ work' = [work EXCEPT ![i] = Head(batches)]
          /\ worker' = [worker EXCEPT ![i] = "delete"]
          /\ UNCHANGED <<main, counter, errors>>
       \/ /\ batches = <<>> /\ batcher = "done"
          /\ WorkerExit(i)
          /\ UNCHANGED <<batches, work, errors>>
    /\ UNCHANGED <<bucket, answered, workRest>>

\* Faulty: a worker retries its batch after an error, and reports every error.
WorkerDeleteRetrying(i) ==
    /\ WorkerRuns(i)
    /\ worker[i] = "delete"
    /\ \/ /\ bucket' = bucket \ work[i] /\ answered' = answered \cup work[i]
          /\ worker' = [worker EXCEPT ![i] = "receive"]
          /\ work' = [work EXCEPT ![i] = {}]
          /\ UNCHANGED errors
       \/ /\ "batch" \in Faults
          /\ errors' = errors + 1
          /\ UNCHANGED <<bucket, answered, worker, work>>
    /\ UNCHANGED <<main, counter, batches, workRest>>

\* Faulty: a request that fails is logged, and the worker takes the next batch.
WorkerDeleteGoesOn(i) ==
    /\ WorkerRuns(i)
    /\ worker[i] = "delete"
    /\ \/ bucket' = bucket \ work[i] /\ answered' = answered \cup work[i]
       \/ "batch" \in Faults /\ UNCHANGED <<bucket, answered>>
    /\ worker' = [worker EXCEPT ![i] = "receive"]
    /\ work' = [work EXCEPT ![i] = {}]
    /\ UNCHANGED <<main, counter, errors, batches, workRest>>

\* The answer to a delete request.  200 and 298 count as success, although 298
\* means that some of the objects were not deleted; any other outcome ends the
\* worker, whose request may still be with the service.
WorkerDelete(i) ==
    /\ WorkerRuns(i)
    /\ worker[i] = "delete"
    /\ \/ /\ bucket' = bucket \ work[i] \/ ("298" \in Faults /\ bucket' = bucket)
          /\ answered' = answered \cup work[i]
          /\ worker' = [worker EXCEPT ![i] = "receive"]
          /\ work' = [work EXCEPT ![i] = {}]
          /\ UNCHANGED <<main, counter, errors>>
       \/ /\ expired \/ "batch" \in Faults
          /\ errors' = errors + 1
          /\ WorkerExit(i)
          /\ UNCHANGED <<bucket, answered, work>>
    /\ UNCHANGED <<batches, workRest>>

\* The service carries out a delete request object by object, while its worker
\* waits, after it has given up, and after the process has died.
ServiceDelete(i) ==
    /\ \E o \in work[i] \cap bucket : bucket' = bucket \ {o}
    /\ UNCHANGED <<main, counter, batches, worker, work, errors, answered, workRest>>

Worker(i) == WorkerReceive(i) \/ WorkerDelete(i)

-----------------------------------------------------------------------------
\* The provisioner's timeout cancels the context of DeleteVolume.
Expire ==
    /\ "expire" \in Faults
    /\ main \notin Returned \cup {"panic"}
    /\ ~ expired
    /\ expired' = TRUE
    /\ UNCHANGED <<bucket, main, spawned, counter, listing, listed, forwarder, held, listError,
                   names, batcher, batch, batches, worker, work, errors, answered>>

Main == Start \/ AddForwarder \/ DeleteObjects \/ Spawn \/ Count \/ Wait \/ WaitForwarder

Next ==
    \/ Main
    \/ Lister
    \/ Forwarder
    \/ Batcher
    \/ \E i \in Workers : Worker(i) \/ ServiceDelete(i)
    \/ Expire

Spec == Init /\ [][Next]_vars

\* Every goroutine is scheduled, and the service does not cut page after page
\* before its first line (the lister would ask for that page for ever).
FairSpec ==
    /\ Spec
    /\ SF_vars(NextEntry)
    /\ WF_vars(Main) /\ WF_vars(Lister) /\ WF_vars(Forwarder) /\ WF_vars(Batcher)
    /\ \A i \in Workers : WF_vars(Worker(i))

-----------------------------------------------------------------------------
(* Properties *)

\* A WaitGroup panics only in the window between a go statement and the Add that
\* follows it: when the forwarder, or everything deleteObjects has started so far
\* (an early end of which needs the context or the end of the listing), is through
\* by then.  After the last Add no goroutine calls Done too often.
PanicOnlyUncounted ==
    [][Running /\ main' = "panic" =>
           /\ main \in {"add", "count"}
           /\ main = "count" => expired \/ batcher' = "done"]_vars

\* CleanObjects keeps the promise of BucketCleanup; the panic of one goroutine is
\* the end of the process, for the caller too.
Status == IF main \in Returned \cup {"panic"} THEN main ELSE "running"

Cleanup == INSTANCE BucketCleanup
               WITH left <- bucket, seen <- 1..pos, tried <- answered, status <- Status

CleanupRefined == Cleanup!Spec

\* As long as nothing failed, an object that was taken from the listing is on
\* its way through the stages or was in a request that was answered, and the
\* channels still hold the objects in the order of the listing.
InPipeline ==
    {listed[k] : k \in DOMAIN listed} \cup {held} \cup {names[k] : k \in DOMAIN names}
        \cup batch \cup (UNION {batches[k] : k \in DOMAIN batches})
        \cup (UNION {work[i] : i \in Workers}) \cup (IF lister = "emit" THEN {pos} ELSE {})

NothingLostBeforeFailure ==
    ~ expired /\ errors = 0 /\ lister # "error" /\ main # "panic" =>
        /\ 1..pos \subseteq answered \cup InPipeline
        /\ \A k \in 1..Len(names) - 1 : names[k] < names[k + 1]

\* The caller gets an answer unless the context expires, every worker meets an
\* error, or a WaitGroup panics: one worker that is left empties the channel
\* the batcher waits for.
Terminates ==
    <>(main \in Returned \/ expired \/ errors >= W \/ main = "panic")

\* The caller always gets an answer: DeleteVolume reports that it "failed to
\* clean all objects" (plugin/kodo_controller_server.go:250) when the delete
\* requests fail.
FailureIsReported ==
    <>(main \in Returned \/ main = "panic")
=============================================================================

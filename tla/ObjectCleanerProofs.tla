------------------------ MODULE ObjectCleanerProofs -------------------------
(***************************************************************************)
(* Proofs about ObjectCleaner: no channel overflows, nothing is lost       *)
(* before a failure, a WaitGroup panics only before its last Add, and      *)
(* CleanObjects implements BucketCleanup, for every number of objects,     *)
(* page size, channel capacity, number of workers, batch size and set of   *)
(* faults.                                                                 *)
(***************************************************************************)
EXTENDS ObjectCleaner, FiniteSetTheorems, SequenceTheorems, TLAPS

-----------------------------------------------------------------------------
(***************************************************************************)
(* The inductive invariant                                                 *)
(***************************************************************************)

Elems(s) == {s[k] : k \in DOMAIN s}

\* The goroutines of deleteObjects that are through; the batcher is the last.
Finished ==
    {g \in 1..W + 1 : \/ g \in Workers /\ worker[g] = "done"
                      \/ g = W + 1 /\ batcher = "done"}

\* The Adds of deleteObjects' WaitGroup so far.
Counted == IF main = "count" THEN spawned - 1 ELSE spawned

\* The WaitGroup is the Adds less the goroutines that are through, and each of
\* these has left at most one error.
Counting ==
    /\ Finished \subseteq 1..spawned
    /\ main # "panic" => counter + Cardinality(Finished) = Counted
    /\ errors <= Cardinality(Finished)

\* How far the caller has got, and what it knows.
Phases ==
    /\ main = "start" => lister = "off" /\ listed = <<>> /\ forwarder = "off"
    /\ main \in {"start", "add", "delete"} => spawned = 0
    /\ main = "spawn" => spawned <= W
    /\ main = "count" => spawned >= 1
    /\ main = "wait" => spawned = W + 1
    /\ main \in {"waitForwarder", "ok"} => Finished = 1..W + 1 /\ errors = 0
    /\ main = "failed" => spawned = 0 \/ Finished = 1..W + 1
    /\ spawned <= W =>
          /\ batches = <<>> /\ batcher = "receive"
          /\ \A i \in Workers : worker[i] # "delete"

\* A channel of entries: rising, with an error at its end at most.
Ordered(s) ==
    \A i, j \in 1..Len(s) : i < j => s[i] # Error /\ (s[j] = Error \/ s[i] < s[j])

\* Entries keep the order of the listing from the lister to the batcher.
Order ==
    /\ Ordered(listed) /\ Ordered(names)
    /\ Error \in Elems(listed) => lister = "done"
    /\ lister = "emit" => pos >= 1
    /\ \A l \in Elems(listed) : l <= pos /\ (lister = "emit" => l < pos)
    /\ forwarder # "send" => held = Error
    /\ forwarder = "send" =>
          /\ held \in Objects /\ held <= pos /\ (lister = "emit" => held < pos)
          /\ \A l \in Elems(listed) : l = Error \/ held < l
    /\ \A n \in Elems(names) :
          /\ n <= pos /\ (lister = "emit" => n < pos)
          /\ forwarder = "send" => n < held
          /\ \A l \in Elems(listed) : l = Error \/ n < l

\* The listing is known, or will be known, to have failed.
ListFailed == lister = "error" \/ Error \in Elems(listed) \/ listError

\* A stage that ended without an error has left nothing behind it.
Ends ==
    /\ lister = "done" /\ ~ ListFailed => pos \in {0, N}
    /\ forwarder = "done" => listed = <<>> /\ lister = "done"
    /\ batcher = "flush" => names = <<>> /\ forwarder = "done"
    /\ batcher = "receive" => Cardinality(batch) < MaxBatch
    /\ batcher = "done" /\ errors = 0 => names = <<>> /\ forwarder = "done" /\ batch = {}
    /\ \A i \in Workers :
          /\ worker[i] = "done" /\ errors = 0 => batches = <<>> /\ batcher = "done"
          /\ worker[i] = "receive" \/ (worker[i] = "done" /\ errors = 0) => work[i] = {}

\* Where an object may be between the lister and the service.
OnItsWay(x) ==
    \/ x \in Elems(listed) \/ x = held \/ x \in Elems(names) \/ x \in batch
    \/ \E b \in Elems(batches) : x \in b
    \/ \E i \in Workers : x \in work[i]
    \/ lister = "emit" /\ x = pos

\* Nothing has been dropped: an expired context makes the lister drop an entry,
\* but then the listing has failed.
Intact == errors = 0 /\ main # "panic" /\ (expired => ~ ListFailed)

\* Only what the lister has taken is on its way or answered, and all of it is.
Flow ==
    /\ \A x \in 0..N : x \in answered \/ OnItsWay(x) => x <= pos
    /\ Intact => \A x \in 1..pos : x \in answered \/ OnItsWay(x)

CleanerInv == TypeOK /\ Counting /\ Phases /\ Order /\ Ends /\ Flow

-----------------------------------------------------------------------------
(***************************************************************************)
(* Channels: what a send and a receive do to the elements and their order  *)
(***************************************************************************)

\* A send adds an element at the end; the order survives when it is greater than
\* all the others, or the error.
LEMMA SendOnChannel ==
  ASSUME NEW S, NEW s \in Seq(S), NEW e \in S
  PROVE  /\ Append(s, e) \in Seq(S)
         /\ Len(Append(s, e)) = Len(s) + 1
         /\ Elems(Append(s, e)) = Elems(s) \cup {e}
         /\ /\ Ordered(s) /\ Error \notin Elems(s)
            /\ e = Error \/ \A x \in Elems(s) : x < e
            => Ordered(Append(s, e))
<1> DEFINE t == Append(s, e)
<1>1. /\ t \in Seq(S) /\ Len(t) = Len(s) + 1 /\ Len(s) \in Nat
      /\ \A i \in 1..Len(s) : t[i] = s[i]
      /\ t[Len(s) + 1] = e
      /\ DOMAIN s = 1..Len(s) /\ DOMAIN t = 1..Len(t)
  BY AppendProperties, LenProperties
<1> HIDE DEF t
<1>2. Elems(t) = Elems(s) \cup {e}
  <2>1. ASSUME NEW x \in Elems(t) PROVE x \in Elems(s) \cup {e}
    BY <1>1, <2>1 DEF Elems
  <2>2. ASSUME NEW x \in Elems(s) PROVE x \in Elems(t)
    BY <1>1, <2>2 DEF Elems
  <2>3. e \in Elems(t)
    <3>1. Len(s) + 1 \in DOMAIN t
      BY <1>1
    <3> QED  BY <1>1, <3>1 DEF Elems
  <2> QED  BY <2>1, <2>2, <2>3
<1>3. ASSUME Ordered(s), Error \notin Elems(s),
             e = Error \/ \A x \in Elems(s) : x < e,
             NEW i \in 1..Len(t), NEW j \in 1..Len(t), i < j
      PROVE  t[i] # Error /\ (t[j] = Error \/ t[i] < t[j])
  <2>1. i \in 1..Len(s) /\ t[i] = s[i] /\ s[i] \in Elems(s)
    BY <1>1, <1>3 DEF Elems
  <2>2. CASE j \in 1..Len(s)
    BY <1>1, <1>3, <2>1, <2>2 DEF Ordered
  <2>3. CASE j = Len(s) + 1
    BY <1>1, <1>3, <2>1, <2>3
  <2> QED  BY <1>1, <2>2, <2>3
<1> QED  BY <1>1, <1>2, <1>3 DEF t, Ordered

\* A receive takes the first element, the smallest one; nothing follows an error.
LEMMA ReceiveFromChannel ==
  ASSUME NEW S, NEW s \in Seq(S), s # <<>>
  PROVE  /\ Head(s) \in S
         /\ Tail(s) \in Seq(S)
         /\ Len(s) \in Nat /\ Len(Tail(s)) = Len(s) - 1
         /\ Elems(s) = {Head(s)} \cup Elems(Tail(s))
         /\ Ordered(s) =>
               /\ Ordered(Tail(s))
               /\ \A x \in Elems(Tail(s)) : Head(s) # Error /\ (x = Error \/ Head(s) < x)
<1> DEFINE t == Tail(s)  h == Head(s)
<1>1. /\ t \in Seq(S) /\ Len(t) = Len(s) - 1 /\ Len(s) \in Nat \ {0} /\ h \in S /\ h = s[1]
      /\ \A i \in 1..Len(t) : t[i] = s[i + 1]
      /\ DOMAIN s = 1..Len(s) /\ DOMAIN t = 1..Len(t)
  BY HeadTailProperties, LenProperties, EmptySeq
<1> HIDE DEF t, h
<1>2. Elems(s) = {h} \cup Elems(t)
  <2>1. ASSUME NEW i \in 1..Len(s) PROVE s[i] \in {h} \cup Elems(t)
    <3>1. CASE i = 1
      BY <1>1, <3>1
    <3>2. CASE i # 1
      <4>1. i - 1 \in 1..Len(t) /\ (i - 1) + 1 = i
        BY <1>1, <3>2
      <4>2. t[i - 1] = s[i]
        BY <1>1, <4>1
      <4> QED  BY <1>1, <4>1, <4>2 DEF Elems
    <3> QED  BY <3>1, <3>2
  <2>2. ASSUME NEW i \in 1..Len(t) PROVE t[i] \in Elems(s)
    <3>1. i + 1 \in 1..Len(s)
      BY <1>1
    <3> QED  BY <1>1, <3>1 DEF Elems
  <2>3. h \in Elems(s)
    <3>1. 1 \in DOMAIN s
      BY <1>1
    <3> QED  BY <1>1, <3>1 DEF Elems
  <2>4. \A x \in Elems(s) : x \in {h} \cup Elems(t)
    BY <1>1, <2>1 DEF Elems
  <2>5. \A x \in Elems(t) : x \in Elems(s)
    BY <1>1, <2>2 DEF Elems
  <2> QED  BY <2>3, <2>4, <2>5
<1>3. ASSUME Ordered(s) PROVE Ordered(t)
  <2> SUFFICES ASSUME NEW i \in 1..Len(t), NEW j \in 1..Len(t), i < j
               PROVE  t[i] # Error /\ (t[j] = Error \/ t[i] < t[j])
    BY DEF Ordered
  <2>1. i + 1 \in 1..Len(s) /\ j + 1 \in 1..Len(s) /\ i + 1 < j + 1
    BY <1>1
  <2>2. s[i + 1] # Error /\ (s[j + 1] = Error \/ s[i + 1] < s[j + 1])
    BY <1>3, <2>1 DEF Ordered
  <2> QED  BY <1>1, <2>2
<1>4. ASSUME Ordered(s), NEW i \in 1..Len(t)
      PROVE  h # Error /\ (t[i] = Error \/ h < t[i])
  <2>1. 1 \in 1..Len(s) /\ i + 1 \in 1..Len(s) /\ 1 < i + 1
    BY <1>1
  <2>2. s[1] # Error /\ (s[i + 1] = Error \/ s[1] < s[i + 1])
    BY <1>4, <2>1 DEF Ordered
  <2> QED  BY <1>1, <2>2
<1>5. Ordered(s) => \A x \in Elems(t) : h # Error /\ (x = Error \/ h < x)
  BY <1>1, <1>4 DEF Elems
<1> QED  BY <1>1, <1>2, <1>3, <1>5 DEF t, h

\* An empty channel has no elements, and only it.
LEMMA EmptyChannel ==
  /\ Elems(<<>>) = {} /\ Ordered(<<>>) /\ Len(<<>>) = 0
  /\ \A S : <<>> \in Seq(S)
<1>1. /\ Len(<<>>) = 0 /\ DOMAIN <<>> = {} /\ \A S : <<>> \in Seq(S)
  BY EmptySeq
<1> QED  BY <1>1 DEF Elems, Ordered

\* A channel without elements is empty.
LEMMA NoElements ==
  ASSUME NEW S, NEW s \in Seq(S), Elems(s) = {}
  PROVE  s = <<>>
<1>1. s # <<>> => Head(s) \in Elems(s)
  BY SMTT(30), ReceiveFromChannel
<1> QED  BY <1>1

-----------------------------------------------------------------------------
(***************************************************************************)
(* The WaitGroup of deleteObjects                                          *)
(***************************************************************************)

\* No more goroutines are through than were started, and if as many are, all.
LEMMA FinishedBound ==
  ASSUME NEW n \in Nat, NEW F \in SUBSET (1..n)
  PROVE  /\ IsFiniteSet(F) /\ Cardinality(F) \in 0..n
         /\ Cardinality(F) = n => F = 1..n
<1>1. IsFiniteSet(1..n) /\ Cardinality(1..n) = n
  BY FS_Interval
<1>2. /\ IsFiniteSet(F) /\ Cardinality(F) <= n
      /\ Cardinality(F) = n => F = 1..n
  BY <1>1, FS_Subset
<1>3. Cardinality(F) \in Nat
  BY <1>2, FS_CardinalityType
<1> QED  BY <1>2, <1>3

\* A goroutine that was started and is not through exits: deleteObjects still
\* waits for it, the counter is right, and wg.Done panics only between the last
\* go statement so far and its Add, when all that were started are through.
LEMMA ExitCounts ==
  ASSUME TypeOK, Counting, Phases, Running,
         NEW g \in 1..W + 1, g <= spawned, g \notin Finished,
         Finished' = Finished \cup {g}, spawned' = spawned,
         errors' \in {errors, errors + 1}, Done,
         spawned <= W => /\ batches' = <<>> /\ batcher' = "receive"
                         /\ \A i \in Workers : worker'[i] # "delete"
  PROVE  /\ main \in {"spawn", "count", "wait"}
         /\ main' \in {main, "panic"}
         /\ counter' \in 0..spawned' /\ errors' \in 0..W + 1
         /\ Counting' /\ Phases'
         /\ main' = "panic" => main = "count" /\ Finished' = 1..spawned
<1> USE SizeAssumption
<1>1. W \in Nat /\ spawned \in 0..W + 1 /\ counter \in 0..spawned /\ errors \in 0..W + 1
  BY DEF TypeOK
<1>2. Finished \subseteq 1..spawned /\ Finished' \subseteq 1..spawned
  BY <1>1 DEF Counting
<1>3. /\ IsFiniteSet(Finished) /\ Cardinality(Finished) \in 0..spawned
      /\ Cardinality(Finished') \in 0..spawned
      /\ Cardinality(Finished') = spawned => Finished' = 1..spawned
  <2>1. spawned \in Nat
    BY <1>1
  <2> QED  BY <1>2, <2>1, FinishedBound
<1>4. Cardinality(Finished') = Cardinality(Finished) + 1
  BY <1>3, FS_AddElement
<1>5. main \in {"spawn", "count", "wait"}
  <2>1. spawned # 0 /\ Finished # 1..W + 1
    BY <1>1
  <2> QED  BY <2>1 DEF TypeOK, Phases, Running, Returned
<1>6. counter + Cardinality(Finished) = Counted
  BY <1>5 DEF Counting
<1>7. CASE counter > 0
  <2>1. counter' = counter - 1 /\ main' = main
    BY <1>7 DEF Done
  <2>2. counter' + Cardinality(Finished') = Counted'
    BY <1>1, <1>3, <1>4, <1>6, <2>1 DEF Counted
  <2>3. errors' <= Cardinality(Finished')
    BY <1>1, <1>3, <1>4 DEF Counting
  <2>4. Counting'
    BY <1>2, <2>2, <2>3 DEF Counting
  <2>5. Phases'
    BY <1>5, <2>1 DEF Phases
  <2> QED  BY <1>1, <1>3, <1>5, <1>7, <2>1, <2>3, <2>4, <2>5
<1>8. CASE counter = 0
  <2>1. counter' = counter /\ main' = "panic"
    BY <1>8 DEF Done
  <2>2. main = "count" /\ Cardinality(Finished') = spawned
    BY <1>1, <1>3, <1>4, <1>6, <1>8 DEF Counted
  <2>3. errors' <= Cardinality(Finished')
    BY <1>1, <1>3, <1>4 DEF Counting
  <2>4. Counting'
    BY <1>2, <2>1, <2>3 DEF Counting
  <2>5. Phases'
    BY <2>1 DEF Phases
  <2> QED  BY <1>1, <1>3, <1>5, <1>8, <2>1, <2>2, <2>3, <2>4, <2>5
<1> QED  BY <1>1, <1>7, <1>8

\* A step by which no goroutine exits leaves the counter right.
LEMMA StayCounts ==
  ASSUME Counting, Phases, Finished' = Finished,
         UNCHANGED <<main, spawned, counter, errors, lister, listed, forwarder>>,
         spawned <= W => /\ batches' = <<>> /\ batcher' = "receive"
                         /\ \A i \in Workers : worker'[i] # "delete"
  PROVE  Counting' /\ Phases'
  BY DEF Counting, Counted, Phases

-----------------------------------------------------------------------------
(***************************************************************************)
(* The initial state and the steps of the caller                           *)
(***************************************************************************)

\* Nothing is started, listed, on its way or answered.
LEMMA InitCleanerInv == Init => CleanerInv
<1> SUFFICES ASSUME Init PROVE CleanerInv
  OBVIOUS
<1> USE SizeAssumption, EmptyChannel
<1>0. Finished = {} /\ IsFiniteSet({}) /\ Cardinality({}) = 0
  BY FS_EmptySet DEF Init, Finished, Workers
<1>1. TypeOK
  <2>1. /\ expired \in BOOLEAN /\ listError \in BOOLEAN
        /\ worker \in [Workers -> {"receive", "delete", "done"}]
        /\ work \in [Workers -> SUBSET Objects]
    BY Zenon DEF Init
  <2>2. /\ listed \in Seq(Objects \cup {Error}) /\ Len(listed) <= ListCap
        /\ names \in Seq(Objects) /\ Len(names) <= NameCap
        /\ batches \in Seq(SUBSET Objects) /\ Len(batches) <= W
        /\ Cardinality(batch) <= MaxBatch
    BY <1>0 DEF Init
  <2>3. /\ spawned \in 0..W + 1 /\ counter \in 0..spawned /\ errors \in 0..W + 1
        /\ pos \in 0..N /\ pageEnd \in 0..N /\ held \in 0..N
    BY DEF Init, Error
  <2>4. /\ bucket \subseteq Objects /\ batch \subseteq Objects /\ answered \subseteq Objects
        /\ main \in {"start", "add", "delete", "spawn", "count", "wait", "waitForwarder",
                      "panic"} \cup Returned
        /\ lister \in {"off", "request", "page", "emit", "error", "done"}
        /\ forwarder \in {"off", "receive", "send", "done"}
        /\ batcher \in {"receive", "send", "flush", "done"}
    BY DEF Init
  <2> QED  BY <2>1, <2>2, <2>3, <2>4 DEF TypeOK
<1>2. Counting
  BY <1>0 DEF Counting, Counted, Init
<1>3. Phases
  BY DEF Phases, Init
<1>4. Order
  BY DEF Order, Init, Error
<1>5. Ends
  BY <1>0 DEF Ends, Init
<1>6. Flow
  BY DEF Flow, OnItsWay, Init, Error
<1> QED  BY <1>1, <1>2, <1>3, <1>4, <1>5, <1>6 DEF CleanerInv

\* While the channels and what the goroutines hold stay as they are, the same
\* objects are on their way.
LEMMA SameWay ==
  ASSUME UNCHANGED <<listed, held, names, batch, batches, work, pos>>,
         lister' = "emit" <=> lister = "emit"
  PROVE  \A x : OnItsWay(x)' <=> OnItsWay(x)
  BY DEF OnItsWay, Elems

\* The steps of the caller leave the channels alone, and it stops waiting for
\* the goroutines of deleteObjects only when all of them are through.
LEMMA MainKeeps == CleanerInv /\ Main => CleanerInv'
<1> SUFFICES ASSUME CleanerInv, Main PROVE CleanerInv'
  OBVIOUS
<1> USE SizeAssumption DEF CleanerInv, listing
<1>0. /\ UNCHANGED <<bucket, pos, pageEnd, listed, held, listError, names, batcher, batch,
                      batches, worker, work, errors, answered, expired>>
      /\ Finished' = Finished
      /\ \/ UNCHANGED <<lister, forwarder>>
         \/ /\ main = "start" /\ lister' = "request" /\ forwarder' = "receive"
            /\ spawned' = spawned /\ counter' = counter /\ main' = "add"
  BY DEF Main, Start, AddForwarder, DeleteObjects, Spawn, Count, Wait, WaitForwarder, Finished
<1>1. W \in Nat /\ spawned \in 0..W + 1 /\ counter \in 0..spawned /\ errors \in 0..W + 1
  BY DEF TypeOK
<1>2. /\ Finished \subseteq 1..spawned /\ Cardinality(Finished) \in 0..spawned
      /\ Cardinality(Finished) = spawned => Finished = 1..spawned
  <2>1. spawned \in Nat /\ Finished \subseteq 1..spawned
    BY <1>1 DEF Counting
  <2> QED  BY <2>1, FinishedBound
<1>3. /\ Counting' /\ Phases'
      /\ spawned' \in 0..W + 1 /\ counter' \in 0..spawned'
      /\ main' \in {"add", "delete", "spawn", "count", "wait", "waitForwarder"} \cup Returned
  <2>1. CASE Start
    BY <1>0, <1>1, <2>1 DEF Start, Counting, Counted, Phases, TypeOK, Returned
  <2>2. CASE AddForwarder
    BY <1>0, <1>1, <2>2 DEF AddForwarder, Counting, Counted, Phases, TypeOK, Returned
  <2>3. CASE DeleteObjects
    BY <1>0, <1>1, <2>3 DEF DeleteObjects, Counting, Counted, Phases, TypeOK, Returned
  <2>4. CASE Spawn
    BY <1>0, <1>1, <1>2, <2>4 DEF Spawn, Counting, Counted, Phases, TypeOK, Returned
  <2>5. CASE Count
    BY SMTT(30), <1>0, <1>1, <1>2, <2>5 DEF Count, Counting, Counted, Phases, TypeOK, Returned
  <2>6. CASE Wait
    <3>1. Finished = 1..W + 1
      BY <1>1, <1>2, <2>6 DEF Wait, Counting, Counted, Phases
    <3> QED
      BY <1>0, <1>1, <1>2, <2>6, <3>1 DEF Wait, Counting, Counted, Phases, TypeOK, Returned
  <2>7. CASE WaitForwarder
    BY <1>0, <1>1, <2>7 DEF WaitForwarder, Counting, Counted, Phases, TypeOK, Returned
  <2> QED  BY <2>1, <2>2, <2>3, <2>4, <2>5, <2>6, <2>7 DEF Main
<1>4. TypeOK'
  BY SMTT(30), <1>0, <1>3 DEF TypeOK
<1>5. Order'
  BY <1>0, EmptyChannel DEF Order, Phases
<1>6. ListFailed' = ListFailed
  BY <1>0, EmptyChannel DEF ListFailed, Phases
<1>7. Ends'
  BY <1>0, <1>6 DEF Ends, Phases
<1>8. Flow'
  <2>1. \A x : OnItsWay(x)' <=> OnItsWay(x)
    BY <1>0, SameWay DEF Phases
  <2>2. Intact' => Intact
    BY <1>0, <1>6 DEF Intact, Phases, Main, Start, AddForwarder, DeleteObjects, Spawn, Count,
                      Wait, WaitForwarder
  <2> QED  BY <1>0, <2>1, <2>2 DEF Flow
<1> QED  BY <1>3, <1>4, <1>5, <1>7, <1>8

\* The context ends: nothing has been dropped because of it yet.
LEMMA ExpireKeeps == CleanerInv /\ Expire => CleanerInv'
<1> SUFFICES ASSUME CleanerInv, Expire PROVE CleanerInv'
  OBVIOUS
<1> USE DEF CleanerInv, Expire, listing
<1>1. TypeOK'
  BY DEF TypeOK
<1>2. Finished' = Finished /\ ListFailed' = ListFailed /\ Counted' = Counted
  BY DEF Finished, ListFailed, Counted, Elems
<1>3. Counting' /\ Phases'
  BY <1>2 DEF Counting, Phases
<1>4. Order' /\ Ends'
  BY <1>2 DEF Order, Ends
<1>5. Flow'
  BY <1>2, SameWay DEF Flow, Intact
<1> QED  BY <1>1, <1>3, <1>4, <1>5

-----------------------------------------------------------------------------
(***************************************************************************)
(* The steps of the lister                                                 *)
(***************************************************************************)

\* The lister is not counted, and has no part in what deleteObjects knows.
LEMMA ListerCounting ==
  ASSUME Counting, Phases, lister # "off", UNCHANGED listRest
  PROVE  Counting' /\ Phases'
<1>1. Finished' = Finished /\ Counted' = Counted
  BY DEF Finished, Counted, listRest
<1> QED  BY <1>1 DEF Counting, Phases, listRest

\* A request, the next line of a page, the end of a page: a listing that ends
\* without an error has read nothing or everything.
LEMMA ListerReads ==
  ASSUME CleanerInv, SendListObjectsRequest \/ NextEntry \/ EndOfPage
  PROVE  CleanerInv'
<1> USE SizeAssumption DEF CleanerInv
<1> USE DEF SendListObjectsRequest, NextEntry, EndOfPage
<1>0. /\ UNCHANGED listRest /\ listed' = listed /\ lister \in {"request", "page"}
      /\ N \in Nat /\ PageSize \in Nat /\ pos \in 0..N /\ pageEnd \in 0..N
  BY DEF TypeOK
<1>1. Counting' /\ Phases'
  BY <1>0, ListerCounting
<1>2. TypeOK'
  <2>1. /\ pos' \in 0..N /\ pageEnd' \in 0..N
        /\ lister' \in {"off", "request", "page", "emit", "error", "done"}
    BY <1>0
  <2> QED  BY <1>0, <2>1 DEF TypeOK, listRest
<1>3. Error \notin Elems(listed) /\ Elems(listed') = Elems(listed)
  BY <1>0 DEF Order
<1>4. /\ \A l \in Elems(listed) : l \in 0..N
      /\ \A n \in Elems(names) : n \in 0..N
      /\ held \in 0..N
  <2>1. \A k \in DOMAIN listed : listed[k] \in 0..N
    BY SMTT(30), LenProperties DEF TypeOK, Objects, Error
  <2>2. \A k \in DOMAIN names : names[k] \in 0..N
    BY SMTT(30), LenProperties DEF TypeOK, Objects
  <2> QED  BY <2>1, <2>2 DEF TypeOK, Elems
<1>5. pos' = pos \/ (pos' = pos + 1 /\ lister' = "emit")
  BY <1>0
<1>6. Order'
  BY <1>0, <1>3, <1>4, <1>5 DEF Order, listRest
<1>7. Ends'
  BY <1>0, <1>3 DEF Ends, ListFailed, listRest
<1>8. Flow'
  <2>1. Intact' => Intact
    BY <1>0, <1>3 DEF Intact, ListFailed, listRest
  <2>2. \A x : OnItsWay(x)' <=> OnItsWay(x) \/ (lister' = "emit" /\ x = pos')
    BY <1>0, <1>3 DEF OnItsWay, listRest
  <2>3. lister' = "emit" => pos' = pos + 1
    BY <1>0
  <2> QED  BY <1>0, <1>5, <2>1, <2>2, <2>3 DEF Flow, listRest
<1> QED  BY <1>1, <1>2, <1>6, <1>7, <1>8

\* An entry, or the error, enters the channel, unless the context ended first:
\* then the entry is dropped, and an error will follow.
LEMMA ListerEmits ==
  ASSUME CleanerInv, EmitEntry \/ EmitError
  PROVE  CleanerInv'
<1> USE SizeAssumption DEF CleanerInv
<1>0. /\ UNCHANGED <<pos, pageEnd, listRest>> /\ lister \in {"emit", "error"}
      /\ N \in Nat /\ pos \in 0..N /\ listed \in Seq(Objects \cup {Error})
      /\ Len(listed) \in Nat
  BY DEF TypeOK, EmitEntry, EmitError
<1>1. Counting' /\ Phases'
  BY <1>0, ListerCounting
<1>2. Error \notin Elems(listed)
  BY <1>0 DEF Order
<1>3. CASE lister = "emit" /\ lister' = "page" /\ Len(listed) < ListCap
           /\ listed' = Append(listed, pos)
  <2>0. pos \in Objects /\ pos \in Objects \cup {Error} /\ pos # Error
    BY <1>0, <1>3 DEF Order, Objects, Error
  <2>1. /\ listed' \in Seq(Objects \cup {Error}) /\ Len(listed') = Len(listed) + 1
        /\ Elems(listed') = Elems(listed) \cup {pos}
        /\ Ordered(listed')
    BY <1>0, <1>2, <1>3, <2>0, SendOnChannel DEF Order
  <2>2. TypeOK'
    BY <1>0, <1>3, <2>1 DEF TypeOK, listRest
  <2>3. Order'
    BY <1>0, <1>2, <1>3, <2>0, <2>1 DEF Order, listRest
  <2>4. Ends'
    BY <1>0, <1>3 DEF Ends, listRest, EmitEntry
  <2>5. Intact' => Intact
    BY <1>0, <1>2, <1>3, <2>1 DEF Intact, ListFailed, listRest
  <2>6. \A x : OnItsWay(x)' <=> OnItsWay(x)
    BY <1>0, <1>3, <2>1 DEF OnItsWay, listRest
  <2>7. Flow'
    BY <1>0, <2>5, <2>6 DEF Flow, listRest
  <2> QED  BY <1>1, <2>2, <2>3, <2>4, <2>7
<1>4. CASE lister = "emit" /\ expired /\ lister' = "error" /\ listed' = listed
  <2>1. TypeOK'
    BY <1>0, <1>4 DEF TypeOK, listRest
  <2>2. Order'
    BY <1>0, <1>2, <1>4 DEF Order, listRest
  <2>3. Ends'
    BY <1>0, <1>4 DEF Ends, listRest
  <2>4. ~ Intact'
    BY <1>0, <1>4 DEF Intact, ListFailed, listRest
  <2>5. \A x : OnItsWay(x)' => OnItsWay(x)
    BY <1>0, <1>4 DEF OnItsWay, listRest
  <2>6. Flow'
    BY <1>0, <2>4, <2>5 DEF Flow, listRest
  <2> QED  BY <1>1, <2>1, <2>2, <2>3, <2>6
<1>5. CASE lister = "error" /\ lister' = "done" /\ Len(listed) < ListCap
           /\ listed' = Append(listed, Error)
  <2>1. /\ listed' \in Seq(Objects \cup {Error}) /\ Len(listed') = Len(listed) + 1
        /\ Elems(listed') = Elems(listed) \cup {Error}
        /\ Ordered(listed')
    BY <1>0, <1>2, <1>5, SendOnChannel DEF Order
  <2>2. TypeOK'
    BY <1>0, <1>5, <2>1 DEF TypeOK, listRest
  <2>3. Order'
    BY <1>0, <1>2, <1>5, <2>1 DEF Order, listRest, Error
  <2>4. ListFailed /\ ListFailed'
    BY <1>0, <1>5, <2>1 DEF ListFailed, listRest
  <2>5. Ends'
    BY <1>0, <1>5, <2>4 DEF Ends, listRest
  <2>6. Intact' => Intact
    BY <1>0, <2>4 DEF Intact, listRest
  <2>7. \A x : OnItsWay(x)' <=> OnItsWay(x) \/ x = Error
    BY <1>0, <1>5, <2>1 DEF OnItsWay, listRest
  <2>8. Flow'
    BY <1>0, <2>6, <2>7 DEF Flow, listRest, Error
  <2> QED  BY <1>1, <2>2, <2>3, <2>5, <2>8
<1> QED  BY <1>3, <1>4, <1>5 DEF EmitEntry, EmitError

-----------------------------------------------------------------------------
(***************************************************************************)
(* The steps of the forwarder                                              *)
(***************************************************************************)

\* The forwarder is counted by CleanObjects, which panics at worst before its
\* Add.
LEMMA ForwarderCounting ==
  ASSUME TypeOK, Counting, Phases, forwarder # "off", UNCHANGED forwardRest,
         main' = main \/ ForwarderDone
  PROVE  Counting' /\ Phases' /\ main' \in {main, "panic"}
<1>1. Finished' = Finished /\ main' \in {main, "panic"}
  BY DEF Finished, ForwarderDone, forwardRest
<1>2. main' # "panic" => main' = main /\ Counted' = Counted
  BY <1>1 DEF Counted, forwardRest
<1> QED  BY <1>1, <1>2 DEF Counting, Phases, forwardRest

\* The forwarder takes an entry, the error, or notices the end of the listing.
LEMMA ForwarderReceives ==
  ASSUME CleanerInv, ForwardReceive
  PROVE  CleanerInv'
<1> USE SizeAssumption DEF CleanerInv
<1>0. /\ UNCHANGED <<names, forwardRest>> /\ forwarder = "receive" /\ held = Error
      /\ N \in Nat /\ listed \in Seq(Objects \cup {Error})
      /\ main' = main \/ ForwarderDone
  BY DEF TypeOK, ForwardReceive, Order
<1>1. Counting' /\ Phases' /\ main' \in {main, "panic"}
  BY <1>0, ForwarderCounting
<1>2. UNCHANGED <<lister, pos, pageEnd>>
  BY <1>0 DEF forwardRest, listing
<1>3. ASSUME listed # <<>>, listed' = Tail(listed)
      PROVE  /\ listed' \in Seq(Objects \cup {Error}) /\ Len(listed') <= ListCap
             /\ Head(listed) \in Objects \cup {Error}
             /\ Elems(listed) = {Head(listed)} \cup Elems(listed')
             /\ Ordered(listed')
             /\ \A x \in Elems(listed') :
                   Head(listed) # Error /\ (x = Error \/ Head(listed) < x)
  BY <1>0, <1>3, ReceiveFromChannel DEF Order, TypeOK
<1>4. CASE listed # <<>> /\ Head(listed) = Error
  <2>1. listed' = Tail(listed) /\ listError' = TRUE /\ forwarder' = "done" /\ held' = held
    BY <1>4 DEF ForwardReceive
  <2>2. listed' = <<>> /\ Elems(listed') = {} /\ Elems(listed) = {Error} /\ lister = "done"
    <3>1. Elems(listed') = {} /\ Elems(listed) = {Error}
      BY <1>3, <1>4, <2>1
    <3>2. listed' = <<>>
      BY <1>3, <1>4, <2>1, <3>1, NoElements
    <3> QED  BY <3>1, <3>2 DEF Order
  <2>3. listError' \in BOOLEAN
    BY <2>1
  <2>4. TypeOK'
    BY <1>0, <1>1, <1>2, <1>3, <1>4, <2>1, <2>3 DEF TypeOK, forwardRest
  <2>5. Order'
    BY <1>0, <1>2, <2>1, <2>2, EmptyChannel DEF Order, forwardRest
  <2>6. ListFailed /\ ListFailed'
    BY <2>1, <2>2 DEF ListFailed
  <2>7. Ends'
    BY <1>0, <1>2, <2>1, <2>2, <2>6 DEF Ends, forwardRest
  <2>8. Intact' => Intact
    BY <1>0, <1>1, <2>6 DEF Intact, forwardRest
  <2>9. \A x : OnItsWay(x)' <=> OnItsWay(x)
    BY <1>0, <1>2, <2>1, <2>2 DEF OnItsWay, forwardRest
  <2>10. Flow'
    BY <1>0, <1>2, <2>8, <2>9 DEF Flow, forwardRest
  <2> QED  BY <1>1, <2>4, <2>5, <2>7, <2>10
<1>5. CASE listed # <<>> /\ Head(listed) # Error
  <2>1. /\ listed' = Tail(listed) /\ forwarder' = "send" /\ held' = Head(listed)
        /\ listError' = listError /\ main' = main
    BY <1>5 DEF ForwardReceive
  <2>2. held' \in Objects /\ held' \in 0..N /\ held' \in Elems(listed)
    BY <1>3, <1>5, <2>1 DEF Objects
  <2>3. TypeOK'
    BY ZenonT(60), <1>0, <1>1, <1>2, <1>3, <1>5, <2>1, <2>2 DEF TypeOK, forwardRest
  <2>4. Order'
    BY <1>0, <1>2, <1>3, <1>5, <2>1, <2>2 DEF Order, forwardRest
  <2>5. ListFailed' = ListFailed
    BY <1>2, <1>3, <1>5, <2>1 DEF ListFailed
  <2>6. Ends'
    BY <1>0, <1>2, <2>1, <2>5 DEF Ends, forwardRest
  <2>7. Intact' => Intact
    BY <1>0, <1>1, <2>5 DEF Intact, forwardRest
  <2>8. \A x : OnItsWay(x)' \/ x = Error <=> OnItsWay(x)
    BY <1>0, <1>2, <1>3, <1>5, <2>1 DEF OnItsWay, forwardRest
  <2>9. Flow'
    BY <1>0, <1>2, <2>7, <2>8 DEF Flow, forwardRest, Error
  <2> QED  BY <1>1, <2>3, <2>4, <2>6, <2>9
<1>6. CASE listed = <<>>
  <2>1. /\ lister = "done" /\ forwarder' = "done"
        /\ UNCHANGED <<listed, held, listError>>
    BY <1>6 DEF ForwardReceive
  <2>2. TypeOK'
    BY <1>0, <1>1, <1>2, <2>1 DEF TypeOK, forwardRest
  <2>3. ListFailed' = ListFailed
    BY <1>2, <2>1 DEF ListFailed
  <2>4. Order' /\ Ends'
    BY <1>0, <1>2, <1>6, <2>1, <2>3 DEF Order, Ends, forwardRest
  <2>5. Intact' => Intact
    BY <1>0, <1>1, <2>3 DEF Intact, forwardRest
  <2>6. \A x : OnItsWay(x)' <=> OnItsWay(x)
    BY <1>0, <1>2, <2>1, SameWay DEF forwardRest
  <2>7. Flow'
    BY <1>0, <1>2, <2>5, <2>6 DEF Flow, forwardRest
  <2> QED  BY <1>1, <2>2, <2>4, <2>7
<1> QED  BY <1>4, <1>5, <1>6

\* The forwarder passes its entry on, behind all smaller ones.
LEMMA ForwarderSends ==
  ASSUME CleanerInv, ForwardSend
  PROVE  CleanerInv'
<1> USE SizeAssumption DEF CleanerInv
<1>0. /\ UNCHANGED <<main, listed, listError, forwardRest>>
      /\ forwarder = "send" /\ forwarder' = "receive" /\ held' = Error
      /\ names' = Append(names, held) /\ Len(names) < NameCap
      /\ names \in Seq(Objects) /\ held \in Objects /\ Len(names) \in Nat /\ N \in Nat
  BY DEF TypeOK, ForwardSend, Order
<1>1. Counting' /\ Phases'
  BY <1>0, ForwarderCounting
<1>2. UNCHANGED <<lister, pos, pageEnd>>
  BY <1>0 DEF forwardRest, listing
<1>3. Error \notin Elems(names)
  <2>1. \A k \in DOMAIN names : names[k] \in Objects
    BY <1>0, LenProperties
  <2> QED  BY <2>1 DEF Elems, Objects, Error
<1>4. /\ names' \in Seq(Objects) /\ Len(names') = Len(names) + 1
      /\ Elems(names') = Elems(names) \cup {held}
      /\ Ordered(names')
  BY <1>0, <1>3, SendOnChannel DEF Order
<1>5. held' \in 0..N
  BY <1>0 DEF Error
<1>6. TypeOK'
  BY SMTT(30), <1>0, <1>2, <1>4, <1>5 DEF TypeOK, forwardRest
<1>7. Order'
  BY <1>0, <1>2, <1>4 DEF Order, forwardRest
<1>8. ListFailed' = ListFailed /\ Intact' = Intact
  BY <1>0, <1>2 DEF ListFailed, Intact, forwardRest
<1>9. Ends'
  BY <1>0, <1>2, <1>8 DEF Ends, forwardRest
<1>10. \A x : OnItsWay(x)' <=> OnItsWay(x) \/ x = Error
  BY <1>0, <1>2, <1>4 DEF OnItsWay, forwardRest
<1>11. Flow'
  BY <1>0, <1>2, <1>8, <1>10 DEF Flow, forwardRest, Error, TypeOK
<1> QED  BY <1>1, <1>6, <1>7, <1>9, <1>11

-----------------------------------------------------------------------------
(***************************************************************************)
(* The steps of the batcher                                                *)
(***************************************************************************)

\* A batch that is not full takes one more object.
LEMMA BatchGrows ==
  ASSUME NEW x \in Objects, batch \subseteq Objects, Cardinality(batch) < MaxBatch
  PROVE  /\ batch \cup {x} \subseteq Objects
         /\ Cardinality(batch \cup {x}) \in Nat
         /\ Cardinality(batch \cup {x}) <= MaxBatch
<1> USE SizeAssumption
<1>1. IsFiniteSet(Objects)
  BY FS_Interval DEF Objects
<1>2. IsFiniteSet(batch) /\ Cardinality(batch) \in Nat
  BY <1>1, FS_Subset, FS_CardinalityType
<1>3. Cardinality(batch \cup {x}) =
        IF x \in batch THEN Cardinality(batch) ELSE Cardinality(batch) + 1
  BY <1>2, FS_AddElement
<1> QED  BY <1>2, <1>3

\* The batcher gives up because of the context, takes a name, or notices that no
\* more names will come.
LEMMA BatcherReceives ==
  ASSUME CleanerInv, BatchReceive
  PROVE  CleanerInv' /\ (main' = "panic" => main = "panic" \/ (main = "count" /\ batcher' = "done"))
<1> USE SizeAssumption DEF CleanerInv
<1>0. /\ Running /\ spawned = W + 1 /\ batcher = "receive"
      /\ UNCHANGED <<batches, batchRest>>
      /\ W \in Nat /\ N \in Nat /\ MaxBatch \in Nat \ {0} /\ names \in Seq(Objects)
      /\ errors \in Nat
  BY DEF BatchReceive, BatcherRuns, TypeOK
<1>1. UNCHANGED <<expired, bucket, spawned, lister, pos, pageEnd, listed, forwarder, held,
                  listError, worker, work, answered>>
  BY <1>0 DEF batchRest, listing
<1>2. ListFailed' = ListFailed
  BY <1>1 DEF ListFailed
<1>3. ASSUME batcher' = "done", Done, errors' \in {errors, errors + 1}
      PROVE  /\ Counting' /\ Phases' /\ errors' \in 0..W + 1 /\ counter' \in 0..spawned'
             /\ main' \in {main, "panic"} /\ (main' = "panic" => main = "count")
  <2>1. W + 1 \in 1..W + 1 /\ W + 1 <= spawned /\ ~ (spawned <= W)
    BY <1>0
  <2>2. W + 1 \notin Finished /\ Finished' = Finished \cup {W + 1}
    BY <1>0, <1>1, <1>3 DEF Finished, Workers
  <2> QED  BY <1>0, <1>1, <1>3, <2>1, <2>2, ExitCounts
<1>4. CASE expired /\ errors' = errors + 1 /\ batcher' = "done" /\ Done
           /\ UNCHANGED <<names, batch>>
  <2>1. TypeOK'
    BY <1>0, <1>1, <1>3, <1>4 DEF TypeOK
  <2>2. Order'
    BY <1>1, <1>4 DEF Order
  <2>3. Ends'
    BY <1>0, <1>1, <1>2, <1>4 DEF Ends
  <2>4. Flow'
    <3>1. ~ Intact'
      BY <1>0, <1>4 DEF Intact
    <3>2. \A x : OnItsWay(x)' <=> OnItsWay(x)
      BY <1>0, <1>1, <1>4, SameWay
    <3> QED  BY <1>1, <3>1, <3>2 DEF Flow
  <2> QED  BY <1>3, <1>4, <2>1, <2>2, <2>3, <2>4
<1>5. CASE /\ names # <<>>
           /\ names' = Tail(names)
           /\ batch' = batch \cup {Head(names)}
           /\ batcher' = IF Cardinality(batch') >= MaxBatch THEN "send" ELSE "receive"
           /\ UNCHANGED <<main, counter, errors>>
  <2>1. /\ Head(names) \in Objects /\ names' \in Seq(Objects) /\ Len(names') <= NameCap
        /\ Elems(names) = {Head(names)} \cup Elems(names')
        /\ Ordered(names')
    BY <1>0, <1>5, ReceiveFromChannel DEF TypeOK, Order
  <2>2. /\ batch' \subseteq Objects /\ Cardinality(batch') \in Nat
        /\ Cardinality(batch') <= MaxBatch
        /\ batcher' = "receive" => Cardinality(batch') < MaxBatch
    <3>1. batch \subseteq Objects /\ Cardinality(batch) < MaxBatch
      BY <1>0 DEF TypeOK, Ends
    <3>2. /\ batch' \subseteq Objects /\ Cardinality(batch') \in Nat
          /\ Cardinality(batch') <= MaxBatch
      BY <1>5, <2>1, <3>1, BatchGrows
    <3> QED  BY <1>0, <1>5, <3>2
  <2>3. TypeOK'
    BY <1>0, <1>1, <1>5, <2>1, <2>2 DEF TypeOK
  <2>4. Finished' = Finished
    BY <1>0, <1>1, <1>5 DEF Finished
  <2>5. Counting' /\ Phases'
    BY <1>0, <1>1, <1>5, <2>4, StayCounts
  <2>6. Order'
    BY <1>1, <2>1 DEF Order
  <2>7. Ends'
    BY <1>0, <1>1, <1>2, <1>5, <2>2 DEF Ends
  <2>8. Flow'
    <3>1. Intact' => Intact
      BY <1>1, <1>2, <1>5 DEF Intact
    <3>2. \A x : OnItsWay(x)' <=> OnItsWay(x)
      BY <1>0, <1>1, <1>5, <2>1 DEF OnItsWay
    <3> QED  BY <1>1, <3>1, <3>2 DEF Flow
  <2> QED  BY <1>5, <2>3, <2>5, <2>6, <2>7, <2>8
<1>6. CASE /\ names = <<>> /\ forwarder = "done"
           /\ IF batch = {}
                 THEN batcher' = "done" /\ Done
                 ELSE batcher' = "flush" /\ UNCHANGED <<main, counter>>
           /\ UNCHANGED <<names, batch, errors>>
  <2>1. Order'
    BY <1>1, <1>6 DEF Order
  <2>2. Ends'
    BY <1>0, <1>1, <1>2, <1>6 DEF Ends
  <2>3. \A x : OnItsWay(x)' <=> OnItsWay(x)
    BY <1>0, <1>1, <1>6, SameWay
  <2>4. CASE batch = {}
    <3>1. TypeOK'
      BY <1>0, <1>1, <1>3, <1>6, <2>4 DEF TypeOK
    <3>2. Intact' => Intact
      BY <1>0, <1>1, <1>2, <1>6 DEF Intact, Running
    <3>3. Flow'
      BY <1>1, <2>3, <3>2 DEF Flow
    <3> QED  BY <1>3, <1>6, <2>1, <2>2, <2>4, <3>1, <3>3
  <2>5. CASE batch # {}
    <3>1. TypeOK'
      BY <1>0, <1>1, <1>6, <2>5 DEF TypeOK
    <3>2. Finished' = Finished
      BY <1>0, <1>1, <1>6, <2>5 DEF Finished
    <3>3. Counting' /\ Phases'
      BY <1>0, <1>1, <1>6, <2>5, <3>2, StayCounts
    <3>4. Intact' => Intact
      BY <1>0, <1>1, <1>2, <1>6 DEF Intact, Running
    <3>5. Flow'
      BY <1>1, <2>3, <3>4 DEF Flow
    <3> QED  BY <1>6, <2>1, <2>2, <2>5, <3>1, <3>3, <3>5
  <2> QED  BY <2>4, <2>5
<1> QED  BY <1>4, <1>5, <1>6 DEF BatchReceive

\* A full batch, or what was gathered last, goes to the workers.
LEMMA BatcherSends ==
  ASSUME CleanerInv, BatchSend
  PROVE  CleanerInv' /\ (main' = "panic" => main = "panic" \/ (main = "count" /\ batcher' = "done"))
<1> USE SizeAssumption DEF CleanerInv
<1>0. /\ Running /\ spawned = W + 1 /\ batcher \in {"send", "flush"}
      /\ UNCHANGED <<names, errors, batchRest>>
      /\ batches' = Append(batches, batch) /\ batch' = {} /\ Len(batches) < W
      /\ W \in Nat /\ N \in Nat /\ MaxBatch \in Nat \ {0}
      /\ batches \in Seq(SUBSET Objects) /\ batch \in SUBSET Objects /\ Len(batches) \in Nat
      /\ \A i \in Workers : worker[i] = "done" => errors # 0
  BY SMTT(30) DEF BatchSend, BatcherRuns, TypeOK, Ends
<1>1. UNCHANGED <<expired, bucket, spawned, lister, pos, pageEnd, listed, forwarder, held,
                  listError, worker, work, answered>>
  BY <1>0 DEF batchRest, listing
<1>2. ListFailed' = ListFailed
  BY <1>1 DEF ListFailed
<1>3. /\ batches' \in Seq(SUBSET Objects) /\ Len(batches') = Len(batches) + 1
      /\ Elems(batches') = Elems(batches) \cup {batch}
  BY <1>0, SendOnChannel
<1>4. Cardinality(batch') = 0
  BY <1>0, FS_EmptySet
<1>5. \/ batcher = "send" /\ batcher' = "receive" /\ UNCHANGED <<main, counter>>
      \/ batcher = "flush" /\ batcher' = "done" /\ Done
  BY <1>0 DEF BatchSend
<1>6. /\ Counting' /\ Phases' /\ counter' \in 0..spawned'
      /\ main' \in {main, "panic"}
      /\ main' = "panic" => main = "panic" \/ (main = "count" /\ batcher' = "done")
  <2>1. CASE batcher = "send" /\ batcher' = "receive" /\ UNCHANGED <<main, counter>>
    <3>1. Finished' = Finished
      BY <1>0, <1>1, <2>1 DEF Finished
    <3> QED  BY <1>0, <1>1, <2>1, <3>1, StayCounts DEF TypeOK
  <2>2. CASE batcher = "flush" /\ batcher' = "done" /\ Done
    <3>1. W + 1 \in 1..W + 1 /\ W + 1 <= spawned /\ ~ (spawned <= W)
      BY <1>0
    <3>2. W + 1 \notin Finished /\ Finished' = Finished \cup {W + 1}
      BY <1>0, <1>1, <2>2 DEF Finished, Workers
    <3> QED  BY <1>0, <1>1, <2>2, <3>1, <3>2, ExitCounts
  <2> QED  BY <1>5, <2>1, <2>2
<1>7. TypeOK'
  BY <1>0, <1>1, <1>3, <1>4, <1>5, <1>6 DEF TypeOK
<1>8. Order'
  BY <1>0, <1>1 DEF Order
<1>9. Ends'
  BY <1>0, <1>1, <1>2, <1>4, <1>5 DEF Ends
<1>10. Flow'
  <2>1. Intact' => Intact
    BY <1>0, <1>1, <1>2 DEF Intact, Running
  <2>2. \A x : OnItsWay(x)' <=> OnItsWay(x)
    BY <1>0, <1>1, <1>3 DEF OnItsWay
  <2> QED  BY <1>1, <2>1, <2>2 DEF Flow
<1> QED  BY <1>6, <1>7, <1>8, <1>9, <1>10

-----------------------------------------------------------------------------
(***************************************************************************)
(* The steps of a worker                                                   *)
(***************************************************************************)

\* What a worker's steps have in common.
WorkerFacts(i) ==
    /\ Running /\ i \in 1..W + 1 /\ i # W + 1 /\ i <= spawned /\ W \in Nat
    /\ worker \in [Workers -> {"receive", "delete", "done"}]
    /\ work \in [Workers -> SUBSET Objects] /\ errors \in Nat
    /\ UNCHANGED <<expired, spawned, lister, pos, pageEnd, listed, forwarder, held, listError,
                   names, batcher, batch>>
    /\ ListFailed' = ListFailed

\* They hold of every step of a worker.
LEMMA WorkerHas ==
  ASSUME CleanerInv, NEW i \in Workers, Worker(i)
  PROVE  WorkerFacts(i)
<1>1. Running /\ i <= spawned /\ UNCHANGED workRest
  BY DEF Worker, WorkerReceive, WorkerDelete, WorkerRuns
<1>2. UNCHANGED <<expired, spawned, lister, pos, pageEnd, listed, forwarder, held, listError,
                  names, batcher, batch>>
  BY <1>1 DEF workRest, listing
<1>3. ListFailed' = ListFailed
  BY <1>2 DEF ListFailed
<1>4. W \in Nat /\ i \in 1..W + 1 /\ i # W + 1
  BY SizeAssumption DEF Workers
<1>5. /\ worker \in [Workers -> {"receive", "delete", "done"}]
      /\ work \in [Workers -> SUBSET Objects] /\ errors \in Nat
  BY <1>4 DEF CleanerInv, TypeOK
<1> QED  BY <1>1, <1>2, <1>3, <1>4, <1>5 DEF WorkerFacts

\* A worker exits: it was still counted, or the panic is one that may happen.
LEMMA WorkerExits ==
  ASSUME CleanerInv, NEW i \in Workers, WorkerFacts(i), worker[i] # "done", WorkerExit(i),
         errors' \in {errors, errors + 1},
         batches' = batches \/ spawned = W + 1
  PROVE  /\ Counting' /\ Phases' /\ errors' \in 0..W + 1 /\ counter' \in 0..spawned'
         /\ main \in {"spawn", "count", "wait"} /\ main' \in {main, "panic"}
         /\ worker' \in [Workers -> {"receive", "delete", "done"}]
         /\ worker'[i] = "done" /\ \A j \in Workers : j # i => worker'[j] = worker[j]
         /\ main' = "panic" => /\ main = "count"
                               /\ spawned = W + 1 => batcher = "done"
<1> USE DEF WorkerFacts
<1>1. /\ worker' \in [Workers -> {"receive", "delete", "done"}]
      /\ worker'[i] = "done" /\ \A j \in Workers : j # i => worker'[j] = worker[j]
  BY DEF WorkerExit
<1>2. i \notin Finished /\ Finished' = Finished \cup {i}
  BY <1>1 DEF Finished, Workers
<1>3. spawned <= W => /\ batches' = <<>> /\ batcher' = "receive"
                      /\ \A j \in Workers : worker'[j] # "delete"
  <2>1. spawned <= W => batches' = batches
    <3>1. spawned <= W => spawned # W + 1
      BY DEF CleanerInv, TypeOK
    <3> QED  BY <3>1
  <2> QED  BY <1>1, <2>1 DEF CleanerInv, Phases
<1>4. /\ Counting' /\ Phases' /\ errors' \in 0..W + 1 /\ counter' \in 0..spawned'
      /\ main \in {"spawn", "count", "wait"} /\ main' \in {main, "panic"}
      /\ main' = "panic" => main = "count" /\ Finished' = 1..spawned
  BY <1>2, <1>3, ExitCounts DEF CleanerInv, WorkerExit
<1>5. spawned = W + 1 /\ Finished' = 1..spawned => batcher = "done"
  <2>1. W + 1 \in 1..W + 1 /\ W + 1 \notin Workers
    BY DEF Workers
  <2> QED  BY <2>1 DEF Finished
<1> QED  BY <1>1, <1>4, <1>5

\* A worker gives up because of the context, takes a batch, or notices that no
\* more batches will come.
LEMMA WorkerReceives ==
  ASSUME CleanerInv, NEW i \in Workers, WorkerReceive(i)
  PROVE  /\ CleanerInv'
         /\ UNCHANGED <<bucket, answered>>
         /\ main' = "panic" => main = "count" /\ (expired \/ batcher' = "done")
         /\ main' \in {main, "panic"}
<1> USE DEF CleanerInv
<1>0. WorkerFacts(i) /\ worker[i] = "receive" /\ UNCHANGED <<bucket, answered>>
  BY WorkerHas DEF Worker, WorkerReceive
<1> USE <1>0 DEF WorkerFacts
<1>1. CASE expired /\ errors' = errors + 1 /\ WorkerExit(i) /\ UNCHANGED <<batches, work>>
  <2> USE <1>1, WorkerExits
  <2>1. TypeOK'
    BY ZenonT(60) DEF TypeOK
  <2>2. Order'
    BY DEF Order
  <2>3. Ends'
    BY DEF Ends
  <2>4. Flow'
    <3>1. ~ Intact'
      BY DEF Intact
    <3>2. \A x : OnItsWay(x)' <=> OnItsWay(x)
      BY SameWay
    <3> QED  BY <3>1, <3>2 DEF Flow
  <2> QED  BY <2>1, <2>2, <2>3, <2>4
<1>2. CASE /\ batches # <<>>
           /\ batches' = Tail(batches)
           /\ work' = [work EXCEPT ![i] = Head(batches)]
           /\ worker' = [worker EXCEPT ![i] = "delete"]
           /\ UNCHANGED <<main, counter, errors>>
  <2>1. /\ Head(batches) \in SUBSET Objects /\ batches' \in Seq(SUBSET Objects)
        /\ Len(batches') <= W
        /\ Elems(batches) = {Head(batches)} \cup Elems(batches')
    BY <1>2, ReceiveFromChannel DEF TypeOK
  <2>2. /\ worker' \in [Workers -> {"receive", "delete", "done"}]
        /\ work' \in [Workers -> SUBSET Objects]
        /\ worker'[i] = "delete" /\ \A j \in Workers : j # i => worker'[j] = worker[j]
        /\ work'[i] = Head(batches) /\ \A j \in Workers : j # i => work'[j] = work[j]
    BY <1>2, <2>1
  <2>3. TypeOK'
    BY <1>2, <2>1, <2>2 DEF TypeOK
  <2>4. Finished' = Finished
    BY <2>2 DEF Finished
  <2>5. Counting' /\ Phases'
    <3>1. ~ (spawned <= W)
      BY <1>2 DEF Phases
    <3> QED  BY <1>2, <2>4, <3>1, StayCounts
  <2>6. Order'
    BY DEF Order
  <2>7. Ends'
    BY <1>2, <2>2 DEF Ends
  <2>8. Flow'
    <3>1. Intact' => Intact
      BY <1>2 DEF Intact
    <3>2. \A x : OnItsWay(x)' <=> OnItsWay(x)
      <4>1. work[i] = {}
        BY DEF Ends
      <4>2. \A x : (\E j \in Workers : x \in work'[j]) <=>
                     (\E j \in Workers : x \in work[j]) \/ x \in Head(batches)
        BY <2>2, <4>1
      <4> QED  BY <1>2, <2>1, <4>2 DEF OnItsWay
    <3> QED  BY <3>1, <3>2 DEF Flow
  <2> QED  BY <1>2, <2>3, <2>5, <2>6, <2>7, <2>8 DEF Running
<1>3. CASE /\ batches = <<>> /\ batcher = "done"
           /\ WorkerExit(i)
           /\ UNCHANGED <<batches, work, errors>>
  <2> USE <1>3, WorkerExits
  <2>1. TypeOK'
    BY SMTT(30) DEF TypeOK
  <2>2. Order'
    BY DEF Order
  <2>3. Ends'
    BY DEF Ends
  <2>4. Flow'
    <3>1. Intact' => Intact
      BY DEF Intact, Running
    <3>2. \A x : OnItsWay(x)' <=> OnItsWay(x)
      BY SameWay
    <3> QED  BY <3>1, <3>2 DEF Flow
  <2> QED  BY <2>1, <2>2, <2>3, <2>4
<1> QED  BY <1>1, <1>2, <1>3 DEF WorkerReceive

\* A worker's request is answered, or fails and ends it: only while the caller
\* still waits.
LEMMA WorkerDeletes ==
  ASSUME CleanerInv, NEW i \in Workers, WorkerDelete(i)
  PROVE  /\ CleanerInv'
         /\ main' = "panic" => main = "count" /\ (expired \/ batcher' = "done")
         /\ main \in {"spawn", "count", "wait"} /\ main' \in {main, "panic"}
         /\ bucket' \subseteq bucket /\ answered \subseteq answered'
         /\ main' = "panic" => UNCHANGED <<bucket, answered>>
<1> USE DEF CleanerInv
<1>0. WorkerFacts(i) /\ worker[i] = "delete" /\ batches' = batches
  BY WorkerHas DEF Worker, WorkerDelete
<1>1. spawned = W + 1
  BY <1>0 DEF WorkerFacts, Phases, TypeOK
<1>2. bucket' \subseteq bucket
  BY DEF WorkerDelete
<1>3. main \in {"spawn", "count", "wait"}
  <2>1. i \in 1..W + 1 /\ i \notin Finished
    BY <1>0 DEF WorkerFacts, Finished
  <2> QED  BY <1>0, <1>1, <2>1, SizeAssumption DEF TypeOK, Phases, Running, Returned, WorkerFacts
<1> USE <1>0 DEF WorkerFacts
<1>4. Order'
  BY DEF Order
<1>5. CASE /\ answered' = answered \cup work[i]
           /\ worker' = [worker EXCEPT ![i] = "receive"]
           /\ work' = [work EXCEPT ![i] = {}]
           /\ UNCHANGED <<main, counter, errors>>
  <2>1. /\ worker' \in [Workers -> {"receive", "delete", "done"}]
        /\ worker'[i] = "receive" /\ \A j \in Workers : j # i => worker'[j] = worker[j]
        /\ work' \in [Workers -> SUBSET Objects]
        /\ work'[i] = {} /\ \A j \in Workers : j # i => work'[j] = work[j]
    BY <1>5
  <2>2. TypeOK'
    BY <1>2, <1>5, <2>1 DEF TypeOK
  <2>3. Finished' = Finished
    BY <2>1 DEF Finished
  <2>4. Counting' /\ Phases'
    BY <1>1, <1>5, <2>3, StayCounts
  <2>5. Ends'
    BY <1>5, <2>1 DEF Ends
  <2>6. Flow'
    <3>1. Intact' => Intact
      BY <1>5 DEF Intact
    <3>2. \A x : x \in answered' \/ OnItsWay(x)' <=> x \in answered \/ OnItsWay(x)
      <4>1. \A x : x \in answered' \/ (\E j \in Workers : x \in work'[j]) <=>
                   x \in answered \/ (\E j \in Workers : x \in work[j])
        BY <1>5, <2>1
      <4> QED  BY <4>1 DEF OnItsWay
    <3> QED  BY <3>1, <3>2 DEF Flow
  <2> QED  BY <1>2, <1>3, <1>4, <1>5, <2>2, <2>4, <2>5, <2>6 DEF Running
<1>6. CASE errors' = errors + 1 /\ WorkerExit(i) /\ UNCHANGED <<bucket, answered, work>>
  <2> USE <1>6, WorkerExits
  <2>1. TypeOK'
    BY ZenonT(60) DEF TypeOK
  <2>2. Ends'
    BY DEF Ends
  <2>3. Flow'
    <3>1. ~ Intact'
      BY DEF Intact
    <3>2. \A x : OnItsWay(x)' <=> OnItsWay(x)
      BY SameWay
    <3> QED  BY <3>1, <3>2 DEF Flow
  <2> QED  BY <1>1, <1>2, <1>3, <1>4, <2>1, <2>2, <2>3
<1> QED  BY <1>5, <1>6 DEF WorkerDelete

-----------------------------------------------------------------------------
(***************************************************************************)
(* The theorems                                                            *)
(***************************************************************************)

\* A step of the service, or one that changes nothing, keeps the invariant.
LEMMA ServiceKeeps ==
  ASSUME CleanerInv, bucket' \subseteq bucket,
         UNCHANGED <<expired, main, spawned, counter, lister, pos, pageEnd, listed, forwarder,
                     held, listError, names, batcher, batch, batches, worker, work, errors,
                     answered>>
  PROVE  CleanerInv'
<1> USE DEF CleanerInv
<1>1. Finished' = Finished /\ ListFailed' = ListFailed /\ Counted' = Counted
  BY DEF Finished, ListFailed, Counted, Elems
<1>2. TypeOK'
  BY DEF TypeOK
<1>3. Counting' /\ Phases'
  BY <1>1 DEF Counting, Phases
<1>4. Order' /\ Ends'
  BY <1>1 DEF Order, Ends
<1>5. Flow'
  BY <1>1, SameWay DEF Flow, Intact
<1> QED  BY <1>2, <1>3, <1>4, <1>5

\* Every step keeps the invariant.
LEMMA NextCleanerInv == CleanerInv /\ [Next]_vars => CleanerInv'
<1> SUFFICES ASSUME CleanerInv, [Next]_vars PROVE CleanerInv'
  OBVIOUS
<1>1. CASE Main
  BY <1>1, MainKeeps
<1>2. CASE Lister
  BY <1>2, ListerReads, ListerEmits DEF Lister
<1>3. CASE Forwarder
  BY <1>3, ForwarderReceives, ForwarderSends DEF Forwarder
<1>4. CASE Batcher
  BY <1>4, BatcherReceives, BatcherSends DEF Batcher
<1>5. ASSUME NEW i \in Workers, Worker(i) PROVE CleanerInv'
  BY <1>5, WorkerReceives, WorkerDeletes DEF Worker
<1>6. CASE Expire
  BY <1>6, ExpireKeeps
<1>7. CASE UNCHANGED vars
  BY <1>7, ServiceKeeps DEF vars
<1>8. ASSUME NEW i \in Workers, ServiceDelete(i) PROVE CleanerInv'
  BY <1>8, ServiceKeeps DEF ServiceDelete, workRest, listing
<1> QED  BY <1>1, <1>2, <1>3, <1>4, <1>5, <1>6, <1>7, <1>8 DEF Next

\* CleanObjects always satisfies the invariant.
THEOREM CleanerInvariant == Spec => []CleanerInv
  BY InitCleanerInv, NextCleanerInv, PTL DEF Spec

\* Every variable holds what its declaration says: no channel of CleanObjects
\* ever holds more than it was made for, errorsChan in particular, the batch
\* never exceeds MAX_BATCH_SIZE and the WaitGroup is never negative.
THEOREM TypeCorrect == Spec => []TypeOK
<1>1. CleanerInv => TypeOK
  BY DEF CleanerInv
<1> QED  BY <1>1, CleanerInvariant, PTL

\* While nothing has failed every object taken from the listing is in one of the
\* four stages or was in a delete request that was answered, and the names reach
\* the batcher in the order of the listing.
THEOREM NothingIsLost == Spec => []NothingLostBeforeFailure
<1>1. CleanerInv => NothingLostBeforeFailure
  <2> SUFFICES ASSUME CleanerInv, ~ expired, errors = 0, main # "panic"
               PROVE  /\ 1..pos \subseteq answered \cup InPipeline
                      /\ \A k \in 1..Len(names) - 1 : names[k] < names[k + 1]
    BY DEF NothingLostBeforeFailure
  <2>1. Intact
    BY DEF Intact
  <2>2. \A x : OnItsWay(x) => x \in InPipeline
    <3> SUFFICES ASSUME NEW x, OnItsWay(x) PROVE x \in InPipeline
      OBVIOUS
    <3> DEFINE B == UNION {batches[k] : k \in DOMAIN batches}
               A == UNION {work[i] : i \in Workers}
               E == IF lister = "emit" THEN {pos} ELSE {}
    <3>1. InPipeline = Elems(listed) \cup {held} \cup Elems(names) \cup batch \cup B \cup A \cup E
      BY Zenon DEF InPipeline, Elems
    <3>2. \/ x \in Elems(listed) \/ x = held \/ x \in Elems(names) \/ x \in batch
          \/ x \in B \/ x \in A \/ x \in E
      BY DEF OnItsWay, Elems
    <3> HIDE DEF A, B, E
    <3> QED  BY <3>1, <3>2
  <2>3. 1..pos \subseteq answered \cup InPipeline
    BY <2>1, <2>2 DEF CleanerInv, Flow
  <2>4. ASSUME NEW k \in 1..Len(names) - 1
        PROVE  names[k] < names[k + 1]
    <3>1. names \in Seq(Objects) /\ Len(names) \in Nat
      BY DEF CleanerInv, TypeOK
    <3>2. k \in 1..Len(names) /\ k + 1 \in 1..Len(names) /\ k < k + 1
      BY <3>1
    <3>3. names[k + 1] \in Objects
      BY <3>1, <3>2, LenProperties
    <3> QED  BY <3>2, <3>3 DEF CleanerInv, Order, Ordered, Error, Objects
  <2> QED  BY <2>3, <2>4
<1> QED  BY <1>1, CleanerInvariant, PTL

\* One step panics only before the last Add of its WaitGroup.
LEMMA PanicStep ==
  CleanerInv /\ [Next]_vars =>
    [Running /\ main' = "panic" =>
         /\ main \in {"add", "count"}
         /\ main = "count" => expired \/ batcher' = "done"]_vars
<1> SUFFICES ASSUME CleanerInv, Next, Running, main' = "panic"
             PROVE  /\ main \in {"add", "count"}
                    /\ main = "count" => expired \/ batcher' = "done"
  OBVIOUS
<1>1. CASE Main
  BY <1>1 DEF Main, Start, AddForwarder, DeleteObjects, Spawn, Count, Wait, WaitForwarder
<1>2. CASE Lister
  BY <1>2 DEF Lister, SendListObjectsRequest, NextEntry, EndOfPage, EmitEntry, EmitError,
              listRest, Running
<1>3. CASE Forwarder
  BY <1>3 DEF Forwarder, ForwardReceive, ForwardSend, ForwarderDone, Running
<1>4. CASE Batcher
  <2>1. Running
    BY <1>4 DEF Batcher, BatchReceive, BatchSend, BatcherRuns
  <2> QED  BY <1>4, <2>1, BatcherReceives, BatcherSends DEF Batcher, Running
<1>5. ASSUME NEW i \in Workers, Worker(i)
      PROVE  main = "count" /\ (expired \/ batcher' = "done")
  BY <1>5, WorkerReceives, WorkerDeletes DEF Worker
<1>6. CASE Expire
  BY <1>6 DEF Expire, Running
<1>7. ASSUME NEW i \in Workers, ServiceDelete(i) PROVE FALSE
  BY <1>7 DEF ServiceDelete, Running
<1> QED  BY <1>1, <1>2, <1>3, <1>4, <1>5, <1>6, <1>7 DEF Next

\* A WaitGroup of CleanObjects panics only between a go statement and the Add
\* that follows it, and never once wg.Wait may have been reached.
THEOREM PanicsAreEarly == Spec => PanicOnlyUncounted
  BY CleanerInvariant, PanicStep, PTL DEF Spec, PanicOnlyUncounted

\* When deleteObjects has returned without an error, all of its goroutines are
\* through and no request is left with the service.
LEMMA NothingPending ==
  ASSUME CleanerInv, main \in {"waitForwarder", "ok"}
  PROVE  /\ errors = 0 /\ batcher = "done"
         /\ \A i \in Workers : worker[i] = "done" /\ work[i] = {}
<1> USE SizeAssumption DEF CleanerInv
<1>1. /\ errors = 0 /\ batcher = "done" /\ \A i \in Workers : worker[i] = "done"
  <2>1. Finished = 1..W + 1 /\ errors = 0
    BY DEF Phases
  <2>2. W + 1 \in 1..W + 1 /\ W + 1 \notin Workers /\ Workers \subseteq 1..W + 1
    BY DEF Workers
  <2>3. \A g \in 1..W + 1 : \/ g \in Workers /\ worker[g] = "done"
                            \/ g = W + 1 /\ batcher = "done"
    BY <2>1 DEF Finished
  <2> QED  BY <2>1, <2>2, <2>3
<1> QED  BY <1>1 DEF Ends

\* Success is reported when everything that was listed was answered, and the
\* listing named every object or none.
LEMMA SuccessIsEarned ==
  ASSUME CleanerInv, main = "waitForwarder", forwarder = "done", ~ listError
  PROVE  1..pos \in {{}, Objects} /\ answered = 1..pos
<1> USE SizeAssumption DEF CleanerInv
<1>1. /\ errors = 0 /\ batcher = "done"
      /\ \A i \in Workers : worker[i] = "done" /\ work[i] = {}
  BY NothingPending
<1>2. listed = <<>> /\ lister = "done" /\ names = <<>> /\ batch = {} /\ held = Error
  BY <1>1 DEF Ends, Order
<1>3. batches = <<>>
  <2>1. 1 \in Workers
    BY DEF Workers
  <2> QED  BY <1>1, <2>1 DEF Ends
<1>4. ~ ListFailed /\ Intact /\ pos \in {0, N}
  BY <1>1, <1>2, EmptyChannel DEF ListFailed, Intact, Ends
<1>5. \A x \in 1..pos : x \in answered
  BY <1>1, <1>2, <1>3, <1>4, EmptyChannel DEF Flow, OnItsWay, Error
<1>6. answered \subseteq 1..pos
  <2>1. answered \subseteq Objects /\ pos \in 0..N
    BY DEF TypeOK
  <2>2. \A x \in answered : x \in 0..N
    BY <2>1 DEF Objects
  <2> QED  BY <2>1, <2>2 DEF Flow, Objects
<1>7. pos = 0 => 1..pos = {}
  OBVIOUS
<1>8. pos = N => 1..pos = Objects
  BY DEF Objects
<1> QED  BY <1>4, <1>5, <1>6, <1>7, <1>8

\* Every step of CleanObjects is a step of BucketCleanup or leaves its variables.
LEMMA NextRefines == CleanerInv /\ [Next]_vars => [Cleanup!Next]_(Cleanup!vars)
<1> SUFFICES ASSUME CleanerInv, [Next]_vars
             PROVE  Cleanup!Next \/ UNCHANGED Cleanup!vars
  OBVIOUS
<1> USE DEF Cleanup!vars, Cleanup!Next
<1>0. main \in {"start", "add", "delete", "spawn", "count", "wait", "waitForwarder", "panic",
               "ok", "failed"}
  BY DEF CleanerInv, TypeOK, Returned
<1>1. CASE Main
  <2>1. UNCHANGED <<bucket, pos, answered>>
    BY <1>1 DEF Main, Start, AddForwarder, DeleteObjects, Spawn, Count, Wait, WaitForwarder,
                listing
  <2>2. CASE main' = "ok"
    <3>1. main = "waitForwarder" /\ forwarder = "done" /\ ~ listError
      BY <1>1, <2>2 DEF Main, Start, AddForwarder, DeleteObjects, Spawn, Count, Wait,
                        WaitForwarder
    <3>2. 1..pos \in {{}, Objects} /\ answered = 1..pos
      BY <3>1, SuccessIsEarned
    <3> QED  BY <2>1, <2>2, <3>1, <3>2 DEF Cleanup!Succeed, Status, Returned
  <2>3. CASE main' = "failed"
    <3>1. Status = "running"
      BY <1>0, <1>1 DEF Main, Start, AddForwarder, DeleteObjects, Spawn, Count, Wait,
                        WaitForwarder, Status, Returned
    <3> QED  BY <2>1, <2>3, <3>1 DEF Cleanup!Fail, Status, Returned
  <2>4. CASE main' \notin {"ok", "failed"}
    <3>1. Status = "running" /\ Status' = "running"
      BY <1>1, <2>4 DEF Main, Start, AddForwarder, DeleteObjects, Spawn, Count, Wait,
                        WaitForwarder, Status, Returned
    <3> QED  BY <2>1, <3>1
  <2> QED  BY <2>2, <2>3, <2>4
<1>2. CASE Lister
  <2>1. /\ UNCHANGED <<main, bucket, answered>> /\ Running
        /\ pos' = pos \/ (lister = "page" /\ pos < pageEnd /\ pos' = pos + 1)
    BY <1>2 DEF Lister, SendListObjectsRequest, NextEntry, EndOfPage, EmitEntry, EmitError,
                listRest
  <2>2. CASE pos' = pos
    BY <2>1, <2>2 DEF Status
  <2>3. CASE lister = "page" /\ pos < pageEnd /\ pos' = pos + 1
    <3>1. main \notin {"waitForwarder", "ok"}
      BY <2>3, NothingPending DEF CleanerInv, Ends
    <3>2. Status \in {"running", "failed"} /\ Status' = Status
      BY <1>0, <2>1, <3>1 DEF Status, Returned, Running
    <3>3. 1..pos \subseteq (1..pos)' /\ (1..pos)' \subseteq Objects
      BY <2>3, SizeAssumption DEF CleanerInv, TypeOK, Objects
    <3> QED  BY <2>1, <3>2, <3>3 DEF Cleanup!List
  <2> QED  BY <2>1, <2>2, <2>3
<1>3. CASE Forwarder
  <2>1. /\ UNCHANGED <<bucket, pos, answered>>
        /\ main' = main \/ (main = "add" /\ main' = "panic")
    BY <1>3 DEF Forwarder, ForwardReceive, ForwardSend, ForwarderDone, forwardRest, listing
  <2> QED  BY <2>1 DEF Cleanup!Fail, Status, Returned
<1>4. CASE Batcher
  <2>1. /\ UNCHANGED <<bucket, pos, answered>> /\ Running
        /\ main' \in {main, "panic"}
    BY <1>4 DEF Batcher, BatchReceive, BatchSend, BatcherRuns, Done, batchRest, listing
  <2>2. main' = "panic" => main = "count"
    BY <1>4, <2>1, BatcherReceives, BatcherSends DEF Batcher, Running
  <2> QED  BY <2>1, <2>2 DEF Cleanup!Fail, Status, Returned
<1>5. ASSUME NEW i \in Workers, WorkerReceive(i)
      PROVE  Cleanup!Next \/ UNCHANGED Cleanup!vars
  <2>1. /\ UNCHANGED <<bucket, pos, answered>> /\ main' \in {main, "panic"}
        /\ main' = "panic" => main = "count"
    BY <1>5, WorkerReceives, WorkerHas DEF Worker, WorkerFacts
  <2> QED  BY <2>1 DEF Cleanup!Fail, Status, Returned
<1>6. ASSUME NEW i \in Workers, WorkerDelete(i)
      PROVE  Cleanup!Next \/ UNCHANGED Cleanup!vars
  <2>1. /\ main \in {"spawn", "count", "wait"} /\ main' \in {main, "panic"}
        /\ bucket' \subseteq bucket /\ answered \subseteq answered' /\ pos' = pos
        /\ main' = "panic" => UNCHANGED <<bucket, answered>>
        /\ CleanerInv'
    BY <1>6, WorkerDeletes, WorkerHas DEF Worker, WorkerFacts
  <2>2. answered' \subseteq 1..pos
    <3>1. answered' \subseteq Objects /\ pos \in 0..N
      BY <2>1 DEF CleanerInv, TypeOK
    <3>2. \A x \in answered' : x \in 0..N
      BY <3>1, SizeAssumption DEF Objects
    <3> QED  BY <2>1, <3>1, <3>2, SizeAssumption DEF CleanerInv, Flow, Objects
  <2>3. CASE main' = "panic"
    BY <2>1, <2>3 DEF Cleanup!Fail, Status, Returned
  <2>4. CASE main' = main
    <3>1. Status = "running" /\ Status' = Status
      BY <2>1, <2>4 DEF Status, Returned
    <3> QED  BY <2>1, <2>2, <3>1 DEF Cleanup!Answer
  <2> QED  BY <2>1, <2>3, <2>4
<1>7. CASE Expire
  BY <1>7 DEF Expire, Status, listing
<1>8. CASE UNCHANGED vars
  BY <1>8 DEF vars, Status
<1>9. ASSUME NEW i \in Workers, ServiceDelete(i)
      PROVE  Cleanup!Next \/ UNCHANGED Cleanup!vars
  <2>1. UNCHANGED <<main, pos, answered>> /\ bucket' \subseteq bucket /\ work[i] # {}
    BY <1>9 DEF ServiceDelete, workRest, listing
  <2>2. Status # "ok" /\ Status' = Status
    BY <2>1, NothingPending DEF Status, Returned
  <2> QED  BY <2>1, <2>2 DEF Cleanup!Delete
<1> QED  BY <1>1, <1>2, <1>3, <1>4, <1>5, <1>6, <1>7, <1>8, <1>9 DEF Next, Worker

\* CleanObjects implements BucketCleanup: it reports success only when the
\* listing named every object or none and all that it named was in delete
\* requests that were answered, and after a success nothing it started touches
\* the bucket.
THEOREM CleanupImplemented == Spec => CleanupRefined
<1>1. Init => Cleanup!Init
  BY DEF Init, Cleanup!Init, Status, Returned
<1> QED
  BY <1>1, NextRefines, CleanerInvariant, PTL DEF Spec, CleanupRefined, Cleanup!Spec
=============================================================================

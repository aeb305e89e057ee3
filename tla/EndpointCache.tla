--------------------------- MODULE EndpointCache ----------------------------
(***************************************************************************)
(* The process-wide cache of qiniu/kodo.go: getCacheValueByKey (a sync.Map *)
(* with deadlines in front of a singleflight.Group) and the look-ups that  *)
(* go through it twice.  GetS3Endpoint, GetRsEndpoint, GetRsfEndpoint,     *)
(* GetCentralApiEndpoint and FromKodoRegionIDToS3RegionID ask GetRegions;  *)
(* FindBucketByName with useCache asks GetBuckets.  An upper key (an       *)
(* endpoint of a region, a bucket name) is filled from a lower key (the    *)
(* regions, the buckets), and only the lower key is filled by a request.   *)
(*                                                                         *)
(* A value is represented by the time at which the service knew it; the    *)
(* absence of a region or bucket (nil) is a value like any other.  Only    *)
(* requests take time.                                                     *)
(***************************************************************************)
EXTENDS Naturals

CONSTANTS
    Callers,   \* goroutines that look something up
    Upper,     \* cache keys the callers ask for
    Lower,     \* the cache key all of them are filled from
    TtlU,      \* time to live of the upper keys: 24 h
    TtlL,      \* time to live of the lower key: 24 h (regions), 1 s (buckets)
    MaxTime,   \* bound on the clock
    Failed,    \* the answer "error"
    None       \* nothing

ASSUME CacheAssumption ==
    /\ Lower \notin Upper
    /\ TtlU \in Nat \ {0} /\ TtlL \in Nat \ {0} /\ MaxTime \in Nat
    /\ Failed # None /\ {Failed, None} \cap (0..MaxTime) = {}
    /\ None \notin Callers \cup Upper

Keys == Upper \cup {Lower}
Time == 0..MaxTime

VARIABLES
    now,       \* the clock
    cacheMap,  \* cacheMap[k]: a value and its deadline, or None
    flight,    \* flight[k]: the caller that runs fn for k in singleflightGroup
    pc,        \* pc[c]: its next step
    key,       \* key[c]: the upper key it asked for
    level,     \* level[c]: the key its getCacheValueByKey is about
    got,       \* got[c]: the value it was handed
    result,    \* the answer just given, to the caller that no longer asks, or None
    failing,   \* a request has failed, or its answer did not do, at this very moment
    excused    \* callers that were asking at such a moment

vars == <<now, cacheMap, flight, pc, key, level, got, result, failing, excused>>
history == <<result, failing, excused>>

Entry == [value : Time, deadline : 0..(MaxTime + TtlU + TtlL)]

\* Steps that only compute.
Busy == {"load", "join", "loadAgain", "store", "fail", "got"}

\* Every variable holds what its declaration says: in particular no error and
\* no half-made value is ever in the map.
TypeOK ==
    /\ now \in Time
    /\ cacheMap \in [Keys -> Entry \cup {None}]
    /\ flight \in [Keys -> Callers \cup {None}]
    /\ pc \in [Callers -> Busy \cup {"idle", "fetch", "wait"}]
    /\ key \in [Callers -> Upper \cup {None}]
    /\ level \in [Callers -> {"upper", "lower"}]
    /\ got \in [Callers -> Time \cup {Failed, None}]
    /\ result \in Time \cup {Failed, None}
    /\ failing \in BOOLEAN /\ excused \subseteq Callers
    /\ \A c \in Callers : pc[c] = "store" => got[c] \in Time
    /\ \A c \in Callers : pc[c] # "idle" => key[c] \in Upper

Init ==
    /\ now = 0
    /\ cacheMap = [k \in Keys |-> None]
    /\ flight = [k \in Keys |-> None]
    /\ pc = [c \in Callers |-> "idle"]
    /\ key = [c \in Callers |-> None]
    /\ level = [c \in Callers |-> "upper"]
    /\ got = [c \in Callers |-> None]
    /\ result = None
    /\ failing = FALSE /\ excused = {}

Asking == {c \in Callers : pc[c] # "idle"}

\* The cacheKey of the getCacheValueByKey that caller c is in.
Key(c) == IF level[c] = "upper" THEN key[c] ELSE Lower

Ttl(c) == IF level[c] = "upper" THEN TtlU ELSE TtlL

\* Faulty: the deadline is not looked at.
ValidForever(k) == cacheMap[k] # None

Valid(k) == cacheMap[k] # None /\ now < cacheMap[k].deadline

-----------------------------------------------------------------------------
Ask(c, k) ==
    /\ pc[c] = "idle"
    /\ pc' = [pc EXCEPT ![c] = "load"]
    /\ key' = [key EXCEPT ![c] = k]
    /\ level' = [level EXCEPT ![c] = "upper"]
    /\ result' = None
    /\ excused' = IF failing THEN excused \cup {c} ELSE excused
    /\ UNCHANGED <<now, cacheMap, flight, got, failing>>

\* The first look into the map, outside the flight.
Load(c) ==
    /\ pc[c] = "load"
    /\ IF Valid(Key(c))
          THEN /\ got' = [got EXCEPT ![c] = cacheMap[Key(c)].value]
               /\ pc' = [pc EXCEPT ![c] = "got"]
          ELSE /\ pc' = [pc EXCEPT ![c] = "join"]
               /\ UNCHANGED got
    /\ UNCHANGED <<now, cacheMap, flight, level, key, history>>

\* singleflightGroup.Do: the first caller runs the function, the others wait.
Join(c) ==
    /\ pc[c] = "join"
    /\ IF flight[Key(c)] = None
          THEN /\ flight' = [flight EXCEPT ![Key(c)] = c]
               /\ pc' = [pc EXCEPT ![c] = "loadAgain"]
          ELSE /\ pc' = [pc EXCEPT ![c] = "wait"]
               /\ UNCHANGED flight
    /\ UNCHANGED <<now, cacheMap, level, got, key, history>>

\* Faulty: the result is handed to the first caller only.
LandAlone(c, value) ==
    /\ flight' = [flight EXCEPT ![Key(c)] = None]
    /\ got' = [got EXCEPT ![c] = value]
    /\ pc' = [pc EXCEPT ![c] = "got"]

\* The flight ends: the caller that ran it and all that wait for it get value.
Land(c, value) ==
    LET landed == {w \in Callers : w = c \/ (pc[w] = "wait" /\ Key(w) = Key(c))} IN
    /\ flight' = [flight EXCEPT ![Key(c)] = None]
    /\ got' = [w \in Callers |-> IF w \in landed THEN value ELSE got[w]]
    /\ pc' = [w \in Callers |-> IF w \in landed THEN "got" ELSE pc[w]]

\* Faulty: no second look into the map.
LoadOnce(c) ==
    /\ pc[c] = "loadAgain"
    /\ IF level[c] = "upper"
          THEN /\ level' = [level EXCEPT ![c] = "lower"]
               /\ pc' = [pc EXCEPT ![c] = "load"]
          ELSE /\ pc' = [pc EXCEPT ![c] = "fetch"]
               /\ UNCHANGED level
    /\ UNCHANGED <<now, cacheMap, flight, got, key, history>>

\* The second look, inside the flight; then fn, which is a look-up of the lower
\* key or, there, a request.
LoadAgain(c) ==
    /\ pc[c] = "loadAgain"
    /\ IF Valid(Key(c))
          THEN Land(c, cacheMap[Key(c)].value) /\ UNCHANGED level
          ELSE /\ IF level[c] = "upper"
                     THEN /\ level' = [level EXCEPT ![c] = "lower"]
                          /\ pc' = [pc EXCEPT ![c] = "load"]
                     ELSE /\ pc' = [pc EXCEPT ![c] = "fetch"]
                          /\ UNCHANGED level
               /\ UNCHANGED <<flight, got>>
    /\ UNCHANGED <<now, cacheMap, key, history>>

\* getRegions, getBuckets: the service answers with what is true now.
FetchAnswered(c) ==
    /\ pc[c] = "fetch"
    /\ got' = [got EXCEPT ![c] = now]
    /\ pc' = [pc EXCEPT ![c] = "store"]
    /\ UNCHANGED <<now, cacheMap, flight, level, key, history>>

\* Faulty: an error is cached like a value.
FetchFailsCached(c) ==
    /\ pc[c] = "fetch"
    /\ failing' = TRUE
    /\ excused' = excused \cup Asking
    /\ cacheMap' = [cacheMap EXCEPT ![Lower] = [value |-> Failed, deadline |-> now + TtlL]]
    /\ pc' = [pc EXCEPT ![c] = "fail"]
    /\ UNCHANGED <<now, flight, level, got, key, result>>

\* The request fails, or the context of the caller that runs the flight ends (if
\* it can end): the contexts of those that wait are never looked at.
FetchFails(c) ==
    /\ pc[c] = "fetch"
    /\ failing' = TRUE
    /\ excused' = excused \cup Asking
    /\ pc' = [pc EXCEPT ![c] = "fail"]
    /\ UNCHANGED <<now, cacheMap, flight, level, got, key, result>>

\* fn has returned a value: it is stored, with a deadline counted from now.
Store(c) ==
    /\ pc[c] = "store"
    /\ cacheMap' = [cacheMap EXCEPT ![Key(c)] =
                       [value |-> got[c], deadline |-> now + Ttl(c)]]
    /\ Land(c, got[c])
    /\ UNCHANGED <<now, level, key, history>>

\* fn has returned an error: it is handed on and not stored.
Fail(c) ==
    /\ pc[c] = "fail"
    /\ Land(c, Failed)
    /\ UNCHANGED <<now, cacheMap, level, key, history>>

\* getCacheValueByKey returns: into the fn of the upper key, or to the caller.
Return(c) ==
    /\ pc[c] = "got"
    /\ got' = [got EXCEPT ![c] = IF level[c] = "upper" THEN None ELSE @]
    /\ IF level[c] = "lower"
          THEN /\ pc' = [pc EXCEPT ![c] = IF got[c] = Failed THEN "fail" ELSE "store"]
               /\ level' = [level EXCEPT ![c] = "upper"]
               /\ UNCHANGED <<key, result, excused>>
          ELSE /\ pc' = [pc EXCEPT ![c] = "idle"]
               /\ key' = [key EXCEPT ![c] = None]
               /\ excused' = excused \ {c}
               /\ result' = got[c]
               /\ UNCHANGED level
    /\ UNCHANGED <<now, cacheMap, flight, failing>>

\* getS3Endpoint and its like: the answer has the region, but no usable address
\* for the service.
ExtractFails(c) ==
    /\ pc[c] = "got" /\ level[c] = "lower" /\ got[c] # Failed
    /\ failing' = TRUE
    /\ excused' = excused \cup Asking
    /\ pc' = [pc EXCEPT ![c] = "fail"]
    /\ level' = [level EXCEPT ![c] = "upper"]
    /\ UNCHANGED <<now, cacheMap, flight, got, key, result>>

\* Time passes while nobody computes.
Tick ==
    /\ now < MaxTime
    /\ \A c \in Callers : pc[c] \notin Busy
    /\ now' = now + 1
    /\ result' = None
    /\ failing' = FALSE
    /\ UNCHANGED <<cacheMap, flight, pc, level, got, key, excused>>

GetCacheValueByKey(c) ==
    \/ Load(c)
    \/ Join(c)
    \/ LoadAgain(c)
    \/ FetchAnswered(c)
    \/ FetchFails(c)
    \/ Store(c)
    \/ Fail(c)
    \/ Return(c)
    \/ ExtractFails(c)

Next ==
    \/ \E c \in Callers : GetCacheValueByKey(c)
    \/ \E c \in Callers, k \in Upper : Ask(c, k)
    \/ Tick

Spec == Init /\ [][Next]_vars

\* Goroutines run on, but nothing makes a request end: the HTTP client has no
\* timeout, and many of the look-ups run with context.Background().
FairSpec == Spec /\ \A c \in Callers : WF_vars(pc[c] # "fetch" /\ GetCacheValueByKey(c))

-----------------------------------------------------------------------------
(***************************************************************************)
(* Properties                                                              *)
(***************************************************************************)

\* Nested as the two levels are, a caller never gets a value that stopped
\* being true longer ago than both times to live together (48 h for an
\* endpoint, 24 h and 1 s for a bucket, "no such bucket" included), and no
\* error unless a request, its own or another's, failed, or had an answer that
\* does not do, while it was asking.
\* (Both deadlines are strict: on a discrete clock that is one tick less.)
Lookup == INSTANCE FreshLookup WITH Bound <- TtlU + TtlL - 1, asking <- Asking
LookupRefined == Lookup!LookupSpec

\* A request is sent only while the map has no valid value for it: the second
\* look into the map closes the gap between the first one and the flight.
FetchOnlyWhenStale ==
    \A c \in Callers : pc[c] = "fetch" => ~ Valid(Lower) /\ flight[Lower] = c

\* Only a request that hangs keeps callers waiting: as long as every request
\* ends, every look-up returns, for a flight inside a flight never waits for
\* itself, directly or through the flight of another caller.
CallsReturn ==
    (\A c \in Callers : []<>(pc[c] # "fetch")) => \A c \in Callers : []<>(pc[c] = "idle")
=============================================================================

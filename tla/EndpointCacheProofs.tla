------------------------ MODULE EndpointCacheProofs -------------------------
(***************************************************************************)
(* Proofs about EndpointCache: type correctness, FetchOnlyWhenStale, and   *)
(* that the two-level cache implements FreshLookup, for every number of    *)
(* callers and keys, every pair of times to live and every bound on the    *)
(* clock.                                                                  *)
(***************************************************************************)
EXTENDS EndpointCache, TLAPS

-----------------------------------------------------------------------------
(***************************************************************************)
(* The inductive invariant                                                 *)
(***************************************************************************)

\* Who runs a function of singleflightGroup owns its flight: the fn of an upper
\* key from its second look into the map until it lands, all of the nested
\* look-up included; the fn of the lower key likewise.
FlightOwned ==
    \A c \in Callers :
        /\ pc[c] = "fetch" => level[c] = "lower"
        /\ level[c] = "lower" /\ pc[c] # "idle" => flight[key[c]] = c
        /\ pc[c] \in {"loadAgain", "fetch", "store", "fail"} => flight[Key(c)] = c

\* An entry of the lower key was true when it was stored, one of an upper key
\* was at most as old as a valid entry of the lower key.
EntriesFresh ==
    \A k \in Keys :
        cacheMap[k] # None =>
            /\ cacheMap[k].value <= now
            /\ k = Lower => cacheMap[k].deadline = cacheMap[k].value + TtlL
            /\ k # Lower => cacheMap[k].deadline <= cacheMap[k].value + TtlL + TtlU - 1

\* What a caller has been handed is as fresh as its next step needs.
HandedFresh ==
    \A c \in Callers :
        /\ pc[c] = "got" => got[c] # None
        /\ pc[c] \in {"got", "store"} /\ got[c] # Failed =>
              /\ got[c] <= now
              /\ pc[c] = "store" /\ level[c] = "lower" => got[c] = now
              /\ pc[c] = "store" \/ level[c] = "lower" => now < got[c] + TtlL
              /\ now < got[c] + TtlL + TtlU - 1

\* An error on its way is that of a request that failed at this very moment, so
\* everybody who asks is excused.
FailureExcuses ==
    /\ \A c \in Callers :
          pc[c] = "fail" \/ (pc[c] = "got" /\ got[c] = Failed) => failing
    /\ failing => Asking \subseteq excused

CacheInv ==
    /\ TypeOK
    /\ FlightOwned
    /\ FetchOnlyWhenStale
    /\ EntriesFresh
    /\ HandedFresh
    /\ FailureExcuses

-----------------------------------------------------------------------------
(***************************************************************************)
(* The initial state, and the steps of one caller                          *)
(***************************************************************************)

\* Before anybody asks the map is empty and nobody flies.
LEMMA InitCacheInv == Init => CacheInv
<1> SUFFICES ASSUME Init PROVE CacheInv
  OBVIOUS
<1> USE CacheAssumption DEF Init
<1>1. TypeOK
  <2>1. now \in Time
    BY DEF Time
  <2>2. failing \in BOOLEAN /\ excused \subseteq Callers
    BY Zenon
  <2> QED  BY <2>1, <2>2, Zenon DEF TypeOK
<1>2. \A c \in Callers : pc[c] = "idle"
  OBVIOUS
<1>3. FlightOwned /\ FetchOnlyWhenStale /\ HandedFresh
  BY <1>2 DEF FlightOwned, FetchOnlyWhenStale, HandedFresh
<1>4. EntriesFresh /\ FailureExcuses
  BY <1>2 DEF EntriesFresh, FailureExcuses, Asking
<1> QED  BY <1>1, <1>3, <1>4 DEF CacheInv

\* The key of a caller that asks: its upper key, or the lower one, by level.
KeyFacts(c) ==
    /\ key[c] \in Upper /\ key[c] # Lower /\ Key(c) \in Keys
    /\ level[c] \in {"upper", "lower"}
    /\ level[c] = "upper" => Key(c) = key[c] /\ Key(c) # Lower
    /\ level[c] = "lower" => Key(c) = Lower

\* KeyFacts hold of every caller that asks.
LEMMA KeyOf ==
  ASSUME TypeOK, NEW c \in Callers, pc[c] # "idle"
  PROVE  KeyFacts(c)
  BY CacheAssumption DEF TypeOK, Key, Keys, KeyFacts

\* getCacheValueByKey begins.
LEMMA AskInv ==
  ASSUME CacheInv, NEW c \in Callers, NEW k \in Upper, Ask(c, k)
  PROVE  CacheInv'
<1> USE CacheAssumption DEF CacheInv, Ask
<1>1. TypeOK'
  BY DEF TypeOK, Keys, Time, Busy, Entry
<1>2. FlightOwned'
  BY DEF TypeOK, FlightOwned, Key
<1>3. FetchOnlyWhenStale'
  BY DEF TypeOK, FetchOnlyWhenStale, Valid
<1>4. EntriesFresh'
  BY DEF EntriesFresh
<1>5. HandedFresh'
  BY DEF TypeOK, HandedFresh
<1>6. FailureExcuses'
  BY DEF TypeOK, FailureExcuses, Asking
<1> QED  BY <1>1, <1>2, <1>3, <1>4, <1>5, <1>6

\* The first look into the map: a valid entry is handed over as it is.
LEMMA LoadInv ==
  ASSUME CacheInv, NEW c \in Callers, Load(c)
  PROVE  CacheInv'
<1> USE CacheAssumption DEF CacheInv, Load, history
<1>0. KeyFacts(c)
  BY KeyOf DEF KeyFacts
<1>1. TypeOK'
  BY <1>0 DEF KeyFacts, TypeOK, Keys, Time, Busy, Entry, Valid
<1>2. FlightOwned'
  BY DEF TypeOK, FlightOwned, Key
<1>3. FetchOnlyWhenStale'
  BY DEF TypeOK, FetchOnlyWhenStale, Valid
<1>4. EntriesFresh'
  BY DEF EntriesFresh
<1>5. HandedFresh'
  BY <1>0 DEF KeyFacts, TypeOK, HandedFresh, EntriesFresh, Valid, Entry, Time
<1>6. FailureExcuses'
  BY <1>0 DEF KeyFacts, TypeOK, FailureExcuses, Asking, Valid, Entry, Time
<1> QED  BY <1>1, <1>2, <1>3, <1>4, <1>5, <1>6

\* singleflightGroup.Do: who finds no flight owns the one it starts.
LEMMA JoinInv ==
  ASSUME CacheInv, NEW c \in Callers, Join(c)
  PROVE  CacheInv'
<1> USE CacheAssumption DEF CacheInv, Join, history
<1>0. KeyFacts(c)
  BY KeyOf DEF KeyFacts
<1>1. TypeOK'
  BY <1>0 DEF KeyFacts, TypeOK, Keys, Time, Busy, Entry
<1>2. FlightOwned'
  <2> SUFFICES ASSUME NEW w \in Callers
               PROVE  /\ pc'[w] = "fetch" => level[w] = "lower"
                      /\ level[w] = "lower" /\ pc'[w] # "idle" => flight'[key[w]] = w
                      /\ pc'[w] \in {"loadAgain", "fetch", "store", "fail"} =>
                            flight'[Key(w)] = w
    BY DEF FlightOwned, Key
  <2>1. pc[w] # "idle" => KeyFacts(w)
    BY KeyOf
  <2> QED  BY <1>0, <2>1 DEF KeyFacts, TypeOK, FlightOwned, Keys
<1>3. FetchOnlyWhenStale'
  BY <1>0 DEF KeyFacts, TypeOK, FetchOnlyWhenStale, Valid, Keys
<1>4. EntriesFresh'
  BY DEF EntriesFresh
<1>5. HandedFresh'
  BY DEF TypeOK, HandedFresh
<1>6. FailureExcuses'
  BY DEF TypeOK, FailureExcuses, Asking
<1> QED  BY <1>1, <1>2, <1>3, <1>4, <1>5, <1>6

(***************************************************************************)
(* The end of a flight.  Three steps land: the second look into the map,   *)
(* Store and Fail.  What they hand over must suit all that wait.           *)
(***************************************************************************)

\* What may be handed to those who asked for the key of c.
Suits(c, value) ==
    /\ value \in Time \cup {Failed}
    /\ value = Failed => failing
    /\ value # Failed =>
          /\ value <= now
          /\ level[c] = "lower" => now < value + TtlL
          /\ now < value + TtlL + TtlU - 1

\* Everything but the map and the lower fetch survives a landing: those that
\* land are at the level of c, and no one else owned the flight that ends.
LEMMA LandKeeps ==
  ASSUME CacheInv, NEW c \in Callers, NEW value, Suits(c, value), Land(c, value),
         pc[c] \in {"loadAgain", "store", "fail"},
         UNCHANGED <<now, level, key, history>>
  PROVE  /\ pc' \in [Callers -> Busy \cup {"idle", "fetch", "wait"}]
         /\ got' \in [Callers -> Time \cup {Failed, None}]
         /\ flight' \in [Keys -> Callers \cup {None}]
         /\ \A w \in Callers : pc'[w] = "store" => got'[w] \in Time
         /\ \A w \in Callers : pc'[w] # "idle" => key'[w] \in Upper
         /\ Asking' = Asking
         /\ FlightOwned'
         /\ HandedFresh'
         /\ FailureExcuses'
         /\ \A w \in Callers : pc'[w] = "fetch" =>
               pc[w] = "fetch" /\ w # c /\ Key(c) # Lower /\ flight'[Lower] = w
<1> USE CacheAssumption DEF CacheInv, history
<1> DEFINE landed == {w \in Callers : w = c \/ (pc[w] = "wait" /\ Key(w) = Key(c))}
<1>0. KeyFacts(c) /\ \A w \in Callers : pc[w] # "idle" => KeyFacts(w)
  BY KeyOf
<1>1. /\ flight' = [flight EXCEPT ![Key(c)] = None]
      /\ got' = [w \in Callers |-> IF w \in landed THEN value ELSE got[w]]
      /\ pc' = [w \in Callers |-> IF w \in landed THEN "got" ELSE pc[w]]
  BY DEF Land
<1>2. \A w \in Callers :
         \/ pc[w] # "idle" /\ pc'[w] = "got" /\ got'[w] = value /\ level[w] = level[c]
         \/ w # c /\ pc'[w] = pc[w] /\ got'[w] = got[w]
  BY <1>0, <1>1 DEF KeyFacts
<1>3. flight[Key(c)] = c
  BY DEF FlightOwned
<1> HIDE DEF landed
<1>4. /\ pc' \in [Callers -> Busy \cup {"idle", "fetch", "wait"}]
      /\ got' \in [Callers -> Time \cup {Failed, None}]
      /\ flight' \in [Keys -> Callers \cup {None}]
  BY <1>0, <1>1 DEF Suits, TypeOK, KeyFacts, Busy
<1>5. \A w \in Callers : /\ pc'[w] = "store" => got'[w] \in Time
                         /\ pc'[w] # "idle" => key'[w] \in Upper
  BY <1>2 DEF TypeOK
<1>6. Asking' = Asking
  BY <1>2 DEF Asking
<1>7. FlightOwned'
  <2> SUFFICES ASSUME NEW w \in Callers
               PROVE  /\ pc'[w] = "fetch" => level[w] = "lower"
                      /\ level[w] = "lower" /\ pc'[w] # "idle" => flight'[key[w]] = w
                      /\ pc'[w] \in {"loadAgain", "fetch", "store", "fail"} =>
                            flight'[Key(w)] = w
    BY DEF FlightOwned, Key
  <2> QED  BY <1>0, <1>1, <1>2, <1>3 DEF KeyFacts, TypeOK, FlightOwned, Keys
<1>8. HandedFresh'
  <2> SUFFICES ASSUME NEW w \in Callers
               PROVE  /\ pc'[w] = "got" => got'[w] # None
                      /\ pc'[w] \in {"got", "store"} /\ got'[w] # Failed =>
                            /\ got'[w] <= now
                            /\ pc'[w] = "store" /\ level[w] = "lower" => got'[w] = now
                            /\ pc'[w] = "store" \/ level[w] = "lower" => now < got'[w] + TtlL
                            /\ now < got'[w] + TtlL + TtlU - 1
    BY DEF HandedFresh
  <2> QED  BY <1>2 DEF HandedFresh, Suits, Time
<1>9. FailureExcuses'
  BY <1>2, <1>6 DEF FailureExcuses, Suits
<1>10. ASSUME NEW w \in Callers, pc'[w] = "fetch"
       PROVE  pc[w] = "fetch" /\ w # c /\ Key(c) # Lower /\ flight'[Lower] = w
  BY <1>0, <1>1, <1>2, <1>3, <1>10 DEF KeyFacts, TypeOK, FetchOnlyWhenStale, Keys
<1> QED  BY <1>4, <1>5, <1>6, <1>7, <1>8, <1>9, <1>10

\* The second look: a valid entry lands; otherwise the nested look-up, or the
\* request, begins, and nothing valid is there for the lower key then.
LEMMA LoadAgainInv ==
  ASSUME CacheInv, NEW c \in Callers, LoadAgain(c)
  PROVE  CacheInv'
<1> USE CacheAssumption DEF CacheInv, history
<1>0. KeyFacts(c) /\ pc[c] = "loadAgain" /\ flight[Key(c)] = c
  BY KeyOf DEF LoadAgain, FlightOwned
<1>1. CASE Valid(Key(c))
  <2> DEFINE value == cacheMap[Key(c)].value
  <2>1. Suits(c, value)
    BY <1>0, <1>1 DEF KeyFacts, Suits, Valid, TypeOK, EntriesFresh, Entry, Time
  <2>2. Land(c, value) /\ UNCHANGED <<now, cacheMap, level, key, history>>
    BY <1>1 DEF LoadAgain
  <2> HIDE DEF value
  <2> USE LandKeeps, <1>0, <2>1, <2>2
  <2>3. TypeOK'
    BY DEF TypeOK
  <2>4. FlightOwned' /\ HandedFresh' /\ FailureExcuses'
    OBVIOUS
  <2>5. FetchOnlyWhenStale'
    BY DEF FetchOnlyWhenStale, Valid
  <2>6. EntriesFresh'
    BY DEF EntriesFresh
  <2> QED  BY <2>3, <2>4, <2>5, <2>6
<1>2. CASE ~ Valid(Key(c))
  <2> USE <1>0, <1>2 DEF LoadAgain, KeyFacts
  <2>1. TypeOK'
    BY DEF TypeOK, Keys, Time, Busy, Entry
  <2>2. FlightOwned'
    BY DEF TypeOK, FlightOwned, Key
  <2>3. FetchOnlyWhenStale'
    BY DEF TypeOK, FetchOnlyWhenStale, Valid
  <2>4. EntriesFresh'
    BY DEF EntriesFresh
  <2>5. HandedFresh'
    BY DEF TypeOK, HandedFresh
  <2>6. FailureExcuses'
    BY DEF TypeOK, FailureExcuses, Asking
  <2> QED  BY <2>1, <2>2, <2>3, <2>4, <2>5, <2>6
<1> QED  BY <1>1, <1>2

\* The request of the lower flight is answered with what is true now.
LEMMA FetchAnsweredInv ==
  ASSUME CacheInv, NEW c \in Callers, FetchAnswered(c)
  PROVE  CacheInv'
<1> USE CacheAssumption DEF CacheInv, FetchAnswered, history
<1>1. TypeOK'
  BY DEF TypeOK, Keys, Time, Busy, Entry
<1>2. FlightOwned'
  BY DEF TypeOK, FlightOwned, Key
<1>3. FetchOnlyWhenStale'
  BY DEF TypeOK, FetchOnlyWhenStale, Valid
<1>4. EntriesFresh'
  BY DEF EntriesFresh
<1>5. HandedFresh'
  BY DEF TypeOK, HandedFresh, FlightOwned, Time
<1>6. FailureExcuses'
  BY DEF TypeOK, FailureExcuses, Asking
<1> QED  BY <1>1, <1>2, <1>3, <1>4, <1>5, <1>6

\* The request fails: everybody who asks is excused.
LEMMA FetchFailsInv ==
  ASSUME CacheInv, NEW c \in Callers, FetchFails(c)
  PROVE  CacheInv'
<1> USE CacheAssumption DEF CacheInv, FetchFails
<1>1. TypeOK'
  BY DEF TypeOK, Keys, Time, Busy, Entry, Asking
<1>2. FlightOwned'
  BY DEF TypeOK, FlightOwned, Key
<1>3. FetchOnlyWhenStale'
  BY DEF TypeOK, FetchOnlyWhenStale, Valid
<1>4. EntriesFresh'
  BY DEF EntriesFresh
<1>5. HandedFresh'
  BY DEF TypeOK, HandedFresh
<1>6. FailureExcuses'
  BY DEF TypeOK, FailureExcuses, Asking
<1> QED  BY <1>1, <1>2, <1>3, <1>4, <1>5, <1>6

\* fn has returned a value: it is stored and lands; a request for the lower key
\* under way would own the flight that c owns.
LEMMA StoreInv ==
  ASSUME CacheInv, NEW c \in Callers, Store(c)
  PROVE  CacheInv'
<1> USE CacheAssumption DEF CacheInv, history
<1> DEFINE entry == [value |-> got[c], deadline |-> now + Ttl(c)]
<1>0. /\ KeyFacts(c) /\ pc[c] = "store" /\ flight[Key(c)] = c
      /\ got[c] \in Time /\ got[c] # Failed /\ now \in Time
  BY KeyOf DEF Store, FlightOwned, TypeOK, Time
<1>1. Suits(c, got[c])
  BY <1>0 DEF Suits, HandedFresh
<1>2. Land(c, got[c]) /\ UNCHANGED <<now, level, key, history>>
  BY DEF Store
<1>3. cacheMap' = [cacheMap EXCEPT ![Key(c)] = entry]
  BY DEF Store
<1>4. /\ entry \in Entry
      /\ entry.value = got[c] /\ entry.value <= now
      /\ Key(c) = Lower => entry.deadline = entry.value + TtlL
      /\ Key(c) # Lower => entry.deadline <= entry.value + TtlL + TtlU - 1
  BY <1>0 DEF KeyFacts, HandedFresh, Entry, Ttl, Time
<1> HIDE DEF entry
<1>5. \A k \in Keys : cacheMap'[k] = IF k = Key(c) THEN entry ELSE cacheMap[k]
  BY <1>0, <1>3 DEF KeyFacts, TypeOK
<1> USE LandKeeps, <1>0, <1>1, <1>2
<1>6. TypeOK'
  BY <1>3, <1>4 DEF TypeOK
<1>7. FlightOwned' /\ HandedFresh' /\ FailureExcuses'
  OBVIOUS
<1>8. FetchOnlyWhenStale'
  BY <1>5 DEF FetchOnlyWhenStale, Valid, Keys
<1>9. EntriesFresh'
  BY <1>4, <1>5 DEF EntriesFresh
<1> QED  BY <1>6, <1>7, <1>8, <1>9

\* fn has returned an error: it is handed on, the map stays.
LEMMA FailInv ==
  ASSUME CacheInv, NEW c \in Callers, Fail(c)
  PROVE  CacheInv'
<1> USE CacheAssumption DEF CacheInv, history
<1>0. Land(c, Failed) /\ pc[c] = "fail" /\ UNCHANGED <<now, cacheMap, level, key, history>>
  BY DEF Fail
<1>1. Suits(c, Failed)
  BY <1>0 DEF Suits, FailureExcuses
<1> USE LandKeeps, <1>0, <1>1
<1>2. TypeOK'
  BY DEF TypeOK
<1>3. FlightOwned' /\ HandedFresh' /\ FailureExcuses'
  OBVIOUS
<1>4. FetchOnlyWhenStale'
  BY DEF FetchOnlyWhenStale, Valid
<1>5. EntriesFresh'
  BY DEF EntriesFresh
<1> QED  BY <1>2, <1>3, <1>4, <1>5

\* getCacheValueByKey returns, into the fn of the upper key or to its caller.
LEMMA ReturnInv ==
  ASSUME CacheInv, NEW c \in Callers, Return(c)
  PROVE  CacheInv'
<1> USE CacheAssumption DEF CacheInv, Return
<1>0. KeyFacts(c)
  BY KeyOf DEF KeyFacts
<1>1. TypeOK'
  BY <1>0 DEF KeyFacts, TypeOK, HandedFresh, Keys, Time, Busy, Entry
<1>2. FlightOwned'
  BY <1>0 DEF KeyFacts, TypeOK, FlightOwned, Key
<1>3. FetchOnlyWhenStale'
  BY DEF TypeOK, FetchOnlyWhenStale, Valid
<1>4. EntriesFresh'
  BY DEF EntriesFresh
<1>5. HandedFresh'
  BY <1>0 DEF KeyFacts, TypeOK, HandedFresh, Time
<1>6. FailureExcuses'
  BY <1>0 DEF KeyFacts, TypeOK, FailureExcuses, Asking
<1> QED  BY <1>1, <1>2, <1>3, <1>4, <1>5, <1>6

\* The answer of the lower key does not do: an error of the upper flight.
LEMMA ExtractFailsInv ==
  ASSUME CacheInv, NEW c \in Callers, ExtractFails(c)
  PROVE  CacheInv'
<1> USE CacheAssumption DEF CacheInv, ExtractFails
<1>0. KeyFacts(c)
  BY KeyOf DEF KeyFacts
<1>1. TypeOK'
  BY DEF TypeOK, Keys, Time, Busy, Entry, Asking
<1>2. FlightOwned'
  BY <1>0 DEF KeyFacts, TypeOK, FlightOwned, Key
<1>3. FetchOnlyWhenStale'
  BY DEF TypeOK, FetchOnlyWhenStale, Valid
<1>4. EntriesFresh'
  BY DEF EntriesFresh
<1>5. HandedFresh'
  BY DEF TypeOK, HandedFresh
<1>6. FailureExcuses'
  BY DEF TypeOK, FailureExcuses, Asking
<1> QED  BY <1>1, <1>2, <1>3, <1>4, <1>5, <1>6

\* Time passes only while nobody holds a value or an error.
LEMMA TickInv ==
  ASSUME CacheInv, Tick
  PROVE  CacheInv'
<1> USE CacheAssumption DEF CacheInv, Tick
<1>1. TypeOK'
  <2>1. now' \in Time
    BY DEF TypeOK, Time
  <2>2. failing' \in BOOLEAN /\ result' \in Time \cup {Failed, None}
    BY Zenon
  <2> QED  BY <2>1, <2>2, Zenon DEF TypeOK
<1>2. FlightOwned'
  BY DEF FlightOwned, Key
<1>3. FetchOnlyWhenStale'
  BY DEF TypeOK, FetchOnlyWhenStale, Valid, Keys, Time, Entry
<1>4. EntriesFresh'
  BY DEF TypeOK, EntriesFresh, Entry, Time
<1>5. HandedFresh'
  BY DEF HandedFresh, Busy
<1>6. FailureExcuses'
  BY DEF FailureExcuses, Busy
<1> QED  BY <1>1, <1>2, <1>3, <1>4, <1>5, <1>6

-----------------------------------------------------------------------------
(***************************************************************************)
(* The theorems                                                            *)
(***************************************************************************)

\* Every step keeps the invariant.
LEMMA NextCacheInv == CacheInv /\ [Next]_vars => CacheInv'
<1> SUFFICES ASSUME CacheInv, [Next]_vars PROVE CacheInv'
  OBVIOUS
<1>1. ASSUME NEW c \in Callers, GetCacheValueByKey(c) PROVE CacheInv'
  BY <1>1, LoadInv, JoinInv, LoadAgainInv, FetchAnsweredInv, FetchFailsInv, StoreInv,
     FailInv, ReturnInv, ExtractFailsInv DEF GetCacheValueByKey
<1>2. ASSUME NEW c \in Callers, NEW k \in Upper, Ask(c, k) PROVE CacheInv'
  BY <1>2, AskInv
<1>3. CASE Tick
  BY <1>3, TickInv
<1>4. CASE UNCHANGED vars
  BY <1>4 DEF vars, CacheInv, TypeOK, FlightOwned, FetchOnlyWhenStale, Valid, EntriesFresh,
              HandedFresh, FailureExcuses, Asking, Key
<1> QED  BY <1>1, <1>2, <1>3, <1>4 DEF Next

\* The cache of qiniu/kodo.go always satisfies the invariant.
THEOREM CacheInvariant == Spec => []CacheInv
  BY InitCacheInv, NextCacheInv, PTL DEF Spec

\* Every variable holds what its declaration says: no error and no half-made
\* value ever enters cacheMap, however the flights of the two levels overlap.
THEOREM TypeCorrect == Spec => []TypeOK
<1>1. CacheInv => TypeOK
  BY DEF CacheInv
<1> QED  BY <1>1, CacheInvariant, PTL

\* A request is sent only by the owner of the lower flight and only while the
\* map has no valid value: the second look of getCacheValueByKey closes the gap
\* between the first one and singleflightGroup.Do.
THEOREM FetchesAreNeeded == Spec => []FetchOnlyWhenStale
<1>1. CacheInv => FetchOnlyWhenStale
  BY DEF CacheInv
<1> QED  BY <1>1, CacheInvariant, PTL

\* A caller is answered with the freshness FreshLookup promises, or with an
\* error it is excused for.
LEMMA ReturnAnswers ==
  ASSUME CacheInv, NEW c \in Callers, Return(c)
  PROVE  Lookup!LookupAnswer(c) \/ UNCHANGED Lookup!lookupVars
<1> USE CacheAssumption DEF CacheInv, Return
<1>1. CASE level[c] = "lower"
  <2>1. Asking' = Asking
    BY <1>1 DEF TypeOK, Asking
  <2> QED  BY <1>1, <2>1 DEF Lookup!lookupVars
<1>2. CASE level[c] # "lower"
  <2>1. c \in Asking /\ Asking' = Asking \ {c}
    BY <1>2 DEF TypeOK, Asking
  <2>2. CASE got[c] = Failed
    BY <1>2, <2>1, <2>2 DEF FailureExcuses, Lookup!LookupAnswer
  <2>3. CASE got[c] # Failed
    <3>1. got[c] \in 0..now /\ Lookup!Fresh(got[c]) /\ result' = got[c]
      BY <1>2, <2>3 DEF TypeOK, HandedFresh, Time, Lookup!Fresh
    <3> QED  BY <1>2, <2>1, <3>1 DEF Lookup!LookupAnswer
  <2> QED  BY <2>2, <2>3
<1> QED  BY <1>1, <1>2

\* Every step of the cache is a step of FreshLookup or leaves its variables.
LEMMA NextRefines ==
  CacheInv /\ [Next]_vars => [Lookup!LookupNext]_(Lookup!lookupVars)
<1> SUFFICES ASSUME CacheInv, [Next]_vars
             PROVE  Lookup!LookupNext \/ UNCHANGED Lookup!lookupVars
  OBVIOUS
<1> USE DEF Lookup!lookupVars
<1>1. ASSUME NEW c \in Callers, Load(c) \/ Join(c) \/ FetchAnswered(c)
      PROVE  UNCHANGED Lookup!lookupVars
  BY <1>1 DEF CacheInv, TypeOK, Load, Join, FetchAnswered, history, Asking
<1>2. ASSUME NEW c \in Callers, LoadAgain(c)
      PROVE  UNCHANGED Lookup!lookupVars
  BY <1>2 DEF CacheInv, TypeOK, LoadAgain, Land, history, Asking
<1>3. ASSUME NEW c \in Callers, Store(c) \/ Fail(c)
      PROVE  UNCHANGED Lookup!lookupVars
  BY <1>3 DEF CacheInv, TypeOK, Store, Fail, Land, history, Asking
<1>4. ASSUME NEW c \in Callers, FetchFails(c) \/ ExtractFails(c)
      PROVE  Lookup!LookupFail
  <2>1. Asking' = Asking
    BY <1>4 DEF CacheInv, TypeOK, FetchFails, ExtractFails, Asking
  <2> QED  BY <1>4, <2>1 DEF FetchFails, ExtractFails, Lookup!LookupFail
<1>5. ASSUME NEW c \in Callers, NEW k \in Upper, Ask(c, k)
      PROVE  Lookup!LookupAsk(c)
  <2>1. c \notin Asking /\ Asking' = Asking \cup {c}
    BY <1>5 DEF CacheInv, TypeOK, Ask, Asking
  <2> QED  BY <1>5, <2>1 DEF Ask, Lookup!LookupAsk
<1>6. CASE Tick
  BY <1>6 DEF Tick, Asking, Lookup!LookupTick, Lookup!LookupNext
<1>7. CASE UNCHANGED vars
  BY <1>7 DEF vars, Asking
<1> QED
  BY <1>1, <1>2, <1>3, <1>4, <1>5, <1>6, <1>7, ReturnAnswers
  DEF Next, GetCacheValueByKey, Lookup!LookupNext

\* The two-level cache implements FreshLookup: no caller of GetRegions,
\* GetBuckets and their likes is handed a value older than both times to live
\* together, and none an error unless somebody's request failed while it asked.
THEOREM LookupImplemented == Spec => LookupRefined
<1>1. Init => Lookup!LookupInit
  BY DEF Init, Asking, Lookup!LookupInit
<1> QED
  BY <1>1, NextRefines, CacheInvariant, PTL DEF Spec, LookupRefined, Lookup!LookupSpec
=============================================================================

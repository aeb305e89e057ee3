---------------------------- MODULE FreshLookup -----------------------------
(***************************************************************************)
(* What the cached look-ups of qiniu/kodo.go promise their callers: an     *)
(* answer that was true not too long ago, or an error, and the error only  *)
(* if the service failed somebody since the caller asked.                  *)
(*                                                                         *)
(* What the service knows may change at any time, so an answer is          *)
(* represented by the time at which it was true.                           *)
(***************************************************************************)
EXTENDS Naturals

CONSTANTS
    Callers,   \* goroutines that look something up
    Bound,     \* no answer is as old as this
    MaxTime,   \* bound on the clock
    Failed,    \* the answer "error"
    None       \* no answer yet

VARIABLES
    now,       \* the clock
    asking,    \* the callers that wait for an answer
    result,    \* the answer just given, to the caller that no longer asks, or None
    failing,   \* the service has failed a request at this very moment
    excused    \* callers the service failed a request of somebody since they asked

lookupVars == <<now, asking, result, failing, excused>>

LookupInit ==
    /\ now = 0
    /\ asking = {}
    /\ result = None
    /\ failing = FALSE
    /\ excused = {}

\* The error of a request that has just failed may still be on its way to those
\* who wait, and reach whoever joins them.
LookupAsk(c) ==
    /\ c \notin asking
    /\ asking' = asking \cup {c}
    /\ result' = None
    /\ excused' = IF failing THEN excused \cup {c} ELSE excused
    /\ UNCHANGED <<now, failing>>

LookupFail ==
    /\ failing' = TRUE
    /\ excused' = excused \cup asking
    /\ UNCHANGED <<now, asking, result>>

\* Fresh enough, and not from the future.
Fresh(v) == v <= now /\ now < v + Bound

LookupAnswer(c) ==
    /\ c \in asking
    /\ \/ \E v \in 0..now : Fresh(v) /\ result' = v
       \/ c \in excused /\ result' = Failed
    /\ asking' = asking \ {c}
    /\ excused' = excused \ {c}
    /\ UNCHANGED <<now, failing>>

LookupTick ==
    /\ now < MaxTime
    /\ now' = now + 1
    /\ result' = None
    /\ failing' = FALSE
    /\ UNCHANGED <<asking, excused>>

LookupNext ==
    \/ \E c \in Callers : LookupAsk(c) \/ LookupAnswer(c)
    \/ LookupFail
    \/ LookupTick

LookupSpec == LookupInit /\ [][LookupNext]_lookupVars
=============================================================================

---------------------------- MODULE BucketCleanup ----------------------------
(***************************************************************************)
(* What CleanObjects promises its caller, DeleteVolume, without the four   *)
(* kinds of goroutines behind it.  It is less than "the bucket is empty":  *)
(* success means that the listing named every object, or none at all, and  *)
(* that every object it named was in a delete request that was answered    *)
(* (the service may have refused some of them).  After a success nothing   *)
(* of the bucket is touched any more, so that the drop of the bucket never *)
(* runs beside the leftovers of the clean-up; after a failure the listing  *)
(* may go on, and requests that were given up may still take effect.       *)
(***************************************************************************)
CONSTANT Objects

VARIABLES
    left,    \* the objects in the bucket
    seen,    \* the objects the listing has named
    tried,   \* the objects in delete requests that were answered
    status   \* what the caller knows

vars == <<left, seen, tried, status>>

Init == left = Objects /\ seen = {} /\ tried = {} /\ status = "running"

List ==
    /\ status \in {"running", "failed"}
    /\ seen' \in SUBSET Objects /\ seen \subseteq seen'
    /\ UNCHANGED <<left, tried, status>>

\* Objects go, whether the request for them will be answered or not.
Delete ==
    /\ status # "ok"
    /\ left' \in SUBSET left
    /\ UNCHANGED <<seen, tried, status>>

\* A delete request is answered; only what was listed is asked for.
Answer ==
    /\ status = "running"
    /\ left' \in SUBSET left
    /\ tried' \in SUBSET seen /\ tried \subseteq tried'
    /\ UNCHANGED <<seen, status>>

Succeed ==
    /\ status = "running"
    /\ seen \in {{}, Objects}
    /\ tried = seen
    /\ status' = "ok"
    /\ UNCHANGED <<left, seen, tried>>

\* The call fails, or the process panics.
Fail ==
    /\ status = "running"
    /\ status' \in {"failed", "panic"}
    /\ UNCHANGED <<left, seen, tried>>

Next == List \/ Delete \/ Answer \/ Succeed \/ Fail

Spec == Init /\ [][Next]_vars
=============================================================================

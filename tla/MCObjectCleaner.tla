--------------------------- MODULE MCObjectCleaner ---------------------------
(* Instances of ObjectCleaner for TLC. *)
EXTENDS ObjectCleaner

AllFaults == FaultKinds

\* Nothing fails but the delete requests.
BatchFaults == {"batch"}

=============================================================================

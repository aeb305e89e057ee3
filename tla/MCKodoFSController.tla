------------------------- MODULE MCKodoFSController -------------------------
(* Instances of KodoFSController for TLC. *)
EXTENDS KodoFSController, TLC

\* Everything that can go wrong.
AnyFault ==
    (Remote \X {"request", "response"}) \cup
        {<<"context", "expire">>, <<"process", "crash">>, <<"mount", "dies">>}

NoFault == {}

Symmetry == Permutations(Calls) \cup Permutations(Controllers) \cup Permutations(Ids)
=============================================================================

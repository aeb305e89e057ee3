-------------------------- MODULE MCKodoController --------------------------
(* Instances of KodoController for TLC. *)
EXTENDS KodoController, TLC

\* One policy name per volume name.
PolicyNames == [v \in Volumes |-> <<"policy", v>>]
AllPolicies == {<<"policy", v>> : v \in Volumes}

\* Everything that can go wrong.
AnyFault ==
    (Remote \X {"request", "response", "partial"}) \cup 
        {<<"context", "expire">>, <<"process", "crash">>}

\* Failures before an attempt has changed anything.
HarmlessFaults ==
    {"createBucket", "getPV"} \X {"request"}

Symmetry == Permutations(Calls) \cup Permutations(Controllers) \cup Permutations(Suffixes)
=============================================================================

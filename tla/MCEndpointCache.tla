-------------------------- MODULE MCEndpointCache ---------------------------
(* Instance of EndpointCache for TLC. *)
EXTENDS EndpointCache
=============================================================================

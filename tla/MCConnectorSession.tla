------------------------- MODULE MCConnectorSession -------------------------
(* Instances of ConnectorSession for TLC. *)
EXTENDS ConnectorSession

AllKinds == {"kodo", "kodofs", "umount"}
AllFaults == FaultKinds
MountKinds == {"kodo", "kodofs"}
NoFaults == {}
=============================================================================

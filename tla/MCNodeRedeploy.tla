--------------------------- MODULE MCNodeRedeploy ---------------------------
(* Instances of NodeRedeploy for TLC.                                       *)
EXTENDS NodeRedeploy, TLC
=============================================================================

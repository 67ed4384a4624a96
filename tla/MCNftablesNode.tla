---------------------------- MODULE MCNftablesNode ----------------------------
(* The instances of NftablesNode for TLC need no definitions of their own.   *)
EXTENDS NftablesNode
=============================================================================

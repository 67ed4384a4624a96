----------------------------- MODULE MCNodeHub -----------------------------
(* Small instances of NodeHub.  hub: a node with two connections (so one   *)
(* can replace the other), a second node whose agent may answer the wrong  *)
(* request, one call.  hub_status: one node, two connections, one call.    *)
EXTENDS NodeHub, TLC

CONSTANTS n1, n2, c1, c2, c3, k1

OwnerTwoNodes == (c1 :> n1) @@ (c2 :> n1) @@ (c3 :> n2)
MisaddressedOne == {<<c3, k1>>}
OwnerOneNode == (c1 :> n1) @@ (c2 :> n1)
TargetOneCall == (k1 :> n1)
=============================================================================

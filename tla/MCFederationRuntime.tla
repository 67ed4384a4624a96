---------------------- MODULE MCFederationRuntime ----------------------
(* Instances of FederationRuntime for TLC.                                 *)
EXTENDS FederationRuntime, TLC

CONSTANTS t1, t2, e1, e2, m1, A, B

\* One tunnel over two shares: a middle, and the exit it dials.
PathTunnelOf == (e1 :> t1) @@ (m1 :> t1)
PathBelow == (e1 :> NoHop) @@ (m1 :> e1)
PathShareOf == (e1 :> A) @@ (m1 :> B)
PathPortsOf == (A :> {1, 2}) @@ (B :> {3})

\* Two tunnels over one share: their exits.
PairTunnelOf == (e1 :> t1) @@ (e2 :> t2)
PairBelow == (e1 :> NoHop) @@ (e2 :> NoHop)
PairShareOf == (e1 :> A) @@ (e2 :> A)
PairPortsOf == (A :> {1, 2})
=============================================================================

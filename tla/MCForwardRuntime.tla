--------------------------- MODULE MCForwardRuntime ---------------------------
(* The instance of ForwardRuntime for TLC: a tunnel that enters by both      *)
(* nodes and one that enters by the second alone.                           *)
EXTENDS ForwardRuntime

CONSTANTS n1, n2, wide, narrow

TunnelOf == [c \in {wide, narrow} |-> IF c = wide THEN "t1" ELSE "t2"]
EntryOf == [c \in {wide, narrow} |-> IF c = wide THEN {n1, n2} ELSE {n2}]
=============================================================================

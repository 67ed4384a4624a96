--------------------------- MODULE MCTrafficReport ---------------------------
(* A service that moves every chunk, and the one that replaces it.           *)
EXTENDS TrafficReport

CONSTANTS old, new

NameIs == [s \in Services |-> CHOOSE n \in Names : TRUE]
OfIs   == [c \in Chunks |-> old]
=============================================================================

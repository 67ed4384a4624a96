--------------------------- MODULE MCAgentServices ---------------------------
(* The instance of AgentServices for TLC: the tcp and the udp service of a   *)
(* forward, sent together as the panel sends them.                          *)
EXTENDS AgentServices

CONSTANTS tcp, udp

Pair == {<<tcp, udp>>, <<udp>>}
=============================================================================

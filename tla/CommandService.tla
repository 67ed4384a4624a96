-------------------------- MODULE CommandService --------------------------
(***************************************************************************)
(* What SendCommand (go-backend/internal/ws/server.go) promises its        *)
(* callers, with no word of sockets, locks or channels: a command is       *)
(* executed at most once, every caller gets one outcome that never         *)
(* changes, and a caller told "ok" or "refused" was told so by the node it *)
(* addressed, which really executed the command.  A failure says nothing:  *)
(* the node may execute the command before it, after it, or never.         *)
(* NodeHub implements this specification.                                  *)
(***************************************************************************)
CONSTANTS Nodes, Calls, NoNode,
          Target        \* the node each call is addressed to

Phases == {"new", "asked", "returned"}
Replies == {"ok", "refused"}
Failures == {"offline", "writeError", "timeout", "disconnected", "mismatch"}
Outcomes == [kind : Replies \cup Failures, by : Nodes \cup {NoNode}]
None == [kind |-> "none", by |-> NoNode]
Failed(f) == [kind |-> f, by |-> NoNode]

VARIABLES phase,      \* where each caller is
          executed,   \* the calls whose command a node has executed
          answer      \* the outcome each caller got

csvars == <<phase, executed, answer>>

CSTypeOK == /\ phase \in [Calls -> Phases]
            /\ executed \subseteq Calls
            /\ answer \in [Calls -> Outcomes \cup {None}]

CSInit == /\ phase = [k \in Calls |-> "new"]
          /\ executed = {}
          /\ answer = [k \in Calls |-> None]

(* The caller is let through to a node. *)
Ask(k) == /\ phase[k] = "new"
          /\ phase' = [phase EXCEPT ![k] = "asked"]
          /\ UNCHANGED <<executed, answer>>

(* The node executes the command, perhaps after its caller has given up. *)
Execute(k) == /\ phase[k] # "new"
              /\ k \notin executed
              /\ executed' = executed \cup {k}
              /\ UNCHANGED <<phase, answer>>

(* The caller is given the node's own answer ... *)
Answer(k) == /\ phase[k] = "asked"
             /\ k \in executed
             /\ \E r \in Replies :
                  answer' = [answer EXCEPT ![k] = [kind |-> r, by |-> Target[k]]]
             /\ phase' = [phase EXCEPT ![k] = "returned"]
             /\ UNCHANGED executed

(* ... or a failure. *)
Fail(k) == /\ phase[k] # "returned"
           /\ \E f \in Failures : answer' = [answer EXCEPT ![k] = Failed(f)]
           /\ phase' = [phase EXCEPT ![k] = "returned"]
           /\ UNCHANGED executed

CSNext == \E k \in Calls : Ask(k) \/ Execute(k) \/ Answer(k) \/ Fail(k)

CSSpec == CSInit /\ [][CSNext]_csvars
=============================================================================

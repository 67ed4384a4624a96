------------------------------ MODULE NodeHub ------------------------------
(***************************************************************************)
(* The panel's hub of agent connections (go-backend/internal/ws/server.go):*)
(* the sessions s.nodes, the pending requests s.pending, the goroutine that*)
(* runs handleNode for every agent connection, and the goroutines that run *)
(* SendCommand.  Everything between two acquisitions of s.mu, and every    *)
(* database write, socket write and channel operation outside it, is a     *)
(* step of its own, so all their interleavings are explored.               *)
(*                                                                         *)
(* A connection (a member of Conns) is used once; Owner gives its node.  A *)
(* call (a member of Calls) is one execution of SendCommand, and stands    *)
(* for its requestID: "nodeID_UnixNano" is taken to be distinct for        *)
(* concurrent calls.  s.byConn is written and never read: left out, as are *)
(* encryption, metrics messages and the admin and monitor sessions.        *)
(***************************************************************************)
EXTENDS Naturals, FiniteSets

CONSTANTS Nodes, Conns, Calls, NoNode, NoConn,
          Owner,          \* the node each connection authenticates as
          Target,         \* the node each call is addressed to
          Misaddressed    \* (connection, call) pairs: a response naming a
                          \* request of another node, which 547-554 reject

ASSUME OwnerAssumption == Owner \in [Conns -> Nodes]
ASSUME HubTargetAssumption == Target \in [Calls -> Nodes]
ASSUME AbsentAssumption == NoConn \notin Conns /\ NoNode \notin Nodes
ASSUME MisaddressedAssumption ==
         /\ Misaddressed \subseteq Conns \X Calls
         /\ \A p \in Misaddressed : Owner[p[1]] # Target[p[2]]

VARIABLES
  nodes,      \* s.nodes: the current session of each node
  online,     \* node.status in the database
  sock,       \* each connection's socket, as the panel's end sees it
  hpc,        \* where each connection's handleNode is
  held,       \* requests a handler has taken out of s.pending, unanswered
  verdict,    \* the result a handler is about to send
  replies,    \* responses travelling up each connection
  agent,      \* what the agent has done with each command
  pending,    \* s.pending
  cpc,        \* where each SendCommand is
  sess,       \* the session each SendCommand read from s.nodes
  buf,        \* the one-place buffer of each call's channel
  closed,     \* is that channel closed?
  outcome,    \* what SendCommand is to return, or has returned
  panicked    \* a send on, or a close of, a closed channel

handlerVars == <<nodes, online, sock, hpc, held, verdict>>
callerVars == <<cpc, sess, outcome>>
chanVars == <<buf, closed, panicked>>
agentVars == <<replies, agent>>
vars == <<handlerVars, callerVars, chanVars, agentVars, pending>>

CS == INSTANCE CommandService
        WITH phase <- [k \in Calls |-> CASE cpc[k] = "idle" -> "new"
                                         [] cpc[k] = "returned" -> "returned"
                                         [] OTHER -> "asked"],
             executed <- {k \in Calls : agent[k] \in {"executed", "replied"}},
             answer <- [k \in Calls |-> IF cpc[k] = "returned"
                                          THEN outcome[k]
                                          ELSE [kind |-> "none", by |-> NoNode]]

None == [kind |-> "none", by |-> NoNode]
Failed(f) == [kind |-> f, by |-> NoNode]
Kinds == {"none", "ok", "refused", "offline", "writeError", "timeout",
          "disconnected", "mismatch"}
Results == [kind : Kinds, by : Nodes \cup {NoNode}]

HandlerPCs == {"idle", "upgraded", "registered", "reading", "resolving",
               "leaving", "failing", "draining", "gone"}
CallPCs == {"idle", "found", "registered", "waiting", "cleanup", "returned"}
InCall == {"registered", "waiting", "cleanup"}

TypeOK ==
  /\ nodes \in [Nodes -> Conns \cup {NoConn}]
  /\ online \in [Nodes -> {0, 1}]
  /\ sock \in [Conns -> {"new", "open", "dead", "closed"}]
  /\ hpc \in [Conns -> HandlerPCs]
  /\ held \in [Conns -> SUBSET Calls]
  /\ verdict \in [Conns -> Results]
  /\ replies \in [Conns -> SUBSET (Calls \X BOOLEAN)]
  /\ agent \in [Calls -> {"none", "queued", "executed", "replied"}]
  /\ pending \subseteq Calls
  /\ cpc \in [Calls -> CallPCs]
  /\ sess \in [Calls -> Conns \cup {NoConn}]
  /\ buf \in [Calls -> Results]
  /\ closed \in [Calls -> BOOLEAN]
  /\ outcome \in [Calls -> Results]
  /\ panicked \in BOOLEAN

Init ==
  /\ nodes = [n \in Nodes |-> NoConn]
  /\ online = [n \in Nodes |-> 0]
  /\ sock = [c \in Conns |-> "new"]
  /\ hpc = [c \in Conns |-> "idle"]
  /\ held = [c \in Conns |-> {}]
  /\ verdict = [c \in Conns |-> None]
  /\ replies = [c \in Conns |-> {}]
  /\ agent = [k \in Calls |-> "none"]
  /\ pending = {}
  /\ cpc = [k \in Calls |-> "idle"]
  /\ sess = [k \in Calls |-> NoConn]
  /\ buf = [k \in Calls |-> None]
  /\ closed = [k \in Calls |-> FALSE]
  /\ outcome = [k \in Calls |-> None]
  /\ panicked = FALSE
-----------------------------------------------------------------------------
(* The channel of a call, with Go's rules: a send into a full buffer takes *)
(* the select's default branch; a send on a closed channel, or closing it  *)
(* again, panics and takes the panel down.                                 *)

SendAndClose(k, r) ==
  /\ panicked' = (panicked \/ closed[k])
  /\ buf' = [buf EXCEPT ![k] = IF @ = None THEN r ELSE @]
  /\ closed' = [closed EXCEPT ![k] = TRUE]

CloseOnly(k) ==
  /\ panicked' = (panicked \/ closed[k])
  /\ closed' = [closed EXCEPT ![k] = TRUE]
  /\ UNCHANGED buf
-----------------------------------------------------------------------------
(* handleNode: one goroutine per agent connection.                         *)

(* The agent dials and the panel upgrades; an older connection of the same *)
(* node may still look open to the panel.                                  *)
Connect(c) ==
  /\ hpc[c] = "idle"
  /\ hpc' = [hpc EXCEPT ![c] = "upgraded"]
  /\ sock' = [sock EXCEPT ![c] = "open"]
  /\ UNCHANGED <<nodes, online, held, verdict, callerVars, chanVars, agentVars,
                 pending>>

(* Under s.mu: close the connection being replaced and install this one. *)
Register(c) ==
  LET old == nodes[Owner[c]] IN
  /\ hpc[c] = "upgraded"
  /\ sock' = [d \in Conns |-> IF d = old THEN "closed" ELSE sock[d]]
  /\ nodes' = [nodes EXCEPT ![Owner[c]] = c]
  /\ hpc' = [hpc EXCEPT ![c] = "registered"]
  /\ UNCHANGED <<online, held, verdict, callerVars, chanVars, agentVars, pending>>

(* (mutant) The status column counts connections. *)
MarkOnlineCounts(c) ==
  /\ hpc[c] = "registered"
  /\ online' = [online EXCEPT ![Owner[c]] = @ + 1]
  /\ hpc' = [hpc EXCEPT ![c] = "reading"]
  /\ UNCHANGED <<nodes, sock, held, verdict, callerVars, chanVars, agentVars,
                 pending>>

(* repo.UpdateNodeOnline(nodeID, 1, ...), outside the lock. *)
MarkOnline(c) ==
  /\ hpc[c] = "registered"
  /\ online' = [online EXCEPT ![Owner[c]] = 1]
  /\ hpc' = [hpc EXCEPT ![c] = "reading"]
  /\ UNCHANGED <<nodes, sock, held, verdict, callerVars, chanVars, agentVars,
                 pending>>

(* (mutant) The claimed request is answered whoever sent the response. *)
ClaimAnyNode(c, k, ok) ==
  /\ hpc[c] = "reading"
  /\ sock[c] # "closed"
  /\ <<k, ok>> \in replies[c]
  /\ replies' = [replies EXCEPT ![c] = @ \ {<<k, ok>>}]
  /\ k \in pending
  /\ pending' = pending \ {k}
  /\ held' = [held EXCEPT ![c] = {k}]
  /\ verdict' = [verdict EXCEPT ![c] =
                   [kind |-> IF ok THEN "ok" ELSE "refused", by |-> Owner[c]]]
  /\ hpc' = [hpc EXCEPT ![c] = "resolving"]
  /\ UNCHANGED <<nodes, online, sock, callerVars, chanVars, agent>>

(* tryResolvePending on a response: claim the request under s.mu, or drop  *)
(* the response when the request is no longer pending.                     *)
Claim(c, k, ok) ==
  /\ hpc[c] = "reading"
  /\ sock[c] # "closed"
  /\ <<k, ok>> \in replies[c]
  /\ replies' = [replies EXCEPT ![c] = @ \ {<<k, ok>>}]
  /\ IF k \in pending
       THEN /\ pending' = pending \ {k}
            /\ held' = [held EXCEPT ![c] = {k}]
            /\ verdict' = [verdict EXCEPT ![c] =
                 IF Target[k] # Owner[c] THEN Failed("mismatch")
                 ELSE [kind |-> IF ok THEN "ok" ELSE "refused", by |-> Owner[c]]]
            /\ hpc' = [hpc EXCEPT ![c] = "resolving"]
       ELSE UNCHANGED <<pending, held, verdict, hpc>>
  /\ UNCHANGED <<nodes, online, sock, callerVars, chanVars, agent>>

(* ... then, outside the lock, send the result and close the channel. *)
Resolve(c, k) ==
  /\ hpc[c] = "resolving"
  /\ k \in held[c]
  /\ SendAndClose(k, verdict[c])
  /\ held' = [held EXCEPT ![c] = {}]
  /\ hpc' = [hpc EXCEPT ![c] = "reading"]
  /\ UNCHANGED <<nodes, online, sock, verdict, callerVars, agentVars, pending>>

(* ReadMessage fails: the peer is gone (or its pong is 45 s late), or this *)
(* connection was closed by the one that replaced it.                      *)
ReadError(c) ==
  /\ hpc[c] = "reading"
  /\ sock[c] \in {"dead", "closed"}
  /\ hpc' = [hpc EXCEPT ![c] = "leaving"]
  /\ UNCHANGED <<nodes, online, sock, held, verdict, callerVars, chanVars,
                 agentVars, pending>>

(* (mutant) The cleanup does not delete the session. *)
LeaveKeepsSession(c) ==
  /\ hpc[c] = "leaving"
  /\ hpc' = [hpc EXCEPT ![c] = IF nodes[Owner[c]] = c THEN "failing" ELSE "gone"]
  /\ UNCHANGED <<nodes, online, sock, held, verdict, callerVars, chanVars,
                 agentVars, pending>>

(* The deferred cleanup, under s.mu: only the current session of the node  *)
(* takes it offline.                                                       *)
Leave(c) ==
  /\ hpc[c] = "leaving"
  /\ IF nodes[Owner[c]] = c
       THEN /\ nodes' = [nodes EXCEPT ![Owner[c]] = NoConn]
            /\ hpc' = [hpc EXCEPT ![c] = "failing"]
            /\ UNCHANGED sock
       ELSE /\ hpc' = [hpc EXCEPT ![c] = "gone"]
            /\ sock' = [sock EXCEPT ![c] = "closed"]
            /\ UNCHANGED nodes
  /\ UNCHANGED <<online, held, verdict, callerVars, chanVars, agentVars, pending>>

(* failPendingForNode: take every pending request of the node ... *)
TakePending(c) ==
  LET mine == {k \in pending : Target[k] = Owner[c]} IN
  /\ hpc[c] = "failing"
  /\ held' = [held EXCEPT ![c] = mine]
  /\ verdict' = [verdict EXCEPT ![c] = Failed("disconnected")]
  /\ pending' = pending \ mine
  /\ hpc' = [hpc EXCEPT ![c] = "draining"]
  /\ UNCHANGED <<nodes, online, sock, callerVars, chanVars, agentVars>>

(* ... and fail them one by one, outside the lock. *)
FailOne(c, k) ==
  /\ hpc[c] = "draining"
  /\ k \in held[c]
  /\ SendAndClose(k, verdict[c])
  /\ held' = [held EXCEPT ![c] = @ \ {k}]
  /\ UNCHANGED <<nodes, online, sock, hpc, verdict, callerVars, agentVars, pending>>

(* repo.UpdateNodeStatus(nodeID, 0), then the socket is closed. *)
MarkOffline(c) ==
  /\ hpc[c] = "draining"
  /\ held[c] = {}
  /\ online' = [online EXCEPT ![Owner[c]] = 0]
  /\ sock' = [sock EXCEPT ![c] = "closed"]
  /\ hpc' = [hpc EXCEPT ![c] = "gone"]
  /\ UNCHANGED <<nodes, held, verdict, callerVars, chanVars, agentVars, pending>>
-----------------------------------------------------------------------------
(* SendCommand: one goroutine per call.                                    *)

(* Under s.mu: no session means "the node is not online". *)
Find(k) ==
  LET ns == nodes[Target[k]] IN
  /\ cpc[k] = "idle"
  /\ IF ns = NoConn
       THEN /\ outcome' = [outcome EXCEPT ![k] = Failed("offline")]
            /\ cpc' = [cpc EXCEPT ![k] = "returned"]
            /\ UNCHANGED sess
       ELSE /\ sess' = [sess EXCEPT ![k] = ns]
            /\ cpc' = [cpc EXCEPT ![k] = "found"]
            /\ UNCHANGED outcome
  /\ UNCHANGED <<handlerVars, chanVars, agentVars, pending>>

(* Under s.mu: enter s.pending. *)
Enter(k) ==
  /\ cpc[k] = "found"
  /\ pending' = pending \cup {k}
  /\ cpc' = [cpc EXCEPT ![k] = "registered"]
  /\ UNCHANGED <<handlerVars, sess, outcome, chanVars, agentVars>>

(* The command is written.  What is written to a half-open connection is   *)
(* lost without an error.                                                  *)
Write(k) ==
  /\ cpc[k] = "registered"
  /\ sock[sess[k]] # "closed"
  /\ agent' = [agent EXCEPT ![k] = IF sock[sess[k]] = "open" THEN "queued" ELSE @]
  /\ cpc' = [cpc EXCEPT ![k] = "waiting"]
  /\ UNCHANGED <<handlerVars, sess, outcome, chanVars, replies, pending>>

(* Encoding, encryption or the socket write (5 s deadline) fails. *)
WriteFails(k) ==
  /\ cpc[k] = "registered"
  /\ outcome' = [outcome EXCEPT ![k] = Failed("writeError")]
  /\ cpc' = [cpc EXCEPT ![k] = "cleanup"]
  /\ UNCHANGED <<handlerVars, sess, chanVars, agentVars, pending>>

(* The select of 507-521: a result, or the timer.  Both may be ready. *)
GetResult(k) ==
  /\ cpc[k] = "waiting"
  /\ closed[k]
  /\ outcome' = [outcome EXCEPT ![k] = buf[k]]
  /\ cpc' = [cpc EXCEPT ![k] = "returned"]
  /\ UNCHANGED <<handlerVars, sess, chanVars, agentVars, pending>>

(* (mutant) The timer is tied to the session the command was sent on. *)
TimeOutWithSession(k) ==
  /\ cpc[k] = "waiting"
  /\ nodes[Target[k]] = sess[k]
  /\ outcome' = [outcome EXCEPT ![k] = Failed("timeout")]
  /\ cpc' = [cpc EXCEPT ![k] = "cleanup"]
  /\ UNCHANGED <<handlerVars, sess, chanVars, agentVars, pending>>

TimeOut(k) ==
  /\ cpc[k] = "waiting"
  /\ outcome' = [outcome EXCEPT ![k] = Failed("timeout")]
  /\ cpc' = [cpc EXCEPT ![k] = "cleanup"]
  /\ UNCHANGED <<handlerVars, sess, chanVars, agentVars, pending>>

(* (mutant) cleanup() closes the channel without looking in s.pending. *)
CleanUpUnchecked(k) ==
  /\ cpc[k] = "cleanup"
  /\ pending' = pending \ {k}
  /\ CloseOnly(k)
  /\ cpc' = [cpc EXCEPT ![k] = "returned"]
  /\ UNCHANGED <<handlerVars, sess, outcome, agentVars>>

(* cleanup(): under s.mu, only if the request is still pending. *)
CleanUp(k) ==
  /\ cpc[k] = "cleanup"
  /\ IF k \in pending
       THEN pending' = pending \ {k} /\ CloseOnly(k)
       ELSE UNCHANGED <<pending, chanVars>>
  /\ cpc' = [cpc EXCEPT ![k] = "returned"]
  /\ UNCHANGED <<handlerVars, sess, outcome, agentVars>>
-----------------------------------------------------------------------------
(* The agent and the network (go-gost/x/socket/websocket_reporter.go): the *)
(* agent executes each command it received once and answers it on its      *)
(* current connection, which need not be the one the command came by.      *)

AgentExecutes(k) ==
  /\ agent[k] = "queued"
  /\ agent' = [agent EXCEPT ![k] = "executed"]
  /\ UNCHANGED <<handlerVars, callerVars, chanVars, replies, pending>>

AgentReplies(c, k, ok) ==
  /\ agent[k] = "executed"
  /\ Owner[c] = Target[k]
  /\ sock[c] = "open"
  /\ agent' = [agent EXCEPT ![k] = "replied"]
  /\ replies' = [replies EXCEPT ![c] = @ \cup {<<k, ok>>}]
  /\ UNCHANGED <<handlerVars, callerVars, chanVars, pending>>

(* A response whose requestId belongs to another node's request. *)
AgentMisaddresses(c, k) ==
  /\ <<c, k>> \in Misaddressed
  /\ sock[c] = "open"
  /\ k \in pending
  /\ replies' = [replies EXCEPT ![c] = @ \cup {<<k, TRUE>>}]
  /\ UNCHANGED <<handlerVars, callerVars, chanVars, agent, pending>>

(* The agent dies, drops the connection, or the network does. *)
PeerLost(c) ==
  /\ sock[c] = "open"
  /\ sock' = [sock EXCEPT ![c] = "dead"]
  /\ UNCHANGED <<nodes, online, hpc, held, verdict, callerVars, chanVars,
                 agentVars, pending>>
-----------------------------------------------------------------------------
HandlerStep(c) ==
  \/ Register(c) \/ MarkOnline(c) \/ ReadError(c) \/ Leave(c)
  \/ TakePending(c) \/ MarkOffline(c)
  \/ \E k \in Calls : Resolve(c, k) \/ FailOne(c, k)
  \/ \E k \in Calls, ok \in BOOLEAN : Claim(c, k, ok)

CallStep(k) ==
  \/ Find(k) \/ Enter(k) \/ Write(k) \/ WriteFails(k)
  \/ GetResult(k) \/ TimeOut(k) \/ CleanUp(k)

AgentStep ==
  \/ \E c \in Conns : Connect(c) \/ PeerLost(c)
  \/ \E k \in Calls : AgentExecutes(k)
  \/ \E c \in Conns, k \in Calls : AgentMisaddresses(c, k)
  \/ \E c \in Conns, k \in Calls, ok \in BOOLEAN : AgentReplies(c, k, ok)

Next ==
  \/ \E c \in Conns : HandlerStep(c)
  \/ \E k \in Calls : CallStep(k)
  \/ AgentStep

Spec == Init /\ [][Next]_vars

(* Goroutines are scheduled, and the timer of a waiting SendCommand fires; *)
(* nothing is assumed of agents and the network.                           *)
LiveSpec ==
  /\ Spec
  /\ \A c \in Conns : WF_vars(HandlerStep(c))
  /\ \A k \in Calls : WF_vars(CallStep(k))
-----------------------------------------------------------------------------
(* Properties.                                                             *)

(* The panel never sends on, or closes, a channel that is closed: of the   *)
(* timer's cleanup, a late response and the fail-all of a disconnect, only *)
(* the one that removed the request from s.pending touches its channel     *)
(* (461-468, 542-577, 590-606).                                            *)
ChannelSafe == ~panicked

(* s.pending holds no request whose SendCommand has returned: no error     *)
(* path leaves an entry behind.                                            *)
PendingOwned == \A k \in pending : cpc[k] \in InCall

(* A caller inside SendCommand is never forgotten: its request is still    *)
(* pending, or some handler holds it, or its channel has been closed.      *)
NoForgottenCaller ==
  \A k \in Calls : cpc[k] \in InCall =>
    \/ k \in pending
    \/ closed[k]
    \/ \E c \in Conns : k \in held[c]

(* Why: until it is closed, the channel of a call inside SendCommand has   *)
(* exactly one owner, s.pending or one handler, and no owner outside.      *)
Ownership ==
  /\ \A c \in Conns, k \in Calls : k \in held[c] =>
       /\ hpc[c] \in {"resolving", "draining"}
       /\ k \notin pending
       /\ ~closed[k]
       /\ cpc[k] \notin {"idle", "found"}
  /\ \A c, d \in Conns, k \in Calls : k \in held[c] /\ k \in held[d] => c = d
  /\ \A c \in Conns, k, l \in Calls :
       hpc[c] = "resolving" /\ k \in held[c] /\ l \in held[c] => k = l
  /\ \A k \in Calls : k \in pending => ~closed[k] /\ cpc[k] \in InCall
  /\ \A k \in Calls : cpc[k] \in {"idle", "found"} => ~closed[k]
  /\ NoForgottenCaller
  /\ ChannelSafe

(* The session of a node belongs to that node and has a handler that has   *)
(* not yet run its cleanup: s.nodes never keeps a session nobody will      *)
(* remove, which would swallow every later command of the node.            *)
SessionServed ==
  \A n \in Nodes : nodes[n] # NoConn =>
    /\ Owner[nodes[n]] = n
    /\ hpc[nodes[n]] \in {"registered", "reading", "resolving", "leaving"}

(* Why: what a caller can be given for call k is a failure, or the answer  *)
(* of the node k is addressed to, which has executed k's command.          *)
Genuine(k, r) ==
  \/ r \in {Failed("disconnected"), Failed("mismatch")}
  \/ /\ r \in [kind : {"ok", "refused"}, by : {Target[k]}]
     /\ agent[k] = "replied"

Provenance ==
  /\ \A k \in Calls : ~closed[k] => buf[k] = None
  /\ \A k \in Calls :
       cpc[k] \in {"registered", "waiting"} /\ closed[k] => Genuine(k, buf[k])
  /\ \A c \in Conns, k \in Calls : k \in held[c] => Genuine(k, verdict[c])
  /\ \A c \in Conns, k \in Calls, ok \in BOOLEAN :
       <<k, ok>> \in replies[c] /\ Owner[c] = Target[k] => agent[k] = "replied"
  /\ \A k \in Calls : cpc[k] \in {"idle", "found", "registered"} => agent[k] = "none"
  /\ \A k \in Calls : cpc[k] = "cleanup" =>
       outcome[k] \in {Failed("writeError"), Failed("timeout")}

(* SendCommand keeps its promise to its callers (285-607): the outcomes    *)
(* this hub returns are those CommandService allows, whatever the order of *)
(* reconnects, timeouts and late, lost or misaddressed responses.          *)
ImplementsCommandService == CS!CSSpec

(* Every SendCommand that found a session returns, whatever the agent and  *)
(* the network do (436-522).                                               *)
EveryCallReturns == \A k \in Calls : cpc[k] = "found" ~> cpc[k] = "returned"

(* A session whose connection has died is taken out of s.nodes (315-325).  *)
LostSessionRemoved ==
  \A c \in Conns :
    (sock[c] = "dead" /\ nodes[Owner[c]] = c) ~> nodes[Owner[c]] # c

(* "The node list shows whether a node is online": once every handler has  *)
(* settled, node.status is 1 exactly for the nodes that have a session.    *)
(* MarkOnline (305) and MarkOffline (328) of two connections of one node   *)
(* run outside s.mu in either order.                                       *)
StatusMatchesSession ==
  (\A c \in Conns : hpc[c] \in {"idle", "reading", "gone"}) =>
    \A n \in Nodes : online[n] = 1 <=> nodes[n] # NoConn
=============================================================================

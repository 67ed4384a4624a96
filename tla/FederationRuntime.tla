-------------------------- MODULE FederationRuntime --------------------------
(***************************************************************************)
(* Tunnels over nodes that another panel shares.  The panel that owns the   *)
(* tunnel (the consumer, http/handler/mutations.go) reserves a port for     *)
(* every remote hop, applies the hop's role there and keeps a binding; the  *)
(* panel that owns the node (the provider, http/handler/federation.go and   *)
(* flow_policy.go) keeps one peer_share_runtime row per hop, commands the   *)
(* node, and withdraws every hop of a share that is deleted or over its     *)
(* traffic.  A request is HTTP with a timeout: the handler of one that      *)
(* timed out goes on.                                                       *)
(*                                                                         *)
(* A step is one command to a node, one statement or transaction, or the    *)
(* reads up to the next of these.                                           *)
(*                                                                         *)
(* Abstractions: a share is its node; an exit's protocol, the strategies    *)
(* and the port range of a share do not change, nor do the hops of a        *)
(* tunnel; consumers share one database, and one goroutine at a time        *)
(* withdraws a share; a role's chain goes with its service where both are   *)
(* deleted by a sweep.  Port forwards over a share (role forward), best-exit *)
(* reorders, a restart of the consumer and its own nodes are left out, the  *)
(* latter up to whether they could be set up (Local).                       *)
(***************************************************************************)
EXTENDS Naturals, FiniteSets

CONSTANTS
    Tunnels, Hops,  \* a hop is a remote node's place in one tunnel
    TunnelOf,
    Below,          \* the hop a middle hop dials, NoHop for an exit
    Shares, ShareOf,
    PortsOf,        \* the ports a share may hand out
    Procs,          \* goroutines of the consumer that serve requests
    Strays,         \* bound: requests that timed out and still run
    SingleConnection,  \* the consumer's database is SQLite
    NoHop, NoTunnel, NoRow,
    MaxCut,         \* bound: shares that withdraw, in one behaviour
    MaxRequests,    \* bound: requests in one behaviour
    Faults,         \* what may go wrong
    MaxFaults       \* bound: how often, in one behaviour

ASSUME HopAssumption ==
    /\ NoHop \notin Hops /\ NoTunnel \notin Tunnels
    /\ TunnelOf \in [Hops -> Tunnels]
    /\ \A t \in Tunnels : \E h \in Hops : TunnelOf[h] = t
    /\ Below \in [Hops -> Hops \cup {NoHop}]
    /\ \A h \in Hops : Below[h] # NoHop => TunnelOf[Below[h]] = TunnelOf[h]
\* Following what the hops of a path dial one comes to an exit.
ASSUME ChainAssumption ==
    \A hops \in SUBSET Hops : hops # {} => \E h \in hops : Below[h] \notin hops
ASSUME ShareAssumption ==
    /\ ShareOf \in [Hops -> Shares]
    /\ PortsOf \in [Shares -> SUBSET (Nat \ {0})]
ASSUME ProcAssumption == Procs \cap Strays = {}
ASSUME NoRowAssumption ==
    NoRow \notin [port : Nat, on : BOOLEAN, applied : BOOLEAN]
ASSUME BoundAssumption ==
    /\ SingleConnection \in BOOLEAN
    /\ MaxCut \in Nat /\ MaxRequests \in Nat /\ MaxFaults \in Nat

VARIABLES
    share,   \* provider: is the share open, over its traffic, gone?
    rows,    \* provider: peer_share_runtime
    svc,     \* the port a hop's service listens on, 0 if there is none
    chain,   \* the port a middle hop's chain dials, 0 if there is none
    sweep,   \* provider: the goroutine that withdraws a share's hops
    life,    \* consumer: does the tunnel exist?
    bound,   \* consumer: the port in a hop's binding, 0 if there is none
    proc,    \* consumer: the handlers
    serve,   \* the requests under way, at the provider
    blamed,  \* history: hops of which a command, a write or a request went wrong
             \* in a way that nothing is sure to repair
    missed,  \* history: hops whose release never reached the provider
    cut,     \* history: shares that have withdrawn their hops
    asked, faults

provider == <<share, rows, svc, chain, sweep, cut>>
consumer == <<life, bound, proc, missed>>
vars == <<provider, consumer, serve, blamed, asked, faults>>

Ports == UNION {PortsOf[s] : s \in Shares}
Port0 == Ports \cup {0}
Slots == Procs \cup Strays

Rows == [port : Ports, on : BOOLEAN, applied : BOOLEAN]

\* A request: port is the one asked for, then the one of the row that was read
\* or chosen; target what a middle dials; fresh, whether there was no row.
Calls == [op : {"none", "reserve", "apply", "release"}, hop : Hops \cup {NoHop},
          pc : {"none", "start", "insert", "rechain", "chain", "service", "undo", "write",
                "dropService", "dropChain", "mark", "ok", "failed"},
          port : Port0, target : Port0, fresh : BOOLEAN]

\* A handler: todo the hops left in its loop, done those a rollback releases,
\* then where its releases lead, tx whether it is inside its transaction.
Frames == [op : {"none", "create", "update", "delete"},
           pc : {"idle", "release", "releasing", "unbind", "pick", "reserve", "retry", "apply",
                 "commit", "local", "domain", "forget", "cascade"},
           then : {"idle", "unbind", "forget", "cascade"},
           tunnel : Tunnels \cup {NoTunnel}, todo : SUBSET Hops, done : SUBSET Hops,
           at : Hops \cup {NoHop}, port : [Hops -> Port0], tx : BOOLEAN]

Sweeps == [on : BOOLEAN, final : BOOLEAN, todo : SUBSET Hops, applied : SUBSET Hops,
           at : Hops \cup {NoHop}]

TypeOK ==
    /\ share \in [Shares -> {"open", "over", "gone"}]
    /\ rows \in [Hops -> Rows \cup {NoRow}]
    /\ svc \in [Hops -> Port0] /\ chain \in [Hops -> Port0]
    /\ sweep \in [Shares -> Sweeps]
    /\ life \in [Tunnels -> {"new", "made", "gone"}]
    /\ bound \in [Hops -> Port0]
    /\ proc \in [Procs -> Frames]
    /\ serve \in [Slots -> Calls]
    /\ blamed \subseteq Hops /\ missed \subseteq Hops /\ cut \subseteq Shares
    /\ asked \in 0 .. MaxRequests /\ faults \in 0 .. MaxFaults

NoCall == [op |-> "none", hop |-> NoHop, pc |-> "none", port |-> 0, target |-> 0,
           fresh |-> FALSE]
NoPorts == [h \in Hops |-> 0]
Idle == [op |-> "none", pc |-> "idle", then |-> "idle", tunnel |-> NoTunnel, todo |-> {},
         done |-> {}, at |-> NoHop, port |-> NoPorts, tx |-> FALSE]
Resting == [on |-> FALSE, final |-> FALSE, todo |-> {}, applied |-> {}, at |-> NoHop]

Init ==
    /\ share = [s \in Shares |-> "open"]
    /\ rows = [h \in Hops |-> NoRow]
    /\ svc = NoPorts /\ chain = NoPorts
    /\ sweep = [s \in Shares |-> Resting]
    /\ life = [t \in Tunnels |-> "new"]
    /\ bound = NoPorts
    /\ proc = [p \in Procs |-> Idle]
    /\ serve = [x \in Slots |-> NoCall]
    /\ blamed = {} /\ missed = {} /\ cut = {}
    /\ asked = 0 /\ faults = 0

HopsOf(t) == {h \in Hops : TunnelOf[h] = t}
HopsIn(s) == {h \in Hops : ShareOf[h] = s}
Middle(h) == Below[h] # NoHop
Active(h) == rows[h] # NoRow /\ rows[h].on

Fault(kind) == kind \in Faults /\ faults < MaxFaults /\ faults' = faults + 1

-----------------------------------------------------------------------------
(* The provider's handlers: x is the request.                              *)

Ended(c) == c.pc \in {"ok", "failed"}

\* Nobody waits for the answer of a stray.
Reply(x, d) ==
    serve' = [serve EXCEPT ![x] = IF x \in Strays /\ Ended(d) THEN NoCall ELSE d]

At(x, op, pc) == serve[x].op = op /\ serve[x].pc = pc

\* sendNodeCommand: done; or refused, not delivered or answered too late.
Sends(x, svcDone, chainDone, done, failed) ==
    \/ /\ svc' = svcDone /\ chain' = chainDone
       /\ Reply(x, done)
       /\ UNCHANGED <<blamed, faults>>
    \/ /\ Fault("node")
       /\ \/ UNCHANGED <<svc, chain>>
          \/ svc' = svcDone /\ chain' = chainDone
       /\ Reply(x, failed)
       /\ blamed' = blamed \cup {serve[x].hop}

\* pickPeerSharePort: the ports no active row of the share holds.
Free(s) == PortsOf[s] \ {rows[h].port : h \in {g \in HopsIn(s) : Active(g)}}

\* federationRuntimeReservePort: an active row is answered as it is, traffic or
\* not.
ReserveReads(x) ==
    LET c == serve[x]
        s == ShareOf[c.hop]
        Chosen(port) == [c EXCEPT !.pc = "insert", !.port = port,
                                  !.fresh = rows[c.hop] = NoRow]
    IN
    /\ At(x, "reserve", "start")
    /\ \/ /\ share[s] # "gone" /\ Active(c.hop)
          /\ Reply(x, [c EXCEPT !.pc = "ok", !.port = rows[c.hop].port])
       \/ /\ share[s] = "open" /\ ~Active(c.hop)
          /\ \E port \in Free(s) :
                /\ c.port = port \/ (c.port = 0 /\ \A other \in Free(s) : port <= other)
                /\ Reply(x, Chosen(port))
       \/ /\ \/ share[s] = "gone"
             \/ ~Active(c.hop) /\ share[s] = "over"
             \/ ~Active(c.hop) /\ c.port = 0 /\ Free(s) = {}
             \/ ~Active(c.hop) /\ c.port # 0 /\ c.port \notin Free(s)
          /\ Reply(x, [c EXCEPT !.pc = "failed"])
    /\ UNCHANGED <<provider, consumer, blamed, asked, faults>>

\* The resource key is unique: a second insert fails.  An update writes the row
\* if it is still there, whatever it says by now.
ReserveInserts(x) ==
    LET c   == serve[x]
        row == [port |-> c.port, on |-> TRUE, applied |-> FALSE]
    IN
    /\ At(x, "reserve", "insert")
    /\ IF c.fresh /\ rows[c.hop] # NoRow
       THEN Reply(x, [c EXCEPT !.pc = "failed"]) /\ UNCHANGED rows
       ELSE /\ rows' = IF c.fresh \/ rows[c.hop] # NoRow THEN [rows EXCEPT ![c.hop] = row]
                       ELSE rows
            /\ Reply(x, [c EXCEPT !.pc = "ok"])
    /\ UNCHANGED <<share, svc, chain, sweep, cut, consumer, blamed, asked, faults>>

\* The insert fails, or a read at the start of a request nobody waits for: Lost has
\* the same of one somebody does.
CallFails(x) ==
    /\ At(x, "reserve", "insert") \/ (x \in Strays /\ serve[x].pc = "start")
    /\ Fault("storage")
    /\ Reply(x, [serve[x] EXCEPT !.pc = "failed"])
    /\ UNCHANGED <<provider, consumer, blamed, asked>>

\* (mutant) A role that has been applied is not applied again.
ApplyReadsOnce(x) ==
    LET c   == serve[x]
        row == rows[c.hop]
        s   == ShareOf[c.hop]
        Goes(pc) == Reply(x, [c EXCEPT !.pc = pc, !.port = row.port])
    IN
    /\ At(x, "apply", "start")
    /\ IF share[s] = "gone" \/ ~Active(c.hop) \/ (~row.applied /\ share[s] = "over")
       THEN Reply(x, [c EXCEPT !.pc = "failed"])
       ELSE Goes(IF row.applied THEN "ok" ELSE IF Middle(c.hop) THEN "chain" ELSE "service")
    /\ UNCHANGED <<provider, consumer, blamed, asked, faults>>

\* federationRuntimeApplyRole: a role that has been applied is not applied again,
\* save for a middle's chain.
ApplyReads(x) ==
    LET c    == serve[x]
        row  == rows[c.hop]
        s    == ShareOf[c.hop]
        Goes(pc) == Reply(x, [c EXCEPT !.pc = pc, !.port = row.port])
    IN
    /\ At(x, "apply", "start")
    /\ IF share[s] = "gone" \/ ~Active(c.hop) \/ (~row.applied /\ share[s] = "over")
       THEN Reply(x, [c EXCEPT !.pc = "failed"])
       ELSE CASE row.applied /\ Middle(c.hop)   -> Goes("rechain")
              [] row.applied /\ ~Middle(c.hop)  -> Goes("ok")
              [] ~row.applied /\ Middle(c.hop)  -> Goes("chain")
              [] ~row.applied /\ ~Middle(c.hop) -> Goes("service")
    /\ UNCHANGED <<provider, consumer, blamed, asked, faults>>

Rechain(x) ==
    LET c == serve[x] IN
    /\ At(x, "apply", "rechain")
    /\ Sends(x, svc, [chain EXCEPT ![c.hop] = c.target],
             [c EXCEPT !.pc = "write"], [c EXCEPT !.pc = "failed"])
    /\ UNCHANGED <<share, rows, sweep, cut, consumer, asked>>

\* AddChains, AddService: what exists already stays as it is.
AddChain(x) ==
    LET c == serve[x] IN
    /\ At(x, "apply", "chain")
    /\ Sends(x, svc, IF chain[c.hop] = 0 THEN [chain EXCEPT ![c.hop] = c.target] ELSE chain,
             [c EXCEPT !.pc = "service"], [c EXCEPT !.pc = "failed"])
    /\ UNCHANGED <<share, rows, sweep, cut, consumer, asked>>

\* A port another service listens on is refused.
AddService(x) ==
    LET c     == serve[x]
        taken == \E g \in HopsIn(ShareOf[c.hop]) : g # c.hop /\ svc[g] = c.port
        fails == [c EXCEPT !.pc = IF Middle(c.hop) THEN "undo" ELSE "failed"]
    IN
    /\ At(x, "apply", "service")
    /\ IF svc[c.hop] = 0 /\ taken
       THEN Reply(x, fails) /\ UNCHANGED <<svc, chain, blamed, faults>>
       ELSE Sends(x, IF svc[c.hop] = 0 THEN [svc EXCEPT ![c.hop] = c.port] ELSE svc, chain,
                  [c EXCEPT !.pc = "write"], fails)
    /\ UNCHANGED <<share, rows, sweep, cut, consumer, asked>>

UndoChain(x) ==
    LET c == serve[x] IN
    /\ At(x, "apply", "undo")
    /\ Sends(x, svc, [chain EXCEPT ![c.hop] = 0],
             [c EXCEPT !.pc = "failed"], [c EXCEPT !.pc = "failed"])
    /\ UNCHANGED <<share, rows, sweep, cut, consumer, asked>>

\* UpdatePeerShareRuntime: the whole row as it was read, now active and applied.
ApplyWrites(x) ==
    LET c == serve[x] IN
    /\ At(x, "apply", "write")
    /\ rows' = IF rows[c.hop] = NoRow THEN rows
               ELSE [rows EXCEPT ![c.hop] = [port |-> c.port, on |-> TRUE, applied |-> TRUE]]
    /\ Reply(x, [c EXCEPT !.pc = "ok"])
    /\ UNCHANGED <<share, svc, chain, sweep, cut, consumer, blamed, asked, faults>>

\* The service stays, and no row says so; nor does the consumer release it.
ApplyWriteFails(x) ==
    /\ At(x, "apply", "write") /\ Fault("storage")
    /\ Reply(x, [serve[x] EXCEPT !.pc = "failed"])
    /\ blamed' = blamed \cup {serve[x].hop}
    /\ UNCHANGED <<provider, consumer, asked>>

\* federationRuntimeReleaseRole.  The consumer always names the binding, and a row
\* has its binding id just while it is applied: any other is not found, and that
\* is fine.
ReleaseReads(x) ==
    LET c == serve[x] IN
    /\ At(x, "release", "start")
    /\ Reply(x, [c EXCEPT !.pc = IF share[ShareOf[c.hop]] = "gone" THEN "failed"
                                 ELSE IF rows[c.hop] # NoRow /\ rows[c.hop].applied
                                      THEN "dropService" ELSE "ok"])
    /\ UNCHANGED <<provider, consumer, blamed, asked, faults>>

\* The commands' errors are ignored.
DropService(x) ==
    LET c    == serve[x]
        next == [c EXCEPT !.pc = IF Middle(c.hop) THEN "dropChain" ELSE "mark"]
    IN
    /\ At(x, "release", "dropService")
    /\ Sends(x, [svc EXCEPT ![c.hop] = 0], chain, next, next)
    /\ UNCHANGED <<share, rows, sweep, cut, consumer, asked>>

DropChain(x) ==
    LET next == [serve[x] EXCEPT !.pc = "mark"] IN
    /\ At(x, "release", "dropChain")
    /\ Sends(x, svc, [chain EXCEPT ![serve[x].hop] = 0], next, next)
    /\ UNCHANGED <<share, rows, sweep, cut, consumer, asked>>

\* MarkPeerShareRuntimeReleased: the status alone.
Marked(h) == IF rows[h] = NoRow THEN rows ELSE [rows EXCEPT ![h].on = FALSE]

ReleaseMarks(x) ==
    /\ At(x, "release", "mark")
    /\ rows' = Marked(serve[x].hop)
    /\ Reply(x, [serve[x] EXCEPT !.pc = "ok"])
    /\ UNCHANGED <<share, svc, chain, sweep, cut, consumer, blamed, asked, faults>>

\* The row stays as if the role were there, and the next apply believes it.
ReleaseMarkFails(x) ==
    /\ At(x, "release", "mark") /\ Fault("storage")
    /\ Reply(x, [serve[x] EXCEPT !.pc = "failed"])
    /\ blamed' = blamed \cup {serve[x].hop}
    /\ UNCHANGED <<provider, consumer, asked>>

CallStep(x) ==
    \/ ReserveReads(x) \/ ReserveInserts(x) \/ CallFails(x)
    \/ ApplyReads(x) \/ Rechain(x) \/ AddChain(x) \/ AddService(x) \/ UndoChain(x)
    \/ ApplyWrites(x) \/ ApplyWriteFails(x)
    \/ ReleaseReads(x) \/ DropService(x) \/ DropChain(x) \/ ReleaseMarks(x)
    \/ ReleaseMarkFails(x)

-----------------------------------------------------------------------------
(* The provider withdraws.                                                 *)

\* A role is being applied that its row does not show yet, or has been since the
\* sweep looked: a row that is marked or deleted now leaves it on the node.
Crossed(h) ==
    \/ svc[h] # 0 \/ chain[h] # 0
    \/ \E x \in Slots : /\ serve[x].op = "apply" /\ serve[x].hop = h
                        /\ serve[x].pc \in {"rechain", "chain", "service", "undo", "write"}

\* A sweep that cannot list the rows has none to go through.
BeginSweep(s, final) ==
    /\ ~sweep[s].on /\ share[s] # "gone"
    /\ Cardinality(cut \cup {s}) <= MaxCut
    /\ \E listed \in {{h \in HopsIn(s) : Active(h)}, {}} :
          /\ sweep' = [sweep EXCEPT ![s] =
                         [on |-> TRUE, final |-> final, at |-> NoHop, todo |-> listed,
                          applied |-> {h \in listed : rows[h].applied}]]
          /\ \/ listed = {h \in HopsIn(s) : Active(h)} /\ UNCHANGED faults
             \/ listed = {} /\ Fault("storage")
    /\ cut' = cut \cup {s}

\* (mutant) Only the upload that crosses the limit enforces it.
UploadCrosses(s) ==
    /\ share[s] = "open" /\ \E h \in HopsIn(s) : Active(h) /\ svc[h] # 0
    /\ share' = [share EXCEPT ![s] = "over"]
    /\ BeginSweep(s, FALSE)
    /\ UNCHANGED <<rows, svc, chain, consumer, serve, blamed, asked>>

\* processPeerShareFlow: traffic of a hop whose row is active is added to the
\* share's, which is over its limit now or has been before; every such upload
\* enforces the limit (enforcePeerShareFlowLimit).
Upload(s) ==
    /\ \E h \in HopsIn(s) : Active(h) /\ svc[h] # 0
    /\ share' = [share EXCEPT ![s] = "over"]
    /\ BeginSweep(s, FALSE)
    /\ UNCHANGED <<rows, svc, chain, consumer, serve, blamed, asked>>

\* federationShareDelete.
DeleteShare(s) ==
    /\ BeginSweep(s, TRUE)
    /\ UNCHANGED <<share, rows, svc, chain, consumer, serve, blamed, asked>>

\* federationShareResetFlow.
ResetFlow(s) ==
    /\ share[s] = "over"
    /\ share' = [share EXCEPT ![s] = "open"]
    /\ UNCHANGED <<rows, svc, chain, sweep, cut, consumer, serve, blamed, asked, faults>>

\* A row that was not applied when it was listed has no service to delete.
SweepDrops(s, h) ==
    /\ sweep[s].on /\ sweep[s].at = NoHop /\ h \in sweep[s].todo
    /\ sweep' = [sweep EXCEPT ![s].at = h]
    /\ \/ /\ h \in sweep[s].applied
          /\ svc' = [svc EXCEPT ![h] = 0] /\ chain' = [chain EXCEPT ![h] = 0]
          /\ UNCHANGED <<blamed, faults>>
       \/ h \notin sweep[s].applied /\ UNCHANGED <<svc, chain, blamed, faults>>
       \/ /\ h \in sweep[s].applied /\ Fault("node")
          /\ blamed' = blamed \cup {h} /\ UNCHANGED <<svc, chain>>
    /\ UNCHANGED <<share, rows, cut, consumer, serve, asked>>

SweepMarks(s) ==
    LET h == sweep[s].at IN
    /\ h # NoHop
    /\ sweep' = [sweep EXCEPT ![s].at = NoHop, ![s].todo = @ \ {h}]
    /\ rows' = Marked(h)
    /\ blamed' = IF Crossed(h) THEN blamed \cup {h} ELSE blamed
    /\ UNCHANGED <<share, svc, chain, cut, consumer, serve, asked, faults>>

\* The error is ignored: the row stays as it was.
SweepMarkFails(s) ==
    LET h == sweep[s].at IN
    /\ h # NoHop /\ Fault("storage")
    /\ sweep' = [sweep EXCEPT ![s].at = NoHop, ![s].todo = @ \ {h}]
    /\ blamed' = IF h \in sweep[s].applied THEN blamed \cup {h} ELSE blamed
    /\ UNCHANGED <<share, rows, svc, chain, cut, consumer, serve, asked>>

\* DeletePeerShare takes the rows along, also those that came since the listing.
SweepEnds(s) ==
    /\ sweep[s].on /\ sweep[s].at = NoHop /\ sweep[s].todo = {}
    /\ sweep' = [sweep EXCEPT ![s] = Resting]
    /\ IF sweep[s].final
       THEN /\ share' = [share EXCEPT ![s] = "gone"]
            /\ rows' = [h \in Hops |-> IF h \in HopsIn(s) THEN NoRow ELSE rows[h]]
            /\ blamed' = blamed \cup {h \in HopsIn(s) : Crossed(h)}
       ELSE UNCHANGED <<share, rows, blamed>>
    /\ UNCHANGED <<svc, chain, cut, consumer, serve, asked, faults>>

\* The share is not deleted; or it is, and the rows' own error is ignored.
SweepEndFails(s) ==
    /\ sweep[s].on /\ sweep[s].at = NoHop /\ sweep[s].todo = {}
    /\ sweep[s].final /\ Fault("storage")
    /\ sweep' = [sweep EXCEPT ![s] = Resting]
    /\ \/ UNCHANGED <<share, blamed>>
       \/ /\ share' = [share EXCEPT ![s] = "gone"]
          /\ blamed' = blamed \cup {h \in HopsIn(s) : rows[h] # NoRow \/ Crossed(h)}
    /\ UNCHANGED <<rows, svc, chain, cut, consumer, serve, asked>>

SweepStep(s) ==
    \/ SweepMarks(s) \/ SweepMarkFails(s) \/ SweepEnds(s) \/ SweepEndFails(s)
    \/ \E h \in Hops : SweepDrops(s, h)

-----------------------------------------------------------------------------
(* The consumer's handlers: p is the goroutine, and serve[p] its request.  *)

\* A query outside a transaction takes a connection from the pool, and SQLite's
\* has one.
DbFree == SingleConnection => \A q \in Procs : ~proc[q].tx

Busy(t) == \E q \in Procs : proc[q].tunnel = t

Asks(p) ==
    /\ proc[p] = Idle
    /\ asked < MaxRequests /\ asked' = asked + 1

\* lockTunnelRuntime orders updates alone: nothing orders them and the others.
Meets(t) == blamed' = IF Busy(t) THEN blamed \cup HopsOf(t) ELSE blamed

\* tunnelCreate: its transaction is open while it makes its requests.
Create(p, t) ==
    /\ Asks(p) /\ life[t] = "new" /\ ~Busy(t) /\ DbFree
    /\ proc' = [proc EXCEPT ![p] =
                  [Idle EXCEPT !.op = "create", !.pc = "pick", !.tunnel = t,
                               !.todo = HopsOf(t), !.tx = TRUE]]
    /\ UNCHANGED <<provider, missed, life, bound, serve, blamed, faults>>

Held(t) == {h \in HopsOf(t) : bound[h] # 0}

\* cleanupFederationRuntime comes first in both.
Cleans(p, op, t, next) ==
    /\ Asks(p) /\ life[t] = "made" /\ DbFree
    /\ proc' = [proc EXCEPT ![p] =
                  [Idle EXCEPT !.op = op, !.tunnel = t, !.then = "unbind",
                               !.pc = IF Held(t) = {} THEN next ELSE "release",
                               !.todo = IF Held(t) = {} THEN HopsOf(t) ELSE Held(t)]]
    /\ Meets(t)
    /\ UNCHANGED <<provider, missed, life, bound, serve, faults>>

\* It cannot list the bindings: the request goes on with all of them in place.
CleansNot(p, op, t, next) ==
    /\ Asks(p) /\ life[t] = "made" /\ DbFree
    /\ Fault("storage")
    /\ proc' = [proc EXCEPT ![p] =
                  [Idle EXCEPT !.op = op, !.tunnel = t, !.then = "unbind",
                               !.pc = next, !.todo = HopsOf(t)]]
    /\ blamed' = blamed \cup (IF Busy(t) THEN HopsOf(t) ELSE Held(t))
    /\ UNCHANGED <<provider, missed, life, bound, serve>>

\* tunnelUpdate, redeployTunnelAndForwards.
Update(p, t) ==
    /\ \A q \in Procs : proc[q].tunnel = t => proc[q].op # "update"
    /\ Cleans(p, "update", t, "pick") \/ CleansNot(p, "update", t, "pick")

Delete(p, t) == Cleans(p, "delete", t, "cascade") \/ CleansNot(p, "delete", t, "cascade")

Calling(op, h, port, target) ==
    [NoCall EXCEPT !.op = op, !.hop = h, !.pc = "start", !.port = port, !.target = target]

Moves(p, frame, call) ==
    /\ proc' = [proc EXCEPT ![p] = frame]
    /\ serve' = [serve EXCEPT ![p] = call]

Release(p) ==
    /\ proc[p].pc = "release"
    /\ \E h \in proc[p].todo :
          Moves(p, [proc[p] EXCEPT !.pc = "releasing", !.at = h], Calling("release", h, 0, 0))
    /\ UNCHANGED <<provider, missed, life, bound, blamed, asked, faults>>

\* (mutant) A release that failed is tried again.
ReleasedOk(p) ==
    LET left == IF serve[p].pc = "ok" THEN proc[p].todo \ {proc[p].at} ELSE proc[p].todo
        next == IF left = {} THEN proc[p].then ELSE "release"
    IN
    /\ proc[p].pc = "releasing" /\ Ended(serve[p])
    /\ Moves(p, IF next = "idle" THEN Idle
                ELSE [proc[p] EXCEPT !.pc = next, !.todo = left, !.at = NoHop], NoCall)
    /\ UNCHANGED <<provider, missed, life, bound, blamed, asked, faults>>

\* The answer is ignored.
Released(p) ==
    LET left == proc[p].todo \ {proc[p].at}
        next == IF left = {} THEN proc[p].then ELSE "release"
    IN
    /\ proc[p].pc = "releasing" /\ Ended(serve[p])
    /\ Moves(p, IF next = "idle" THEN Idle
                ELSE [proc[p] EXCEPT !.pc = next, !.todo = left, !.at = NoHop], NoCall)
    /\ UNCHANGED <<provider, missed, life, bound, blamed, asked, faults>>

Forgotten(t) == [h \in Hops |-> IF TunnelOf[h] = t THEN 0 ELSE bound[h]]

\* An update may still turn its request down.
CleanedUp(p) ==
    \/ /\ proc[p].op = "update"
       /\ proc' = [proc EXCEPT ![p].pc = "pick", ![p].todo = HopsOf(proc[p].tunnel)]
    \/ proc[p].op = "update" /\ proc' = [proc EXCEPT ![p] = Idle]
    \/ proc[p].op = "delete" /\ proc' = [proc EXCEPT ![p].pc = "cascade"]

Unbind(p) ==
    /\ proc[p].pc = "unbind" /\ DbFree
    /\ bound' = Forgotten(proc[p].tunnel)
    /\ CleanedUp(p)
    /\ UNCHANGED <<provider, missed, life, serve, blamed, asked, faults>>

\* The error is ignored: bindings to what has been released.
UnbindFails(p) ==
    /\ proc[p].pc = "unbind" /\ DbFree
    /\ Fault("storage")
    /\ blamed' = blamed \cup Held(proc[p].tunnel)
    /\ CleanedUp(p)
    /\ UNCHANGED <<provider, missed, life, bound, serve, asked>>

\* applyFederationRuntime takes a hop after the one it dials.
Reserve(p) ==
    /\ proc[p].pc = "pick"
    /\ \E h \in proc[p].todo : \E wanted \in PortsOf[ShareOf[h]] \cup {0} :
          /\ Below[h] \notin proc[p].todo
          /\ Moves(p, [proc[p] EXCEPT !.pc = IF wanted = 0 THEN "retry" ELSE "reserve",
                                      !.at = h],
                   Calling("reserve", h, wanted, 0))
    /\ UNCHANGED <<provider, missed, life, bound, blamed, asked, faults>>

\* The port asked for was refused: any other.
ReserveAny(p) ==
    /\ proc[p].pc = "reserve" /\ serve[p].pc = "failed"
    /\ Moves(p, [proc[p] EXCEPT !.pc = "retry"], Calling("reserve", proc[p].at, 0, 0))
    /\ UNCHANGED <<provider, missed, life, bound, blamed, asked, faults>>

\* releaseFederationRuntimeRefs reads the panel's domain before it releases.
BackFrom(frame, then) ==
    [frame EXCEPT !.pc = "domain", !.then = then, !.todo = {}, !.at = NoHop]

GoesBack(p) ==
    Moves(p, IF proc[p].done = {} THEN Idle ELSE BackFrom(proc[p], "idle"), NoCall)

\* A middle may have no address to dial the next hop at.
Apply(p) ==
    LET h == proc[p].at IN
    /\ proc[p].pc \in {"reserve", "retry"} /\ serve[p].pc = "ok"
    /\ \/ /\ Moves(p, [proc[p] EXCEPT !.pc = "apply", !.port[h] = serve[p].port],
                   Calling("apply", h, 0, IF Middle(h) THEN proc[p].port[Below[h]] ELSE 0))
          /\ UNCHANGED faults
       \/ Middle(h) /\ Fault("host") /\ GoesBack(p)
    /\ UNCHANGED <<provider, missed, life, bound, blamed, asked>>

Applied(p) ==
    LET h    == proc[p].at
        left == proc[p].todo \ {h}
    IN
    /\ proc[p].pc = "apply" /\ serve[p].pc = "ok"
    /\ Moves(p, [proc[p] EXCEPT !.pc = IF left = {} THEN "commit" ELSE "pick",
                                !.todo = left, !.done = @ \cup {h}, !.at = NoHop,
                                !.port[h] = serve[p].port], NoCall)
    /\ missed' = missed \ {h}
    /\ UNCHANGED <<provider, life, bound, blamed, asked, faults>>

\* (mutant) A hop that cannot be set up ends the handler, whatever came before.
GivesUp(p) ==
    /\ \/ proc[p].pc = "retry" \/ proc[p].pc = "apply"
    /\ serve[p].pc = "failed"
    /\ Moves(p, Idle, NoCall)
    /\ UNCHANGED <<provider, missed, life, bound, blamed, asked, faults>>

\* The hop that failed is not among those the handler releases.
SetupFails(p) ==
    /\ proc[p].pc \in {"retry", "apply"} /\ serve[p].pc = "failed"
    /\ GoesBack(p)
    /\ UNCHANGED <<provider, missed, life, bound, blamed, asked, faults>>

Domain(p) ==
    /\ proc[p].pc = "domain" /\ DbFree
    /\ proc' = [proc EXCEPT ![p].pc = "release", ![p].todo = proc[p].done]
    /\ UNCHANGED <<provider, missed, life, bound, serve, blamed, asked, faults>>

Commit(p) ==
    LET t == proc[p].tunnel IN
    /\ proc[p].pc = "commit" /\ (proc[p].tx \/ DbFree)
    /\ life' = IF proc[p].op = "create" THEN [life EXCEPT ![t] = "made"] ELSE life
    /\ bound' = [h \in Hops |-> IF TunnelOf[h] = t THEN proc[p].port[h] ELSE bound[h]]
    /\ proc' = [proc EXCEPT ![p].pc = "local", ![p].tx = FALSE]
    /\ UNCHANGED <<provider, missed, serve, blamed, asked, faults>>

\* A statement fails inside the transaction, or the transaction fails itself.
CommitFails(p) ==
    /\ proc[p].pc = "commit" /\ (proc[p].tx \/ DbFree)
    /\ Fault("storage")
    /\ \E tx \in BOOLEAN : proc' = [proc EXCEPT ![p] = [BackFrom(@, "idle") EXCEPT !.tx = tx]]
    /\ UNCHANGED <<provider, missed, life, bound, serve, blamed, asked>>

\* Some of tunnelUpdate's errors release nothing.
UpdateRefused(p) ==
    /\ proc[p].pc = "commit" /\ proc[p].op = "update" /\ DbFree
    /\ Fault("conflict")
    /\ blamed' = blamed \cup proc[p].done
    /\ proc' = [proc EXCEPT ![p] = Idle]
    /\ UNCHANGED <<provider, missed, life, bound, serve, asked>>

\* applyTunnelRuntime sets up the consumer's own nodes.
Local(p) ==
    /\ proc[p].pc = "local"
    /\ \/ proc' = [proc EXCEPT ![p] = Idle] /\ UNCHANGED faults
       \/ /\ Fault("local")
          /\ proc' = [proc EXCEPT ![p] =
                        BackFrom(@, IF @.op = "create" THEN "cascade" ELSE "forget")]
    /\ UNCHANGED <<provider, missed, life, bound, serve, blamed, asked>>

\* (mutant) The bindings stay.
ForgetNot(p) ==
    /\ proc[p].pc = "forget" /\ DbFree
    /\ proc' = [proc EXCEPT ![p] = Idle]
    /\ UNCHANGED <<provider, missed, life, bound, serve, blamed, asked, faults>>

Forget(p) ==
    /\ proc[p].pc = "forget" /\ DbFree
    /\ bound' = Forgotten(proc[p].tunnel)
    /\ proc' = [proc EXCEPT ![p] = Idle]
    /\ UNCHANGED <<provider, missed, life, serve, blamed, asked, faults>>

\* deleteTunnelByID.
Cascade(p) ==
    /\ proc[p].pc = "cascade" /\ DbFree
    /\ life' = [life EXCEPT ![proc[p].tunnel] = "gone"]
    /\ bound' = Forgotten(proc[p].tunnel)
    /\ proc' = [proc EXCEPT ![p] = Idle]
    /\ UNCHANGED <<provider, missed, serve, blamed, asked, faults>>

\* The tunnel, or its bindings, cannot be deleted at the end.
LastFails(p) ==
    /\ proc[p].pc \in {"forget", "cascade"} /\ DbFree
    /\ Fault("storage")
    /\ blamed' = blamed \cup Held(proc[p].tunnel)
    /\ proc' = [proc EXCEPT ![p] = Idle]
    /\ UNCHANGED <<provider, missed, life, bound, serve, asked>>

\* The provider is not reached, or one of the two panels cannot read what it needs
\* for the request: nothing is done on the node.
Lost(p) ==
    /\ serve[p].pc = "start"
    /\ Fault("lost") \/ Fault("storage")
    /\ serve' = [serve EXCEPT ![p].pc = "failed"]
    /\ missed' = IF serve[p].op = "release" THEN missed \cup {serve[p].hop} ELSE missed
    /\ UNCHANGED <<provider, life, bound, proc, blamed, asked>>

\* The client gives up, and the provider's handler goes on.
Timeout(p) ==
    /\ serve[p].op # "none" /\ ~Ended(serve[p]) /\ Fault("timeout")
    /\ \E x \in Strays :
          /\ serve[x] = NoCall
          /\ serve' = [serve EXCEPT ![x] = serve[p], ![p].pc = "failed"]
    /\ blamed' = blamed \cup {serve[p].hop}
    /\ UNCHANGED <<provider, consumer, asked>>

ProcStep(p) ==
    \/ Release(p) \/ Released(p) \/ Unbind(p) \/ UnbindFails(p)
    \/ Reserve(p) \/ ReserveAny(p) \/ Apply(p) \/ Applied(p) \/ SetupFails(p)
    \/ Domain(p) \/ Commit(p) \/ CommitFails(p) \/ UpdateRefused(p)
    \/ Local(p) \/ Forget(p) \/ Cascade(p) \/ LastFails(p)

Next ==
    \/ \E p \in Procs : \/ \E t \in Tunnels : Create(p, t) \/ Update(p, t) \/ Delete(p, t)
                        \/ ProcStep(p) \/ Lost(p) \/ Timeout(p)
    \/ \E x \in Slots : CallStep(x)
    \/ \E s \in Shares : Upload(s) \/ DeleteShare(s) \/ ResetFlow(s) \/ SweepStep(s)

\* A goroutine that can go on does, and a service that carries traffic reports it.
Fairness ==
    /\ \A p \in Procs : WF_vars(ProcStep(p))
    /\ \A x \in Slots : WF_vars(CallStep(x))
    /\ \A s \in Shares : /\ WF_vars(SweepStep(s))
                         /\ WF_vars(share[s] = "over" /\ Upload(s))

Spec == Init /\ [][Next]_vars
FairSpec == Spec /\ Fairness

-----------------------------------------------------------------------------
(* Properties.                                                             *)

\* Nothing is under way that may change the hop.
Quiet(h) ==
    /\ ~Busy(TunnelOf[h]) /\ ~sweep[ShareOf[h]].on
    /\ \A x \in Slots : serve[x].hop # h

Settled(h) == h \notin blamed \cup missed /\ Quiet(h)

\* A hop the consumer is bound to is served, by the port in its binding, until the
\* share is withdrawn; save for a hop whose own command, request or write went
\* wrong (blamed, missed): applyFederationRuntime trusts a row that is wrong.
BoundServes == \A h \in Hops :
    /\ Settled(h) /\ bound[h] # 0
    /\ Active(h) \/ ShareOf[h] \notin cut
    => /\ life[TunnelOf[h]] = "made"
       /\ Active(h) /\ rows[h].applied
       /\ rows[h].port = bound[h] /\ svc[h] = bound[h]

\* When a create, an update, a delete or a withdrawal fails at one hop or in its own
\* storage, or runs into another, the hops nothing went wrong with are taken back
\* on their nodes wherever no binding and no row accounts for them.  The hop whose
\* own command, request, row or listing of bindings failed is excepted.
NothingLeftBehind == \A h \in Hops : Settled(h) =>
    /\ svc[h] # 0 => Active(h) /\ rows[h].applied /\ bound[h] = svc[h]
    /\ chain[h] # 0 => svc[h] # 0

\* A middle hop dials the port the next hop listens on.
PathJoined == \A h \in Hops :
    Middle(h) /\ Settled(h) /\ Settled(Below[h]) /\ svc[h] # 0 /\ svc[Below[h]] # 0
    => chain[h] = svc[Below[h]]

\* The handler can go on, or its request can: the guards of ProcStep and CallStep.
CanGo(p) ==
    LET f == proc[p]
        c == serve[p]
    IN
    CASE f.pc = "release" -> f.todo # {}
      [] f.pc = "pick" -> \E h \in f.todo : Below[h] \notin f.todo
      [] f.pc \in {"reserve", "retry"} ->
            c.op = "reserve" /\ c.pc \in {"start", "insert", "ok", "failed"}
      [] f.pc = "apply" ->
            c.op = "apply" /\ c.pc \in {"start", "rechain", "chain", "service", "undo", "write",
                                        "ok", "failed"}
      [] f.pc = "releasing" ->
            c.op = "release" /\ c.pc \in {"start", "dropService", "dropChain", "mark", "ok",
                                          "failed"}
      [] f.pc = "commit" -> f.tx \/ DbFree
      [] f.pc \in {"unbind", "domain", "forget", "cascade"} -> DbFree
      [] f.pc = "local" -> TRUE
      [] OTHER -> FALSE

\* A rollback that reads the configuration while its own transaction is open.
OwnDeadlock(p) == SingleConnection /\ proc[p].tx /\ proc[p].pc = "domain"

\* No handlers wait for one another, be there one connection to the database or
\* many: one that cannot go on waits for a transaction whose handler can, or that
\* is behind the one deadlock the code has, a handler's with itself
\* (tunnelCreate, releaseFederationRuntimeRefs).
NobodyStuck ==
    /\ \A p \in Procs : proc[p].op # "none" =>
          \/ CanGo(p)
          \/ \E q \in Procs : proc[q].tx /\ (CanGo(q) \/ OwnDeadlock(q))
    /\ SingleConnection => \A p, q \in Procs : proc[p].tx /\ proc[q].tx => p = q

\* Every request to the consumer ends.
RequestsEnd == \A p \in Procs : proc[p].op # "none" ~> proc[p] = Idle

\* A share over its traffic ends up with no role that its panel still counts, or is
\* given more.
ExceededIsWithdrawn == \A s \in Shares :
    share[s] = "over" ~>
        (share[s] = "over" => ~ \E h \in HopsIn(s) : Active(h) /\ svc[h] # 0)
=============================================================================

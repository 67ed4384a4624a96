---------------------------- MODULE ForwardRuntime ----------------------------
(***************************************************************************)
(* One forward of the panel: its row and its forward_port rows in the       *)
(* database, the service that realises it on every entry node, and the      *)
(* handlers that bring the two together (http/handler/mutations.go,          *)
(* control_plane.go, upgrade.go, flow_policy.go, flow_upload_batch.go).      *)
(*                                                                         *)
(* Handlers run at the same time and nothing locks a forward: each reads    *)
(* the row once and works with that copy.  A step is one command to a node  *)
(* or one transaction, with the reads just before it.                       *)
(*                                                                         *)
(* Abstractions: the service of a node is the pair _tcp, _udp under any of  *)
(* the names the candidates cover, for they hold the same port; a tunnel's  *)
(* entry nodes do not change; the fallbacks of an update that finds the     *)
(* port or the address taken are the update that succeeds in the end, or a  *)
(* failure that may leave no service; a late command is executed at once or *)
(* never.  Node hub and agent are NodeHub and AgentServices; when a node    *)
(* that came back is redeployed is NodeRedeploy.                            *)
(***************************************************************************)
EXTENDS Naturals, FiniteSets

CONSTANTS
    Nodes,
    Procs,      \* goroutines of the panel that serve requests or redeploy
    Contents,   \* what a forward may be configured to: tunnel, target, ...
    Tunnel,     \* the tunnel of a content
    Entry,      \* the entry nodes of a content's tunnel
    NoService,
    NoNode,
    MaxRetries, \* of a forward whose redeploy failed
    MaxRequests,  \* bound: requests in one behaviour
    Faults,     \* what may go wrong
    MaxFaults   \* bound: how often, in one behaviour

ASSUME NoneAssumption ==
    NoNode \notin Nodes /\ NoService \notin [on : BOOLEAN, ver : Contents]
ASSUME EntryAssumption ==
    /\ Contents # {}
    /\ Entry \in [Contents -> (SUBSET Nodes) \ {{}}]
    /\ \A a, b \in Contents : Tunnel[a] = Tunnel[b] => Entry[a] = Entry[b]
ASSUME FaultAssumption ==
    /\ Faults \subseteq {"late", "refused", "storage", "link", "restart"}
    /\ MaxFaults \in Nat /\ MaxRequests \in Nat /\ MaxRetries \in Nat

VARIABLES
    life,    \* has the row been inserted, deleted?
    row,     \* its status and content
    ports,   \* nodes with a forward_port row
    svc,     \* the service on each node
    link,    \* nodes whose agent is connected
    owed,    \* nodes that came back and were not redeployed yet
    proc,    \* the handlers
    asked,   \* requests so far
    faults   \* what has gone wrong so far

vars == <<life, row, ports, svc, link, owed, proc, asked, faults>>

Configs == [on : BOOLEAN, ver : Contents]

PCs == {"idle", "store", "storePorts", "reread", "clean", "sync", "apply", "quiet", "quieting",
        "control", "retry", "write", "remove", "drop", "purge", "undo", "undoPorts", "done"}

\* A handler: was is the row it read first and old the ports, use the copy
\* syncForwardServices is given, want the content asked for, phase what that
\* sync is for, todo the nodes left in its loop and left those of the loop around
\* it, healed whether it had to deploy a service that was not found; alone is
\* history: nothing disturbed it.
Frames == [op : {"none", "create", "update", "pause", "resume", "delete", "redeploy"},
           pc : PCs, phase : {"main", "undo", "heal"},
           was : Configs, use : Configs, want : Contents, old : SUBSET Nodes,
           todo : SUBSET Nodes, left : SUBSET Nodes, node : Nodes \cup {NoNode},
           result : {"none", "ok", "error"}, tries : 0 .. MaxRetries,
           alone : BOOLEAN, healed : BOOLEAN]

TypeOK ==
    /\ life \in {"new", "there", "gone"}
    /\ row \in Configs
    /\ ports \subseteq Nodes
    /\ svc \in [Nodes -> Configs \cup {NoService}]
    /\ link \subseteq Nodes /\ owed \subseteq Nodes
    /\ proc \in [Procs -> Frames]
    /\ asked \in 0 .. MaxRequests /\ faults \in 0 .. MaxFaults

Blank == [on |-> FALSE, ver |-> CHOOSE c \in Contents : TRUE]

Idle == [op |-> "none", pc |-> "idle", phase |-> "main", was |-> Blank, use |-> Blank,
         want |-> Blank.ver, old |-> {}, todo |-> {}, left |-> {}, node |-> NoNode,
         result |-> "none", tries |-> 0, alone |-> FALSE, healed |-> FALSE]

Init ==
    /\ life = "new" /\ row = Blank /\ ports = {}
    /\ svc = [n \in Nodes |-> NoService]
    /\ link = Nodes /\ owed = {}
    /\ proc = [p \in Procs |-> Idle]
    /\ asked = 0 /\ faults = 0

-----------------------------------------------------------------------------
(* What the handlers are made of.                                          *)

Go(p, frame) == proc' = [proc EXCEPT ![p] = frame]

\* Whatever runs is not alone any more.
Disturbed == [q \in Procs |-> [proc[q] EXCEPT !.alone = FALSE]]
GoDisturbed(p, frame) == proc' = [Disturbed EXCEPT ![p] = [frame EXCEPT !.alone = FALSE]]

Fault(kind) ==
    kind \in Faults /\ faults < MaxFaults /\ faults' = faults + 1

\* One more request.
Asks == asked < MaxRequests /\ asked' = asked + 1

\* A request or a redeploy starts, undisturbed if nothing else runs and every
\* node is connected.
Begin(p, frame) ==
    /\ proc[p].pc = "idle"
    /\ proc' = [Disturbed EXCEPT ![p] =
                  [frame EXCEPT !.alone = link = Nodes /\
                                \A q \in Procs \ {p} : proc[q].pc \in {"idle", "done"}]]

Ended(f, result) ==
    [f EXCEPT !.pc = "done", !.result = result, !.phase = "main", !.use = Blank,
              !.want = Blank.ver, !.todo = {}, !.left = {}, !.node = NoNode]

TunnelChanged(f) == Tunnel[f.was.ver] # Tunnel[f.want]
Kept(f) == f.old \cap Entry[f.want]
Removed(f) == f.old \ Entry[f.want]

\* Where a handler goes on when its sync has succeeded, and when it has failed.
Synced(f) ==
    CASE f.phase = "heal" -> [f EXCEPT !.pc = "retry", !.todo = f.left]
      [] f.phase = "undo" -> Ended(f, "error")
      [] f.phase = "main" /\ f.op = "update" /\ TunnelChanged(f) /\ Removed(f) # {} ->
            [f EXCEPT !.pc = "purge", !.todo = Removed(f)]
      [] OTHER -> Ended(f, "ok")

Unsynced(f) ==
    CASE f.phase = "main" /\ f.op = "create" -> [f EXCEPT !.pc = "drop"]
      [] f.phase = "main" /\ f.op = "update" -> [f EXCEPT !.pc = "undo"]
      [] OTHER -> Ended(f, "error")

\* The node is done with, and the loop may be.
Skip(f, n, after) ==
    IF f.todo = {n} THEN after ELSE [f EXCEPT !.todo = @ \ {n}]

\* sendNodeCommand: the node executes the command and its service becomes s;
\* it is offline or answers too late, which every loop skips; or it refuses.
Command(p, n, s, next, failed) ==
    \/ /\ n \in link
       /\ svc' = [svc EXCEPT ![n] = s] /\ Go(p, next) /\ UNCHANGED faults
    \/ /\ n \notin link
       /\ Go(p, next) /\ UNCHANGED <<svc, faults>>
    \/ /\ n \in link /\ Fault("late")
       /\ svc' \in {svc, [svc EXCEPT ![n] = s]}
       /\ GoDisturbed(p, next)
    \/ /\ n \in link /\ Fault("refused")
       /\ UNCHANGED svc
       /\ IF proc[p].phase = "undo" \/ failed = next THEN GoDisturbed(p, failed)
          ELSE Go(p, failed)

-----------------------------------------------------------------------------
(* syncForwardServices.                                                     *)

Sync(p) ==
    LET f == proc[p] IN
    /\ f.pc = "sync"
    /\ Go(p, IF ports = {} THEN Unsynced(f) ELSE [f EXCEPT !.pc = "apply", !.todo = ports])
    /\ UNCHANGED <<life, row, ports, svc, link, owed, faults, asked>>

\* Neither can the ports be listed.
ListFails(p) ==
    LET f == proc[p] IN
    /\ f.pc \in {"sync", "quiet"}
    /\ Fault("storage")
    /\ IF f.phase = "undo" THEN GoDisturbed(p, Unsynced(f)) ELSE Go(p, Unsynced(f))
    /\ UNCHANGED <<life, row, ports, svc, link, owed, asked>>

\* UpdateService always serves the service, whatever its state.  A failed
\* rebind or fallback may have deleted the old one.
Apply(p, n) ==
    LET f     == proc[p]
        after == IF f.use.on THEN Synced(f) ELSE [f EXCEPT !.pc = "quiet", !.todo = {}]
    IN
    /\ f.pc = "apply" /\ n \in f.todo
    /\ \/ Command(p, n, [on |-> TRUE, ver |-> f.use.ver], Skip(f, n, after), Unsynced(f))
       \/ /\ n \in link /\ Fault("refused")
          /\ svc' = [svc EXCEPT ![n] = NoService]
          /\ IF f.phase = "undo" THEN GoDisturbed(p, Unsynced(f)) ELSE Go(p, Unsynced(f))
    /\ UNCHANGED <<life, row, ports, link, owed, asked>>

\* What the copy says is paused is paused again.
Quiet(p) ==
    LET f == proc[p] IN
    /\ f.pc = "quiet"
    /\ Go(p, IF ports = {} THEN Synced(f) ELSE [f EXCEPT !.pc = "quieting", !.todo = ports])
    /\ UNCHANGED <<life, row, ports, svc, link, owed, faults, asked>>

\* A service that is not found is deployed again, all over, and once (the code
\* would go on for as long as it goes missing every time).
Quieting(p, n) ==
    LET f == proc[p] IN
    /\ f.pc = "quieting" /\ n \in f.todo
    /\ IF n \in link /\ svc[n] = NoService
       THEN /\ Go(p, IF f.healed THEN Unsynced(f)
                     ELSE [f EXCEPT !.pc = "sync", !.healed = TRUE, !.todo = {}])
            /\ UNCHANGED <<svc, faults>>
       ELSE Command(p, n, IF svc[n] = NoService THEN NoService ELSE [svc[n] EXCEPT !.on = FALSE],
                    Skip(f, n, Synced(f)), Unsynced(f))
    /\ UNCHANGED <<life, row, ports, link, owed, asked>>

-----------------------------------------------------------------------------
(* forwardCreate and forwardUpdate.                                         *)

Create(p, v) ==
    LET new == [on |-> TRUE, ver |-> v] IN
    /\ life = "new" /\ Asks
    /\ Begin(p, [Idle EXCEPT !.op = "create", !.pc = "sync", !.was = new, !.use = new])
    /\ life' = "there" /\ row' = new /\ ports' = Entry[v]
    /\ UNCHANGED <<svc, link, owed, faults>>

\* The forward that was created cannot be read: it stays as it is.
CreateFails(p) ==
    LET f == proc[p] IN
    /\ f.pc = "sync" /\ f.op = "create"
    /\ Fault("storage")
    /\ Go(p, Ended(f, "error"))
    /\ UNCHANGED <<life, row, ports, svc, link, owed, asked>>

Update(p, v) ==
    /\ life = "there" /\ Asks
    /\ Begin(p, [Idle EXCEPT !.op = "update", !.pc = "store", !.was = row, !.old = ports,
                             !.want = v])
    /\ UNCHANGED <<life, row, ports, svc, link, owed, faults>>

\* (mutant) The tunnel is stored where the content belongs.
StoreTunnel(p) ==
    LET f == proc[p] IN
    /\ f.pc = "store"
    /\ row' = IF life = "there" THEN [row EXCEPT !.ver = Tunnel[f.want]] ELSE row
    /\ Go(p, [f EXCEPT !.pc = "storePorts"])
    /\ UNCHANGED <<life, ports, svc, link, owed, faults, asked>>

\* UpdateForward, which touches no row that is gone.
Store(p) ==
    LET f == proc[p] IN
    /\ f.pc = "store"
    /\ row' = IF life = "there" THEN [row EXCEPT !.ver = f.want] ELSE row
    /\ Go(p, [f EXCEPT !.pc = "storePorts"])
    /\ UNCHANGED <<life, ports, svc, link, owed, faults, asked>>

\* Nothing has changed, nothing is undone.
StoreFails(p) ==
    LET f == proc[p] IN
    /\ f.pc = "store"
    /\ Fault("storage")
    /\ GoDisturbed(p, Ended(f, "error"))
    /\ UNCHANGED <<life, row, ports, svc, link, owed, asked>>

\* replaceForwardPorts, in a transaction of its own: the ports are inserted
\* whether or not the row is still there.
StorePorts(p) ==
    LET f == proc[p] IN
    /\ f.pc = "storePorts"
    /\ ports' = Entry[f.want]
    /\ Go(p, [f EXCEPT !.pc = "reread"])
    /\ UNCHANGED <<life, row, svc, link, owed, faults, asked>>

\* The row is read again: it may have changed, or gone, since it was stored.
Reread(p) ==
    LET f == proc[p] IN
    /\ f.pc = "reread"
    /\ Go(p, IF life = "gone" THEN [f EXCEPT !.pc = "undo"]
             ELSE IF TunnelChanged(f) /\ Kept(f) # {}
                  THEN [f EXCEPT !.use = row, !.pc = "clean", !.todo = Kept(f)]
                  ELSE [f EXCEPT !.use = row, !.pc = "sync"])
    /\ UNCHANGED <<life, row, ports, svc, link, owed, faults, asked>>

\* The ports cannot be stored, or the row not read.
UpdateFails(p) ==
    LET f == proc[p] IN
    /\ f.pc \in {"storePorts", "reread"}
    /\ Fault("storage")
    /\ Go(p, [f EXCEPT !.pc = "undo"])
    /\ UNCHANGED <<life, row, ports, svc, link, owed, asked>>

\* The listeners of the old tunnel go first from the nodes both tunnels enter
\* by; failures are warnings.
Clean(p, n) ==
    LET f    == proc[p]
        next == Skip(f, n, [f EXCEPT !.pc = "sync", !.todo = {}])
    IN
    /\ f.pc = "clean" /\ n \in f.todo
    /\ Command(p, n, NoService, next, next)
    /\ UNCHANGED <<life, row, ports, link, owed, asked>>

\* And last from the nodes that are no entry nodes any more.
Purge(p, n) ==
    LET f    == proc[p]
        next == Skip(f, n, Ended(f, "ok"))
    IN
    /\ f.pc = "purge" /\ n \in f.todo
    /\ Command(p, n, NoService, next, next)
    /\ UNCHANGED <<life, row, ports, link, owed, asked>>

\* rollbackForwardMutation: the row as it was read, the status too.
Undo(p) ==
    LET f == proc[p] IN
    /\ f.pc = "undo"
    /\ row' = IF life = "there" THEN f.was ELSE row
    /\ Go(p, [f EXCEPT !.pc = "undoPorts"])
    /\ UNCHANGED <<life, ports, svc, link, owed, faults, asked>>

\* RollbackForwardFields fails, which nobody looks at.
UndoFails(p) ==
    LET f == proc[p] IN
    /\ f.pc = "undo"
    /\ Fault("storage")
    /\ GoDisturbed(p, [f EXCEPT !.pc = "undoPorts"])
    /\ UNCHANGED <<life, row, ports, svc, link, owed, asked>>

\* (mutant) The rows are rolled back, the nodes are not.
UndoRowsOnly(p) ==
    LET f == proc[p] IN
    /\ f.pc = "undoPorts"
    /\ ports' = f.old
    /\ Go(p, Ended(f, "error"))
    /\ UNCHANGED <<life, row, svc, link, owed, faults, asked>>

\* Then the ports as they were read, and another sync.
UndoPorts(p) ==
    LET f == proc[p] IN
    /\ f.pc = "undoPorts"
    /\ ports' = f.old
    /\ Go(p, [f EXCEPT !.pc = "sync", !.phase = "undo", !.use = f.was, !.todo = {}])
    /\ UNCHANGED <<life, row, svc, link, owed, faults, asked>>

\* Without the ports there is no sync: the nodes stay as they are.
UndoPortsFails(p) ==
    LET f == proc[p] IN
    /\ f.pc = "undoPorts"
    /\ Fault("storage")
    /\ GoDisturbed(p, Ended(f, "error"))
    /\ UNCHANGED <<life, row, ports, svc, link, owed, asked>>

-----------------------------------------------------------------------------
(* forwardPause, forwardResume: controlForwardServices, then the status.     *)

Control(p, op) ==
    /\ life = "there" /\ Asks
    /\ Begin(p, [Idle EXCEPT !.op = op, !.pc = IF ports = {} THEN "write" ELSE "control",
                             !.was = row, !.use = row, !.todo = ports])
    /\ UNCHANGED <<life, row, ports, svc, link, owed, faults>>

ControlNode(p, n) ==
    LET f == proc[p] IN
    /\ f.pc = "control" /\ n \in f.todo
    /\ IF n \in link /\ svc[n] = NoService
       THEN /\ Go(p, IF f.healed THEN Ended(f, "error")
                     ELSE [f EXCEPT !.pc = "sync", !.phase = "heal", !.healed = TRUE,
                                    !.node = n, !.left = f.todo, !.todo = {}])
            /\ UNCHANGED <<svc, faults>>
       ELSE Command(p, n, IF svc[n] = NoService THEN NoService
                          ELSE [svc[n] EXCEPT !.on = (f.op = "resume")],
                    Skip(f, n, [f EXCEPT !.pc = "write", !.todo = {}]), Ended(f, "error"))
    /\ UNCHANGED <<life, row, ports, link, owed, asked>>

\* The command once more, after the heal: now nothing is tolerated.
Retry(p) ==
    LET f == proc[p]
        n == f.node
        rest == [f EXCEPT !.pc = "control", !.phase = "main", !.left = {}, !.node = NoNode]
        next == Skip(rest, n, [rest EXCEPT !.pc = "write", !.todo = {}])
    IN
    /\ f.pc = "retry"
    /\ IF n \notin link \/ svc[n] = NoService
       THEN Go(p, Ended(f, "error")) /\ UNCHANGED <<svc, faults>>
       ELSE \/ /\ svc' = [svc EXCEPT ![n].on = (f.op = "resume")]
               /\ Go(p, next) /\ UNCHANGED faults
            \/ /\ Fault("refused") /\ Go(p, Ended(f, "error")) /\ UNCHANGED svc
            \/ /\ Fault("late") /\ Go(p, Ended(f, "error"))
               /\ svc' = [svc EXCEPT ![n].on = (f.op = "resume")]
    /\ UNCHANGED <<life, row, ports, link, owed, asked>>

\* UpdateForwardStatus, whatever the row says by now.
Write(p) ==
    LET f == proc[p] IN
    /\ f.pc = "write"
    /\ row' = IF life = "there" THEN [row EXCEPT !.on = (f.op = "resume")] ELSE row
    /\ Go(p, Ended(f, "ok"))
    /\ UNCHANGED <<life, ports, svc, link, owed, faults, asked>>

\* Its error is dropped, and the answer is success.
WriteFails(p) ==
    LET f == proc[p] IN
    /\ f.pc = "write"
    /\ Fault("storage")
    /\ GoDisturbed(p, Ended(f, "ok"))
    /\ UNCHANGED <<life, row, ports, svc, link, owed, asked>>

-----------------------------------------------------------------------------
(* forwardDelete, forwardForceDelete and forwardBatchDelete.                *)

Delete(p) ==
    /\ life = "there" /\ Asks
    /\ Begin(p, [Idle EXCEPT !.op = "delete", !.pc = IF ports = {} THEN "drop" ELSE "remove",
                             !.was = row, !.old = ports, !.todo = ports])
    /\ UNCHANGED <<life, row, ports, svc, link, owed, faults>>

Remove(p, n) ==
    LET f == proc[p] IN
    /\ f.pc = "remove" /\ n \in f.todo
    /\ Command(p, n, NoService, Skip(f, n, [f EXCEPT !.pc = "drop", !.todo = {}]),
               Ended(f, "error"))
    /\ UNCHANGED <<life, row, ports, link, owed, asked>>

\* DeleteForwardCascade: the end of a delete, or of a create that failed.
Drop(p) ==
    LET f == proc[p] IN
    /\ f.pc = "drop"
    /\ life' = "gone" /\ ports' = {} /\ row' = Blank
    /\ Go(p, Ended(f, IF f.op = "create" THEN "error" ELSE "ok"))
    /\ UNCHANGED <<svc, link, owed, faults, asked>>

\* The row stays; for a create nobody looks at the error.
DropFails(p) ==
    LET f == proc[p] IN
    /\ f.pc = "drop"
    /\ Fault("storage")
    /\ Go(p, Ended(f, "error"))
    /\ UNCHANGED <<life, row, ports, svc, link, owed, asked>>

\* The row alone; what runs is not asked.
ForceDelete ==
    /\ life = "there" /\ Asks
    /\ life' = "gone" /\ ports' = {} /\ row' = Blank
    /\ proc' = Disturbed
    /\ UNCHANGED <<svc, link, owed, faults>>

-----------------------------------------------------------------------------
(* What brings the nodes back in line.                                      *)

\* redeployNodeRuntimeAfterUpgrade for a node that came back.
Redeploy(p, n) ==
    /\ n \in owed \cap link
    /\ owed' = owed \ {n}
    /\ IF life = "there" /\ n \in ports
       THEN Begin(p, [Idle EXCEPT !.op = "redeploy", !.pc = "sync", !.was = row, !.use = row])
       ELSE UNCHANGED proc
    /\ UNCHANGED <<life, row, ports, svc, link, faults, asked>>

\* retryFailedRedeploys: again with the copy that was read at first.
RedeployAgain(p) ==
    LET f == proc[p] IN
    /\ f.pc = "done" /\ f.op = "redeploy" /\ f.result = "error" /\ f.tries < MaxRetries
    /\ proc' = [Disturbed EXCEPT ![p] =
                  [f EXCEPT !.pc = "sync", !.use = f.was, !.result = "none",
                            !.healed = FALSE, !.tries = @ + 1]]
    /\ UNCHANGED <<life, row, ports, svc, link, owed, faults, asked>>

\* (mutant) Only nodes the forward has a port row for are looked at.
SweepKnownNodes(n) ==
    /\ n \in link /\ svc[n] # NoService
    /\ life = "gone" /\ n \in ports
    /\ svc' = [svc EXCEPT ![n] = NoService]
    /\ UNCHANGED <<life, row, ports, link, owed, proc, faults, asked>>

\* (mutant) What is not active is swept.
SweepInactive(n) ==
    /\ n \in link /\ svc[n] # NoService
    /\ life = "gone" \/ ~row.on
    /\ svc' = [svc EXCEPT ![n] = NoService]
    /\ UNCHANGED <<life, row, ports, link, owed, proc, faults, asked>>

\* The node reports its configuration every ten minutes and its traffic more
\* often: what belongs to no row is deleted there.
Sweep(n) ==
    /\ n \in link /\ svc[n] # NoService
    /\ life = "gone"
    /\ svc' = [svc EXCEPT ![n] = NoService]
    /\ UNCHANGED <<life, row, ports, link, owed, proc, faults, asked>>

\* The row is looked up and the lookup fails: it counts as missing.
SweepMisled(n) ==
    /\ n \in link /\ svc[n] # NoService
    /\ Fault("storage")
    /\ svc' = [svc EXCEPT ![n] = NoService]
    /\ proc' = Disturbed
    /\ UNCHANGED <<life, row, ports, link, owed, asked>>

-----------------------------------------------------------------------------
(* The nodes and the panel themselves.                                      *)

Lose(n) ==
    /\ n \in link /\ Fault("link")
    /\ link' = link \ {n}
    /\ proc' = Disturbed
    /\ UNCHANGED <<life, row, ports, svc, owed, asked>>

\* An agent that starts serves what it has stored, paused or not.
AgentRestarts(n) ==
    /\ Fault("restart")
    /\ link' = link \ {n}
    /\ svc' = IF svc[n] = NoService THEN svc ELSE [svc EXCEPT ![n].on = TRUE]
    /\ proc' = Disturbed
    /\ UNCHANGED <<life, row, ports, owed, asked>>

Reconnect(n) ==
    /\ n \notin link
    /\ link' = link \cup {n} /\ owed' = owed \cup {n}
    /\ UNCHANGED <<life, row, ports, svc, proc, faults, asked>>

\* The panel dies in the middle of everything; every agent reconnects.
PanelRestarts ==
    /\ Fault("restart")
    /\ proc' = [p \in Procs |-> Idle]
    /\ link' = {} /\ owed' = {}
    /\ UNCHANGED <<life, row, ports, svc, asked>>

Finish(p) ==
    /\ proc[p].pc = "done"
    /\ Go(p, Idle)
    /\ UNCHANGED <<life, row, ports, svc, link, owed, faults, asked>>

Request(p) ==
    \/ \E v \in Contents : Create(p, v) \/ Update(p, v)
    \/ Control(p, "pause") \/ Control(p, "resume") \/ Delete(p)
    \/ \E n \in Nodes : Redeploy(p, n)

NodeStep(p, n) ==
    \/ Apply(p, n) \/ Quieting(p, n) \/ Clean(p, n) \/ Purge(p, n)
    \/ ControlNode(p, n) \/ Remove(p, n)

ProcStep(p) ==
    \/ Store(p) \/ StorePorts(p) \/ Reread(p) \/ Sync(p) \/ Quiet(p) \/ Undo(p) \/ UndoPorts(p)
    \/ Retry(p) \/ Write(p) \/ Drop(p) \/ Finish(p)
    \/ \E n \in Nodes : NodeStep(p, n)

StorageFails(p) ==
    \/ CreateFails(p) \/ StoreFails(p) \/ UpdateFails(p) \/ ListFails(p) \/ UndoFails(p)
    \/ UndoPortsFails(p) \/ WriteFails(p) \/ DropFails(p)

Next ==
    \/ \E p \in Procs : Request(p) \/ ProcStep(p) \/ StorageFails(p) \/ RedeployAgain(p)
    \/ \E n \in Nodes : Sweep(n) \/ SweepMisled(n) \/ Lose(n) \/ AgentRestarts(n) \/ Reconnect(n)
    \/ ForceDelete \/ PanelRestarts

Spec == Init /\ [][Next]_vars

\* Handlers are scheduled, agents reconnect and report.
LiveSpec ==
    /\ Spec
    /\ \A p \in Procs : WF_vars(ProcStep(p))
    /\ \A n \in Nodes : WF_vars(Sweep(n)) /\ WF_vars(Reconnect(n))

-----------------------------------------------------------------------------
(* Properties.                                                             *)

\* What an undisturbed handler has achieved when it answers.
Achieved(f) ==
    CASE f.op \in {"create", "redeploy"} /\ f.result = "ok" ->
            \A n \in ports : svc[n] = row
      [] f.op = "update" /\ f.result = "ok" ->
            /\ \A n \in ports : svc[n] = row
            /\ Tunnel[row.ver] # Tunnel[f.was.ver] \/ f.old \subseteq Entry[f.was.ver]
                  => \A n \in f.old \ ports : svc[n] = NoService
      [] f.op = "update" /\ f.result = "error" ->
            row = f.was /\ ports = f.old /\ \A n \in ports : svc[n] = row
      [] f.op \in {"pause", "resume"} /\ f.result = "ok" /\ ~f.healed ->
            /\ row.on = (f.op = "resume")
            /\ \A n \in ports : svc[n] # NoService /\ svc[n].on = row.on
      [] f.op = "delete" /\ f.result = "ok" ->
            life = "gone" /\ \A n \in f.old : svc[n] = NoService
      [] OTHER -> TRUE

\* Whatever earlier races, failures and restarts have left, a handler that runs
\* with no other and with every node connected leaves the nodes as the rows
\* say: a deployed forward serves its content on every port row, a paused one
\* is silent, a tunnel switch or a deletion leaves no listener behind, and an
\* update that is refused half way is undone on every node.  Row and ports are
\* two transactions: when a crash, a failed rollback or two updates at once have
\* left ports that are not of the row's tunnel, an update that keeps the tunnel
\* drops their rows and leaves their listeners (mutations.go 2481-2489).
UndisturbedAchieves == \A p \in Procs :
    proc[p].pc = "done" /\ proc[p].alone => Achieved(proc[p])

\* A service of a forward that exists disappears only by a handler that deletes
\* it or by something that went wrong: the two sweeps spare what is paused,
\* what is being created and what is being moved (cleanOrphanedServices,
\* sendDeleteOrphanedForwardService).
LostWithCause ==
    [][\A n \in Nodes :
          svc[n] # NoService /\ svc'[n] = NoService =>
             \/ life = "gone"
             \/ faults' > faults
             \/ \E p \in Procs : proc[p].pc \in {"clean", "purge", "remove"} /\ n \in proc[p].todo]_vars

\* Once a forward is deleted no node serves it for good, whatever handlers were
\* in the middle of deploying it and whatever the panel lost in a restart.
GhostsAreSwept == life = "gone" ~> [](\A n \in Nodes : svc[n] = NoService)
=============================================================================

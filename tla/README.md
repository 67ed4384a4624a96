# FLVX: a TLA+ verification project

FLVX is a panel (`go-backend`, Go, SQLite or PostgreSQL) that manages traffic
forwards on remote agents (`go-gost`, a derivative of gost) over one websocket
per agent. This directory holds TLA+ models of the parts of it where the order
of events matters, TLC configurations that check them on small instances, and
theorems about them that TLAPS proves for every instance.

Paths below are relative to `src/`; `handler/` and `repo/` stand for
`go-backend/internal/http/handler/` and `go-backend/internal/store/repo/`.

## 1. Inventory

| Component | State | Operations | What is hard | What makes it correct |
|---|---|---|---|---|
| **Node hub** `go-backend/internal/ws/server.go` | `nodes`, `pending`, one channel per request, `node.status` | handleNode, SendCommand, keepalive, failPendingForNode | timer, response, disconnect and reconnect race for one request; database and channel operations outside `mu` | no misuse of a channel, every caller gets one true outcome, no orphaned session |
| **User quota** `handler/user_quota.go`, `repo/repository_user_quota.go` | `user_quota` row, `forward.status` | upload, enforce, reset, daily roll, pause, resume | enforcement acts on an old row over many transactions; stale clocks; the roll's unlocked read | nobody overcharged, disabled with cause, enforced, released, paused forwards restored |
| **Node redeploy** `handler/upgrade.go` | four maps under `upgradeMu`, timers | onNodeOnline, redeploy pass with retries, upgrade mark | flapping agents, requests during a pass, partial failures | one pass at a time, no reconnect lost, nothing silently undeployed, no storm |
| **Control plane** `handler/control_plane.go` | services on the agents | syncForwardServices, controlForwardServices, deferral of offline nodes, self-heal | sync restarts a paused service and pauses it again from a status read before | undisturbed, the nodes run what the rows say |
| **Forward and tunnel mutations** `handler/mutations.go` | forward, tunnel and port tables | create, update, delete, pause, resume, redeploy | compensation after a half-done change; nothing locks a forward | a failed change is undone, nothing lives on unowned |
| **nftables forwarding and accounting** `handler/nftables_runtime.go`, `nftables_traffic.go`, `runtime/nftables` | bindings, counter states, the table on the node | render, clear, collect, charge | counters restart when a table is rendered; a render is several commands and many transactions | each byte charged at most once, in the end, and node, bindings and rows agree |
| **Flow counters and limits** `handler/flow_upload_batch.go`, `flow_policy.go`, `repo/repository_flow.go` | flow columns | add, limit checks, sweeps | batches with a fallback to single rows | counters equal what was reported |
| **Background jobs** `handler/jobs.go` | - | timers around other operations | overlap with requests | each once per period |
| **Best exit, tunnel quality** `handler/tunnel_best_exit.go` | scores, last switch | probe, switch | stale samples, flapping | no switch inside the cooldown |
| **Federation** `handler/federation.go`, `mutations.go` (`applyFederationRuntime`), `flow_policy.go` | `peer_share_runtime` and node at the provider, bindings at the consumer | reserve, apply, release; create, update, delete, redeploy a tunnel; withdraw a share | two panels with a database each and HTTP with a timeout between them; errors of releases ignored; withdrawal at any time | what is bound is served, what failed is taken back, requests end, an exhausted share is withdrawn |
| **Agent reporter** `go-gost/x/socket/websocket_reporter.go` | connection | connect, execute, answer | an old reader marks the new connection down | one current connection |
| **Agent service lifecycle** `go-gost/x/socket/service.go` | registry, configuration, file | add, update, delete, pause, resume, restart | several services in one command, rollbacks that fail, reports that save beside the commands | registry, configuration and file stay in step |
| **Agent traffic reporter** `go-gost/x/service/service.go`, `global_traffic_manager.go`, `traffic_reporter.go` | counters, cache | observe, collect, post, fall back | a counter read while it counts; a lost answer is retried | nothing billed twice or lost without cause |
| **Agent limiters** `go-gost/x/limiter/conn` | counts | allow, release, reload | groups, reload while held | count equals open connections |
| Health checks, metrics, self-upgrade, authentication, schema, proxy core, agent configuration, frontend | - | - | I/O or stateless | not modelled, see section 8 |

How they interact: HTTP handlers of the panel change the database and call
`SendCommand` of the **hub**; the hub calls the online hook of the **redeploy**
when an agent connects; the redeploy calls the **control plane** for each
tunnel and forward, which calls the hub again, whose commands the agent's
**service lifecycle** executes. Agents report traffic over HTTP to
`/flow/upload`, which feeds the flow counters and the **quota**; the quota
pauses forwards with commands over the hub. A tunnel may pass over nodes
another panel shares: the two panels' **federation** handlers talk over HTTP,
and the one that owns the node commands it over its own hub. Nodes in **nftables** mode have no
agent: the panel writes their table and reads its counters over SSH. The
panel's parts share the database, not memory: only the hub (`s.mu`) and the
redeploy (`upgradeMu`) have in-memory state.

`PROJECT.json` lists all components with their state in this project, and all
hazards with the line where each bites.

## 2. Modules

| Module | Content |
|---|---|
| `CommandService` | abstract: what SendCommand promises its callers |
| `NodeHub` | the hub; extends nothing of the project, instantiates `CommandService` with a refinement mapping |
| `NodeHub_proofs` | its theorems |
| `QuotaPolicy`, `QuotaPolicy_proofs` | the quota of one user, and theorems |
| `NodeRedeploy`, `NodeRedeploy_proofs` | the redeploy gate and passes of one node, and theorems |
| `AgentServices`, `AgentServices_proofs` | the service commands of one agent, its registry, configuration and file |
| `ForwardRuntime`, `ForwardRuntime_proofs` | one forward: its rows, its services on every node, and all handlers that touch them |
| `TrafficReport`, `TrafficReport_proofs` | bytes from a connection on the agent to the panel's ledgers |
| `NftablesNode`, `NftablesNode_proofs` | one node in nftables mode: rendering, bindings, counters, charge |
| `FederationRuntime`, `FederationRuntime_proofs` | tunnels over nodes that another panel shares, with both panels |
| `MC*` | constant values for TLC, one module for each of the eight components |

The modules meet at narrow interfaces, so they are checked apart.

- `QuotaPolicy`, `NodeRedeploy` and `ForwardRuntime` use of the hub that a
  command succeeds, fails, or times out having been executed or not. That is
  what `CommandService` allows and what `ImplementsCommandService` shows of the
  hub.
- `NodeRedeploy` starts with the hook that `NodeHub`'s registration leads to; it
  decides when a node that came back is redeployed. What the redeploy of one
  forward does to the nodes is `Redeploy` of `ForwardRuntime`.
- `ForwardRuntime` uses of the agent that an update ends with the service
  serving what was sent, or fails with it as it was or gone, and that a
  restarted agent serves everything it has stored: `UpdatedServes`,
  `FailedUpdateUndone` and `Boot` of `AgentServices`.
- `FederationRuntime` uses of the hub and the agent what `ForwardRuntime` uses:
  a command works, or fails having been executed or not.
- `TrafficReport` ends where `AddUsage` of `QuotaPolicy` begins, and
  `NftablesNode` with the same charge in its `Account`.

Definitions whose comment starts with "(mutant)" are plausible mistakes in the
code. No specification uses them; each is put in
place of the definition after it to see that the property it is listed with in
`PROJECT.json` then fails.

### NodeHub

A connection is used once, and a call is one execution of `SendCommand`; its
identity is its `requestID`. `hpc` says where the `handleNode` goroutine of a
connection is, `cpc` where a call is; the code between two acquisitions of
`s.mu` and each write outside it is one action.

| Code | Action |
|---|---|
| upgrade of the websocket | `Connect` |
| 290-303 close the old connection, install the new session | `Register` |
| `UpdateNodeOnline` | `MarkOnline` |
| `tryResolvePending`: claim under the lock, then answer | `Claim`, `Resolve` |
| `ReadMessage` fails, deferred cleanup | `ReadError`, `Leave` |
| `failPendingForNode` | `TakePending`, `FailOne` |
| `UpdateNodeStatus(0)`, close | `MarkOffline` |
| `SendCommand` | `Find`, `Enter`, `Write`, `WriteFails`, `GetResult`, `TimeOut`, `CleanUp` |
| agent and network | `AgentExecutes`, `AgentReplies`, `AgentMisaddresses`, `PeerLost` |

`panicked` becomes true where Go would panic on a closed channel. Left out:
encryption, `byConn` (written, never read), metrics, the admin and monitor
sessions. The model takes `requestID`s of concurrent calls to be distinct; the
code builds them from the clock, in nanoseconds, and two calls to one node in
one tick of it would overwrite each other in `s.pending`.

### QuotaPolicy

A process is one HTTP handler or the daily job; its steps are database
transactions and node commands, and its local variables are a frame. `quota` is
the row, `status` the forwards' column. `carried` and `owed` are history: what
uploads stamped with a day or month carried, and which forwards the quota
paused and no handler has dealt with since.

| Code | Action |
|---|---|
| `/flow/upload`: stamp, add, decide on the row as written | `BeginUpload`, `AddUsage` |
| `enforceUserQuotaIfNeeded`: list, pause each, mark | `ListActive`, `SendPause`, `RecordPause`, `EndPause` |
| pause handlers | `BeginPause` and the same steps without the mark |
| quota reset | `BeginReset`, `Reset`, then the resume steps |
| daily roll, read and write apart | `BeginRoll`, `RollRead`, `RollWrite`, then the resume steps |
| resume handlers | `BeginResume`, `CheckResume`, `SendResume`, `RecordResume`, `EndResume` |
| limits saved, midnight, restart | `SaveConfig`, `TimePasses`, `Crash` |

`SingleConnection` separates the databases: SQLite is opened with one
connection, so no statement falls between the read and write of the roll; with
PostgreSQL one may. Left out: more than one user, what the node runs, and the
other reasons that forbid a resume, which are a free choice.

### NodeRedeploy

| Code | Action |
|---|---|
| online hook and `startNodeOnlineRedeploy` | `Connect`, `Start`, `Queue` |
| queued timer | `Fire` |
| `redeployNodeRuntimeAfterUpgrade` | `List`, `Apply`, `Defer`, `FailRetryable`, `FailPermanent`, `EndRound` |
| `retryFailedRedeploys` | the same with `attempt > 0` |
| mark of a failed pass or an upgrade | `Mark`, `MarkUpgrade` |
| `finishNodeOnlineRedeploy` | `Finish` |
| time, lost connection, restart | `Tick`, `Drop`, `Restart` |

An item is a tunnel with its forwards, or a forward that belongs to none of the
redeployed tunnels; line 723 keeps the two apart, so the test at 779 never
holds and is not modelled. An offline or late node counts as success (`Defer`),
as in the control plane. The set of items is fixed during a behaviour.

### AgentServices

`commandMutex` runs one command at a time, so a command is one action and the
failures of its parts are inside it; `faults` bounds them. Outside the mutex are
the configuration reports, crashes and the garbage collection of dropped listeners.
A report saves too (`getConfigData`), and `persist()` locks nothing from its
encoding to its rename: `Encode` reads memory, `Rename` replaces the file in a later
step by what was read. In between a command may change entries of it, since it
changes them in place (`Overwritten`); a report may also begin on what memory holds
between a failed save and the rollback's (`Becomes`). Everything in `writing` may be
older than the file. A race of the Go runtime that ends the process is `Crash`.

| Code (`socket/service.go`) | Action |
|---|---|
| createServices | `Add`, `AddFails`, and `Collect` for the listeners it drops |
| updateServices, rollbackServiceUpdateRuntimes, restoreServiceUpdateConfigs | `Update`, `UpdateFails`, `UpdateUnsaved` |
| deleteServices | `Delete` |
| pauseServices, rollbackPausedServices | `Pause` |
| resumeServices, rollbackResumedServices | `Resume`, `ResumeFails`, `ResumeUnsaved` |
| OnUpdate, persist | `Becomes`, `Save`, `SaveFails`, `SaveAgain`, `SaveOther` |
| getConfigData, its OnUpdate beside the commands | `Encode`, `Rename`, `WriteFails` |
| a process that dies, `program.Start` | `Crash`, `Boot` |

A configuration is a version and the paused mark. `Complete` names the services
whose configuration lacks no map: `ParseService` fills in the maps that are
missing, so that the others never compare equal to what the panel sends. A
second pause's rollback never works (the name is still registered), which is
why `Pause` with a failed save keeps service and mark as they are. `Registered`
services with an open but unserved listener (`"bound"`) come from a rollback
that parses a paused service. Left out: the agent's local web API, which the panel
does not use, and the duplicate entry that a report can read when the rollback of
an update takes out two services it had just appended.

### ForwardRuntime

A process is a goroutine of the panel; its frame holds what the code read at
first (`was`), the copy it syncs (`use`), the nodes left in its loops, and
what the sync is for (`phase`). A step is one command to a node or one
transaction.

| Code | Action |
|---|---|
| syncForwardServices: ports, one node, what is paused again | `Sync`, `Apply`, `Quiet`, `Quieting` |
| forwardCreate, deletion after a failure | `Create`, `Drop` |
| forwardUpdate: the row and the ports stored, read again, kept nodes, removed nodes | `Update`, `Store`, `StorePorts`, `Reread`, `Clean`, `Purge` |
| rollbackForwardMutation: the row, the ports and the nodes | `Undo`, `UndoPorts` |
| forwardPause, forwardResume with the self-heal | `Control`, `ControlNode`, `Retry`, `Write` |
| forwardDelete, forced delete | `Delete`, `Remove`, `Drop`, `ForceDelete` |
| redeploy and its retries | `Redeploy`, `RedeployAgain` |
| the database fails in any of these | `StorageFails`: `CreateFails`, `StoreFails`, `UpdateFails`, `ListFails`, `UndoFails`, `UndoPortsFails`, `WriteFails`, `DropFails` |
| reports of the nodes: configuration, traffic | `Sweep`, `SweepMisled` |
| links, agents, the panel | `Lose`, `AgentRestarts`, `Reconnect`, `PanelRestarts` |

`alone` is history: no other handler ran beside this one, every node was
connected when it began, no command of it was late, nothing failed on its way
back, and no write failed whose error the code drops. Handlers that are not alone do whatever the code does; the property
about those that are says what may be left behind is mended.
Left out: limiters and chains, the names a service may have, the fallbacks of
an occupied port or missing address in detail, and peer shares, whose presence
on a node suspends the sweep.

### TrafficReport

A chunk is some bytes a connection moved; a counter is the set of chunks it
has counted, so that "subtract what was read" is set difference and a lost
update is visible. The ledgers count how often they added each chunk.

| Code | Action |
|---|---|
| `Stats.Add`: count, then flag | `Move`, `Raise` |
| observeStats: swap the flag and read, AddTraffic's check and addition, read again, overwrite | `Tick`, `Check`, `AddTraffic`, `GetRest`, `ResetTraffic`, `Exit` |
| collectAndReport | `Collect` |
| postJSONWithFallback | `Post`, `PostFails`, `AnswerLost` |
| flowUpload: look up, flow counters, quota, "ok" | `Look`, `AddFlow`, `AddQuota`, `Answer` |
| services registered, closed, deleted; the last connection | `Register`, `Unregister`, `Delete`, `End` |
| forward deleted; crashes | `Forget`, `AgentCrash`, `PanelCrash` |

### NftablesNode

| Code | Action |
|---|---|
| create, update, delete and forced delete of a forward | `Create`, `Update`, `Store`, `Delete`, `Unlist`, `Drop`, `Undo` |
| reconcile and clear requests, rendering at the start of the panel | `Reconcile`, `Clear`, `Starting` in `Init` and `PanelRestarts` |
| pause, resume, quota and policies | `SetStatus` |
| syncNftablesNode: plan, apply, errors, bindings, stale bindings | `Plan`, `Apply`, `GiveUp`, `MarkError`, `Bind`, `ListStale`, `Unbind` |
| the script: delete the table, load the new one | `DeleteTable`, `Load`, `LoadFails`, `Abandon` |
| collectNftablesNodeTraffic: counters, states, bindings, metas, accounting | `Sample`, `ReadStates`, `ReadBindings`, `LoadMetas`, `Account` |
| traffic, restarts | `Carry`, `NodeRestarts`, `PanelRestarts` |

`table` is a sequence of loads: the script adds its rules to whatever table is
there, so two overlapping scripts leave every rule twice. `carried` and
`billed` are history. The four counters of a rule (two protocols, two
directions) are one, and a rule's hash is its version.

### FederationRuntime

The consumer owns tunnels, the provider shares its nodes. A hop is the place of
a shared node in one tunnel, and so one resource key, one row at the provider,
one service `fed_svc_<id>` and, for a middle, one chain. `proc` are the
consumer's handlers, `serve` the provider's handlers of their requests, `sweep`
the provider's goroutine that withdraws a share. A handler's request that timed
out moves to a slot of its own in `Strays` and goes on.

| Code | Action |
|---|---|
| federationRuntimeReservePort: reads and choice, then the row, which may fail | `ReserveReads`, `ReserveInserts`, `CallFails` |
| federationRuntimeApplyRole: reads, commands, undo, then the row as read | `ApplyReads`, `Rechain`, `AddChain`, `AddService`, `UndoChain`, `ApplyWrites`, `ApplyWriteFails` |
| federationRuntimeReleaseRole | `ReleaseReads`, `DropService`, `DropChain`, `ReleaseMarks`, `ReleaseMarkFails` |
| traffic of a share, its limit, flow reset | `Upload`, `ResetFlow` |
| cleanupPeerShareRuntimes, enforcePeerShareFlowLimit, DeletePeerShare | `DeleteShare`, `SweepDrops`, `SweepMarks`, `SweepMarkFails`, `SweepEnds`, `SweepEndFails` |
| tunnelCreate; tunnelUpdate and redeploy; tunnelDelete | `Create`; `Update`; `Delete` |
| cleanupFederationRuntime: the list, the requests, the bindings, each of which may fail | `Cleans`, `CleansNot`, `Release`, `Released`, `Unbind`, `UnbindFails` |
| applyFederationRuntime: reserve, once more without a wish, apply, errors | `Reserve`, `ReserveAny`, `Apply`, `Applied`, `SetupFails` |
| the callers' transaction, its errors, the consumer's own nodes | `Commit`, `CommitFails`, `UpdateRefused`, `Local` |
| releaseFederationRuntimeRefs: domain, requests, what follows and may fail | `Domain`, `Release`, `Released`, `Forget`, `Cascade`, `LastFails` |
| network | `Lost`, `Timeout` |

`blamed` is history: the hops of which a command, a request or a write went wrong
in a way that nothing in the code is sure to repair. It grows by

- a command of the hop that failed or was late, and a request that timed out;
- two handlers on one tunnel (deletes and creates take no lock), and a withdrawal
  that crosses an apply (`Crossed`);
- an error of tunnelUpdate that returns without releasing;
- the provider's row that cannot be written after the node has obeyed: of an apply
  (federation.go:1162, 1230: the service is there, the request fails, and the hop
  is not among those the consumer releases), of a release (1290) and of a
  withdrawal (1911, flow_policy.go:301: the service is gone, and the row stays
  active and applied, so that the next apply answers ok at 1143 and the consumer
  binds to what nothing serves), and the rows of a deleted share
  (repository.go:1525);
- the consumer's bindings that cannot be listed, which skips every release
  (mutations.go:4110), or deleted (4136, 1277), and its tunnel (932, 1713).

All these are actions of the model, one fault each, and the hops they touch are
excepted because the code leaves them as they are. `missed` are the hops whose
release did not reach the provider, or was not read there, since they were last
applied, `cut` the shares that have withdrawn hops. What the properties say is
about all other hops: when one hop of a tunnel cannot be set up or its row not
written, when the database refuses the commit, the consumer's own nodes are not
reached or a share is exhausted, the tunnel's other hops must be released, unbound
and joined as they say. A failure
before the node is commanded (a reservation's row, any first read) blames nobody.
`ResetFlow` and the two withdrawals come at any time. Left out: port forwards
over a share, the protocol of an exit, best exit, a restart of either panel
(of the consumer: a transaction is then rolled back and roles stay), the
`reload` that a deleted share's node is sent, and ports that the provider's own
tunnels use: `PortsOf` are those that remain.

## 3. Runs

| Run | Question | Bounds | Result |
|---|---|---|---|
| `hub` | Is a channel ever misused, a caller forgotten, a session orphaned, a wrong answer believed? Does the hub implement `CommandService`? Does every call return and every dead session go? | a node with two connections, a second node whose agent may misaddress, one call | holds, 349 thousand states |
| `hub_status` | Does the shown node status follow the sessions? | one node, two connections, one call | **violated** |
| `quota` | Is anybody overcharged, disabled without cause, left with a list while enabled? | two handlers and the job, one forward, a limit of one unit, two days, anything may fail, PostgreSQL | holds, 2.2 million states |
| `quota_live` | Is an over-limit user disabled, and a disabled one below the limit released? | one handler and the job, limits that change, a midnight and month boundary, one restart | holds, 358 thousand states |
| `quota_race` | Does a reset restore what the quota paused? | two handlers and the job, SQLite, nothing fails | **violated** |
| `redeploy` | One pass, no lost reconnect, nothing silently left, no storm? Is every reconnect answered, and does a stable agent end up complete? | two items, two goroutines, cooldown of two ticks, three retries, four faults of four kinds | holds, 426 thousand states |
| `services` | Do registry, configuration and file stay in step through commands that half fail? | a pair of services sent as a pair or the second alone, two versions, three failures, crashes, one configuration report under way | holds, 449 thousand states |
| `forward` | Does an undisturbed handler achieve what it answers? Is a live service ever deleted? Do ghosts stay? | two nodes, a narrow and a wide tunnel, two handlers, three requests, one fault of five kinds | holds, 1.1 million states |
| `traffic` | Is a byte billed twice, lost without cause, stranded, or left waiting? | two chunks, a service and its replacement, two addresses, two faults of five kinds | holds, 595 thousand states |
| `nft` | The same for a node whose counters restart; do rows, bindings and node agree again? | two forwards, two versions, a handler with two requests beside start and job, one fault of five kinds | holds, 832 thousand states |
| `nft_pause` | Is a paused forward taken off such a node? | one forward, nothing fails | **violated** |
| `fed` | Is a binding served, a failed setup taken back, does a middle dial the port its exit listens on? Does every request end, and is an exhausted share withdrawn? | an exit and a middle on two shares of which one may be withdrawn, one handler and one stray, two requests, two ports, one fault of seven kinds, PostgreSQL | holds, 527 thousand states |

Why the bounds are enough to be interesting:

- *hub*: a node needs two connections for one to replace the other, and the
  second node is there only for an answer to a foreign request. With one call
  every pair (timer, response, disconnect, error) meets. Several concurrent
  calls, of which `failPendingForNode` holds several at once, are covered by
  the theorems below, which remove the bound for every safety property.
- *quota*: two handlers are enough for every race of two requests (upload
  against upload, upload against reset, resume against enforcement), and the job
  is a third process. Usage is capped at the largest limit: the code compares
  with `>=`, so larger values decide nothing. Two days suffice for a stamp that
  is older, equal to, or newer than the row's.
- *redeploy*: `MaxArrivals` of 2 lets a request wait while another is handled;
  the queue is a set with one place, so more add nothing new. `MaxRetries` is
  the code's 3, and four faults are enough to exhaust the retries of one
  pass. A cooldown of two ticks separates "just begun", "in between" and "over".
- *services*: two names make "one of several fails" possible, sent in two
  different lists; a failure, a failed rollback and a failed save need three faults.
  One report is enough to overtake a save.
- *forward*: with two nodes and a tunnel that enters by one or both of them
  nodes are kept, added and removed, and a command can fail on the second node
  after the first. Two handlers are enough for a race of two, and the third
  request finds what they left. One fault suffices since an undisturbed
  handler admits none but the refusal it reacts to; proofs cover more.
- *traffic*: two chunks let one be counted between any two reads of the other.
  The second service has the name of the first. With two addresses a report is
  retried once, two faults lose an answer and something else.
- *nft*: one byte and a counter that restarts at zero make a count that is
  new, paid for, or gone back. The start of the panel is the second renderer,
  with the job it starts; the second forward is the one whose charge must not
  depend on the first.
- *fed*: a path of two is the shortest that has a middle and an exit, so that one
  hop can fail after the other, and a middle can be left dialling an old port. Two
  requests are a create and what comes after it; two ports let an exit move. A
  hop has up to two requests under way, its handler's and a stray. `MaxCut` lets
  one share go over its traffic or be deleted, either one and as often as it
  likes; both at once only multiplies the states. One handler at a time: a second
  on the same tunnel is a mishap, and one on another tunnel meets the first at a
  share's ports only. That case is in `fed_pair.cfg` (two tunnels over one share,
  two handlers, a stray), which is not among the runs above for its size (3.4
  million states, no liveness) and holds too. The theorems lift all of these bounds.

Deadlock is checked for `quota`, `quota_live`, `quota_race`, `redeploy` and
`services`. In the hub, `forward`, `traffic`, `nft` and the
federation connections, calls, requests and bytes are used up: then nothing is left to do.

## 4. Fairness

- `NodeHub`: weak fairness of each handler and of each call. Goroutines are
  scheduled; a call that waits always has its timer (`time.After`). Nothing of
  agents and network is assumed: a dead socket is one the read deadline has
  detected.
- `QuotaPolicy`: weak fairness of the steps of a handler that has started, and
  of the daily roll. Requests need not come; `EventuallyEnforced` therefore
  assumes that uploads keep coming, since nothing else enforces.
- `NodeRedeploy`: weak fairness of the hook, the timer, time and the steps of a
  pass. The agent may flap forever and upgrades and restarts come at will;
  `Reconciled` speaks only of behaviours where the link settles and the passes
  meet nothing but what their retries absorb (`Overcome` names the rest).
- `ForwardRuntime`: weak fairness of each handler's steps (every command
  returns, see `EveryCallReturns`), of agents that reconnect, and of each
  node's sweep, since nodes report on a timer. Requests and redeploys need not
  come.
- `TrafficReport`: weak fairness of each observer and of the collection
  (tickers), of a count's flag, of posting, and of a handler that serves. A
  post waits for some idle handler; whether it fails is not fair.
- `NftablesNode`: weak fairness of handlers, of scripts that run on the node,
  and of the job. Nothing is assumed of requests, so no rendering is assumed.
- `FederationRuntime`: weak fairness of each handler, of each request at the
  provider, of withdrawals, and of reports of a share that is over its traffic:
  nodes report on a timer. Requests, deletions and resets of a share need not
  come, and no fault is fair.

## 5. What the refuting runs show

- **`hub_status`** (`StatusMatchesSession`). `doc/usage.md:12` says the node
  list shows whether a node is online. The write of `status = 1` by the new
  connection (server.go:305) and of `status = 0` by the old one (328) are both
  outside `s.mu`: when the old handler has removed its session but not written
  yet, the new one registers and writes 1, then the old one writes 0. The node
  is connected and stays shown as offline until it reconnects. It is more than a display:
  `mutations.go:4186` and `4214` skip chain and exit nodes whose status is not 1.
- **`quota_race`** (`PausedAreRestored`). The user page
  (`user.tsx:1621`) says forwards the quota paused can be resumed by a reset.
  Two uploads both read the user over the limit and not disabled. The first
  pauses the forward and marks the user with the list {f}; the second, which
  acts on the row it read before, finds no active forward and marks with an
  empty list over the first one's. A reset clears the mark, finds nothing to
  resume, and the forward stays paused.
- **`nft_pause`** (`PausedGoesSilent`). The design
  (`docs/superpowers/specs/2026-06-06-nftables-traffic-stats-design.md:14`) says
  that quotas and traffic policies stay in effect for nftables nodes. A forward
  is created and rendered, then paused: `controlForwardServices` sends a
  command to a node that has no agent, takes it for offline and skips it
  (control_plane.go:663), and the status is written (mutations.go:2672; the same
  in user_quota.go:59-65). Nothing renders the node again: `syncNftablesNode` is
  reached from create, update, delete, redeploy, the reconcile request and the
  start of the panel only. Nothing failed, and the node forwards for good.

What `fed` assumes away, SQLite, fails: with `SingleConnection`, `RequestsEnd` does
not hold. `fed_sqlite.cfg` (one create, one lost request; not among the runs of
section 3) has the counterexample. tunnelCreate is inside its transaction, the exit
is set up, the middle's request is lost, `releaseFederationRuntimeRefs` asks the
pool for the configuration (mutations.go:4091, 3893), and the pool's only
connection (repository.go:198) is the transaction's. Neither ends, and no other
query of the panel gets a connection. `go-backend/MIGRATION_PLAN.md:461-464` says
that `applyFederationRuntime` takes the panel's domain as an argument so that
nothing queries the configuration inside the transaction; its error path does.
`NobodyStuck` says that this is the only such place: a handler that cannot go on
waits for a transaction whose handler can, or for this one. It is proved, and
`fed_sqlite.cfg` and `fed_pair.cfg` list it, with one connection and with many.

Two reservations of one share can get the same port: both read the ports in use
before either writes its row (federation.go:1030, 1049, 1079), and nothing in the
schema forbids two active rows with one port. The second role then fails to
listen, and `BoundServes` says that it is not bound.

The passing runs name further exceptions that a reader should know of:

- `DeletedStaysDeleted` leaves out `outrun`: a configuration report that encoded
  before a deletion and renames after it puts the service back in the file, and a
  restart before the next save serves it again, although the panel was told that
  it is gone.
- `UndisturbedAchieves` leaves out a pause or resume that had to heal a missing
  service: the heal deploys from the copy read before the pause and so wakes
  nodes the loop has paused already. It also leaves out the listeners of ports
  that are not of the row's tunnel, when an update keeps that tunnel. The row and
  its ports are a transaction each (mutations.go:2518 and 2523-2527, and 5243 and
  5250 on the way back), so a crash between the two, a write that fails, or two
  updates at once can leave such ports. An update that switches the tunnel and a
  deletion remove what they find on them; one that keeps it looks for no nodes to
  remove (2481-2489), drops the port rows and answers ok, and a listener stays
  that no row names, until the forward moves to a tunnel that enters there, or is deleted
  and the node reports it.
- `BilledOnce` of `TrafficReport` allows a chunk whose answer was lost or late,
  and which is posted again although the panel has it, as many charges as there
  are addresses to post it to.
- `LossHasCause` names what is lost with nothing failing: counted between the
  observer's second read and its overwrite, handed on after the service was
  unregistered, counted after the last look of the observer, or of a forward
  that is deleted.
- `BilledOnce` of `NftablesNode` leaves out a table that was loaded twice by
  overlapping scripts, from which every byte is charged at each round.
- `Settled` of `NftablesNode` leaves out nodes that still run the rule of a
  deleted forward: each collection of the whole node stops at it. The panel's
  tests expect the round to be skipped, the design document (as above) says such
  samples are ignored.
- `BoundServes`, `NothingLeftBehind` and `PathJoined` leave out the hops in
  `blamed` and, until they are applied again, in `missed`. The list in section 2
  is what the federation does not repair; a panel whose storage fails in the
  middle of a release or a withdrawal may afterwards bind a tunnel to a hop that
  nothing serves, or leave a service that nobody counts. A
  reservation whose apply failed stays active at the provider without a service:
  it is not among what a rollback releases, and nothing here forbids it.

## 6. Proofs

Every theorem holds for all values of the constants that satisfy the named
`ASSUME`s of its module: finite or infinite sets of nodes, calls and forwards,
any owner and target functions, any limits, sizes and bounds. The bounds in the guards
(`MaxArrivals`, `MaxFaults`, `MaxRequests`, `MaxCut`, `MaxUsed`, `LastTime`,
`MaxCrashes`) stay, with
arbitrary values.

**Hub.** `Ownership` is the inductive invariant: until a channel is closed
exactly one party owns it, `s.pending` or one handler's `held`. `ChannelSafe`
alone is not inductive, because a step may only close a channel that the
closer owns; `NoForgottenCaller` is the other half, some party always owns.
It is proved action by action from `TypeOK`. `PendingOwned`, `ChannelSafe` and
`NoForgottenCaller` are parts of it. `Provenance` says what the values in
buffers, verdicts and replies mean, and with `Ownership` gives the step of the
refinement: each hub step is an `Ask`, `Execute`, `Answer` or `Fail` of
`CommandService`, or a stutter. That theorem states (and with it the run,
which therefore does not list `Provenance`) that a caller told "ok" was told so by the node it addressed, which executed the command.

**Quota.** `NeverOvercharged` is not inductive, since the daily job carries a
copy of the row across other transactions. The strengthening (`ChargedInv`) says the same of
that copy: every copy of a row has usage no greater than what was carried in
its windows, and carried amounts only grow. `RecordedOnlyWhileDisabled`
is strengthened to copies in the same way (`RecordedInv`). `DisabledJustified`
(`JustifiedInv`) adds that a process on its way to the mark has a cause: some limit has been reached, and
it stays reached. The run checks the last two as `MarkIsJustified`.

**Redeploy.** `OnePass` is inductive by itself given the types. `PassCovers` rests on
`OnePass`: a second pass would take `excused` and `owed` from the first.
`NoRedeployStorm` follows from the gate and `MarkExcused`: the mark that lets
a request through early stands for an upgrade or a failed pass.

**Agent services.** The invariants are inductive together: a rollback rebuilds
what the configuration says, which is what ran only because
`RunsWhatIsConfigured` and `SilentIsMarked` held before. With `DownIsEmpty` (a
stopped agent is its file) `DeletedStaysDeleted` carries over restarts, and with
`HeldIsOutrun` (a report that has a deleted service held it as it left memory) over
the reports. The
action properties then follow command by command; `UpdatedServes` needs the
invariants for the services an update skips as unchanged. The run checks
`RegisteredIsConfigured` with `RunsWhatIsConfigured` as `RegistryIsConfigured`, and
`FailedUpdateUndone` with `UpdatedServes` as `UpdateAnswerIsTrue`.

**Forward runtime.** `UndisturbedAchieves` speaks of a handler's end, so the
invariant must say what each place in the code implies for a handler that is
alone: which nodes of its loop already agree with its copy (`Fits`, `At`,
`Over`, `Given`), and that its copy is still the row. A step of any other
handler cannot be taken beside one that is alone, and every fault takes
`alone` away or is one the handler reacts to. Nothing is assumed of the state a
handler starts from, not even that row and ports agree, which two transactions
cannot promise: what is known of both, `Given` takes from the update's own writes.

**Traffic.** A chunk still in its counter is nowhere else; one in the cache is in no
report; one about to be posted is with no handler unless an answer was lost; a
handler that has not come to a ledger has not charged it there. Each part is
the premise of the next, and together they say that what was answered in time is
charged once. For the rest of `BilledOnce` the tries are counted (`TriesInv`): the
times a ledger has the chunk, the handlers that may still add it and the tries the
report has left never exceed the number of addresses; the handlers are a finite
set, whose cardinality `FiniteSetTheorems` follows through each step (`LessIsWithin`,
`PostedIsWithin`, `AddedIsWithin`). `LossHasCause` is proved action by action from
these. `NeverStranded` is the safety half of `Settled`: every counted byte raises
the flag, has raised it or is with an observer that is there; every cached one has
an entry; and a report that waits has a handler at work on it. That the reporter, the
observers and the handlers then do go on is fairness, and stays with TLC.

**nftables.** `BilledOnce` is strengthened along the job's progress
(`ChargeInv`): what is billed plus what can still be billed never exceeds what
was carried, where the rest is computed from the counter states and the sample
taken (`Sampled`), then from the delta (`Charged`), then is gone (`Paid`).
`CountInv` says no counter exceeds what its forward carried, which needs only that
loads start at zero. The cardinality of a growth is counted with
`FiniteSetTheorems`, and that the last sample exists with the well-foundedness
of `<` on the naturals. `UndisturbedAgrees` has an invariant of its own, `LoneInv`,
which the first leaves alone: of a handler that nothing has disturbed it says that
nobody else is anywhere near the node (`Alone`), where its script is (`ScriptOf`),
what its place implies for its forward's row (`Place`), and what it has already
rendered and bound (`Rendering`): the plan is what the rows say from the moment it
is read, the table runs it once it is loaded, the bindings know it except those
still in the loop. `Fresh` (nothing knows a forward before it is created) is
what makes the undoing of a create leave nothing. Every fault either ends the
handler's loneliness or leads to a place of its compensation.

**Federation.** The safety theorems rest on one invariant. `Shape` says that
handlers and requests fit: a handler's request is for the hop it is at, its hops
are of its tunnel, and what it has set up and what it has still to do are
disjoint. `HopInv(h)`, for every hop that no mishap has touched, says that at most one
handler works on its tunnel and at most one request at the provider on the hop,
and what row, service, chain and binding are at each of their places: with no
handler, what the binding says; inside an apply, what the commands before this
place have done; among a handler's hops to release, that a service is there to be
released or the share has been withdrawn. `blamed` makes this inductive: every
step that would break it for a hop puts the hop there, and `BlameStays` says it
never leaves. `missed` and `cut` are the two ways in which the provider and the
consumer may disagree without a mishap. The proof goes by hop: a step touches
one hop's row, service and request (`Untouched`, `CallKeeps`, `ProcKeeps`, `ShareKeeps`), so each action is proved
for its own hop and carried over to the others.
`PathJoined` adds to it the order of a set-up (`Ordered`: from the last hop back,
so that the next hop's port is known when a middle is applied) and, for each pair
of neighbours, that the chain dials the port the next hop is bound to (`Joins`), also
while a request is between chain and service (`CallDials`), while the handler still
carries the port in its hands (`Dials`), and across the gap of a sweep.
`NobodyStuck` needs no mishap excepted: `OnwardInv` says that a handler in a loop
has a hop left (of which the last along the chain can always be picked,
`ChainAssumption`), that with one connection a transaction is open only during the
set-up or in the deadlock with itself, and that there is one such transaction.
`CanGo` spells out the guards of the handler and of its request, for `ENABLED` is out
of the prover's reach; on the bounds of `fed_pair`, with either kind of database,
TLC found the two equal.

Beyond the prover and model-checked only: liveness, which needs fairness and
`ENABLED` (`EveryCallReturns`, `LostSessionRemoved`, `EventuallyEnforced`,
`EventuallyReleased`, `Reconciled`, `GhostsAreSwept`,
`RequestsEnd`, `ExceededIsWithdrawn`, both `Settled`), and the three refutations.
Every safety property a run checks is proved. No module uses `RECURSIVE`; nothing is claimed by
induction over data.

## 7. Running

    tlc -workers 2 -config hub.cfg MCNodeHub
    tlc -workers 2 -config quota.cfg MCQuotaPolicy
    tlc -workers 2 -config redeploy.cfg MCNodeRedeploy
    tlapm NodeHub_proofs.tla

and likewise for the other configurations and proof modules. `hub`, `quota`,
`quota_live`, `redeploy`, `services`, `forward`, `traffic`, `nft` and `fed` take one to three
minutes each, the rest seconds; a proof module takes up to a few minutes.

## 8. Not modelled, and what could come next

The models cover the parts of the panel and the agent where state is shared
between concurrent actors or survives a failure. That is a small share of the
repository's lines: most of them are the proxy core (protocol I/O, listeners,
dialers and handlers derived from gost), CRUD handlers and queries of single
rows, request validation, formatting, and the frontend. Their order of events decides
nothing here, or they wait on networks whose behaviour is the environment's.

Not modelled for that reason: the proxy core, health checks, metrics,
self-upgrade, authentication, schema migrations, the agent's configuration
files and certificates, the frontend.

Left out although they have state of their own, in the order worth taking up:

1. The agent's reporter: the replacement of connections on its side.
2. Connection limiters: groups, release and reload.
3. Best-exit hysteresis.
4. Tunnels on the panel's own nodes: their chains and services. `FederationRuntime`
   has their requests as far as other panels are concerned.
5. Port forwards over a share, which the provider keeps as tunnels of its own.
6. `QuotaPolicy` further: a partially failed enforcement and a crash between
   release and resume as properties, once the code promises something of them.

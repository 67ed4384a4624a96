---------------------------- MODULE NodeRedeploy ----------------------------
(***************************************************************************)
(* What the panel does when an agent comes back                            *)
(* (go-backend/internal/http/handler/upgrade.go, 568-808): the hub's online *)
(* hook asks for a redeploy of everything the node runs; requests that come *)
(* during a pass, or too soon after one began, wait in one queued timer; a  *)
(* pass applies each item, retries the failed ones and, when some are left, *)
(* only marks the node.                                                    *)
(*                                                                         *)
(* One node: every map is keyed by node, and upgradeMu makes each of its    *)
(* critical sections one step.  An item is a tunnel with its forwards, or a *)
(* forward outside them (line 723 keeps the two apart, so the tunnel test   *)
(* of line 779 never holds).  Time is counted in fractions of the cooldown  *)
(* and sleeps take any time; the items do not change during a run.          *)
(***************************************************************************)
EXTENDS Naturals

CONSTANTS
    Items,        \* tunnels and forwards of the node
    Passes,       \* goroutines that may run a pass
    Cooldown,     \* nodeOnlineRedeployCooldown, in ticks
    MaxRetries,   \* maxRetries of retryFailedRedeploys
    MaxArrivals,  \* bound: requests waiting for upgradeMu or in the timer
    Faults,       \* how storage and a connected agent may fail
    MaxFaults     \* bound: such failures in one behaviour

FaultKinds == {"storage", "timeout", "retryable", "permanent"}

ASSUME BoundsAssumption ==
    /\ Cooldown \in Nat \ {0} /\ MaxRetries \in Nat
    /\ MaxArrivals \in Nat \ {0} /\ MaxFaults \in Nat
ASSUME FaultAssumption == Faults \subseteq FaultKinds

VARIABLES
    link,      \* is the agent connected?
    runtime,   \* the items the agent runs as the panel wants them
    arrivals,  \* onNodeOnline calls that have not reached upgradeMu
    pending,   \* nodeID in pendingUpgradeRedeploy
    age,       \* time since nodeOnlineRedeployAt, up to Cooldown
    queued,    \* nodeID in nodeOnlineRedeployQueued
    wait,      \* what the queued timer has left
    inFlight,  \* nodeID in nodeOnlineRedeploying
    pass,      \* what each pass goroutine is doing
    faults,    \* failures so far
    owed,      \* history: the agent connected and no pass has begun since
    excused    \* history: an upgrade or a failed pass since a pass last began

gate == <<pending, age, queued, wait, inFlight>>
vars == <<link, runtime, arrivals, gate, pass, faults, owed, excused>>

PassPCs == {"idle", "listing", "applying", "marking", "finishing"}

Idle == [pc |-> "idle", todo |-> {}, failed |-> {}, dropped |-> {}, attempt |-> 0]

TypeOK ==
    /\ link \in BOOLEAN
    /\ runtime \subseteq Items
    /\ arrivals \in Nat
    /\ pending \in BOOLEAN
    /\ age \in 0 .. Cooldown
    /\ queued \in BOOLEAN
    /\ wait \in 0 .. Cooldown
    /\ inFlight \in BOOLEAN
    /\ pass \in [Passes -> [pc : PassPCs, todo : SUBSET Items, failed : SUBSET Items,
                            dropped : SUBSET Items, attempt : 0 .. MaxRetries]]
    /\ faults \in 0 .. MaxFaults
    /\ owed \in BOOLEAN
    /\ excused \in BOOLEAN

\* A panel that has just started, before the agent connects.
Init ==
    /\ link = FALSE
    /\ runtime \in SUBSET Items
    /\ arrivals = 0
    /\ pending = FALSE /\ age = Cooldown /\ queued = FALSE /\ wait = 0
    /\ inFlight = FALSE
    /\ pass = [s \in Passes |-> Idle]
    /\ faults = 0
    /\ owed = FALSE /\ excused = FALSE

-----------------------------------------------------------------------------
(* Requests.                                                               *)

\* The agent connects, perhaps restarted and without part of its services.
\* handleNode registers the session and starts the hook in a goroutine.
Connect ==
    /\ ~link
    /\ arrivals + (IF queued THEN 1 ELSE 0) < MaxArrivals
    /\ link' = TRUE
    /\ runtime' \in SUBSET runtime
    /\ arrivals' = arrivals + 1
    /\ owed' = TRUE
    /\ UNCHANGED <<gate, pass, faults, excused>>

\* The connection is lost, or replaced by the agent's next one.
Drop ==
    /\ link
    /\ link' = FALSE
    /\ UNCHANGED <<runtime, arrivals, gate, pass, faults, owed, excused>>

\* nodeUpgrade: the agent has acknowledged UpgradeAgent.  It may have
\* restarted and connected again before the mark is made.
MarkUpgrade ==
    /\ pending' = TRUE
    /\ excused' = TRUE
    /\ UNCHANGED <<link, runtime, arrivals, age, queued, wait, inFlight, pass,
                   faults, owed>>

MayStart == ~inFlight /\ (pending \/ age = Cooldown)

\* (mutant) The mark outlives the pass it lets through.
StartKeepsMark(s) ==
    /\ arrivals > 0 /\ MayStart
    /\ pass[s].pc = "idle"
    /\ arrivals' = arrivals - 1
    /\ age' = 0
    /\ inFlight' = TRUE
    /\ pass' = [pass EXCEPT ![s] = [Idle EXCEPT !.pc = "listing"]]
    /\ owed' = FALSE /\ excused' = FALSE
    /\ UNCHANGED <<link, runtime, pending, queued, wait, faults>>

\* startNodeOnlineRedeploy lets the request through: a pass begins ...
Start(s) ==
    /\ arrivals > 0 /\ MayStart
    /\ pass[s].pc = "idle"
    /\ arrivals' = arrivals - 1
    /\ pending' = FALSE
    /\ age' = 0
    /\ inFlight' = TRUE
    /\ pass' = [pass EXCEPT ![s] = [Idle EXCEPT !.pc = "listing"]]
    /\ owed' = FALSE /\ excused' = FALSE
    /\ UNCHANGED <<link, runtime, queued, wait, faults>>

\* (mutant) A request during a pass is taken to be served by that pass.
QueueUnlessInFlight ==
    /\ arrivals > 0 /\ ~MayStart
    /\ arrivals' = arrivals - 1
    /\ queued' = (queued \/ ~inFlight)
    /\ wait' = IF queued \/ inFlight THEN wait ELSE Cooldown - age
    /\ UNCHANGED <<link, runtime, pending, age, inFlight, pass, faults, owed, excused>>

\* ... or it waits in the queued timer, unless one is queued already.
Queue ==
    /\ arrivals > 0 /\ ~MayStart
    /\ arrivals' = arrivals - 1
    /\ queued' = TRUE
    /\ wait' = IF queued THEN wait
               ELSE IF inFlight /\ age = Cooldown THEN Cooldown
               ELSE Cooldown - age
    /\ UNCHANGED <<link, runtime, pending, age, inFlight, pass, faults, owed, excused>>

\* The timer's goroutine leaves the queue, then calls onNodeOnline.
Fire ==
    /\ queued /\ wait = 0
    /\ queued' = FALSE
    /\ arrivals' = arrivals + 1
    /\ UNCHANGED <<link, runtime, pending, age, wait, inFlight, pass, faults, owed,
                   excused>>

-----------------------------------------------------------------------------
(* A pass: redeployNodeRuntimeAfterUpgrade and retryFailedRedeploys.        *)

Go(s, frame) == pass' = [pass EXCEPT ![s] = frame]

\* A failure of the kinds this instance allows.
Fault(kind) ==
    /\ kind \in Faults
    /\ faults < MaxFaults
    /\ faults' = faults + 1

\* The tunnels and forwards are read; when that fails the pass has failed.
List(s) ==
    /\ pass[s].pc = "listing"
    /\ \/ /\ Go(s, [pass[s] EXCEPT !.pc = "applying", !.todo = Items])
          /\ UNCHANGED faults
       \/ /\ Fault("storage")
          /\ Go(s, [pass[s] EXCEPT !.pc = "marking"])
    /\ UNCHANGED <<link, runtime, arrivals, gate, owed, excused>>

\* The commands of one item reach the agent ...
Apply(s, i) ==
    /\ pass[s].pc = "applying" /\ i \in pass[s].todo
    /\ link
    /\ runtime' = runtime \cup {i}
    /\ Go(s, [pass[s] EXCEPT !.todo = @ \ {i}])
    /\ UNCHANGED <<link, arrivals, gate, faults, owed, excused>>

\* ... or the node is offline, or does not answer in time: that is counted
\* as success, for the next connection will redeploy.  A connection whose
\* hook is still on its way may not be registered yet.
Defer(s, i) ==
    /\ pass[s].pc = "applying" /\ i \in pass[s].todo
    /\ \/ (~link \/ arrivals > 0) /\ UNCHANGED <<runtime, faults>>
       \/ link /\ Fault("timeout") /\ runtime' \in {runtime, runtime \cup {i}}
    /\ Go(s, [pass[s] EXCEPT !.todo = @ \ {i}, !.dropped = @ \cup {i}])
    /\ UNCHANGED <<link, arrivals, gate, owed, excused>>

\* ... or it fails: the connection breaks under the command, the port is in
\* use, the database does not answer.
FailRetryable(s, i) ==
    /\ pass[s].pc = "applying" /\ i \in pass[s].todo
    /\ (~link /\ UNCHANGED faults) \/ Fault("retryable")
    /\ Go(s, [pass[s] EXCEPT !.todo = @ \ {i}, !.failed = @ \cup {i}])
    /\ UNCHANGED <<link, runtime, arrivals, gate, owed, excused>>

\* ... or it fails with "not found" or "already exists": tried once more in
\* the first retry, then dropped and counted as dealt with.
FailPermanent(s, i) ==
    /\ pass[s].pc = "applying" /\ i \in pass[s].todo
    /\ Fault("permanent")
    /\ Go(s, IF pass[s].attempt = 0
             THEN [pass[s] EXCEPT !.todo = @ \ {i}, !.failed = @ \cup {i}]
             ELSE [pass[s] EXCEPT !.todo = @ \ {i}, !.dropped = @ \cup {i}])
    /\ UNCHANGED <<link, runtime, arrivals, gate, owed, excused>>

\* (mutant) The last retry is never made.
EndRoundEarly(s) ==
    LET p == pass[s] IN
    /\ p.pc = "applying" /\ p.todo = {}
    /\ Go(s, IF p.failed = {} THEN [p EXCEPT !.pc = "finishing"]
             ELSE IF p.attempt + 1 >= MaxRetries THEN [p EXCEPT !.pc = "marking"]
             ELSE [p EXCEPT !.todo = p.failed, !.failed = {}, !.attempt = @ + 1])
    /\ UNCHANGED <<link, runtime, arrivals, gate, faults, owed, excused>>

\* (mutant) A retry that is out of attempts reports success.
EndRoundForgets(s) ==
    LET p == pass[s] IN
    /\ p.pc = "applying" /\ p.todo = {}
    /\ Go(s, IF p.failed = {} \/ p.attempt = MaxRetries
             THEN [p EXCEPT !.pc = "finishing", !.failed = {}]
             ELSE [p EXCEPT !.todo = p.failed, !.failed = {}, !.attempt = @ + 1])
    /\ UNCHANGED <<link, runtime, arrivals, gate, faults, owed, excused>>

\* (mutant) attempt <= maxRetries, counted from zero: one retry too many.
EndRoundOnceMore(s) ==
    LET p == pass[s] IN
    /\ p.pc = "applying" /\ p.todo = {}
    /\ Go(s, IF p.failed = {} THEN [p EXCEPT !.pc = "finishing"]
             ELSE IF p.attempt > MaxRetries THEN [p EXCEPT !.pc = "marking"]
             ELSE [p EXCEPT !.todo = p.failed, !.failed = {}, !.attempt = @ + 1])
    /\ UNCHANGED <<link, runtime, arrivals, gate, faults, owed, excused>>

\* A round is over: done, out of retries, or (after a sleep) one more round
\* of what failed.
EndRound(s) ==
    LET p == pass[s] IN
    /\ p.pc = "applying" /\ p.todo = {}
    /\ Go(s, IF p.failed = {} THEN [p EXCEPT !.pc = "finishing"]
             ELSE IF p.attempt = MaxRetries THEN [p EXCEPT !.pc = "marking"]
             ELSE [p EXCEPT !.todo = p.failed, !.failed = {}, !.attempt = @ + 1])
    /\ UNCHANGED <<link, runtime, arrivals, gate, faults, owed, excused>>

\* (mutant) The mark and the end of the flight in the wrong order: the node
\* is free for another pass while this goroutine still runs.
MarkAndRelease(s) ==
    /\ pass[s].pc = "marking"
    /\ pending' = TRUE
    /\ excused' = TRUE
    /\ inFlight' = FALSE
    /\ Go(s, [pass[s] EXCEPT !.pc = "finishing"])
    /\ UNCHANGED <<link, runtime, arrivals, age, queued, wait, faults, owed>>

\* markNodePendingUpgradeRedeploy: the next connection need not wait.
Mark(s) ==
    /\ pass[s].pc = "marking"
    /\ pending' = TRUE
    /\ excused' = TRUE
    /\ Go(s, [pass[s] EXCEPT !.pc = "finishing"])
    /\ UNCHANGED <<link, runtime, arrivals, age, queued, wait, inFlight, faults, owed>>

\* The deferred finishNodeOnlineRedeploy.
Finish(s) ==
    /\ pass[s].pc = "finishing"
    /\ inFlight' = FALSE
    /\ Go(s, Idle)
    /\ UNCHANGED <<link, runtime, arrivals, pending, age, queued, wait, faults, owed,
                   excused>>

-----------------------------------------------------------------------------
(* Time, and the panel itself.                                             *)

Tick ==
    /\ age < Cooldown \/ wait > 0
    /\ age' = IF age < Cooldown THEN age + 1 ELSE age
    /\ wait' = IF wait > 0 THEN wait - 1 ELSE 0
    /\ UNCHANGED <<link, runtime, arrivals, pending, queued, inFlight, pass, faults,
                   owed, excused>>

\* The panel restarts: its memory and every connection are gone.
Restart ==
    /\ link' = FALSE
    /\ arrivals' = 0
    /\ pending' = FALSE /\ age' = Cooldown /\ queued' = FALSE /\ wait' = 0
    /\ inFlight' = FALSE
    /\ pass' = [s \in Passes |-> Idle]
    /\ owed' = FALSE /\ excused' = FALSE
    /\ UNCHANGED <<runtime, faults>>

Hook == Queue \/ \E s \in Passes : Start(s)

PassStep(s) ==
    \/ List(s) \/ EndRound(s) \/ Mark(s) \/ Finish(s)
    \/ \E i \in Items : Apply(s, i) \/ Defer(s, i) \/ FailRetryable(s, i)
                        \/ FailPermanent(s, i)

Next ==
    \/ Connect \/ Drop \/ MarkUpgrade
    \/ Hook \/ Fire
    \/ \E s \in Passes : PassStep(s)
    \/ Tick \/ Restart

Spec == Init /\ [][Next]_vars

\* Goroutines are scheduled, timers fire and time passes; nothing is assumed
\* of the agent, of upgrades and of restarts.
LiveSpec ==
    /\ Spec
    /\ WF_vars(Hook) /\ WF_vars(Fire) /\ WF_vars(Tick)
    /\ \A s \in Passes : WF_vars(PassStep(s))

-----------------------------------------------------------------------------
(* Properties.                                                             *)

\* At most one pass deploys to the node at any time, whatever reconnects,
\* upgrades and timers ask for, and the node counts as in flight exactly
\* while it does (startNodeOnlineRedeploy, finishNodeOnlineRedeploy).
OnePass ==
    /\ \A s, t \in Passes : pass[s].pc # "idle" /\ pass[t].pc # "idle" => s = t
    /\ \A s \in Passes : pass[s].pc # "idle" => inFlight

\* A reconnect that no pass has answered has a request on its way: it is
\* neither swallowed by a pass that began before it nor by the cooldown
\* (queueNodeOnlineRedeployLocked).
NoReconnectLost == owed => arrivals > 0 \/ queued

\* Unless the agent has connected again since the pass began, every item the
\* pass has left behind without failing or dropping it is as it should be on
\* the agent; in particular a pass that ends without marking the node has
\* (redeployNodeRuntimeAfterUpgrade, retryFailedRedeploys).
PassCovers ==
    \A s \in Passes :
       LET p == pass[s] IN
       ~owed /\ (p.pc = "applying" \/ (p.pc = "finishing" /\ ~excused)) =>
          Items \ (p.todo \cup p.failed \cup p.dropped) \subseteq runtime

\* "Suppress rapid flapping": a second pass begins within the cooldown only
\* after an upgrade was requested, or the pass before it failed (596-601).
NoRedeployStorm ==
    [][(\E s \in Passes : pass[s].pc = "idle" /\ pass'[s].pc # "idle")
          => age = Cooldown \/ excused]_vars

\* A pass met what its retries do not mend: the lists could not be read, an item
\* was dropped although the agent was connected, or more failed than they absorb.
Overcome ==
    \/ faults > MaxRetries
    \/ \E s \in Passes : pass[s].pc = "marking" /\ pass[s].failed = {}
    \/ link /\ ~owed /\ \E s \in Passes : pass[s].dropped # {}

\* Every reconnect is followed by a pass that begins after it, if the panel does
\* not restart first; and an agent that stays connected ends up running everything
\* the panel wants, however it flapped before and whatever the passes met on the
\* way, as long as the retries of one pass absorb it (695-808).
Reconciled ==
    /\ owed ~> ~owed
    /\ (<>[]link /\ []~Overcome) => <>[](runtime = Items)
=============================================================================

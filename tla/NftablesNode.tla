---------------------------- MODULE NftablesNode ----------------------------
(***************************************************************************)
(* A node without an agent: the panel keeps one nftables table on it over   *)
(* SSH, rendered whole from the database by whoever changes a forward       *)
(* (http/handler/nftables_runtime.go, runtime/nftables), remembers what it   *)
(* rendered in nft_rule_binding, and every thirty seconds reads the table's  *)
(* counters and charges what they grew by since nft_counter_state           *)
(* (http/handler/nftables_traffic.go, repo/repository_nft_counter.go).       *)
(*                                                                         *)
(* Nothing locks the node: two requests may render it at the same time, and *)
(* the job may read it at any moment.  A step is one transaction, or one    *)
(* command of a script on the node, with the reads just before it.          *)
(*                                                                         *)
(* Abstractions: the four counters of a forward are one; a forward's port,   *)
(* target and rule hash are its version, a traffic ratio is 1; rows, tunnels *)
(* and ports are read at once; a list of bindings that cannot be read is    *)
(* like writes to them that fail.  An update keeps the forward on the node.  *)
(* What the charge leads to is QuotaPolicy.                                 *)
(***************************************************************************)
EXTENDS Naturals, Sequences, FiniteSets

CONSTANTS
    Forwards,
    Versions,
    Handlers,     \* goroutines of the panel that serve requests
    Starter,      \* the goroutine that renders the node when the panel starts
    None,
    MaxBytes,     \* bound: bytes each forward carries
    MaxRequests,  \* bound: requests in one behaviour
    Faults,       \* what may go wrong
    MaxFaults     \* bound: how often, in one behaviour

ASSUME NoneAssumption ==
    /\ None \notin Forwards \cup Versions \cup [ver : Versions, bytes : 0 .. MaxBytes]
    /\ None \notin [ver : Versions, ok : BOOLEAN]
    /\ Versions # {}
ASSUME StarterAssumption == Starter \notin Handlers
ASSUME BoundAssumption ==
    /\ MaxBytes \in Nat /\ MaxRequests \in Nat /\ MaxFaults \in Nat
    /\ Faults \subseteq {"storage", "ssh", "nft", "node", "panel"}

VARIABLES
    life,     \* of each forward's row
    row,      \* its status and version
    binding,  \* nft_rule_binding: the version rendered last, and whether it applied
    base,     \* nft_counter_state: the count that is paid for
    table,    \* on the node: what was loaded into the table, one load after another
    script,   \* scripts that run on the node
    proc,     \* the goroutines that render it
    job,      \* the one that collects
    carried,  \* history: bytes each forward has carried
    billed,   \* and those charged for it
    doubled,  \* history: was the table ever loaded twice?
    asked,    \* requests so far
    faults    \* what has gone wrong so far

node  == <<table, script>>
rows  == <<life, row>>
bills == <<carried, billed>>
vars  == <<rows, binding, base, node, proc, job, bills, doubled, asked, faults>>

Procs    == Handlers \cup {Starter}
Configs  == [on : BOOLEAN, ver : Versions]
Bindings == [ver : Versions, ok : BOOLEAN] \cup {None}
Counts   == [ver : Versions, bytes : 0 .. MaxBytes] \cup {None}
Plans    == [Forwards -> Versions \cup {None}]
Loads    == [Forwards -> Counts]
Scripts  == [pc : {"none", "delete", "load"}, plan : Plans]

\* Only forwards of its plan are left to bind.
Frames ==
    {f \in [op : {"none", "create", "update", "delete", "reconcile", "clear", "startup"},
            pc : {"idle", "store", "unlist", "plan", "apply", "wait", "mark", "bind", "list",
                  "unbind", "drop", "undo", "done"},
            phase : {"main", "undo"}, fwd : Forwards \cup {None}, was : Configs,
            want : Versions, plan : Plans, todo : SUBSET Forwards,
            result : {"none", "ok", "error"}, alone : BOOLEAN] :
        f.pc = "bind" => \A g \in f.todo : f.plan[g] # None}

Jobs == [pc : {"starting", "idle", "states", "bindings", "metas", "account"},
         samples : Seq(Loads), states : Loads, due : [Forwards -> Nat], new : Loads]

TypeOK ==
    /\ life \in [Forwards -> {"new", "there", "gone"}]
    /\ row \in [Forwards -> Configs]
    /\ binding \in [Forwards -> Bindings]
    /\ base \in [Forwards -> Counts]
    /\ table \in Seq(Loads)
    /\ script \in [Procs -> Scripts]
    /\ proc \in [Procs -> Frames]
    /\ job \in Jobs
    /\ carried \in [Forwards -> 0 .. MaxBytes] /\ billed \in [Forwards -> 0 .. MaxBytes + 1]
    /\ doubled \in BOOLEAN
    /\ asked \in 0 .. MaxRequests /\ faults \in 0 .. MaxFaults

Blank    == [on |-> FALSE, ver |-> CHOOSE v \in Versions : TRUE]
Nothing  == [f \in Forwards |-> None]
NoScript == [pc |-> "none", plan |-> Nothing]

Idle == [op |-> "none", pc |-> "idle", phase |-> "main", fwd |-> None, was |-> Blank,
         want |-> Blank.ver, plan |-> Nothing, todo |-> {}, result |-> "none",
         alone |-> FALSE]

Starting == [Idle EXCEPT !.op = "startup", !.pc = "plan"]

Resting == [pc |-> "idle", samples |-> <<>>, states |-> Nothing,
            due |-> [f \in Forwards |-> 0], new |-> Nothing]

Init ==
    /\ life = [f \in Forwards |-> "new"] /\ row = [f \in Forwards |-> Blank]
    /\ binding = Nothing /\ base = Nothing
    /\ table = <<>> /\ script = [p \in Procs |-> NoScript]
    /\ proc = [p \in Procs |-> IF p = Starter THEN Starting ELSE Idle]
    /\ job = [Resting EXCEPT !.pc = "starting"]
    /\ carried = [f \in Forwards |-> 0] /\ billed = [f \in Forwards |-> 0]
    /\ doubled = FALSE /\ asked = 0 /\ faults = 0

-----------------------------------------------------------------------------
(* What the handlers are made of.                                          *)

Active(f) == life[f] = "there" /\ row[f].on

Go(p, frame) == proc' = [proc EXCEPT ![p] = frame]

\* Whatever runs is not alone any more, and of no interest when it has ended.
Disturbed == [q \in Procs |-> IF proc[q].pc = "done" THEN Idle
                              ELSE [proc[q] EXCEPT !.alone = FALSE]]
GoDisturbed(p, frame) == proc' = [Disturbed EXCEPT ![p] = [frame EXCEPT !.alone = FALSE]]

Fault(kind) ==
    kind \in Faults /\ faults < MaxFaults /\ faults' = faults + 1

Asks == asked < MaxRequests /\ asked' = asked + 1

Begin(p, frame) ==
    /\ p # Starter /\ proc[p].pc = "idle" /\ script[p] = NoScript
    /\ Asks
    /\ proc' = [Disturbed EXCEPT ![p] =
                  [frame EXCEPT !.alone = \A q \in Procs : /\ script[q] = NoScript
                                                           /\ proc[q].pc \in {"idle", "done"}]]

Ended(f, result) ==
    IF f.alone
    THEN [Idle EXCEPT !.op = f.op, !.pc = "done", !.fwd = f.fwd, !.was = f.was,
                      !.result = result, !.alone = TRUE]
    ELSE Idle

\* Where a handler goes on when the node is rendered, and when it is not.
Synced(f) == Ended(f, IF f.phase = "undo" THEN "error" ELSE "ok")

Unsynced(f) ==
    CASE f.phase = "main" /\ f.op = "create" -> [f EXCEPT !.pc = "drop", !.plan = Nothing]
      [] f.phase = "main" /\ f.op = "update" -> [f EXCEPT !.pc = "undo", !.plan = Nothing]
      [] OTHER -> Ended(f, "error")

\* A failure the handler hears of, and answers by compensating once.
Failing(p, frame) ==
    IF proc[p].phase = "main" THEN Go(p, frame) ELSE GoDisturbed(p, frame)

Bound == {f \in Forwards : binding[f] # None}

\* syncNftablesNode fails: every binding of the node is marked.
Marking(f) ==
    IF f.op = "clear" \/ Bound = {} THEN Unsynced(f)
    ELSE [f EXCEPT !.pc = "mark", !.todo = Bound]

\* The next of its loop, or what follows it.
Rest(f, g, after) ==
    IF f.todo = {g} THEN after ELSE [f EXCEPT !.todo = @ \ {g}]

-----------------------------------------------------------------------------
(* Requests.                                                               *)

\* Versions of one forward only differ or not: it starts with any.
Create(p, f) ==
    /\ life[f] = "new"
    /\ Begin(p, [Idle EXCEPT !.op = "create", !.pc = "plan", !.fwd = f])
    /\ life' = [life EXCEPT ![f] = "there"]
    /\ row' = [row EXCEPT ![f] = [on |-> TRUE, ver |-> Blank.ver]]
    /\ UNCHANGED <<binding, base, node, job, bills, doubled, faults>>

Update(p, f, v) ==
    /\ life[f] = "there"
    /\ Begin(p, [Idle EXCEPT !.op = "update", !.pc = "store", !.fwd = f, !.was = row[f],
                             !.want = v])
    /\ UNCHANGED <<rows, binding, base, node, job, bills, doubled, faults>>

\* The row, its ports and its counts go first; a forced delete then takes the
\* binding, which else is left to the rendering.
Delete(p, f, next) ==
    /\ life[f] = "there"
    /\ Begin(p, [Idle EXCEPT !.op = "delete", !.pc = next, !.fwd = f])
    /\ life' = [life EXCEPT ![f] = "gone"] /\ row' = [row EXCEPT ![f] = Blank]
    /\ base' = [base EXCEPT ![f] = None]
    /\ UNCHANGED <<binding, node, job, bills, doubled, faults>>

Reconcile(p) ==
    /\ Begin(p, [Idle EXCEPT !.op = "reconcile", !.pc = "plan"])
    /\ UNCHANGED <<rows, binding, base, node, job, bills, doubled, faults>>

Clear(p) ==
    /\ Begin(p, [Idle EXCEPT !.op = "clear", !.pc = "apply"])
    /\ UNCHANGED <<rows, binding, base, node, job, bills, doubled, faults>>

\* A pause or resume, by request or by a policy: the commands for the agent
\* find none and are skipped, the status is written, nothing is rendered.
SetStatus(f, on) ==
    /\ life[f] = "there" /\ row[f].on # on
    /\ Asks
    /\ row' = [row EXCEPT ![f].on = on]
    /\ proc' = Disturbed
    /\ UNCHANGED <<life, binding, base, node, job, bills, doubled, faults>>

Request(p) ==
    \/ \E f \in Forwards, v \in Versions : Update(p, f, v)
    \/ \E f \in Forwards : Create(p, f) \/ Delete(p, f, "plan") \/ Delete(p, f, "unlist")
    \/ Reconcile(p) \/ Clear(p)

-----------------------------------------------------------------------------
(* syncNftablesNode.                                                       *)

Store(p) ==
    LET f == proc[p] IN
    /\ f.pc = "store"
    /\ row' = IF life[f.fwd] = "there" THEN [row EXCEPT ![f.fwd].ver = f.want] ELSE row
    /\ Go(p, [f EXCEPT !.pc = "plan"])
    /\ UNCHANGED <<life, binding, base, node, job, bills, doubled, asked, faults>>

Unlist(p) ==
    LET f == proc[p] IN
    /\ f.pc = "unlist"
    /\ \/ /\ binding' = [binding EXCEPT ![f.fwd] = None]
          /\ Go(p, [f EXCEPT !.pc = "plan"]) /\ UNCHANGED faults
       \/ /\ Fault("storage")
          /\ GoDisturbed(p, [f EXCEPT !.pc = "plan"]) /\ UNCHANGED binding
    /\ UNCHANGED <<rows, base, node, job, bills, doubled, asked>>

\* The rules of every active forward of the node.
Plan(p) ==
    LET f == proc[p] IN
    /\ f.pc = "plan"
    /\ IF f.op = "update" /\ f.phase = "main" /\ life[f.fwd] = "gone"
       THEN Go(p, Unsynced(f)) /\ UNCHANGED faults
       ELSE \/ /\ Go(p, [f EXCEPT !.pc = "apply",
                                  !.plan = [g \in Forwards |-> IF Active(g) THEN row[g].ver
                                                               ELSE None]])
               /\ UNCHANGED faults
            \/ Fault("storage") /\ Failing(p, Unsynced(f))
    /\ UNCHANGED <<rows, binding, base, node, job, bills, doubled, asked>>

\* Manager.Reconcile, Manager.Clear: the script starts, or the node cannot be
\* reached.
Apply(p) ==
    LET f == proc[p] IN
    /\ f.pc = "apply" /\ script[p] = NoScript
    /\ \/ /\ script' = [script EXCEPT ![p] = [pc |-> "delete", plan |-> f.plan]]
          /\ Go(p, [f EXCEPT !.pc = "wait"]) /\ UNCHANGED faults
       \/ /\ Fault("ssh") /\ Failing(p, Marking(f))
          /\ UNCHANGED script
    /\ UNCHANGED <<rows, binding, base, table, job, bills, doubled, asked>>

\* The SSH session is given up; the script may run on.
GiveUp(p) ==
    LET f == proc[p] IN
    /\ f.pc = "wait" /\ Fault("ssh")
    /\ GoDisturbed(p, Marking(f))
    /\ UNCHANGED <<rows, binding, base, node, job, bills, doubled, asked>>

\* (mutant) An upsert, that knows no hash.
MarkErrorUpserts(p, g) ==
    LET f == proc[p] IN
    /\ f.pc = "mark" /\ g \in f.todo
    /\ binding' = [binding EXCEPT ![g] = IF @ = None THEN [ver |-> None, ok |-> FALSE]
                                         ELSE [@ EXCEPT !.ok = FALSE]]
    /\ Go(p, Rest(f, g, Unsynced([f EXCEPT !.todo = {}])))
    /\ UNCHANGED <<rows, base, node, job, bills, doubled, asked, faults>>

MarkError(p, g) ==
    LET f    == proc[p]
        next == Rest(f, g, Unsynced([f EXCEPT !.todo = {}]))
    IN
    /\ f.pc = "mark" /\ g \in f.todo
    /\ \/ /\ binding' = IF binding[g] = None THEN binding
                        ELSE [binding EXCEPT ![g].ok = FALSE]
          /\ Go(p, next) /\ UNCHANGED faults
       \/ Fault("storage") /\ GoDisturbed(p, next) /\ UNCHANGED binding
    /\ UNCHANGED <<rows, base, node, job, bills, doubled, asked>>

Bind(p, g) ==
    LET f    == proc[p]
        next == Rest(f, g, [f EXCEPT !.pc = "list", !.todo = {}])
    IN
    /\ f.pc = "bind" /\ g \in f.todo
    /\ \/ /\ binding' = [binding EXCEPT ![g] = [ver |-> f.plan[g], ok |-> TRUE]]
          /\ Go(p, next) /\ UNCHANGED faults
       \/ Fault("storage") /\ GoDisturbed(p, next) /\ UNCHANGED binding
    /\ UNCHANGED <<rows, base, node, job, bills, doubled, asked>>

ListStale(p) ==
    LET f     == proc[p]
        stale == {g \in Bound : f.plan[g] = None}
    IN
    /\ f.pc = "list"
    /\ Go(p, IF stale = {} THEN Synced(f) ELSE [f EXCEPT !.pc = "unbind", !.todo = stale])
    /\ UNCHANGED <<rows, binding, base, node, job, bills, doubled, asked, faults>>

\* Only a clear minds a deletion that fails.
Unbind(p, g) ==
    LET f    == proc[p]
        next == Rest(f, g, Synced(f))
    IN
    /\ f.pc = "unbind" /\ g \in f.todo
    /\ \/ /\ binding' = [binding EXCEPT ![g] = None]
          /\ Go(p, next) /\ UNCHANGED faults
       \/ /\ Fault("storage") /\ UNCHANGED binding
          /\ GoDisturbed(p, IF f.op = "clear" THEN Ended(f, "error") ELSE next)
    /\ UNCHANGED <<rows, base, node, job, bills, doubled, asked>>

\* A create that failed: the row goes again, the node is not rendered again.
Drop(p) ==
    LET f == proc[p] IN
    /\ f.pc = "drop"
    /\ life' = [life EXCEPT ![f.fwd] = "gone"] /\ row' = [row EXCEPT ![f.fwd] = Blank]
    /\ base' = [base EXCEPT ![f.fwd] = None]
    /\ Go(p, Ended(f, "error"))
    /\ UNCHANGED <<binding, node, job, bills, doubled, asked, faults>>

\* (mutant) The node is left as it is.
UndoRow(p) ==
    LET f == proc[p] IN
    /\ f.pc = "undo"
    /\ row' = IF life[f.fwd] = "there" THEN [row EXCEPT ![f.fwd] = f.was] ELSE row
    /\ Go(p, Ended(f, "error"))
    /\ UNCHANGED <<life, binding, base, node, job, bills, doubled, asked, faults>>

\* rollbackForwardMutation, then the node is rendered again.
Undo(p) ==
    LET f == proc[p] IN
    /\ f.pc = "undo"
    /\ row' = IF life[f.fwd] = "there" THEN [row EXCEPT ![f.fwd] = f.was] ELSE row
    /\ Go(p, [f EXCEPT !.pc = "plan", !.phase = "undo"])
    /\ UNCHANGED <<life, binding, base, node, job, bills, doubled, asked, faults>>

Finish(p) ==
    /\ proc[p].pc = "done"
    /\ Go(p, Idle)
    /\ UNCHANGED <<rows, binding, base, node, job, bills, doubled, asked, faults>>

ProcStep(p) ==
    \/ Store(p) \/ Unlist(p) \/ Plan(p) \/ Apply(p) \/ ListStale(p) \/ Drop(p) \/ Undo(p)
    \/ Finish(p)
    \/ \E g \in Forwards : MarkError(p, g) \/ Bind(p, g) \/ Unbind(p, g)

-----------------------------------------------------------------------------
(* The script: its check of the new table decides nothing, the old table is *)
(* deleted, and the new one loaded into whatever is there by then.          *)

DeleteTable(p) ==
    /\ script[p].pc = "delete"
    /\ table' = <<>>
    /\ script' = [script EXCEPT ![p].pc = "load"]
    /\ UNCHANGED <<rows, binding, base, proc, job, bills, doubled, asked, faults>>

Rendered(plan) ==
    [f \in Forwards |-> IF plan[f] = None THEN None ELSE [ver |-> plan[f], bytes |-> 0]]

Planned(f) == {g \in Forwards : f.plan[g] # None}

Load(p) ==
    LET f == proc[p] IN
    /\ script[p].pc = "load"
    /\ table' = Append(table, Rendered(script[p].plan))
    /\ doubled' = (doubled \/ table # <<>>)
    /\ script' = [script EXCEPT ![p] = NoScript]
    /\ IF f.pc # "wait" THEN UNCHANGED proc
       ELSE Go(p, IF Planned(f) = {} THEN [f EXCEPT !.pc = "list"]
                  ELSE [f EXCEPT !.pc = "bind", !.todo = Planned(f)])
    /\ UNCHANGED <<rows, binding, base, job, bills, asked, faults>>

LoadFails(p) ==
    LET f == proc[p] IN
    /\ script[p].pc = "load" /\ Fault("nft")
    /\ script' = [script EXCEPT ![p] = NoScript]
    /\ IF f.pc # "wait" THEN UNCHANGED proc ELSE Failing(p, Marking(f))
    /\ UNCHANGED <<rows, binding, base, table, job, bills, doubled, asked>>

\* Nobody waits for it and it stops.
Abandon(p) ==
    /\ script[p] # NoScript /\ proc[p].pc # "wait"
    /\ script' = [script EXCEPT ![p] = NoScript]
    /\ UNCHANGED <<rows, binding, base, table, proc, job, bills, doubled, asked, faults>>

ScriptStep(p) == DeleteTable(p) \/ Load(p)

\* A byte goes by a rule; every copy of that rule counts it.
Carry(f, v) ==
    LET copies == {i \in DOMAIN table : table[i][f] # None /\ table[i][f].ver = v} IN
    /\ copies # {} /\ carried[f] < MaxBytes
    /\ table' = [i \in DOMAIN table |->
                   IF i \in copies THEN [table[i] EXCEPT ![f].bytes = @ + 1] ELSE table[i]]
    /\ carried' = [carried EXCEPT ![f] = @ + 1]
    /\ UNCHANGED <<rows, binding, base, script, proc, job, billed, doubled, asked, faults>>

-----------------------------------------------------------------------------
(* collectNftablesNodeTraffic.                                             *)

StartCollecting ==
    /\ job.pc = "starting" /\ proc[Starter].pc = "idle"
    /\ job' = Resting
    /\ UNCHANGED <<rows, binding, base, node, proc, bills, doubled, asked, faults>>

\* Without a table the listing fails.
Sample ==
    /\ job.pc = "idle" /\ table # <<>>
    /\ job' = [job EXCEPT !.pc = "states", !.samples = table]
    /\ UNCHANGED <<rows, binding, base, node, proc, bills, doubled, asked, faults>>

ReadStates ==
    /\ job.pc = "states"
    /\ job' = [job EXCEPT !.pc = "bindings", !.states = base]
    /\ UNCHANGED <<rows, binding, base, node, proc, bills, doubled, asked, faults>>

Copies(f) == {i \in DOMAIN job.samples : job.samples[i][f] # None}

\* The forwards whose samples count: those with an applied binding.
Known == {f \in Forwards : Copies(f) # {} /\ binding[f] # None /\ binding[f].ok}

\* The bytes of each sample beyond the count that is paid for; a sample that
\* is below it, or under another hash, only moves the count.
Growth(f) ==
    IF job.states[f] = None \/ job.states[f].ver # binding[f].ver THEN {}
    ELSE {b \in Copies(f) \X (1 .. MaxBytes) :
            job.states[f].bytes < b[2] /\ b[2] <= job.samples[b[1]][f].bytes}

\* The count of the sample that comes last.
Latest(f) ==
    LET last == CHOOSE i \in Copies(f) : \A j \in Copies(f) : j <= i
    IN [ver |-> binding[f].ver, bytes |-> job.samples[last][f].bytes]

ReadBindings ==
    LET due == [f \in Forwards |-> IF f \in Known THEN Cardinality(Growth(f)) ELSE 0] IN
    /\ job.pc = "bindings"
    /\ job' = IF Known = {} THEN Resting
              ELSE [job EXCEPT !.pc = IF \A f \in Forwards : due[f] = 0 THEN "account"
                                      ELSE "metas",
                               !.samples = <<>>, !.states = Nothing, !.due = due,
                               !.new = [f \in Forwards |-> IF f \in Known THEN Latest(f)
                                                           ELSE None]]
    /\ UNCHANGED <<rows, binding, base, node, proc, bills, doubled, asked, faults>>

\* (mutant) A paused forward counts as missing, too.
LoadMetasActive ==
    /\ job.pc = "metas"
    /\ job' = IF \E f \in Forwards : job.due[f] > 0 /\ ~Active(f) THEN Resting
              ELSE [job EXCEPT !.pc = "account"]
    /\ UNCHANGED <<rows, binding, base, node, proc, bills, doubled, asked, faults>>

\* One forward that is gone, and nothing of the node is charged.
LoadMetas ==
    /\ job.pc = "metas"
    /\ \/ /\ job' = IF \E f \in Forwards : job.due[f] > 0 /\ life[f] # "there" THEN Resting
                    ELSE [job EXCEPT !.pc = "account"]
          /\ UNCHANGED faults
       \/ Fault("storage") /\ job' = Resting
    /\ UNCHANGED <<rows, binding, base, node, proc, bills, doubled, asked>>

\* Bound: a bill that exceeds all a forward may carry grows no further.
Capped(n) == IF n > MaxBytes THEN MaxBytes + 1 ELSE n

\* (mutant) The charge and the counts are written apart.
AccountApart ==
    /\ job.pc = "account"
    /\ job' = Resting
    /\ billed' = [f \in Forwards |-> Capped(billed[f] + job.due[f])]
    /\ \/ /\ base' = [f \in Forwards |-> IF job.new[f] = None THEN base[f] ELSE job.new[f]]
          /\ UNCHANGED faults
       \/ Fault("storage") /\ UNCHANGED base
    /\ UNCHANGED <<rows, binding, node, proc, carried, doubled, asked>>

\* ApplyNftTrafficAccounting, one transaction: the charge and the new counts.
Account ==
    /\ job.pc = "account"
    /\ job' = Resting
    /\ \/ /\ billed' = [f \in Forwards |-> Capped(billed[f] + job.due[f])]
          /\ base' = [f \in Forwards |-> IF job.new[f] = None THEN base[f] ELSE job.new[f]]
          /\ UNCHANGED faults
       \/ Fault("storage") /\ UNCHANGED <<billed, base>>
    /\ UNCHANGED <<rows, binding, node, proc, carried, doubled, asked>>

JobStep == StartCollecting \/ Sample \/ ReadStates \/ ReadBindings \/ LoadMetas \/ Account

-----------------------------------------------------------------------------
(* The node and the panel themselves.                                      *)

\* The rules of a node that restarts are gone.
NodeRestarts ==
    /\ Fault("node")
    /\ table' = <<>> /\ script' = [p \in Procs |-> NoScript]
    /\ proc' = [p \in Procs |->
                  [(IF proc[p].pc = "wait" THEN Marking(proc[p]) ELSE proc[p])
                     EXCEPT !.alone = FALSE]]
    /\ UNCHANGED <<rows, binding, base, job, bills, doubled, asked>>

PanelRestarts ==
    /\ Fault("panel")
    /\ proc' = [p \in Procs |-> IF p = Starter THEN Starting ELSE Idle]
    /\ job' = [Resting EXCEPT !.pc = "starting"]
    /\ UNCHANGED <<rows, binding, base, node, bills, doubled, asked>>

Next ==
    \/ \E p \in Procs : Request(p) \/ ProcStep(p) \/ GiveUp(p)
    \/ \E p \in Procs : ScriptStep(p) \/ LoadFails(p) \/ Abandon(p)
    \/ \E f \in Forwards, on \in BOOLEAN : SetStatus(f, on)
    \/ \E f \in Forwards, v \in Versions : Carry(f, v)
    \/ JobStep \/ NodeRestarts \/ PanelRestarts

Spec == Init /\ [][Next]_vars

\* Goroutines are scheduled, scripts run, the job's timer ticks.
LiveSpec ==
    /\ Spec
    /\ \A p \in Procs : WF_vars(ProcStep(p)) /\ WF_vars(ScriptStep(p))
    /\ WF_vars(JobStep)

-----------------------------------------------------------------------------
(* Properties.                                                             *)

\* No byte is charged twice, whatever happens between reading the counters and
\* the transaction: tables that are rendered anew, with another rule or the
\* same, forwards deleted and nodes restarted, panels that die, transactions
\* that fail.  Only two scripts that load their rules into one table count,
\* and charge, everything twice.
BilledOnce == ~doubled => \A f \in Forwards : billed[f] <= carried[f]

\* The node runs the rules of the active forwards, once, and the bindings know.
Agrees ==
    /\ Len(table) = 1
    /\ \A f \in Forwards :
          IF Active(f)
          THEN /\ table[1][f] # None /\ table[1][f].ver = row[f].ver
               /\ binding[f] = [ver |-> row[f].ver, ok |-> TRUE]
          ELSE table[1][f] = None /\ binding[f] = None

Achieved(f) ==
    CASE f.result = "ok" /\ f.op = "clear" ->
            /\ Len(table) = 1
            /\ \A g \in Forwards : table[1][g] = None /\ binding[g] = None
      [] f.result = "ok" /\ f.op # "clear" -> Agrees
      [] f.result = "error" /\ f.op = "update" -> row[f.fwd] = f.was /\ Agrees
      [] f.result = "error" /\ f.op = "create" ->
            \A i \in DOMAIN table : table[i][f.fwd] = None
      [] OTHER -> TRUE

\* Whatever earlier overlaps, failures and restarts have left on the node and
\* in the bindings, a request that runs alone and is answered leaves them as
\* the rows say; an update that fails is undone on both.
UndisturbedAgrees == \A p \in Procs :
    proc[p].pc = "done" /\ proc[p].alone => Achieved(proc[p])

\* Bytes of an applied rule beyond the count that is paid for.
Due(f) ==
    /\ Len(table) = 1 /\ table[1][f] # None
    /\ binding[f] # None /\ binding[f].ok
    /\ base[f] # None /\ base[f].ver = binding[f].ver
    /\ base[f].bytes < table[1][f].bytes

\* The node still runs, and the bindings still list, a forward that is gone.
Leftover(f) ==
    /\ life[f] = "gone" /\ binding[f] # None /\ binding[f].ok
    /\ \E i \in DOMAIN table : table[i][f] # None

\* What a rule has counted is charged in the end, or the rule is replaced: no
\* failed round, deleted or unknown forward, nor restart stops the collection,
\* except a deleted forward whose rule is left on the node.
Settled == \A f \in Forwards :
    Due(f) ~> ~Due(f) \/ \E g \in Forwards : Leftover(g)

\* A forward that is paused, and stays so, is taken off the node.
PausedGoesSilent == \A f \in Forwards :
    (life[f] = "there" /\ ~row[f].on) ~>
        (Active(f) \/ \A i \in DOMAIN table : table[i][f] = None)
=============================================================================

---------------------------- MODULE TrafficReport ----------------------------
(***************************************************************************)
(* The way of a user's bytes from the connection that moves them to the     *)
(* panel's two ledgers.  On the agent every service counts                  *)
(* (observer/stats/stats.go), its observer hands the count to a cache of    *)
(* the process every five seconds (service/service.go), and one reporter    *)
(* empties the cache and posts it (service/global_traffic_manager.go,       *)
(* service/traffic_reporter.go).  On the panel a handler adds what it is    *)
(* sent to the flow counters and to the quota (http/handler/handler.go,     *)
(* flow_upload_batch.go).                                                   *)
(*                                                                         *)
(* A chunk is some bytes a connection has moved, and a counter is the set   *)
(* of chunks it has counted: adding is union and subtracting what was read  *)
(* is difference.  A ledger counts how often it has added each chunk.       *)
(*                                                                         *)
(* Abstractions: the two directions are one, for every step treats them     *)
(* alike; ratios belong to no step here; a service's observer accepts every *)
(* event (nothing is registered under "console"); the two addresses of the  *)
(* panel are tries in whatever order; the handler's last part, enforcement, *)
(* is QuotaPolicy, and the services it deletes are among those of Delete.   *)
(***************************************************************************)
EXTENDS Naturals, FiniteSets

CONSTANTS
    Services,   \* instances: a service that is updated is another one
    Names,
    Name,       \* the name of each service
    Chunks,
    Of,         \* the service that moves each chunk
    Handlers,   \* goroutines of the panel that serve uploads
    NoHandler,
    Addresses,  \* how many addresses of the panel the agent tries
    Faults,     \* what may go wrong
    MaxFaults   \* bound: how often, in one behaviour

ASSUME NamesAssumption ==
    Name \in [Services -> Names] /\ Of \in [Chunks -> Services]
ASSUME HandlerAssumption == NoHandler \notin Handlers
ASSUME BoundAssumption ==
    /\ Faults \subseteq {"request", "answer", "storage", "agent", "panel"}
    /\ MaxFaults \in Nat /\ Addresses \in Nat \ {0}

VARIABLES
    state,    \* of each service
    moved,    \* chunks that were moved
    raising,  \* chunks counted, the updated flag not raised for them yet
    bytes,    \* the counter of each service
    updated,  \* the flag of each service
    obs,      \* the observer of each service
    entries,  \* names with an entry in the cache
    cache,    \* what the entries have accumulated
    report,   \* the reporter
    upload,   \* the handlers
    known,    \* names whose forward the panel has
    flow, quota,  \* the ledgers
    unanswered,   \* history: chunks posted with no answer in time
    faults    \* what has gone wrong so far

svcs   == <<state, moved, raising, bytes, updated, obs>>
panel  == <<upload, known, flow, quota>>
vars   == <<svcs, entries, cache, report, panel, unanswered, faults>>

NameOf(c) == Name[Of[c]]
Registered == {Name[s] : s \in {t \in Services : state[t] = "serving"}}

Views   == [pc : {"idle", "check", "add", "get", "store", "gone"},
            seen : SUBSET Chunks, rest : SUBSET Chunks]
Reports == [pc : {"idle", "send", "wait"}, items : SUBSET Chunks,
            left : 0 .. Addresses - 1, at : Handlers \cup {NoHandler}]
Uploads == [pc : {"idle", "look", "flow", "quota", "done"}, items : SUBSET Chunks]

TypeOK ==
    /\ state \in [Services -> {"new", "serving", "closing", "ended"}]
    /\ moved \subseteq Chunks /\ raising \subseteq Chunks
    /\ bytes \in [Services -> SUBSET Chunks] /\ updated \in [Services -> BOOLEAN]
    /\ obs \in [Services -> Views]
    /\ entries \subseteq Names /\ cache \subseteq Chunks
    /\ report \in Reports
    /\ upload \in [Handlers -> Uploads]
    /\ known \subseteq Names
    /\ flow \in [Chunks -> Nat] /\ quota \in [Chunks -> Nat]
    /\ unanswered \subseteq Chunks
    /\ faults \in 0 .. MaxFaults

Watching == [pc |-> "idle", seen |-> {}, rest |-> {}]
Silent   == [pc |-> "idle", items |-> {}, left |-> 0, at |-> NoHandler]
Free     == [pc |-> "idle", items |-> {}]

Init ==
    /\ state = [s \in Services |-> "new"]
    /\ moved = {} /\ raising = {}
    /\ bytes = [s \in Services |-> {}] /\ updated = [s \in Services |-> FALSE]
    /\ obs = [s \in Services |-> Watching]
    /\ entries = {} /\ cache = {}
    /\ report = Silent
    /\ upload = [h \in Handlers |-> Free]
    /\ known = Names
    /\ flow = [c \in Chunks |-> 0] /\ quota = [c \in Chunks |-> 0]
    /\ unanswered = {} /\ faults = 0

Fault(kind) ==
    kind \in Faults /\ faults < MaxFaults /\ faults' = faults + 1

-----------------------------------------------------------------------------
(* The services come and go.                                               *)

Register(s) ==
    /\ state[s] = "new" /\ Name[s] \notin Registered
    /\ state' = [state EXCEPT ![s] = "serving"]
    /\ UNCHANGED <<moved, raising, bytes, updated, obs, entries, cache, report, panel,
                   unanswered, faults>>

\* An update or a pause: the listener is closed, open connections go on.
Unregister(s) ==
    /\ state[s] = "serving"
    /\ state' = [state EXCEPT ![s] = "closing"]
    /\ UNCHANGED <<moved, raising, bytes, updated, obs, entries, cache, report, panel,
                   unanswered, faults>>

Closing(n) ==
    [s \in Services |-> IF Name[s] = n /\ state[s] = "serving" THEN "closing" ELSE state[s]]

\* (mutant) The entry goes with what it holds.
DeleteCached(n) ==
    /\ n \in Registered \cup entries
    /\ state' = Closing(n)
    /\ entries' = entries \ {n}
    /\ cache' = {c \in cache : NameOf(c) # n}
    /\ UNCHANGED <<moved, raising, bytes, updated, obs, report, panel, unanswered, faults>>

\* DeleteService: RemoveServices drops the entry unless it still holds traffic.
Delete(n) ==
    /\ n \in Registered \cup entries
    /\ state' = Closing(n)
    /\ entries' = IF \E c \in cache : NameOf(c) = n THEN entries ELSE entries \ {n}
    /\ UNCHANGED <<moved, raising, bytes, updated, obs, cache, report, panel, unanswered,
                   faults>>

\* The last connection is closed and the context cancelled.
End(s) ==
    /\ state[s] = "closing" /\ \A c \in raising : Of[c] # s
    /\ state' = [state EXCEPT ![s] = "ended"]
    /\ UNCHANGED <<moved, raising, bytes, updated, obs, entries, cache, report, panel,
                   unanswered, faults>>

\* A connection reads or writes: the count first, then the flag.
Move(c) ==
    /\ c \notin moved /\ state[Of[c]] \in {"serving", "closing"}
    /\ moved' = moved \cup {c} /\ raising' = raising \cup {c}
    /\ bytes' = [bytes EXCEPT ![Of[c]] = @ \cup {c}]
    /\ UNCHANGED <<state, updated, obs, entries, cache, report, panel, unanswered, faults>>

Raise(c) ==
    /\ c \in raising
    /\ raising' = raising \ {c}
    /\ updated' = [updated EXCEPT ![Of[c]] = TRUE]
    /\ UNCHANGED <<state, moved, bytes, obs, entries, cache, report, panel, unanswered, faults>>

-----------------------------------------------------------------------------
(* observeStats: the flag is swapped and the count read (what happens in     *)
(* between might as well have happened before or after), the cache is told,  *)
(* then the count is read again and what is new of it stored.                *)

Tick(s) ==
    /\ state[s] # "new" /\ obs[s].pc = "idle" /\ updated[s]
    /\ updated' = [updated EXCEPT ![s] = FALSE]
    /\ obs' = IF bytes[s] = {} THEN obs
              ELSE [obs EXCEPT ![s] = [pc |-> "check", seen |-> bytes[s], rest |-> {}]]
    /\ UNCHANGED <<state, moved, raising, bytes, entries, cache, report, panel, unanswered,
                   faults>>

\* AddTraffic drops what belongs to no registered service.
Check(s) ==
    /\ obs[s].pc = "check"
    /\ obs' = [obs EXCEPT ![s].pc = IF Name[s] \in Registered THEN "add" ELSE "get"]
    /\ UNCHANGED <<state, moved, raising, bytes, updated, entries, cache, report, panel,
                   unanswered, faults>>

AddTraffic(s) ==
    /\ obs[s].pc = "add"
    /\ entries' = entries \cup {Name[s]} /\ cache' = cache \cup obs[s].seen
    /\ obs' = [obs EXCEPT ![s].pc = "get"]
    /\ UNCHANGED <<state, moved, raising, bytes, updated, report, panel, unanswered, faults>>

GetRest(s) ==
    /\ obs[s].pc = "get"
    /\ obs' = [obs EXCEPT ![s].pc = "store", ![s].rest = bytes[s] \ obs[s].seen]
    /\ UNCHANGED <<state, moved, raising, bytes, updated, entries, cache, report, panel,
                   unanswered, faults>>

\* (mutant) The count is left as it is.
ResetNothing(s) ==
    /\ obs[s].pc = "store"
    /\ obs' = [obs EXCEPT ![s] = Watching]
    /\ UNCHANGED <<state, moved, raising, bytes, updated, entries, cache, report, panel,
                   unanswered, faults>>

\* (mutant) The flag is lowered when all is done, not before the count is read.
ResetLowersFlag(s) ==
    /\ obs[s].pc = "store"
    /\ bytes' = [bytes EXCEPT ![s] = obs[s].rest]
    /\ updated' = [updated EXCEPT ![s] = FALSE]
    /\ obs' = [obs EXCEPT ![s] = Watching]
    /\ UNCHANGED <<state, moved, raising, entries, cache, report, panel, unanswered, faults>>

\* What was counted since GetRest is overwritten.
ResetTraffic(s) ==
    /\ obs[s].pc = "store"
    /\ bytes' = [bytes EXCEPT ![s] = obs[s].rest]
    /\ obs' = [obs EXCEPT ![s] = Watching]
    /\ UNCHANGED <<state, moved, raising, updated, entries, cache, report, panel, unanswered,
                   faults>>

\* The observer sees that the context is done.
Exit(s) ==
    /\ state[s] = "ended" /\ obs[s].pc = "idle"
    /\ obs' = [obs EXCEPT ![s].pc = "gone"]
    /\ bytes' = [bytes EXCEPT ![s] = {}]
    /\ UNCHANGED <<state, moved, raising, updated, entries, cache, report, panel, unanswered,
                   faults>>

Observe(s) == Tick(s) \/ Check(s) \/ AddTraffic(s) \/ GetRest(s) \/ ResetTraffic(s)

-----------------------------------------------------------------------------
(* collectAndReport and postJSONWithFallback.                               *)

Sending(items) ==
    IF items = {} THEN report
    ELSE [pc |-> "send", items |-> items, left |-> Addresses - 1, at |-> NoHandler]

\* (mutant) Entries of services that are gone are passed over.
CollectRegistered ==
    /\ report.pc = "idle" /\ entries # {}
    /\ cache' = {c \in cache : NameOf(c) \notin Registered}
    /\ report' = Sending({c \in cache : NameOf(c) \in Registered})
    /\ UNCHANGED <<svcs, entries, panel, unanswered, faults>>

\* Under the lock every entry is emptied, and dropped if its service is gone.
Collect ==
    /\ report.pc = "idle" /\ entries # {}
    /\ cache' = {} /\ entries' = entries \cap Registered
    /\ report' = Sending(cache)
    /\ UNCHANGED <<svcs, panel, unanswered, faults>>

\* The next address, or the traffic is given up.
AnotherTry ==
    IF report.left = 0 THEN Silent
    ELSE [report EXCEPT !.pc = "send", !.left = @ - 1, !.at = NoHandler]

Post(h) ==
    /\ report.pc = "send" /\ upload[h].pc = "idle"
    /\ upload' = [upload EXCEPT ![h] = [pc |-> "look", items |-> report.items]]
    /\ report' = [report EXCEPT !.pc = "wait", !.at = h]
    /\ UNCHANGED <<svcs, entries, cache, known, flow, quota, unanswered, faults>>

\* It cannot be delivered, or what answers is not the panel.
PostFails ==
    /\ report.pc = "send" /\ Fault("request")
    /\ report' = AnotherTry
    /\ UNCHANGED <<svcs, entries, cache, panel, unanswered>>

\* The answer is lost, or later than five seconds; the handler does not care.
AnswerLost ==
    /\ report.pc = "wait" /\ Fault("answer")
    /\ unanswered' = unanswered \cup report.items
    /\ report' = AnotherTry
    /\ UNCHANGED <<svcs, entries, cache, panel>>

-----------------------------------------------------------------------------
(* flowUpload.                                                             *)

\* The forwards of the items are looked up; what has none is not counted, and
\* without a lookup nothing is.
Look(h) ==
    /\ upload[h].pc = "look"
    /\ \/ /\ upload' = [upload EXCEPT ![h] =
                          [pc |-> "flow", items |-> {c \in @.items : NameOf(c) \in known}]]
          /\ UNCHANGED faults
       \/ /\ Fault("storage")
          /\ upload' = [upload EXCEPT ![h] = [pc |-> "flow", items |-> {}]]
    /\ UNCHANGED <<svcs, entries, cache, report, known, flow, quota, unanswered>>

Add(ledger, items) == [c \in Chunks |-> IF c \in items THEN ledger[c] + 1 ELSE ledger[c]]

\* One transaction; when it fails, one for each forward or user, each of which
\* may fail.
Stored(items, added) ==
    \/ added = items /\ UNCHANGED faults
    \/ /\ Fault("storage")
       /\ \E names \in SUBSET Names : added = {c \in items : NameOf(c) \in names}

AddFlow(h) ==
    /\ upload[h].pc = "flow"
    /\ \E added \in SUBSET upload[h].items :
          Stored(upload[h].items, added) /\ flow' = Add(flow, added)
    /\ upload' = [upload EXCEPT ![h].pc = "quota"]
    /\ UNCHANGED <<svcs, entries, cache, report, known, quota, unanswered>>

AddQuota(h) ==
    /\ upload[h].pc = "quota"
    /\ \E added \in SUBSET upload[h].items :
          Stored(upload[h].items, added) /\ quota' = Add(quota, added)
    /\ upload' = [upload EXCEPT ![h].pc = "done"]
    /\ UNCHANGED <<svcs, entries, cache, report, known, flow, unanswered>>

\* The answer is "ok" whatever has failed.
Answer(h) ==
    /\ upload[h].pc = "done"
    /\ upload' = [upload EXCEPT ![h] = Free]
    /\ report' = IF report.pc = "wait" /\ report.at = h THEN Silent ELSE report
    /\ UNCHANGED <<svcs, entries, cache, known, flow, quota, unanswered, faults>>

Serve(h) == Look(h) \/ AddFlow(h) \/ AddQuota(h) \/ Answer(h)

\* A forward is deleted; its services may still report.
Forget(n) ==
    /\ n \in known
    /\ known' = known \ {n}
    /\ UNCHANGED <<svcs, entries, cache, report, upload, flow, quota, unanswered, faults>>

-----------------------------------------------------------------------------
(* Crashes.                                                                *)

AgentCrash ==
    /\ Fault("agent")
    /\ state' = [s \in Services |-> IF state[s] = "closing" THEN "ended" ELSE state[s]]
    /\ obs' = [s \in Services |-> IF state[s] \in {"closing", "ended"}
                                  THEN [Watching EXCEPT !.pc = "gone"] ELSE Watching]
    /\ bytes' = [s \in Services |-> {}] /\ updated' = [s \in Services |-> FALSE]
    /\ raising' = {} /\ entries' = {} /\ cache' = {}
    /\ report' = Silent
    /\ UNCHANGED <<moved, panel, unanswered>>

PanelCrash ==
    /\ Fault("panel")
    /\ upload' = [h \in Handlers |-> Free]
    /\ IF report.pc = "wait"
       THEN report' = AnotherTry /\ unanswered' = unanswered \cup report.items
       ELSE UNCHANGED <<report, unanswered>>
    /\ UNCHANGED <<svcs, entries, cache, known, flow, quota>>

Next ==
    \/ \E s \in Services : Register(s) \/ Unregister(s) \/ End(s) \/ Observe(s) \/ Exit(s)
    \/ \E n \in Names : Delete(n) \/ Forget(n)
    \/ \E c \in Chunks : Move(c) \/ Raise(c)
    \/ Collect \/ PostFails \/ AnswerLost
    \/ \E h \in Handlers : Post(h) \/ Serve(h)
    \/ AgentCrash \/ PanelCrash

Spec == Init /\ [][Next]_vars

\* Tickers tick and goroutines are scheduled; the panel serves a request.
LiveSpec ==
    /\ Spec
    /\ \A s \in Services : WF_vars(Observe(s))
    /\ \A c \in Chunks : WF_vars(Raise(c))
    /\ WF_vars(Collect)
    /\ WF_vars(\E h \in Handlers : Post(h))
    /\ \A h \in Handlers : WF_vars(Serve(h))

-----------------------------------------------------------------------------
(* Properties.                                                             *)

\* The agent has the chunk to report: counted and not handed on yet, carried by
\* the observer, in the cache, or about to be posted.
OnAgent(c) ==
    \/ \E s \in Services :
          IF obs[s].pc \in {"get", "store"} THEN c \in bytes[s] \ obs[s].seen
          ELSE c \in bytes[s]
    \/ c \in cache
    \/ report.pc = "send" /\ c \in report.items

\* A ledger can still get the chunk: from the agent, or from a handler that
\* has not come to it.
FlowPending(c) ==
    OnAgent(c) \/ \E h \in Handlers : upload[h].pc \in {"look", "flow"} /\ c \in upload[h].items
QuotaPending(c) ==
    OnAgent(c) \/ \E h \in Handlers : upload[h].pc \in {"look", "flow", "quota"} /\ c \in upload[h].items

\* No byte is charged twice, in either ledger, as long as each report of it
\* was answered in time: not by an observer that reads while connections
\* count, a service that is replaced or deleted while it is being observed, a
\* collection between two of the observer's steps, or the crash of either side.
\* One whose report was not answered is charged at most once for each address
\* that the report is posted to.
BilledOnce == \A c \in Chunks :
    LET most == IF c \in unanswered THEN Addresses ELSE 1
    IN  flow[c] <= most /\ quota[c] <= most

\* A byte in a counter raises the flag, or has raised it, or is with the observer,
\* who is there to see it.
CountersWatched == \A s \in Services : \A c \in bytes[s] :
    /\ \/ c \in raising \/ updated[s]
       \/ obs[s].pc \in {"check", "add", "get", "store"} /\ c \in obs[s].seen
    /\ state[s] # "new" /\ obs[s].pc # "gone"

\* The reporter finds what the cache holds.
CacheEntered == \A c \in cache : NameOf(c) \in entries

\* A report that waits is with a handler.
AnswerComing == report.pc = "wait" => report.at \in Handlers /\ upload[report.at].pc # "idle"

\* Nothing waits for something that nobody is about to do: no flag is lowered
\* for bytes that were not read (observeStats swaps it first), no entry is dropped
\* that holds traffic (RemoveServices), no reporter waits for a handler that has
\* died.  Were one of these false, traffic would stay on the agent for good.
NothingStranded == CountersWatched /\ CacheEntered /\ AnswerComing

\* What no ledger can get any more without having had it.
Uncharged(c) ==
    \/ FlowPending(c) /\ ~FlowPending(c)' /\ flow'[c] = 0
    \/ QuotaPending(c) /\ ~QuotaPending(c)' /\ quota'[c] = 0

\* The ways in which the code loses a chunk although nothing fails: it is
\* counted between the observer's two last steps; the observer hands it on
\* when its service is not registered, or sees first that its context is done;
\* the panel has no forward for it any more.
Forfeited(c) ==
    \/ \E s \in Services :
          \/ obs[s].pc = "store" /\ c \in bytes[s] \ (obs[s].rest \cup obs[s].seen)
          \/ obs[s].pc = "check" /\ c \in obs[s].seen /\ Name[s] \notin Registered
          \/ state[s] = "ended" /\ obs[s].pc = "idle" /\ c \in bytes[s]
    \/ NameOf(c) \notin known /\ \E h \in Handlers : upload[h].pc = "look" /\ c \in upload[h].items

\* Traffic is lost by a fault or in one of those ways only.  In particular what
\* a deleted service has left in the cache is reported (RemoveServices,
\* collectAndReport), and a service replaced under its name loses nothing.
LossHasCause ==
    [][\A c \in Chunks : Uncharged(c) => faults' > faults \/ Forfeited(c)]_vars

\* No byte waits for good: a counter that holds some is read, an entry whose
\* service is gone is emptied too, and a report ends.
Settled == \A c \in Chunks : QuotaPending(c) ~> ~QuotaPending(c)
=============================================================================

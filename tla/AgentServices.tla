---------------------------- MODULE AgentServices ----------------------------
(***************************************************************************)
(* The service commands of an agent (go-gost/x/socket/service.go): the      *)
(* registry of running services, the configuration in memory and the file   *)
(* that a restarted agent reads (go-gost/x/config, go-gost/program.go).     *)
(*                                                                         *)
(* commandMutex runs one command at a time, so a command is one step, with  *)
(* the failures of its parts and its rollback inside it.  A process that    *)
(* dies inside a command leaves either the old or the new file, which is    *)
(* what it leaves when it dies before or after the command.                 *)
(*                                                                         *)
(* The configuration reports run outside that mutex, and persist() holds no *)
(* lock from its encoding to its rename: a report reads the configuration   *)
(* in one step, may see parts of what a command changes under it, and       *)
(* replaces the file in a later one.                                        *)
(*                                                                         *)
(* Abstractions: a configuration is a version and its paused mark, a        *)
(* service's port is the service's own.  The panel sends pauses and resumes *)
(* one name at a time and adds a service only for a new forward or after    *)
(* deleting it (control_plane.go 373-384, 479-531, 694-702).  Commands that  *)
(* are refused and change nothing ("not found") are not steps.              *)
(***************************************************************************)
EXTENDS Naturals, Sequences, FiniteSets

CONSTANTS
    Names,      \* service names
    Versions,   \* configurations the panel may send for a service
    None,       \* no configuration, no version
    Lists,      \* the lists of names that AddService and UpdateService carry
    Complete,   \* services whose configuration ParseService does not fill in
    Reporters,  \* the configuration reports that may be under way together
    Faults,     \* what may fail: "parse" a service, "save" the file
    MaxFaults   \* bound: such failures in one behaviour

ASSUME NoneAssumption ==
    None \notin Versions \cup [ver : Versions, paused : BOOLEAN]
             \cup [Names -> [ver : Versions, paused : BOOLEAN] \cup {None}]
ASSUME NamesAssumption == IsFiniteSet(Names)
ASSUME ListAssumption ==
    /\ Lists \subseteq Seq(Names)
    /\ \A ns \in Lists : ns # <<>> /\ \A i, j \in 1 .. Len(ns) : ns[i] = ns[j] => i = j
ASSUME FaultAssumption ==
    Complete \subseteq Names /\ Faults \subseteq {"parse", "save"} /\ MaxFaults \in Nat

VARIABLES
    up,       \* is the agent's process running?
    runtime,  \* the service registry
    conf,     \* config.global: the entry of each name
    disk,     \* the persisted file
    leaked,   \* listeners of services that were parsed and then dropped
    faults,   \* failures so far
    answer,   \* history: the last command and how it was answered
    deleted,  \* history: names whose deletion was confirmed, not configured since
    writing,  \* what each report has read and not yet renamed to the file
    outrun    \* history: names that left memory while a report held them, until
              \* the file is written from memory with no report holding them

vars == <<up, runtime, conf, disk, leaked, faults, answer, deleted, writing, outrun>>

Entries == [ver : Versions, paused : BOOLEAN]
Configs == [Names -> Entries \cup {None}]

\* Registered and serving; closed but still registered; registered with an
\* open listener that nobody serves.
Services == [st : {"serving", "closed", "bound"}, ver : Versions]
Absent == [st |-> "absent", ver |-> None]

Results == {"ok", "error", "rollback failed"}
Answers == [op : {"none", "add", "update", "delete", "pause", "resume", "restart"},
            result : Results]

TypeOK ==
    /\ up \in BOOLEAN
    /\ runtime \in [Names -> Services \cup {Absent}]
    /\ conf \in Configs
    /\ disk \in Configs
    /\ leaked \subseteq Names
    /\ faults \in 0 .. MaxFaults
    /\ answer \in Answers
    /\ deleted \subseteq Names
    /\ writing \in [Reporters -> Configs \cup {None}]
    /\ outrun \subseteq Names

Says(op, result) == answer' = [op |-> op, result |-> result]

Init ==
    /\ up = TRUE
    /\ runtime = [n \in Names |-> Absent]
    /\ conf = [n \in Names |-> None]
    /\ disk = [n \in Names |-> None]
    /\ leaked = {}
    /\ faults = 0
    /\ answer = [op |-> "none", result |-> "ok"]
    /\ deleted = {}
    /\ writing = [r \in Reporters |-> None]
    /\ outrun = {}

-----------------------------------------------------------------------------
(* What the commands are made of.                                          *)

Registered(n) == runtime[n] # Absent

Serving(v) == [st |-> "serving", ver |-> v]

Entry(v, mark) == [ver |-> v, paused |-> mark]

\* A failure of this kind, k times in one command.
Fails(kind, k) ==
    /\ k > 0 => kind \in Faults
    /\ faults + k <= MaxFaults
    /\ faults' = faults + k

\* What a report that held w holds after seeing, of each name, the
\* configuration seen[n] (None: no change of it).  It encodes the entries
\* themselves, and a command changes an entry in place, but an entry that is
\* added or taken out it does not see.
Overwritten(w, seen) ==
    [n \in Names |-> IF w[n] = None \/ seen[n] = None \/ seen[n][n] = None THEN w[n]
                     ELSE seen[n][n]]

\* Memory ends as c, having been each of via in between: a report may begin
\* there, and one under way may see the changes.
Becomes(c, via) ==
    LET after == [r \in Reporters |->
                    IF writing[r] = None THEN {None} \cup via
                    ELSE {Overwritten(writing[r], seen) : seen \in [Names -> via \cup {c, None}]}]
    IN  /\ conf' = c
        /\ writing' \in [Reporters -> UNION {after[r] : r \in Reporters}]
        /\ \A r \in Reporters : writing'[r] \in after[r]

\* Names that c lacks and a report still holds.
StillHeld(c) ==
    {n \in Names : c[n] = None /\ \E r \in Reporters : writing'[r] # None /\ writing'[r][n] # None}

Written(c) == disk' = c /\ outrun' = StillHeld(c)
NotWritten(c) == UNCHANGED disk /\ outrun' = outrun \cup StillHeld(c)

\* config.OnUpdate with a function that makes the configuration c: memory
\* changes first, then the whole of it is written to the file.
Save(c) ==
    /\ Becomes(c, {})
    /\ Written(c)
    /\ UNCHANGED faults

SaveFails(c) ==
    /\ Becomes(c, {})
    /\ NotWritten(c)
    /\ Fails("save", 1)

\* A save of another configuration failed, this one saves c again: it may
\* fail too.
SaveAgain(other, c) ==
    /\ Becomes(c, {other})
    /\ \/ Written(c) /\ Fails("save", 1)
       \/ NotWritten(c) /\ Fails("save", 2)

\* (mutant) A paused service counts as unchanged when its version is the same.
UnchangedByVersion(n, v) ==
    Registered(n) /\ n \in Complete /\ conf[n] # None /\ conf[n].ver = v

\* Registered and configured exactly so.  ParseService fills in the maps a
\* configuration lacks, so one that lacks any never compares equal again.
Unchanged(n, v) == Registered(n) /\ n \in Complete /\ conf[n] = Entry(v, FALSE)

\* (mutant) The rollback serves every service again.
RestoredServing(touched, lost) ==
    [n \in Names |->
        IF n \notin touched THEN runtime[n]
        ELSE IF ~Registered(n) \/ n \in lost THEN Absent
        ELSE Serving(conf[n].ver)]

\* rollbackServiceUpdateRuntimes: what was running is parsed again from the
\* old configuration and served unless that is marked paused; lost are the
\* services that cannot be parsed again.
Restored(touched, lost) ==
    [n \in Names |->
        IF n \notin touched THEN runtime[n]
        ELSE IF ~Registered(n) \/ n \in lost THEN Absent
        ELSE [st |-> IF conf[n].paused THEN "bound" ELSE "serving",
              ver |-> conf[n].ver]]

Updated(todo, v) == [n \in Names |-> IF n \in todo THEN Serving(v) ELSE runtime[n]]

Configured(todo, v) ==
    [n \in Names |-> IF n \in todo THEN Entry(v, FALSE) ELSE conf[n]]

Listed(ns) == {ns[i] : i \in 1 .. Len(ns)}
Before(ns, i) == {ns[j] : j \in 1 .. i - 1}

-----------------------------------------------------------------------------
(* AddService.                                                             *)

Addable(n) == ~Registered(n) /\ conf[n] = None

\* Every service is parsed, which opens its port, then registered and served;
\* an error of the last step, the save, stops none of them.
Add(ns, v) ==
    /\ up
    /\ \A n \in Listed(ns) : Addable(n) /\ n \notin leaked
    /\ runtime' = Updated(Listed(ns), v)
    /\ \/ Save(Configured(Listed(ns), v)) /\ Says("add", "ok")
       \/ SaveFails(Configured(Listed(ns), v)) /\ Says("add", "error")
    /\ deleted' = deleted \ Listed(ns)
    /\ UNCHANGED <<up, leaked>>

\* The i-th service cannot be parsed, or its name is taken: those parsed
\* before it are dropped without being closed.
AddFails(ns, v, i) ==
    /\ up
    /\ \A n \in Before(ns, i) : Addable(n) /\ n \notin leaked
    /\ Registered(ns[i]) \/ conf[ns[i]] = None
    /\ IF Registered(ns[i]) \/ ns[i] \in leaked THEN UNCHANGED faults
       ELSE Fails("parse", 1)
    /\ leaked' = leaked \cup Before(ns, i)
    /\ Says("add", "error")
    /\ UNCHANGED <<up, runtime, conf, disk, deleted, writing, outrun>>

\* The listener of a dropped service is closed when it is garbage collected.
Collect(n) ==
    /\ n \in leaked
    /\ leaked' = leaked \ {n}
    /\ UNCHANGED <<up, runtime, conf, disk, faults, answer, deleted, writing, outrun>>

-----------------------------------------------------------------------------
(* UpdateService.  The refusal of a registered service without configuration *)
(* never happens, see RegisteredIsConfigured.                               *)

Changed(S, v) == {n \in S : ~Unchanged(n, v)}

Update(ns, v) ==
    LET todo == Changed(Listed(ns), v) IN
    /\ up
    /\ todo \cap leaked = {}
    /\ runtime' = Updated(todo, v)
    /\ IF todo = {} THEN UNCHANGED <<conf, disk, faults, writing, outrun>>
       ELSE Save(Configured(todo, v))
    /\ Says("update", "ok")
    /\ deleted' = deleted \ todo
    /\ UNCHANGED <<up, leaked>>

\* (mutant) Only the service that failed is rolled back.
UpdateFailsUndoesOne(ns, v, i) ==
    LET todo    == Changed(Before(ns, i) \cup {ns[i]}, v)
        running == {n \in todo : Registered(n)}
    IN
    /\ up
    /\ ns[i] \in todo
    /\ Before(ns, i) \cap todo \cap leaked = {}
    /\ \E lost \in SUBSET running :
          /\ Fails("parse", Cardinality(lost) + (IF ns[i] \in leaked THEN 0 ELSE 1))
          /\ runtime' = [n \in Names |-> IF n \in todo \ {ns[i]} THEN Serving(v)
                                         ELSE Restored({ns[i]}, lost)[n]]
          /\ Says("update", IF lost = {} THEN "error" ELSE "rollback failed")
    /\ UNCHANGED <<up, conf, disk, leaked, deleted, writing, outrun>>

\* The i-th service, unregistered by now, cannot be parsed: it and those
\* before it are rolled back.
UpdateFails(ns, v, i) ==
    LET todo    == Changed(Before(ns, i) \cup {ns[i]}, v)
        running == {n \in todo : Registered(n)}
    IN
    /\ up
    /\ ns[i] \in todo
    /\ Before(ns, i) \cap todo \cap leaked = {}
    /\ \E lost \in SUBSET running :
          /\ Fails("parse", Cardinality(lost) + (IF ns[i] \in leaked THEN 0 ELSE 1))
          /\ runtime' = Restored(todo, lost)
          /\ Says("update", IF lost = {} THEN "error" ELSE "rollback failed")
    /\ UNCHANGED <<up, conf, disk, leaked, deleted, writing, outrun>>

\* Every service was replaced, the save fails: all are rolled back and the
\* old configuration is saved again.
UpdateUnsaved(ns, v) ==
    LET todo    == Changed(Listed(ns), v)
        running == {n \in todo : Registered(n)}
    IN
    /\ up
    /\ todo # {} /\ todo \cap leaked = {}
    /\ \E lost \in SUBSET running, again \in {1, 2} :
          /\ "save" \in Faults /\ (lost # {} => "parse" \in Faults)
          /\ faults + Cardinality(lost) + again <= MaxFaults
          /\ faults' = faults + Cardinality(lost) + again
          /\ runtime' = Restored(todo, lost)
          /\ Becomes(conf, {Configured(todo, v)})
          /\ IF again = 1 THEN Written(conf) ELSE NotWritten(conf)
          /\ Says("update", IF lost = {} /\ again = 1 THEN "error" ELSE "rollback failed")
    /\ UNCHANGED <<up, leaked, deleted>>

-----------------------------------------------------------------------------
(* DeleteService, PauseService, ResumeService.                              *)

Without(ns) == [n \in Names |-> IF n \in Listed(ns) THEN None ELSE conf[n]]

\* (mutant) The entry leaves memory, the file is not written.
DeleteUnsaved(ns) ==
    /\ up
    /\ runtime' = [n \in Names |-> IF n \in Listed(ns) THEN Absent ELSE runtime[n]]
    /\ Becomes(Without(ns), {}) /\ NotWritten(Without(ns)) /\ Says("delete", "ok")
    /\ deleted' = deleted \cup Listed(ns)
    /\ UNCHANGED <<up, leaked, faults>>

Delete(ns) ==
    /\ up
    /\ runtime' = [n \in Names |-> IF n \in Listed(ns) THEN Absent ELSE runtime[n]]
    /\ \/ /\ Save(Without(ns)) /\ Says("delete", "ok")
          /\ deleted' = deleted \cup Listed(ns)
       \/ /\ SaveFails(Without(ns)) /\ Says("delete", "error")
          /\ UNCHANGED deleted
    /\ UNCHANGED <<up, leaked>>

\* (mutant) The mark takes the place of the configuration.
MarkedOnly(n, mark) == [conf EXCEPT ![n] = Entry(None, mark)]

Marked(n, mark) == [conf EXCEPT ![n] = Entry(@.ver, mark)]

Stopped(n) == [runtime EXCEPT ![n] = [@ EXCEPT !.st = "closed"]]

\* (mutant) The mark is not made when the file cannot be written.
PauseForgetsMark(n) ==
    /\ up
    /\ Registered(n) /\ conf[n] # None
    /\ runtime' = Stopped(n)
    /\ \/ Save(Marked(n, TRUE)) /\ Says("pause", "ok")
       \/ SaveFails(conf) /\ Says("pause", "error")
    /\ UNCHANGED <<up, leaked, deleted>>

\* The service is closed, not unregistered.  When the save fails,
\* rollbackPausedServices tries to register a new service under the name,
\* which is still taken, and gives up: service and mark stay as they are.
Pause(n) ==
    /\ up
    /\ Registered(n) /\ conf[n] # None
    /\ runtime' = Stopped(n)
    /\ \/ Save(Marked(n, TRUE)) /\ Says("pause", "ok")
       \/ SaveFails(Marked(n, TRUE)) /\ Says("pause", "error")
    /\ UNCHANGED <<up, leaked, deleted>>

\* A service without the mark is left alone, whatever its state, and the file
\* is written all the same.
Resume(n) ==
    /\ up
    /\ Registered(n) /\ conf[n] # None
    /\ IF conf[n].paused
       THEN /\ runtime' = [runtime EXCEPT ![n] = Serving(conf[n].ver)]
            /\ Save(Marked(n, FALSE)) /\ Says("resume", "ok")
       ELSE /\ UNCHANGED runtime
            /\ \/ Save(conf) /\ Says("resume", "ok")
               \/ SaveFails(conf) /\ Says("resume", "error")
    /\ UNCHANGED <<up, leaked, deleted>>

\* Closed and unregistered, the service cannot be parsed again: it is gone.
ResumeFails(n) ==
    /\ up
    /\ Registered(n) /\ conf[n] # None /\ conf[n].paused
    /\ Fails("parse", 1)
    /\ runtime' = [runtime EXCEPT ![n] = Absent]
    /\ Says("resume", "rollback failed")
    /\ UNCHANGED <<up, conf, disk, leaked, deleted, writing, outrun>>

\* It serves again but the save fails: rollbackResumedServices closes it and
\* puts the mark back.
ResumeUnsaved(n) ==
    /\ up
    /\ Registered(n) /\ conf[n] # None /\ conf[n].paused
    /\ runtime' = [runtime EXCEPT ![n] = [st |-> "closed", ver |-> conf[n].ver]]
    /\ SaveAgain(Marked(n, FALSE), conf) /\ Says("resume", "error")
    /\ UNCHANGED <<up, leaked, deleted>>

-----------------------------------------------------------------------------
(* The rest of the agent.                                                  *)

\* The other commands save the whole configuration, one at a time with these.
SaveOther ==
    /\ up
    /\ disk # conf
    /\ disk' = conf
    /\ outrun' = {n \in outrun : \E r \in Reporters : writing[r] # None /\ writing[r][n] # None}
    /\ UNCHANGED <<up, runtime, conf, leaked, faults, answer, deleted, writing>>

\* A configuration report (getConfigData) saves too, beside the commands: it
\* encodes the configuration,
Encode(r) ==
    /\ up
    /\ writing[r] = None
    /\ writing' = [writing EXCEPT ![r] = conf]
    /\ UNCHANGED <<up, runtime, conf, disk, leaked, faults, answer, deleted, outrun>>

\* and later replaces the file by what it encoded, however old that is now.
Rename(r) ==
    /\ up
    /\ writing[r] # None
    /\ disk' = writing[r]
    /\ writing' = [writing EXCEPT ![r] = None]
    /\ UNCHANGED <<up, runtime, conf, leaked, faults, answer, deleted, outrun>>

\* Its file cannot be written: the error is dropped.
WriteFails(r) ==
    /\ up
    /\ writing[r] # None
    /\ writing' = [writing EXCEPT ![r] = None]
    /\ UNCHANGED <<up, runtime, conf, disk, leaked, faults, answer, deleted, outrun>>

\* The process dies; all that is left is the file.
Crash ==
    /\ up
    /\ up' = FALSE
    /\ runtime' = [n \in Names |-> Absent]
    /\ conf' = disk
    /\ leaked' = {}
    /\ writing' = [r \in Reporters |-> None]
    /\ UNCHANGED <<disk, faults, answer, deleted, outrun>>

\* The file is loaded and every service in it is served, those marked paused
\* too, and a deleted one that the file has again.  When one cannot be parsed
\* the process exits and is started again.
Boot ==
    /\ ~up
    /\ up' = TRUE
    /\ runtime' = [n \in Names |-> IF disk[n] = None THEN Absent
                                   ELSE Serving(disk[n].ver)]
    /\ deleted' = {n \in deleted : disk[n] = None}
    /\ outrun' = {}
    /\ Says("restart", "ok")
    /\ UNCHANGED <<conf, disk, leaked, faults, writing>>

UpdateCommand(ns, v) ==
    \/ Update(ns, v) \/ UpdateUnsaved(ns, v)
    \/ \E i \in 1 .. Len(ns) : UpdateFails(ns, v, i)

AddCommand(ns, v) ==
    \/ Add(ns, v)
    \/ \E i \in 1 .. Len(ns) : AddFails(ns, v, i)

Next ==
    \/ \E ns \in Lists, v \in Versions : AddCommand(ns, v) \/ UpdateCommand(ns, v)
    \/ \E ns \in Lists : Delete(ns)
    \/ \E n \in Names : Pause(n) \/ Resume(n) \/ ResumeFails(n) \/ ResumeUnsaved(n)
                        \/ Collect(n)
    \/ \E r \in Reporters : Encode(r) \/ Rename(r) \/ WriteFails(r)
    \/ SaveOther \/ Crash \/ Boot

Spec == Init /\ [][Next]_vars

-----------------------------------------------------------------------------
(* Properties.                                                             *)

\* Whatever fails, a registered service has an entry in the configuration: it
\* can be paused, resumed and updated, and the refusals of updateServices and
\* pauseServices that would leave a request half done are dead code.
RegisteredIsConfigured == \A n \in Names : Registered(n) => conf[n] # None

\* A registered service that does not serve carries the paused mark, even
\* after rollbacks that failed half way: otherwise resumeServices would take
\* it for running, skip it and answer success.
SilentIsMarked ==
    \A n \in Names : Registered(n) /\ runtime[n].st # "serving" => conf[n].paused

\* The configuration in memory is the one that runs: rollbacks never leave an
\* old service under a new entry or the other way round.
RunsWhatIsConfigured ==
    \A n \in Names : Registered(n) /\ conf[n] # None => runtime[n].ver = conf[n].ver

\* Both: what is registered is configured, and as it runs.
RegistryIsConfigured == RegisteredIsConfigured /\ RunsWhatIsConfigured

\* Once a deletion has been confirmed nothing but a command that configures
\* the service brings it back while the agent runs: no rollback, no later save
\* and no report.  The file, and so a restart, has it again only when a report
\* held it as it left memory (a deletion, or the rollback of an update that
\* had configured it anew) and renamed afterwards: persist() locks nothing
\* from its encoding to its rename (deleteServices,
\* restoreServiceUpdateConfigs, getConfigData).
DeletedStaysDeleted ==
    \A n \in deleted :
        /\ ~Registered(n)
        /\ up => conf[n] = None
        /\ n \notin outrun => conf[n] = None /\ disk[n] = None

\* An UpdateService that fails and does not report a failed rollback has
\* changed nothing: each service that served, and was not marked paused,
\* serves the same configuration, and nothing new runs
\* (rollbackServiceUpdateRuntimes, restoreServiceUpdateConfigs).
FailedUpdateUndone ==
    [][answer' # answer /\ answer' = [op |-> "update", result |-> "error"] =>
          /\ conf' = conf
          /\ \A n \in Names :
                /\ runtime[n].st = "serving" /\ ~conf[n].paused => runtime'[n] = runtime[n]
                /\ ~Registered(n) => runtime'[n] = Absent]_vars

\* When UpdateService answers success, every service it names serves what it
\* says, those it skipped as unchanged too (serviceConfigUnchanged): a service
\* left silent or old by an earlier rollback is never taken for unchanged.
UpdatedServes ==
    [][\A ns \in Lists, v \in Versions :
          Update(ns, v) => \A n \in Listed(ns) : runtime'[n] = Serving(v)]_vars

\* The answer to an UpdateService is true, whether it is success or an error.
UpdateAnswerIsTrue == FailedUpdateUndone /\ UpdatedServes

\* While the agent runs, a silent service starts to serve only as its paused
\* mark goes: the rollback of an update does not wake what was paused.
WakesUnmarked ==
    [][\A n \in Names :
          runtime[n].st \in {"closed", "bound"} /\ runtime'[n].st = "serving"
             => ~conf'[n].paused]_vars
=============================================================================

----------------------------- MODULE QuotaPolicy -----------------------------
(***************************************************************************)
(* The daily and monthly traffic quota of one user of the panel            *)
(* (handler/user_quota.go, handler/flow_upload_batch.go, the forward pause  *)
(* and resume handlers, repo/repository_user_quota.go).                    *)
(*                                                                         *)
(* HTTP handlers run concurrently and share only the database: a handler   *)
(* is a process whose steps are its database transactions and its node     *)
(* commands.  An upload adds the bytes a node reports to the user's row    *)
(* and, when the row it read back is over a limit, pauses the user's       *)
(* active forwards one by one and then marks the user disabled, recording   *)
(* which forwards it paused.  A reset by the administrator and the roll at  *)
(* 00:05 clear the mark in one transaction and then resume the recorded     *)
(* forwards one by one.                                                    *)
(*                                                                         *)
(* Abstractions: one user, one unit per upload size, usage kept up to       *)
(* MaxUsed (beyond the largest limit the exact value decides nothing), the  *)
(* runtime on the node left out (only whether a command failed matters to   *)
(* the code), every other reason that forbids a resume (account disabled    *)
(* or expired, total traffic, number of forwards) a free choice.            *)
(***************************************************************************)
EXTENDS Naturals, FiniteSets

CONSTANTS
    Handlers,         \* concurrent HTTP request goroutines
    Job,              \* the daily maintenance goroutine
    Forwards,         \* the user's forwards
    NoForward,        \* no forward is being handled
    Limits,           \* the limits an administrator may configure
    Sizes,            \* billed units one upload may carry
    MaxUsed,          \* bound: usage is kept up to this value
    LastTime,         \* bound: the last day and the last month
    MaxCrashes,       \* bound: restarts of the panel
    Faults,           \* whether storage and node commands may fail
    SingleConnection  \* SQLite: one connection, so transactions do not overlap

Windows == {"daily", "monthly"}

ASSUME JobAssumption == Job \notin Handlers
ASSUME ForwardAssumption == NoForward \notin Forwards
ASSUME BoundAssumption == MaxUsed \in Nat /\ LastTime \in Nat /\ MaxCrashes \in Nat
ASSUME LimitAssumption ==
    /\ Limits \subseteq [Windows -> 0 .. MaxUsed]
    /\ Limits # {}
ASSUME SizeAssumption == Sizes \subseteq Nat
ASSUME ModeAssumption == Faults \subseteq BOOLEAN /\ SingleConnection \in BOOLEAN

Processes == Handlers \cup {Job}
Times == [Windows -> 0 .. LastTime]

VARIABLES
    quota,    \* the user_quota row
    status,   \* forward.status of each forward, TRUE for 1
    clock,    \* the current day and month
    proc,     \* what each process is doing, with its local variables
    carried,  \* history: units uploads stamped with a day or month have carried
    owed,     \* history: forwards the quota paused and nobody has handled since
    crashes   \* restarts so far

vars == <<quota, status, clock, proc, carried, owed, crashes>>

Rows == [limit : Limits, used : [Windows -> 0 .. MaxUsed], key : Times,
         disabled : BOOLEAN, paused : SUBSET Forwards]

Steps == {"idle", "add", "list", "pause", "recordPause", "reset", "roll",
          "rollWrite", "resume", "send", "recordResume"}

FrameShapes == [pc : Steps, enforcing : BOOLEAN, releasing : BOOLEAN, at : Times,
                todo : SUBSET Forwards, done : SUBSET Forwards,
                cur : Forwards \cup {NoForward}, row : Rows]

\* Between a command and its record a process is busy with one forward.
Frames == {fr \in FrameShapes :
              fr.pc \in {"recordPause", "send", "recordResume"} => fr.cur \in Forwards}

TypeOK ==
    /\ quota \in Rows
    /\ status \in [Forwards -> BOOLEAN]
    /\ clock \in Times
    /\ proc \in [Processes -> Frames]
    /\ carried \in [Windows -> [0 .. LastTime -> 0 .. MaxUsed]]
    /\ owed \subseteq Forwards
    /\ crashes \in 0 .. MaxCrashes

Start == [w \in Windows |-> 0]

FreshRow(limit) == [limit |-> limit, used |-> Start, key |-> Start,
                    disabled |-> FALSE, paused |-> {}]

NoRow == FreshRow(CHOOSE l \in Limits : TRUE)

\* A process between requests; its old local variables are gone.
Rest == [pc |-> "idle", enforcing |-> FALSE, releasing |-> FALSE, at |-> Start,
         todo |-> {}, done |-> {}, cur |-> NoForward, row |-> NoRow]

Init ==
    /\ \E l \in Limits : quota = FreshRow(l)
    /\ status = [f \in Forwards |-> TRUE]
    /\ clock = Start
    /\ proc = [p \in Processes |-> Rest]
    /\ carried = [w \in Windows |-> [t \in 0 .. LastTime |-> 0]]
    /\ owed = {}
    /\ crashes = 0

Capped(n) == IF n > MaxUsed THEN MaxUsed ELSE n

-----------------------------------------------------------------------------
(* The user_quota row.                                                     *)

\* (mutant) The month never starts again.
RolledDailyOnly(row, t) ==
    [row EXCEPT !.used = [w \in Windows |-> IF row.key[w] = t[w] \/ w = "monthly"
                                            THEN row.used[w] ELSE 0],
                !.key = t]

\* The row as of time t: a window whose key differs from t starts from 0,
\* whichever of the two is later.
Rolled(row, t) ==
    [row EXCEPT !.used = [w \in Windows |-> IF row.key[w] = t[w]
                                            THEN row.used[w] ELSE 0],
                !.key = t]

\* 0 is no limit.
Exceeded(row) ==
    \E w \in Windows : row.limit[w] > 0 /\ row.used[w] >= row.limit[w]

\* A disabled row that is no longer over any limit is released.
Releasable(row) == row.disabled /\ ~Exceeded(row)

\* (mutant) The list of paused forwards outlives the mark.
ReleasedKeepsIds(row) ==
    IF Releasable(row) THEN [row EXCEPT !.disabled = FALSE] ELSE row

Released(row) ==
    IF Releasable(row) THEN [row EXCEPT !.disabled = FALSE, !.paused = {}]
    ELSE row

\* With one connection no statement runs inside another's transaction.
Connected(p) ==
    SingleConnection => \A q \in Processes \ {p} : proc[q].pc # "rollWrite"

Goto(p, frame) == proc' = [proc EXCEPT ![p] = frame]

At(p, step) == proc[p].pc = step

-----------------------------------------------------------------------------
(* Requests.  A handler that needs the time reads the clock when it starts. *)

\* POST /flow/upload: the stamp is taken before the metadata is read.
BeginUpload(p) ==
    /\ p \in Handlers /\ At(p, "idle")
    /\ Goto(p, [Rest EXCEPT !.pc = "add", !.at = clock])
    /\ UNCHANGED <<quota, status, clock, carried, owed, crashes>>

\* POST /user/quota/reset.
BeginReset(p) ==
    /\ p \in Handlers /\ At(p, "idle")
    /\ Goto(p, [Rest EXCEPT !.pc = "reset", !.at = clock])
    /\ UNCHANGED <<quota, status, clock, carried, owed, crashes>>

\* forward/resume and forward/batch-resume of some forwards.
BeginResume(p) ==
    /\ p \in Handlers /\ At(p, "idle")
    /\ \E fs \in SUBSET Forwards \ {{}} :
          Goto(p, [Rest EXCEPT !.pc = "resume", !.at = clock, !.todo = fs])
    /\ UNCHANGED <<quota, status, clock, carried, owed, crashes>>

\* forward/pause and forward/batch-pause of some forwards.
BeginPause(p) ==
    /\ p \in Handlers /\ At(p, "idle")
    /\ \E fs \in SUBSET Forwards \ {{}} :
          Goto(p, [Rest EXCEPT !.pc = "pause", !.todo = fs])
    /\ UNCHANGED <<quota, status, clock, carried, owed, crashes>>

\* The maintenance job at 00:05, one at a time.
BeginRoll ==
    /\ At(Job, "idle")
    /\ Goto(Job, [Rest EXCEPT !.pc = "roll", !.at = clock])
    /\ UNCHANGED <<quota, status, clock, carried, owed, crashes>>

\* An administrator changes the limits: nothing else of the row moves, so a
\* disabled user stays disabled until a reset or the next roll.
SaveConfig ==
    /\ \A p \in Processes : Connected(p)
    /\ \E l \in Limits : quota' = [quota EXCEPT !.limit = l]
    /\ UNCHANGED <<status, clock, proc, carried, owed, crashes>>

-----------------------------------------------------------------------------
(* Upload and enforcement.                                                  *)

\* One transaction under the row's lock: roll, add, write, and the row as
\* written is what enforcement decides on.  When the batch and the single
\* transaction both fail the user is skipped.
AddUsage(p) ==
    /\ At(p, "add") /\ Connected(p)
    /\ LET t == proc[p].at IN
       \E size \in Sizes, failed \in Faults :
          IF failed
          THEN Goto(p, Rest) /\ UNCHANGED <<quota, carried>>
          ELSE LET row   == Rolled(quota, t)
                   added == [row EXCEPT !.used =
                                [w \in Windows |-> Capped(row.used[w] + size)]]
               IN  /\ quota' = added
                   /\ carried' = [w \in Windows |->
                        [carried[w] EXCEPT ![t[w]] = Capped(carried[w][t[w]] + size)]]
                   /\ IF added.disabled \/ ~Exceeded(added) THEN Goto(p, Rest)
                      ELSE Goto(p, [Rest EXCEPT !.pc = "list"])
    /\ UNCHANGED <<status, clock, owed, crashes>>

\* (mutant) A user without active forwards is not marked.
ListActiveSkipsEmpty(p) ==
    /\ At(p, "list") /\ Connected(p)
    /\ LET active == {f \in Forwards : status[f]} IN
       \E failed \in Faults :
          IF failed \/ active = {} THEN Goto(p, Rest)
          ELSE Goto(p, [proc[p] EXCEPT !.pc = "pause", !.enforcing = TRUE,
                                       !.todo = active])
    /\ UNCHANGED <<quota, status, clock, carried, owed, crashes>>

\* The forwards to pause are the active ones at this moment.
ListActive(p) ==
    /\ At(p, "list") /\ Connected(p)
    /\ \E failed \in Faults :
          IF failed THEN Goto(p, Rest)
          ELSE Goto(p, [proc[p] EXCEPT !.pc = "pause", !.enforcing = TRUE,
                                       !.todo = {f \in Forwards : status[f]}])
    /\ UNCHANGED <<quota, status, clock, carried, owed, crashes>>

\* PauseService on the forward's nodes.  A node that is offline or does not
\* answer counts as success; any other error skips the forward.
SendPause(p, f) ==
    /\ At(p, "pause") /\ f \in proc[p].todo
    /\ \E failed \in Faults :
          Goto(p, [proc[p] EXCEPT !.todo = @ \ {f},
                                  !.pc = IF failed THEN "pause" ELSE "recordPause",
                                  !.cur = IF failed THEN NoForward ELSE f])
    /\ UNCHANGED <<quota, status, clock, carried, owed, crashes>>

\* (mutant) The paused forward's id is read after the loop variable is cleared.
RecordPauseLate(p) ==
    LET f == proc[p].cur IN
    /\ At(p, "recordPause") /\ Connected(p)
    /\ \E failed \in Faults :
          /\ Goto(p, [proc[p] EXCEPT !.pc = "pause", !.cur = NoForward,
                                     !.done = IF failed THEN @ ELSE @ \cup {NoForward}])
          /\ status' = [status EXCEPT ![f] = failed /\ @]
          /\ owed' = IF failed THEN owed
                     ELSE IF proc[p].enforcing THEN owed \cup {f} ELSE owed \ {f}
    /\ UNCHANGED <<quota, clock, carried, crashes>>

\* UpdateForwardStatus(f, 0), for enforcement or for a user.
RecordPause(p) ==
    LET f == proc[p].cur IN
    /\ At(p, "recordPause") /\ Connected(p)
    /\ \E failed \in Faults :
          /\ Goto(p, [proc[p] EXCEPT !.pc = "pause", !.cur = NoForward,
                                     !.done = IF failed THEN @ ELSE @ \cup {f}])
          /\ status' = [status EXCEPT ![f] = failed /\ @]
          /\ owed' = IF failed THEN owed
                     ELSE IF proc[p].enforcing THEN owed \cup {f} ELSE owed \ {f}
    /\ UNCHANGED <<quota, clock, carried, crashes>>

\* The loop is over.  Enforcement marks the user disabled and overwrites the
\* list of forwards to resume with the ones this call paused.
EndPause(p) ==
    /\ At(p, "pause") /\ proc[p].todo = {} /\ Connected(p)
    /\ IF proc[p].enforcing
       THEN \E failed \in Faults :
               quota' = IF failed THEN quota
                        ELSE [quota EXCEPT !.disabled = TRUE, !.paused = proc[p].done]
       ELSE UNCHANGED quota
    /\ Goto(p, Rest)
    /\ UNCHANGED <<status, clock, carried, owed, crashes>>

-----------------------------------------------------------------------------
(* Reset, roll and resume.                                                 *)

\* The frame of a process that goes on to resume the forwards of a row it has
\* released, or is done.
AfterRelease(row, t) ==
    IF Releasable(row)
    THEN [Rest EXCEPT !.pc = "resume", !.releasing = TRUE, !.at = t,
                      !.todo = row.paused]
    ELSE Rest

\* One transaction under the row's lock; scope daily, monthly or all.  The
\* handler reads the clock again for the resumes that follow.
Reset(p) ==
    /\ At(p, "reset") /\ Connected(p)
    /\ \E scope \in {{"daily"}, {"monthly"}, Windows}, failed \in Faults :
          IF failed
          THEN Goto(p, Rest) /\ UNCHANGED quota
          ELSE LET row   == Rolled(quota, proc[p].at)
                   clear == [row EXCEPT !.used =
                               [w \in Windows |-> IF w \in scope THEN 0 ELSE row.used[w]]]
               IN  /\ quota' = Released(clear)
                   /\ Goto(p, AfterRelease(clear, clock))
    /\ UNCHANGED <<status, clock, carried, owed, crashes>>

\* (mutant) The roll looks only at windows that have passed.
RollReadKeysOnly ==
    /\ At(Job, "roll") /\ Connected(Job)
    /\ \E failed \in Faults :
          IF failed \/ quota.key = proc[Job].at
          THEN Goto(Job, Rest)
          ELSE Goto(Job, [proc[Job] EXCEPT !.pc = "rollWrite", !.row = quota])
    /\ UNCHANGED <<quota, status, clock, carried, owed, crashes>>

\* The roll reads every row, without locking any, and writes back those that
\* a window or a release changes.
RollRead ==
    /\ At(Job, "roll") /\ Connected(Job)
    /\ \E failed \in Faults :
          IF failed \/ (quota.key = proc[Job].at /\ ~Releasable(quota))
          THEN Goto(Job, Rest)
          ELSE Goto(Job, [proc[Job] EXCEPT !.pc = "rollWrite", !.row = quota])
    /\ UNCHANGED <<quota, status, clock, carried, owed, crashes>>

\* Everything but the limits is written from the row as it was read.
RollWrite ==
    /\ At(Job, "rollWrite")
    /\ \E failed \in Faults :
          IF failed
          THEN Goto(Job, Rest) /\ UNCHANGED quota
          ELSE LET row == Rolled(proc[Job].row, proc[Job].at)
               IN  /\ quota' = [Released(row) EXCEPT !.limit = quota.limit]
                   /\ Goto(Job, AfterRelease(row, proc[Job].at))
    /\ UNCHANGED <<status, clock, carried, owed, crashes>>

\* ensureUserTunnelForwardAllowed: the quota, read now, and everything else
\* that may forbid a resume.
CheckResume(p, f) ==
    /\ At(p, "resume") /\ f \in proc[p].todo /\ Connected(p)
    /\ LET view    == Rolled(quota, proc[p].at)
           blocked == view.disabled \/ Exceeded(view)
       IN \E other \in BOOLEAN :
             /\ Goto(p, [proc[p] EXCEPT
                   !.todo = @ \ {f},
                   !.pc  = IF blocked \/ other THEN "resume" ELSE "send",
                   !.cur = IF blocked \/ other THEN NoForward ELSE f])
             /\ owed' = IF other /\ ~blocked /\ proc[p].releasing
                        THEN owed \ {f} ELSE owed
    /\ UNCHANGED <<quota, status, clock, carried, crashes>>

\* ResumeService on the forward's nodes; offline counts as success here too.
SendResume(p) ==
    LET f == proc[p].cur IN
    /\ At(p, "send")
    /\ \E failed \in Faults :
          /\ Goto(p, [proc[p] EXCEPT
                !.pc  = IF failed THEN "resume" ELSE "recordResume",
                !.cur = IF failed THEN NoForward ELSE f])
          /\ owed' = IF failed /\ proc[p].releasing THEN owed \ {f} ELSE owed
    /\ UNCHANGED <<quota, status, clock, carried, crashes>>

\* UpdateForwardStatus(f, 1).
RecordResume(p) ==
    LET f == proc[p].cur IN
    /\ At(p, "recordResume") /\ Connected(p)
    /\ \E failed \in Faults :
          /\ Goto(p, [proc[p] EXCEPT !.pc = "resume", !.cur = NoForward])
          /\ status' = [status EXCEPT ![f] = ~failed \/ @]
          /\ owed' = IF failed /\ ~proc[p].releasing THEN owed ELSE owed \ {f}
    /\ UNCHANGED <<quota, clock, carried, crashes>>

EndResume(p) ==
    /\ At(p, "resume") /\ proc[p].todo = {}
    /\ Goto(p, Rest)
    /\ UNCHANGED <<quota, status, clock, carried, owed, crashes>>

-----------------------------------------------------------------------------
(* The environment.                                                        *)

\* Midnight, and at the end of a month the month too.
TimePasses ==
    /\ clock["daily"] < LastTime
    /\ \E m \in {clock["monthly"], clock["monthly"] + 1} \cap 0 .. LastTime :
          clock' = [clock EXCEPT !["daily"] = @ + 1, !["monthly"] = m]
    /\ UNCHANGED <<quota, status, proc, carried, owed, crashes>>

\* The panel restarts: every handler is gone, an open transaction with it.
Crash ==
    /\ crashes < MaxCrashes
    /\ crashes' = crashes + 1
    /\ proc' = [p \in Processes |-> Rest]
    /\ UNCHANGED <<quota, status, clock, carried, owed>>

-----------------------------------------------------------------------------
Request(p) ==
    BeginUpload(p) \/ BeginReset(p) \/ BeginResume(p) \/ BeginPause(p)

Step(p) ==
    \/ AddUsage(p) \/ ListActive(p) \/ RecordPause(p) \/ EndPause(p)
    \/ \E f \in Forwards : SendPause(p, f)
    \/ Reset(p)
    \/ \E f \in Forwards : CheckResume(p, f)
    \/ SendResume(p) \/ RecordResume(p) \/ EndResume(p)

Roll == BeginRoll \/ RollRead \/ RollWrite

Next ==
    \/ \E p \in Processes : Request(p) \/ Step(p)
    \/ Roll
    \/ SaveConfig
    \/ TimePasses
    \/ Crash

Spec == Init /\ [][Next]_vars

\* A goroutine that has started goes on, and the job runs every day; no
\* request has to arrive.
LiveSpec == /\ Spec
            /\ \A p \in Processes : WF_vars(Step(p))
            /\ WF_vars(Roll)

-----------------------------------------------------------------------------
(* Properties.                                                             *)

\* Whatever uploads, resets, rolls and stale clocks do to one another, the
\* usage of a window never holds more than uploads stamped with that very
\* day or month have carried: nobody is charged for another window's bytes
\* or twice for the same (applyUserQuotaWindowRoll, addUserQuotaUsageBatchTx).
NeverOvercharged ==
    \A w \in Windows : quota.used[w] <= carried[w][quota.key[w]]

\* Some configured limit has been reached within one single day or month.
LimitReached ==
    \E w \in Windows, t \in 0 .. LastTime, l \in Limits :
        l[w] > 0 /\ carried[w][t] >= l[w]

\* A user is disabled only after some window really carried as much as a
\* limit, however late the enforcing handler comes (enforceUserQuotaIfNeeded
\* acts on a row read several steps earlier).
DisabledJustified == quota.disabled => LimitReached

\* Forwards are recorded for resuming only while the user is disabled: no
\* interleaving of mark, reset and the roll's stale write leaves a list that
\* a later release would act upon (MarkUserQuotaDisabled, RollUserQuotaWindows).
RecordedOnlyWhileDisabled == ~quota.disabled => quota.paused = {}

\* Both: the mark has a cause, and the list a mark.
MarkIsJustified == DisabledJustified /\ RecordedOnlyWhileDisabled

OverNow == Exceeded(Rolled(quota, clock))

\* As long as uploads keep coming, a user over a limit is disabled or comes
\* back under it (AddUserQuotaUsageBatch, enforceUserQuotaIfNeeded).
EventuallyEnforced ==
    ([]<>(\E p \in Handlers : At(p, "add"))) =>
        [](OverNow => <>(quota.disabled \/ ~OverNow))

\* A disabled user who is no longer over a limit is released by the daily
\* job, even when no administrator resets the quota (resetUserQuotaWindows).
EventuallyReleased ==
    (quota.disabled /\ ~OverNow) ~> (~quota.disabled \/ OverNow)

\* The page of a user says that forwards the quota paused can be resumed by a
\* reset: with no handler running and the user not disabled, no forward the
\* quota paused is left paused and forgotten (applyUserQuotaRelease).
PausedAreRestored ==
    (~quota.disabled /\ \A p \in Processes : At(p, "idle")) => owed = {}
=============================================================================

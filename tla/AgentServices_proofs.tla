------------------------ MODULE AgentServices_proofs ------------------------
(***************************************************************************)
(* What AgentServices promises, for any services, lists, configurations and *)
(* number of failures.  The invariants support one another: a rollback      *)
(* restores what the configuration says, which is what ran only because     *)
(* RunsWhatIsConfigured and SilentIsMarked held before it, and a restart     *)
(* relies on the file and the memory agreeing while no process runs.        *)
(* Deletions hold against the reports because one that still has a deleted   *)
(* service had it when it left memory (HeldIsOutrun).                        *)
(***************************************************************************)
EXTENDS AgentServices, FiniteSetTheorems, TLAPS

\* While the agent is down only the file is left.
DownIsEmpty ==
    ~up => /\ conf = disk /\ runtime = [n \in Names |-> Absent]
           /\ writing = [r \in Reporters |-> None]

Holds(r, n) == writing[r] # None /\ writing[r][n] # None

\* A report that still has a deleted service had it when it left memory.
HeldIsOutrun ==
    \A n \in deleted, r \in Reporters : Holds(r, n) => n \in outrun

IInv ==
    /\ TypeOK
    /\ RegisteredIsConfigured
    /\ SilentIsMarked
    /\ RunsWhatIsConfigured
    /\ DeletedStaysDeleted
    /\ HeldIsOutrun
    /\ DownIsEmpty

Commands ==
    \/ \E ns \in Lists, v \in Versions : AddCommand(ns, v) \/ UpdateCommand(ns, v)
    \/ \E ns \in Lists : Delete(ns)
    \/ \E n \in Names : Pause(n) \/ Resume(n) \/ ResumeFails(n) \/ ResumeUnsaved(n)

-----------------------------------------------------------------------------
(* The operators the commands are made of.                                  *)

\* A list names services.
LEMMA ListNames ==
    \A ns \in Lists : /\ Listed(ns) \subseteq Names
                      /\ \A i \in 1 .. Len(ns) : ns[i] \in Names /\ Before(ns, i) \subseteq Names
<1> SUFFICES ASSUME NEW ns \in Lists
             PROVE  /\ Listed(ns) \subseteq Names
                    /\ \A i \in 1 .. Len(ns) : ns[i] \in Names /\ Before(ns, i) \subseteq Names
  OBVIOUS
<1>1. ns \in Seq(Names)
  BY ListAssumption
<1>2. \A i \in 1 .. Len(ns) : ns[i] \in Names
  BY <1>1
<1> QED
  BY <1>1, <1>2 DEF Listed, Before

\* A set of services has a natural number of elements.
LEMMA CountFacts == \A S \in SUBSET Names : Cardinality(S) \in Nat
BY NamesAssumption, FS_Subset, FS_CardinalityType

\* The entries and services that commands make are of their types.
LEMMA MadeTypes ==
    /\ \A v \in Versions, m \in BOOLEAN : Entry(v, m) \in Entries
    /\ \A v \in Versions : Serving(v) \in Services
    /\ \A v \in Versions, st \in {"serving", "closed", "bound"} :
          [st |-> st, ver |-> v] \in Services
    /\ \A s \in Services : s # Absent
    /\ \A e \in Entries : e.ver \in Versions /\ e.paused \in BOOLEAN
BY DEF Entry, Entries, Serving, Services, Absent

\* An entry is not the absence of one: it has a version, and a step below
\* needs only the entries that were there.
LEMMA RegisteredFacts ==
    ASSUME TypeOK, RegisteredIsConfigured, NEW n \in Names, Registered(n)
    PROVE  runtime[n] \in Services /\ conf[n] \in Entries
BY DEF Configs, TypeOK, RegisteredIsConfigured, Registered

\* What a rollback leaves: some of the services there were, each as its
\* configuration says.
LEMMA RestoredFacts ==
    ASSUME IInv, NEW touched \in SUBSET Names, NEW lost \in SUBSET Names
    PROVE  LET r == Restored(touched, lost) IN
           /\ r \in [Names -> Services \cup {Absent}]
           /\ \A n \in Names : r[n] # Absent =>
                 /\ Registered(n)
                 /\ r[n].ver = conf[n].ver
                 /\ r[n].st # "serving" => conf[n].paused
<1> SUFFICES ASSUME NEW n \in Names
             PROVE  /\ Restored(touched, lost)[n] \in Services \cup {Absent}
                    /\ Restored(touched, lost)[n] # Absent =>
                          /\ Registered(n)
                          /\ Restored(touched, lost)[n].ver = conf[n].ver
                          /\ Restored(touched, lost)[n].st # "serving" => conf[n].paused
  BY DEF Restored
<1>1. CASE n \notin touched
  <2>1. Restored(touched, lost)[n] = runtime[n]
    BY <1>1 DEF Restored
  <2> QED
    BY <2>1 DEF IInv, TypeOK, RegisteredIsConfigured, SilentIsMarked,
                RunsWhatIsConfigured, Registered
<1>2. CASE n \in touched /\ (~Registered(n) \/ n \in lost)
  BY <1>2 DEF Restored
<1>3. CASE n \in touched /\ Registered(n) /\ n \notin lost
  <2>1. conf[n] \in Entries
    BY <1>3, RegisteredFacts DEF IInv
  <2>2. Restored(touched, lost)[n] =
          [st |-> IF conf[n].paused THEN "bound" ELSE "serving", ver |-> conf[n].ver]
    BY <1>3 DEF Restored
  <2>3. conf[n].ver \in Versions /\ conf[n].paused \in BOOLEAN
    BY <2>1 DEF Entries
  <2> QED
    BY <1>3, <2>2, <2>3 DEF Services
<1> QED
  BY <1>1, <1>2, <1>3

\* What replacing services leaves: those of todo serve version v.
LEMMA UpdatedFacts ==
    ASSUME TypeOK, NEW todo \in SUBSET Names, NEW v \in Versions
    PROVE  /\ Updated(todo, v) \in [Names -> Services \cup {Absent}]
           /\ Configured(todo, v) \in Configs
           /\ \A n \in todo : /\ Updated(todo, v)[n] = Serving(v)
                              /\ Configured(todo, v)[n] = Entry(v, FALSE)
           /\ \A n \in Names \ todo : /\ Updated(todo, v)[n] = runtime[n]
                                      /\ Configured(todo, v)[n] = conf[n]
BY MadeTypes DEF Configs, Updated, Configured, TypeOK

\* A marked configuration differs in one entry's mark.
LEMMA MarkedFacts ==
    ASSUME TypeOK, NEW n \in Names, conf[n] # None, NEW mark \in BOOLEAN
    PROVE  /\ Marked(n, mark) \in Configs
           /\ Marked(n, mark)[n] = Entry(conf[n].ver, mark)
           /\ \A m \in Names \ {n} : Marked(n, mark)[m] = conf[m]
<1>1. conf[n] \in Entries
  BY DEF Configs, TypeOK
<1>2. Entry(conf[n].ver, mark) \in Entries
  BY <1>1, MadeTypes
<1> QED
  BY <1>2 DEF Configs, TypeOK, Marked

\* The answers are of their type.
LEMMA AnswerType ==
    /\ \A op \in {"add", "update", "delete", "pause", "resume", "restart"}, r \in Results :
          [op |-> op, result |-> r] \in Answers
    /\ "ok" \in Results /\ "error" \in Results /\ "rollback failed" \in Results
BY DEF Answers, Results

\* A step that counts failures keeps the count in its bound.
LEMMA FailsType ==
    ASSUME faults \in 0 .. MaxFaults, NEW kind, NEW k \in Nat, Fails(kind, k)
    PROVE  faults' \in 0 .. MaxFaults
BY FaultAssumption DEF Fails

-----------------------------------------------------------------------------
(* The invariant, command by command.                                       *)

\* What a command does to memory, the file and the reports: a save, by which
\* alone it may confirm a deletion, or nothing.
Persisted ==
    \/ deleted' \subseteq deleted /\ UNCHANGED <<conf, disk, writing, outrun>>
    \/ /\ deleted' \subseteq deleted
       /\ \E c \in Configs, via \in SUBSET Configs : Becomes(c, via) /\ NotWritten(c)
    \/ \E c \in Configs, via \in SUBSET Configs : Becomes(c, via) /\ Written(c)

\* A report ends up with a configuration, or none.
LEMMA ReportTypes ==
    ASSUME TypeOK, NEW c \in Configs, NEW via \in SUBSET Configs, Becomes(c, via)
    PROVE  writing' \in [Reporters -> Configs \cup {None}] /\ conf' = c
<1> DEFINE after == [r \in Reporters |->
                IF writing[r] = None THEN {None} \cup via
                ELSE {Overwritten(writing[r], seen) : seen \in [Names -> via \cup {c, None}]}]
<1>1. /\ conf' = c
      /\ writing' \in [Reporters -> UNION {after[r] : r \in Reporters}]
      /\ \A r \in Reporters : writing'[r] \in after[r]
  BY DEF Becomes
<1>2. ASSUME NEW r \in Reporters PROVE writing'[r] \in Configs \cup {None}
  <2>1. CASE writing[r] = None
    BY <1>1, <2>1
  <2>2. CASE writing[r] # None
    <3>1. writing[r] \in Configs
      BY <2>2 DEF TypeOK
    <3>2. PICK seen \in [Names -> via \cup {c, None}] :
             writing'[r] = Overwritten(writing[r], seen)
      BY <1>1, <2>2
    <3>3. \A n \in Names : seen[n] # None => seen[n] \in Configs
      OBVIOUS
    <3>4. Overwritten(writing[r], seen) \in Configs
      BY <3>1, <3>3 DEF Overwritten, Configs
    <3> QED
      BY <3>2, <3>4
  <2> QED
    BY <2>1, <2>2
<1> QED
  BY <1>1, <1>2

\* Memory, file and reports keep their types, and what is deleted is in the
\* file or in a report only when that report outran the deletion.
LEMMA PersistedStep ==
    ASSUME IInv, Persisted, deleted' \subseteq Names, \A n \in deleted' : conf'[n] = None
    PROVE  /\ conf' \in Configs /\ disk' \in Configs
           /\ writing' \in [Reporters -> Configs \cup {None}] /\ outrun' \subseteq Names
           /\ HeldIsOutrun'
           /\ \A n \in deleted' : n \notin outrun' => disk'[n] = None
<1>1. CASE deleted' \subseteq deleted /\ UNCHANGED <<conf, disk, writing, outrun>>
  BY <1>1 DEF IInv, TypeOK, DeletedStaysDeleted, HeldIsOutrun, Holds
<1>2. ASSUME NEW c \in Configs, NEW via \in SUBSET Configs, Becomes(c, via)
      PROVE  /\ conf' = c /\ writing' \in [Reporters -> Configs \cup {None}]
             /\ StillHeld(c) \subseteq Names
             /\ \A n \in deleted', r \in Reporters : Holds(r, n)' => n \in StillHeld(c)
  BY <1>2, ReportTypes DEF IInv, StillHeld, Holds
<1>3. ASSUME deleted' \subseteq deleted,
             NEW c \in Configs, NEW via \in SUBSET Configs, Becomes(c, via), NotWritten(c)
      PROVE  /\ conf' \in Configs /\ disk' \in Configs
             /\ writing' \in [Reporters -> Configs \cup {None}] /\ outrun' \subseteq Names
             /\ HeldIsOutrun'
             /\ \A n \in deleted' : n \notin outrun' => disk'[n] = None
  BY <1>2, <1>3 DEF NotWritten, IInv, TypeOK, DeletedStaysDeleted, HeldIsOutrun
<1>4. ASSUME NEW c \in Configs, NEW via \in SUBSET Configs, Becomes(c, via), Written(c)
      PROVE  /\ conf' \in Configs /\ disk' \in Configs
             /\ writing' \in [Reporters -> Configs \cup {None}] /\ outrun' \subseteq Names
             /\ HeldIsOutrun'
             /\ \A n \in deleted' : n \notin outrun' => disk'[n] = None
  BY <1>2, <1>4 DEF Written, IInv, TypeOK, HeldIsOutrun
<1> QED
  BY <1>1, <1>3, <1>4 DEF Persisted

\* Services replaced together with their entries keep the invariant.
LEMMA ReplaceStep ==
    ASSUME IInv, NEW todo \in SUBSET Names, NEW v \in Versions,
           runtime' = Updated(todo, v), conf' = Configured(todo, v), Persisted,
           up, up' = up, deleted' = deleted \ todo,
           leaked' \subseteq Names, faults' \in 0 .. MaxFaults, answer' \in Answers
    PROVE  IInv'
<1>0. TypeOK
  BY DEF IInv
<1>1. /\ runtime' \in [Names -> Services \cup {Absent}]
      /\ conf' \in Configs
      /\ \A n \in todo : runtime'[n] = Serving(v) /\ conf'[n] = Entry(v, FALSE)
      /\ \A n \in Names \ todo : runtime'[n] = runtime[n] /\ conf'[n] = conf[n]
  <2>1. /\ Updated(todo, v) \in [Names -> Services \cup {Absent}]
        /\ Configured(todo, v) \in Configs
    BY <1>0, UpdatedFacts
  <2>2. \A n \in todo : Updated(todo, v)[n] = Serving(v) /\ Configured(todo, v)[n] = Entry(v, FALSE)
    BY <1>0, UpdatedFacts
  <2>3. \A n \in Names \ todo : Updated(todo, v)[n] = runtime[n] /\ Configured(todo, v)[n] = conf[n]
    BY <1>0, UpdatedFacts
  <2> QED
    BY <2>1, <2>2, <2>3
<1>5. \A n \in deleted' : conf'[n] = None /\ runtime'[n] = Absent
  BY <1>0, <1>1 DEF IInv, TypeOK, DeletedStaysDeleted, Registered
<1>6. /\ conf' \in Configs /\ disk' \in Configs
      /\ writing' \in [Reporters -> Configs \cup {None}] /\ outrun' \subseteq Names
      /\ HeldIsOutrun'
      /\ \A n \in deleted' : n \notin outrun' => disk'[n] = None
  BY <1>0, <1>5, PersistedStep DEF TypeOK
<1>2. TypeOK'
  BY <1>0, <1>1, <1>6 DEF TypeOK
<1>3. ASSUME NEW n \in Names
      PROVE  /\ runtime'[n] # Absent => conf'[n] # None
             /\ runtime'[n] # Absent /\ runtime'[n].st # "serving" => conf'[n].paused
             /\ runtime'[n] # Absent /\ conf'[n] # None => runtime'[n].ver = conf'[n].ver
  <2>1. CASE n \in todo
    <3>1. runtime'[n] = Serving(v) /\ conf'[n] = Entry(v, FALSE)
      BY <1>1, <2>1
    <3>2. conf'[n] # None
      BY <3>1, NoneAssumption, MadeTypes DEF Entries
    <3> QED
      BY <3>1, <3>2 DEF Serving, Entry
  <2>2. CASE n \notin todo
    BY <1>1, <2>2
    DEF IInv, RegisteredIsConfigured, SilentIsMarked, RunsWhatIsConfigured, Registered
  <2> QED
    BY <2>1, <2>2
<1>4. DeletedStaysDeleted'
  BY <1>5, <1>6 DEF DeletedStaysDeleted, Registered
<1> QED
  BY <1>2, <1>3, <1>4, <1>6
  DEF IInv, RegisteredIsConfigured, SilentIsMarked, RunsWhatIsConfigured, Registered, DownIsEmpty

\* AddService.
LEMMA AddStep ==
    ASSUME IInv, NEW ns \in Lists, NEW v \in Versions, AddCommand(ns, v)
    PROVE  IInv'
<1>0. Listed(ns) \in SUBSET Names
  BY ListNames
<1>1. CASE Add(ns, v)
  <2>1. conf' = Configured(Listed(ns), v) /\ runtime' = Updated(Listed(ns), v)
    BY <1>1 DEF Add, Save, SaveFails, Becomes
  <2>2. Persisted
    <3>1. Configured(Listed(ns), v) \in Configs /\ deleted' \subseteq deleted
      BY <1>0, <1>1, UpdatedFacts DEF Add, IInv
    <3> QED
      BY <1>1, <3>1 DEF Add, Save, SaveFails, Persisted
  <2>3. faults' \in 0 .. MaxFaults
    BY <1>1, FailsType DEF Add, Save, SaveFails, IInv, TypeOK
  <2>4. answer' \in Answers
    BY <1>1, AnswerType DEF Add, Says
  <2>5. up /\ up' = up /\ leaked' \subseteq Names /\ deleted' = deleted \ Listed(ns)
    BY <1>1 DEF Add, IInv, TypeOK
  <2> QED
    BY <1>0, <2>1, <2>2, <2>3, <2>4, <2>5, ReplaceStep
<1>2. ASSUME NEW i \in 1 .. Len(ns), AddFails(ns, v, i) PROVE IInv'
  <2>1. UNCHANGED <<up, runtime, conf, disk, deleted, writing, outrun>>
    BY <1>2 DEF AddFails
  <2>2. leaked' \subseteq Names
    BY <1>2, ListNames DEF AddFails, IInv, TypeOK
  <2>3. faults' \in 0 .. MaxFaults
    BY <1>2, FailsType DEF AddFails, IInv, TypeOK
  <2>4. answer' \in Answers
    BY <1>2, AnswerType DEF AddFails, Says
  <2> QED
    BY <2>1, <2>2, <2>3, <2>4
    DEF IInv, TypeOK, RegisteredIsConfigured, SilentIsMarked, RunsWhatIsConfigured,
        DeletedStaysDeleted, HeldIsOutrun, Holds, DownIsEmpty, Registered
<1> QED
  BY <1>1, <1>2 DEF AddCommand

\* A rollback that leaves the configuration keeps the invariant.
LEMMA RollbackStep ==
    ASSUME IInv, NEW todo \in SUBSET Names, NEW lost \in SUBSET Names,
           runtime' = Restored(todo, lost), UNCHANGED <<conf, deleted, leaked, up>>, up,
           Persisted,
           faults' \in 0 .. MaxFaults, answer' \in Answers
    PROVE  IInv'
<1>6. /\ conf' \in Configs /\ disk' \in Configs
      /\ writing' \in [Reporters -> Configs \cup {None}] /\ outrun' \subseteq Names
      /\ HeldIsOutrun'
      /\ \A n \in deleted' : n \notin outrun' => disk'[n] = None
  BY PersistedStep DEF IInv, TypeOK, DeletedStaysDeleted
<1>1. runtime' \in [Names -> Services \cup {Absent}]
  BY RestoredFacts
<1>2. \A n \in Names : runtime'[n] # Absent =>
          /\ Registered(n)
          /\ runtime'[n].ver = conf[n].ver
          /\ runtime'[n].st # "serving" => conf[n].paused
  BY RestoredFacts
<1>3. TypeOK'
  BY <1>1, <1>6 DEF IInv, TypeOK
<1>4. RegisteredIsConfigured' /\ SilentIsMarked' /\ RunsWhatIsConfigured'
  BY <1>2 DEF IInv, RegisteredIsConfigured, SilentIsMarked, RunsWhatIsConfigured, Registered
<1>5. DeletedStaysDeleted'
  BY <1>2, <1>6 DEF IInv, TypeOK, DeletedStaysDeleted, Registered
<1> QED
  BY <1>3, <1>4, <1>5, <1>6 DEF IInv, DownIsEmpty

\* UpdateService.
LEMMA UpdateStep ==
    ASSUME IInv, NEW ns \in Lists, NEW v \in Versions, UpdateCommand(ns, v)
    PROVE  IInv'
<1>0. TypeOK /\ Listed(ns) \in SUBSET Names
  BY ListNames DEF IInv
<1>1. CASE Update(ns, v)
  <2> DEFINE todo == Changed(Listed(ns), v)
  <2>0. todo \in SUBSET Names
    BY <1>0 DEF Changed
  <2>1. runtime' = Updated(todo, v) /\ conf' = Configured(todo, v)
    <3>1. CASE todo = {}
      <4>1. Configured({}, v) = conf
        BY <1>0 DEF Configs, Configured, TypeOK
      <4> QED
        BY <1>1, <3>1, <4>1 DEF Update
    <3>2. CASE todo # {}
      BY <1>1, <3>2 DEF Update, Save, Becomes
    <3> QED
      BY <3>1, <3>2
  <2>2. Persisted /\ faults' = faults
    <3>1. Configured(todo, v) \in Configs /\ deleted' \subseteq deleted
      BY <1>0, <1>1, <2>0, UpdatedFacts DEF Update
    <3> QED
      BY <1>1, <3>1 DEF Update, Save, Persisted
  <2>3. answer' \in Answers
    BY <1>1, AnswerType DEF Update, Says
  <2>4. up /\ up' = up /\ leaked' \subseteq Names /\ deleted' = deleted \ todo
    BY <1>0, <1>1 DEF Update, TypeOK
  <2>5. faults' \in 0 .. MaxFaults
    BY <1>0, <2>2 DEF TypeOK
  <2> QED
    BY <2>0, <2>1, <2>2, <2>3, <2>4, <2>5, ReplaceStep
<1>2. CASE UpdateUnsaved(ns, v)
  <2> DEFINE todo == Changed(Listed(ns), v)
             running == {n \in todo : Registered(n)}
  <2>0. todo \in SUBSET Names /\ running \in SUBSET Names
    BY <1>0 DEF Changed
  <2>1. PICK lost \in SUBSET running, again \in {1, 2} :
          /\ faults + Cardinality(lost) + again <= MaxFaults
          /\ faults' = faults + Cardinality(lost) + again
          /\ runtime' = Restored(todo, lost)
          /\ Becomes(conf, {Configured(todo, v)})
          /\ IF again = 1 THEN Written(conf) ELSE NotWritten(conf)
          /\ Says("update", IF lost = {} /\ again = 1 THEN "error" ELSE "rollback failed")
    BY <1>2 DEF UpdateUnsaved
  <2>2. faults' \in 0 .. MaxFaults
    <3>1. Cardinality(lost) \in Nat
      BY <2>0, CountFacts
    <3> HIDE DEF todo, running
    <3> QED
      <4>1. /\ faults' = faults + Cardinality(lost) + again
            /\ faults + Cardinality(lost) + again <= MaxFaults
        BY <2>1
      <4>2. again \in Nat
        OBVIOUS
      <4>3. faults \in Nat /\ MaxFaults \in Nat
        BY <1>0, FaultAssumption DEF TypeOK
      <4> QED
        BY <3>1, <4>1, <4>2, <4>3
  <2>3. answer' \in Answers
    BY <2>1, AnswerType DEF Says
  <2>4. up /\ UNCHANGED <<conf, deleted, leaked, up>>
    BY <1>2, <2>1 DEF UpdateUnsaved, Becomes
  <2>5. lost \in SUBSET Names
    BY <2>0
  <2>6. Persisted
    <3>1. Configured(todo, v) \in Configs /\ conf \in Configs /\ deleted' \subseteq deleted
      BY <1>0, <1>2, <2>0, UpdatedFacts DEF UpdateUnsaved, TypeOK
    <3> HIDE DEF todo, running
    <3> QED
      BY <2>1, <3>1 DEF Persisted
  <2> HIDE DEF todo, running
  <2> QED
    BY <2>0, <2>1, <2>2, <2>3, <2>4, <2>5, <2>6, RollbackStep
<1>3. ASSUME NEW i \in 1 .. Len(ns), UpdateFails(ns, v, i) PROVE IInv'
  <2> DEFINE todo == Changed(Before(ns, i) \cup {ns[i]}, v)
             running == {n \in todo : Registered(n)}
             own == IF ns[i] \in leaked THEN 0 ELSE 1
  <2>0. todo \in SUBSET Names /\ running \in SUBSET Names
    BY ListNames DEF Changed
  <2>1. PICK lost \in SUBSET running :
          /\ Fails("parse", Cardinality(lost) + own)
          /\ runtime' = Restored(todo, lost)
          /\ Says("update", IF lost = {} THEN "error" ELSE "rollback failed")
    BY <1>3 DEF UpdateFails
  <2>2. faults' \in 0 .. MaxFaults
    <3>2. Cardinality(lost) \in Nat
      BY <2>0, CountFacts
    <3>3. own \in Nat
      OBVIOUS
    <3>1. Cardinality(lost) + own \in Nat
      <4> HIDE DEF own
      <4> QED
        BY <3>2, <3>3
    <3> HIDE DEF todo, running, own
    <3> QED
      BY <1>0, <2>1, <3>1, FailsType DEF TypeOK
  <2>3. answer' \in Answers
    BY <2>1, AnswerType DEF Says
  <2>4. up /\ Persisted /\ UNCHANGED <<conf, deleted, leaked, up, disk>>
    BY <1>3 DEF UpdateFails, Persisted
  <2>5. lost \in SUBSET Names
    BY <2>0
  <2> HIDE DEF todo, running, own
  <2> QED
    BY <2>0, <2>1, <2>2, <2>3, <2>4, <2>5, RollbackStep
<1> QED
  BY <1>1, <1>2, <1>3 DEF UpdateCommand

\* DeleteService.
LEMMA DeleteStep ==
    ASSUME IInv, NEW ns \in Lists, Delete(ns)
    PROVE  IInv'
<1>0. TypeOK /\ Listed(ns) \in SUBSET Names
  BY ListNames DEF IInv
<1>1. /\ conf' = Without(ns)
      /\ runtime' = [n \in Names |-> IF n \in Listed(ns) THEN Absent ELSE runtime[n]]
      /\ up /\ UNCHANGED <<up, leaked>>
      /\ deleted' \subseteq deleted \cup Listed(ns)
  BY DEF Delete, Save, SaveFails, Becomes
<1>6. Persisted
  <2>1. Without(ns) \in Configs
    BY <1>0 DEF Without, Configs, TypeOK
  <2> QED
    BY <2>1 DEF Delete, Save, SaveFails, Persisted
<1>7. \A n \in deleted' : conf'[n] = None /\ runtime'[n] = Absent
  BY <1>0, <1>1 DEF IInv, TypeOK, DeletedStaysDeleted, Registered, Without
<1>8. /\ conf' \in Configs /\ disk' \in Configs
      /\ writing' \in [Reporters -> Configs \cup {None}] /\ outrun' \subseteq Names
      /\ HeldIsOutrun'
      /\ \A n \in deleted' : n \notin outrun' => disk'[n] = None
  BY <1>0, <1>1, <1>6, <1>7, PersistedStep DEF TypeOK
<1>2. faults' \in 0 .. MaxFaults /\ answer' \in Answers
  BY <1>0, FailsType, AnswerType DEF Delete, Save, SaveFails, Says, TypeOK
<1>3. TypeOK'
  BY <1>0, <1>1, <1>2, <1>8 DEF TypeOK
<1>4. RegisteredIsConfigured' /\ SilentIsMarked' /\ RunsWhatIsConfigured'
  BY <1>0, <1>1 DEF IInv, RegisteredIsConfigured, SilentIsMarked, RunsWhatIsConfigured,
                    Registered, Without
<1>5. DeletedStaysDeleted'
  BY <1>7, <1>8 DEF DeletedStaysDeleted, Registered
<1> QED
  BY <1>1, <1>3, <1>4, <1>5, <1>8 DEF IInv, DownIsEmpty

\* One service changes, its entry keeping its version: what the invariant asks
\* of the pair.
LEMMA OneStep ==
    ASSUME IInv, NEW n \in Names, Registered(n), up, UNCHANGED <<up, leaked, deleted>>,
           NEW mark \in BOOLEAN, NEW s \in Services \cup {Absent},
           s # Absent => s.ver = conf[n].ver /\ (s.st # "serving" => mark),
           runtime' = [runtime EXCEPT ![n] = s], conf' = Marked(n, mark), Persisted,
           faults' \in 0 .. MaxFaults, answer' \in Answers
    PROVE  IInv'
<1>0. TypeOK /\ conf[n] \in Entries /\ conf[n] # None
  BY NoneAssumption, RegisteredFacts DEF IInv, Entries
<1>1. /\ conf' \in Configs
      /\ conf'[n] = Entry(conf[n].ver, mark)
      /\ \A m \in Names \ {n} : conf'[m] = conf[m]
  BY <1>0, MarkedFacts
<1>7. /\ conf' \in Configs /\ disk' \in Configs
      /\ writing' \in [Reporters -> Configs \cup {None}] /\ outrun' \subseteq Names
      /\ HeldIsOutrun'
      /\ \A m \in deleted' : m \notin outrun' => disk'[m] = None
  <2>1. \A m \in deleted' : conf'[m] = None
    BY <1>0, <1>1 DEF IInv, TypeOK, DeletedStaysDeleted
  <2> QED
    BY <1>0, <2>1, PersistedStep DEF TypeOK
<1>2. TypeOK'
  BY <1>0, <1>1, <1>7 DEF TypeOK
<1>3. conf'[n] # None /\ conf'[n].ver = conf[n].ver /\ conf'[n].paused = mark
  BY <1>0, <1>1, NoneAssumption, MadeTypes DEF Entries, Entry
<1>4. runtime'[n] = s /\ \A m \in Names \ {n} : runtime'[m] = runtime[m]
  BY <1>0 DEF TypeOK
<1>5. RegisteredIsConfigured' /\ SilentIsMarked' /\ RunsWhatIsConfigured'
  BY <1>1, <1>3, <1>4
  DEF IInv, RegisteredIsConfigured, SilentIsMarked, RunsWhatIsConfigured, Registered
<1>6. DeletedStaysDeleted'
  BY <1>1, <1>4, <1>7 DEF IInv, TypeOK, DeletedStaysDeleted, Registered
<1> QED
  BY <1>2, <1>5, <1>6, <1>7 DEF IInv, DownIsEmpty

\* PauseService and ResumeService.
LEMMA PauseResumeStep ==
    ASSUME IInv, NEW n \in Names,
           Pause(n) \/ Resume(n) \/ ResumeFails(n) \/ ResumeUnsaved(n)
    PROVE  IInv'
<1>0. TypeOK /\ Registered(n) /\ up /\ UNCHANGED <<up, leaked, deleted>>
  BY DEF IInv, Pause, Resume, ResumeFails, ResumeUnsaved
<1>1. runtime[n] \in Services /\ conf[n] \in Entries /\ conf[n] # None
  BY <1>0, RegisteredFacts, NoneAssumption DEF IInv, Entries
<1>2. conf[n].ver \in Versions /\ conf[n].paused \in BOOLEAN /\ runtime[n].ver = conf[n].ver
  BY <1>0, <1>1 DEF Entries, IInv, RunsWhatIsConfigured
<1>3. faults' \in 0 .. MaxFaults
  BY <1>0, FailsType DEF Pause, Resume, ResumeFails, ResumeUnsaved, Save, SaveFails,
                         SaveAgain, TypeOK
<1>10. Persisted
  <2>1. conf \in Configs /\ Marked(n, TRUE) \in Configs /\ Marked(n, FALSE) \in Configs
    BY <1>0, <1>1, MarkedFacts DEF TypeOK
  <2>2. deleted' \subseteq deleted
    BY <1>0
  <2>7. ASSUME NEW c \in Configs, Save(c) \/ SaveFails(c) PROVE Persisted
    BY <2>2, <2>7 DEF Save, SaveFails, Persisted
  <2>3. CASE Pause(n)
    BY <2>1, <2>3, <2>7 DEF Pause
  <2>4. CASE Resume(n)
    BY <2>1, <2>4, <2>7 DEF Resume
  <2>5. CASE ResumeFails(n)
    BY <2>2, <2>5 DEF ResumeFails, Persisted
  <2>6. CASE ResumeUnsaved(n)
    BY <2>1, <2>2, <2>6 DEF ResumeUnsaved, SaveAgain, Persisted
  <2> QED
    BY <2>3, <2>4, <2>5, <2>6
<1>4. answer' \in Answers
  BY AnswerType DEF Pause, Resume, ResumeFails, ResumeUnsaved, Says
<1>5. Marked(n, conf[n].paused) = conf
  <2>1. Entry(conf[n].ver, conf[n].paused) = conf[n]
    BY <1>1 DEF Entries, Entry
  <2> QED
    BY <1>0, <2>1 DEF Configs, Marked, TypeOK
<1>6. CASE Pause(n)
  <2>1. /\ conf' = Marked(n, TRUE)
        /\ runtime' = [runtime EXCEPT ![n] = [@ EXCEPT !.st = "closed"]]
    BY <1>6 DEF Pause, Save, SaveFails, Becomes, Stopped
  <2>2. [runtime[n] EXCEPT !.st = "closed"] \in Services
        /\ [runtime[n] EXCEPT !.st = "closed"].ver = conf[n].ver
    BY <1>1, <1>2 DEF Services
  <2> QED
    BY <1>0, <1>3, <1>4, <1>10, <2>1, <2>2, OneStep
<1>7. CASE Resume(n)
  <2>1. CASE conf[n].paused
    <3>1. /\ conf' = Marked(n, FALSE)
          /\ runtime' = [runtime EXCEPT ![n] = Serving(conf[n].ver)]
      BY <1>7, <2>1 DEF Resume, Save, Becomes
    <3>2. Serving(conf[n].ver) \in Services /\ Serving(conf[n].ver).ver = conf[n].ver
          /\ Serving(conf[n].ver).st = "serving"
      BY <1>2, MadeTypes DEF Serving
    <3> QED
      BY <1>0, <1>3, <1>4, <1>10, <3>1, <3>2, OneStep
  <2>2. CASE ~conf[n].paused
    <3>1. conf' = Marked(n, conf[n].paused)
      BY <1>5, <1>7, <2>2 DEF Resume, Save, SaveFails, Becomes
    <3>2. runtime' = [runtime EXCEPT ![n] = runtime[n]]
      BY <1>0, <1>7, <2>2 DEF Resume, TypeOK
    <3>3. runtime[n].st # "serving" => conf[n].paused
      BY <1>0 DEF IInv, SilentIsMarked
    <3> QED
      BY <1>0, <1>1, <1>2, <1>3, <1>4, <1>10, <3>1, <3>2, <3>3, OneStep
  <2> QED
    BY <2>1, <2>2
<1>8. CASE ResumeFails(n)
  <2>1. conf' = Marked(n, conf[n].paused)
        /\ runtime' = [runtime EXCEPT ![n] = Absent]
    BY <1>5, <1>8 DEF ResumeFails
  <2> QED
    BY <1>0, <1>2, <1>3, <1>4, <1>10, <2>1, OneStep
<1>9. CASE ResumeUnsaved(n)
  <2> DEFINE s == [st |-> "closed", ver |-> conf[n].ver]
  <2>1. conf' = Marked(n, conf[n].paused)
        /\ conf[n].paused /\ runtime' = [runtime EXCEPT ![n] = s]
    BY <1>5, <1>9 DEF ResumeUnsaved, SaveAgain, Becomes
  <2>2. s \in Services /\ s.ver = conf[n].ver
    BY <1>2 DEF Services
  <2> HIDE DEF s
  <2> QED
    BY <1>0, <1>2, <1>3, <1>4, <1>10, <2>1, <2>2, OneStep
<1> QED
  BY <1>6, <1>7, <1>8, <1>9

-----------------------------------------------------------------------------
(* The theorems.                                                           *)

\* The invariant holds in every reachable state.
THEOREM Invariant == Spec => []IInv
<1>1. Init => IInv
  BY FaultAssumption
  DEF Init, IInv, TypeOK, RegisteredIsConfigured, SilentIsMarked, RunsWhatIsConfigured,
      DeletedStaysDeleted, HeldIsOutrun, Holds, DownIsEmpty, Registered, Answers, Results,
      Configs
<1>2. IInv /\ [Next]_vars => IInv'
  <2> SUFFICES ASSUME IInv, [Next]_vars PROVE IInv'
    OBVIOUS
  <2>1. ASSUME Commands PROVE IInv'
    BY <2>1, AddStep, UpdateStep, DeleteStep, PauseResumeStep DEF Commands
  <2>2. ASSUME NEW n \in Names, Collect(n) PROVE IInv'
    BY <2>2 DEF Collect, IInv, TypeOK, RegisteredIsConfigured, SilentIsMarked,
       RunsWhatIsConfigured, DeletedStaysDeleted, HeldIsOutrun, Holds, DownIsEmpty, Registered
  <2>3. CASE SaveOther
    BY <2>3 DEF SaveOther, IInv, TypeOK, RegisteredIsConfigured, SilentIsMarked,
       RunsWhatIsConfigured, DeletedStaysDeleted, HeldIsOutrun, Holds, DownIsEmpty, Registered
  <2>7. ASSUME NEW r \in Reporters, Encode(r) PROVE IInv'
    <3>1. /\ up /\ UNCHANGED <<up, runtime, conf, disk, leaked, faults, answer, deleted, outrun>>
          /\ writing' \in [Reporters -> Configs \cup {None}] /\ writing'[r] = conf
          /\ \A q \in Reporters \ {r} : writing'[q] = writing[q]
      BY <2>7 DEF Encode, IInv, TypeOK
    <3>2. \A n \in deleted : conf[n] = None
      BY <3>1 DEF IInv, DeletedStaysDeleted
    <3>3. HeldIsOutrun'
      BY <3>1, <3>2 DEF IInv, HeldIsOutrun, Holds
    <3> QED
      BY <3>1, <3>3 DEF IInv, TypeOK, RegisteredIsConfigured, SilentIsMarked,
         RunsWhatIsConfigured, DeletedStaysDeleted, DownIsEmpty, Registered
  <2>8. ASSUME NEW r \in Reporters, Rename(r) \/ WriteFails(r) PROVE IInv'
    <3>1. /\ up /\ UNCHANGED <<up, runtime, conf, leaked, faults, answer, deleted, outrun>>
          /\ writing[r] # None /\ (disk' = disk \/ disk' = writing[r])
          /\ writing' \in [Reporters -> Configs \cup {None}] /\ writing'[r] = None
          /\ \A q \in Reporters \ {r} : writing'[q] = writing[q]
      BY <2>8 DEF Rename, WriteFails, IInv, TypeOK
    <3>2. HeldIsOutrun'
      BY <3>1 DEF IInv, HeldIsOutrun, Holds
    <3>3. \A n \in deleted : n \notin outrun => writing[r][n] = None
      BY <3>1 DEF IInv, HeldIsOutrun, Holds
    <3>4. DeletedStaysDeleted'
      BY <3>1, <3>3 DEF IInv, DeletedStaysDeleted, Registered
    <3>5. writing[r] \in Configs
      BY <3>1 DEF IInv, TypeOK
    <3> QED
      BY <3>1, <3>2, <3>4, <3>5 DEF IInv, TypeOK, RegisteredIsConfigured, SilentIsMarked,
         RunsWhatIsConfigured, DownIsEmpty, Registered
  <2>4. CASE Crash
    BY <2>4 DEF Crash, IInv, TypeOK, RegisteredIsConfigured, SilentIsMarked,
       RunsWhatIsConfigured, DeletedStaysDeleted, HeldIsOutrun, Holds, DownIsEmpty, Registered
  <2>5. CASE Boot
    <3>1. \A n \in Names : disk[n] # None => disk[n] \in Entries
      BY DEF Configs, IInv, TypeOK
    <3>2. /\ runtime' \in [Names -> Services \cup {Absent}]
          /\ \A n \in Names : runtime'[n] = IF disk[n] = None THEN Absent
                                            ELSE Serving(disk[n].ver)
      BY <2>5, <3>1, MadeTypes DEF Boot
    <3>3. /\ up' /\ UNCHANGED <<conf, disk, leaked, faults, writing>> /\ conf = disk
          /\ writing = [r \in Reporters |-> None]
          /\ deleted' = {n \in deleted : disk[n] = None} /\ outrun' = {}
      BY <2>5 DEF Boot, IInv, DownIsEmpty
    <3>4. answer' \in Answers
      BY <2>5, AnswerType DEF Boot, Says
    <3>5. TypeOK'
      BY <2>5, <3>2, <3>3, <3>4 DEF Boot, IInv, TypeOK
    <3>6. RegisteredIsConfigured' /\ SilentIsMarked' /\ RunsWhatIsConfigured'
      BY <3>2, <3>3
      DEF RegisteredIsConfigured, SilentIsMarked, RunsWhatIsConfigured, Registered, Serving
    <3>7. DeletedStaysDeleted'
      BY <3>2, <3>3 DEF IInv, TypeOK, DeletedStaysDeleted, Registered
    <3>8. HeldIsOutrun'
      BY <3>3 DEF HeldIsOutrun, Holds
    <3> QED
      BY <3>3, <3>5, <3>6, <3>7, <3>8 DEF IInv, DownIsEmpty
  <2>6. CASE UNCHANGED vars
    BY <2>6 DEF vars, IInv, TypeOK, RegisteredIsConfigured, SilentIsMarked,
       RunsWhatIsConfigured, DeletedStaysDeleted, HeldIsOutrun, Holds, DownIsEmpty, Registered
  <2> QED
    BY <2>1, <2>2, <2>3, <2>4, <2>5, <2>6, <2>7, <2>8 DEF Next, Commands
<1> QED
  BY <1>1, <1>2, PTL DEF Spec

\* Every variable keeps its type.
THEOREM TypeCorrect == Spec => []TypeOK
BY Invariant, PTL DEF IInv

\* A registered service is configured, and silent only when it is marked.
THEOREM SilenceIsKnown == Spec => [](RegisteredIsConfigured /\ SilentIsMarked)
BY Invariant, PTL DEF IInv

\* Memory describes what runs.
THEOREM RunsConfigured == Spec => []RegistryIsConfigured
BY Invariant, PTL DEF IInv, RegistryIsConfigured

\* What was deleted stays deleted through failures, rollbacks and restarts,
\* unless a report that held it as it left memory is renamed afterwards.
THEOREM StaysDeleted == Spec => []DeletedStaysDeleted
BY Invariant, PTL DEF IInv

\* A failed UpdateService that reports no failed rollback changed nothing.
THEOREM FailureUndone == Spec => FailedUpdateUndone
<1> DEFINE Undone ==
      /\ conf' = conf
      /\ \A n \in Names :
            /\ runtime[n].st = "serving" /\ ~conf[n].paused => runtime'[n] = runtime[n]
            /\ ~Registered(n) => runtime'[n] = Absent
<1>1. ASSUME IInv, [Next]_vars, answer' # answer,
             answer' = [op |-> "update", result |-> "error"]
      PROVE  Undone
  <2>1. PICK ns \in Lists, v \in Versions : UpdateCommand(ns, v)
    <3>1. answer'.op = "update" /\ answer'.result = "error"
      BY <1>1
    <3>2. ~UNCHANGED vars
      BY <1>1 DEF vars
    <3>3. \A ns \in Lists, v \in Versions : ~AddCommand(ns, v)
      BY <3>1 DEF AddCommand, Add, AddFails, Says
    <3>4. \A ns \in Lists : ~Delete(ns)
      BY <3>1 DEF Delete, Says
    <3>5. \A n \in Names : ~(Pause(n) \/ Resume(n) \/ ResumeFails(n) \/ ResumeUnsaved(n))
      <4>1. ASSUME NEW n \in Names, Pause(n) PROVE FALSE
        <5>1. Says("pause", "ok") \/ Says("pause", "error")
          BY <4>1 DEF Pause
        <5> QED
          BY <3>1, <5>1 DEF Says
      <4>2. ASSUME NEW n \in Names, Resume(n) PROVE FALSE
        <5>1. Says("resume", "ok") \/ Says("resume", "error")
          BY <4>2 DEF Resume
        <5> QED
          BY <3>1, <5>1 DEF Says
      <4>3. ASSUME NEW n \in Names, ResumeFails(n) \/ ResumeUnsaved(n) PROVE FALSE
        <5>1. \E r : Says("resume", r)
          BY <4>3 DEF ResumeFails, ResumeUnsaved
        <5> QED
          BY <3>1, <5>1 DEF Says
      <4> QED
        BY <4>1, <4>2, <4>3
    <3>6. /\ ~(SaveOther \/ Crash \/ Boot) /\ \A n \in Names : ~Collect(n)
          /\ \A r \in Reporters : ~(Encode(r) \/ Rename(r) \/ WriteFails(r))
      BY <1>1, <3>1 DEF SaveOther, Crash, Boot, Collect, Encode, Rename, WriteFails, Says
    <3> QED
      BY <1>1, <3>2, <3>3, <3>4, <3>5, <3>6 DEF Next
  <2>2. PICK todo \in SUBSET Names : runtime' = Restored(todo, {}) /\ conf' = conf
    <3>1. ~Update(ns, v)
      BY <1>1 DEF Update, Says
    <3>2. CASE UpdateUnsaved(ns, v)
      <4>1. Changed(Listed(ns), v) \in SUBSET Names
        BY ListNames DEF Changed
      <4> QED
        BY <1>1, <3>2, <4>1 DEF UpdateUnsaved, Becomes, Says
    <3>3. ASSUME NEW i \in 1 .. Len(ns), UpdateFails(ns, v, i)
          PROVE  \E todo \in SUBSET Names : runtime' = Restored(todo, {}) /\ conf' = conf
      <4>1. Changed(Before(ns, i) \cup {ns[i]}, v) \in SUBSET Names
        BY ListNames DEF Changed
      <4> QED
        BY <1>1, <3>3, <4>1 DEF UpdateFails, Says
    <3> QED
      BY <2>1, <3>1, <3>2, <3>3 DEF UpdateCommand
  <2>3. ASSUME NEW n \in Names
        PROVE  /\ runtime[n].st = "serving" /\ ~conf[n].paused => runtime'[n] = runtime[n]
               /\ ~Registered(n) => runtime'[n] = Absent
    <3>1. CASE ~Registered(n)
      BY <2>2, <3>1 DEF Restored, Registered, Absent
    <3>2. CASE Registered(n)
      <4>1. runtime[n] \in Services /\ runtime[n].ver = conf[n].ver
        BY <1>1, <3>2, RegisteredFacts DEF IInv, RegisteredIsConfigured, RunsWhatIsConfigured
      <4>2. runtime[n] = [st |-> runtime[n].st, ver |-> conf[n].ver]
        BY <4>1 DEF Services
      <4> QED
        BY <2>2, <3>2, <4>2 DEF Restored
    <3> QED
      BY <3>1, <3>2
  <2> QED
    BY <2>2, <2>3
<1>2. IInv /\ [Next]_vars =>
        [answer' # answer /\ answer' = [op |-> "update", result |-> "error"] => Undone]_vars
  BY <1>1
<1> QED
  BY <1>2, Invariant, PTL DEF Spec, FailedUpdateUndone

\* A successful UpdateService leaves everything it names serving what it says.
THEOREM UpdateServes == Spec => UpdatedServes
<1> DEFINE Serves == \A ns \in Lists, v \in Versions :
                        Update(ns, v) => \A n \in Listed(ns) : runtime'[n] = Serving(v)
<1>1. ASSUME IInv, NEW ns \in Lists, NEW v \in Versions, Update(ns, v), NEW n \in Listed(ns)
      PROVE  runtime'[n] = Serving(v)
  <2>0. n \in Names /\ TypeOK /\ Changed(Listed(ns), v) \in SUBSET Names
    BY <1>1, ListNames DEF IInv, Changed
  <2>1. runtime' = Updated(Changed(Listed(ns), v), v)
    BY <1>1 DEF Update
  <2>2. CASE n \in Changed(Listed(ns), v)
    BY <2>0, <2>1, <2>2 DEF Updated
  <2>3. CASE n \notin Changed(Listed(ns), v)
    <3>1. Registered(n) /\ conf[n] = Entry(v, FALSE)
      BY <1>1, <2>3 DEF Changed, Unchanged
    <3>2. runtime[n] \in Services /\ runtime[n].st = "serving" /\ runtime[n].ver = v
      BY <1>1, <2>0, <3>1, RegisteredFacts
      DEF IInv, RegisteredIsConfigured, SilentIsMarked, RunsWhatIsConfigured, Entry
    <3>3. runtime[n] = Serving(v)
      BY <3>2 DEF Services, Serving
    <3> QED
      BY <2>0, <2>1, <2>3, <3>3 DEF Updated
  <2> QED
    BY <2>2, <2>3
<1>2. IInv /\ [Next]_vars => [Serves]_vars
  BY <1>1
<1> QED
  BY <1>2, Invariant, PTL DEF Spec, UpdatedServes

\* Whatever an UpdateService answers is true of the services it names.
THEOREM UpdateAnswers == Spec => UpdateAnswerIsTrue
BY FailureUndone, UpdateServes DEF UpdateAnswerIsTrue

\* While the agent runs nothing that is marked paused starts to serve.
THEOREM OnlyUnmarkedWakes == Spec => WakesUnmarked
<1> DEFINE Silent(n) == runtime[n].st \in {"closed", "bound"}
           Wakes == \A n \in Names :
                       Silent(n) /\ runtime'[n].st = "serving" => ~conf'[n].paused
<1>1. ASSUME IInv, Next, NEW n \in Names, Silent(n), runtime'[n].st = "serving"
      PROVE  ~conf'[n].paused
  <2>0. TypeOK /\ Registered(n) /\ runtime'[n] # runtime[n]
    BY <1>1 DEF IInv, Registered, Absent
  <2>1. ASSUME NEW ns \in Lists, NEW v \in Versions, AddCommand(ns, v) \/ UpdateCommand(ns, v)
        PROVE  ~conf'[n].paused
    <3>1. CASE Add(ns, v)
      BY <2>0, <3>1 DEF Add, Addable, Updated
    <3>2. ASSUME NEW i \in 1 .. Len(ns), AddFails(ns, v, i) PROVE FALSE
      BY <2>0, <3>2 DEF AddFails
    <3>3. CASE Update(ns, v)
      <4>1. n \in Changed(Listed(ns), v)
        BY <2>0, <3>3 DEF Update, Updated
      <4>2. conf'[n] = Entry(v, FALSE)
        BY <3>3, <4>1 DEF Update, Save, Becomes, Configured
      <4> QED
        BY <4>2 DEF Entry
    <3>4. ASSUME NEW todo, NEW lost, runtime' = Restored(todo, lost), conf' = conf
          PROVE  ~conf'[n].paused
      BY <1>1, <2>0, <3>4 DEF Restored, Absent
    <3>5. CASE UpdateUnsaved(ns, v)
      BY <3>4, <3>5 DEF UpdateUnsaved, Becomes
    <3>6. ASSUME NEW i \in 1 .. Len(ns), UpdateFails(ns, v, i) PROVE ~conf'[n].paused
      BY <3>4, <3>6 DEF UpdateFails
    <3> QED
      BY <2>1, <3>1, <3>2, <3>3, <3>5, <3>6 DEF AddCommand, UpdateCommand
  <2>2. ASSUME NEW ns \in Lists, Delete(ns) PROVE FALSE
    BY <1>1, <2>0, <2>2 DEF Delete, Absent
  <2>3. ASSUME NEW m \in Names, Resume(m) PROVE ~conf'[n].paused
    <3>1. m = n /\ conf[n].paused
      BY <2>0, <2>3 DEF Resume, TypeOK
    <3>2. conf' = Marked(n, FALSE)
      BY <2>3, <3>1 DEF Resume, Save, Becomes
    <3>3. conf[n] # None
      BY <2>3, <3>1 DEF Resume
    <3>4. Marked(n, FALSE)[n] = Entry(conf[n].ver, FALSE)
      BY <2>0, <3>3, MarkedFacts
    <3>5. conf'[n] = [ver |-> conf[n].ver, paused |-> FALSE]
      BY <3>2, <3>4 DEF Entry
    <3> QED
      BY <3>5
  <2>4. ASSUME NEW m \in Names, Pause(m) \/ ResumeFails(m) \/ ResumeUnsaved(m) PROVE FALSE
    <3>1. \E s : runtime' = [runtime EXCEPT ![m] = s] /\ (s = Absent \/ s.st = "closed")
      <4>1. CASE Pause(m)
        <5>1. Registered(m) /\ runtime' = [runtime EXCEPT ![m] = [@ EXCEPT !.st = "closed"]]
          BY <4>1 DEF Pause, Stopped
        <5>2. runtime[m] \in Services
          BY <2>0, <5>1 DEF TypeOK, Registered
        <5>3. [runtime[m] EXCEPT !.st = "closed"].st = "closed"
          BY <5>2 DEF Services
        <5> QED
          BY <5>1, <5>3
      <4>2. CASE ResumeFails(m)
        BY <4>2 DEF ResumeFails
      <4>3. CASE ResumeUnsaved(m)
        <5>1. runtime' = [runtime EXCEPT ![m] = [st |-> "closed", ver |-> conf[m].ver]]
          BY <4>3 DEF ResumeUnsaved
        <5>2. [st |-> "closed", ver |-> conf[m].ver].st = "closed"
          OBVIOUS
        <5> QED
          BY <5>1, <5>2
      <4> QED
        BY <2>4, <4>1, <4>2, <4>3
    <3> QED
      BY <1>1, <2>0, <3>1 DEF Absent, TypeOK
  <2>5. /\ ~(SaveOther \/ Crash \/ Boot) /\ \A m \in Names : ~Collect(m)
        /\ \A r \in Reporters : ~(Encode(r) \/ Rename(r) \/ WriteFails(r))
    BY <1>1, <2>0 DEF SaveOther, Crash, Boot, Collect, Encode, Rename, WriteFails,
       IInv, DownIsEmpty, Registered, Absent
  <2> QED
    BY <1>1, <2>1, <2>2, <2>3, <2>4, <2>5 DEF Next
<1>2. IInv /\ [Next]_vars => [Wakes]_vars
  BY <1>1
<1> QED
  BY <1>2, Invariant, PTL DEF Spec, WakesUnmarked
=============================================================================

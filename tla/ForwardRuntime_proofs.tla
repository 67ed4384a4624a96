------------------------ MODULE ForwardRuntime_proofs ------------------------
(***************************************************************************)
(* What ForwardRuntime promises, for any nodes, tunnels, contents, number   *)
(* of handlers, retries, requests and faults: its types, that a service of a *)
(* forward that exists disappears for a cause, and what an undisturbed       *)
(* handler leaves behind.                                                   *)
(***************************************************************************)
EXTENDS ForwardRuntime, TLAPS

-----------------------------------------------------------------------------
(* Types of what the handlers are made of.                                  *)

Ops     == {"none", "create", "update", "pause", "resume", "delete", "redeploy"}
Phases  == {"main", "undo", "heal"}
Results == {"none", "ok", "error"}

\* A handler, field by field.
LEMMA FrameFields ==
    ASSUME NEW f \in Frames
    PROVE  /\ f.op \in Ops /\ f.pc \in PCs /\ f.phase \in Phases
           /\ f.was \in Configs /\ f.use \in Configs /\ f.want \in Contents
           /\ f.old \subseteq Nodes /\ f.todo \subseteq Nodes /\ f.left \subseteq Nodes
           /\ f.node \in Nodes \cup {NoNode} /\ f.result \in Results
           /\ f.tries \in 0 .. MaxRetries /\ f.alone \in BOOLEAN /\ f.healed \in BOOLEAN
BY DEF Frames, Ops, Phases, Results

\* What an idle goroutine is.
LEMMA IdleType == Blank \in Configs /\ Idle \in Frames
<1>1. Blank.ver \in Contents /\ Blank \in Configs
  BY EntryAssumption DEF Blank, Configs
<1>2. 0 \in 0 .. MaxRetries
  BY FaultAssumption
<1> QED
  BY <1>1, <1>2 DEF Idle, Frames, PCs

\* One field of a handler changes.
LEMMA FieldTypes ==
    ASSUME NEW f \in Frames
    PROVE  /\ \A x \in PCs : [f EXCEPT !.pc = x] \in Frames
           /\ \A x \in Phases : [f EXCEPT !.phase = x] \in Frames
           /\ \A x \in Configs : [f EXCEPT !.use = x] \in Frames
           /\ \A x \in SUBSET Nodes : [f EXCEPT !.todo = x] \in Frames
           /\ \A x \in SUBSET Nodes : [f EXCEPT !.left = x] \in Frames
           /\ \A x \in Nodes \cup {NoNode} : [f EXCEPT !.node = x] \in Frames
           /\ \A x \in BOOLEAN : [f EXCEPT !.alone = x] \in Frames
           /\ \A x \in BOOLEAN : [f EXCEPT !.healed = x] \in Frames
           /\ \A x \in Results : [f EXCEPT !.result = x] \in Frames
           /\ \A x \in Contents : [f EXCEPT !.want = x] \in Frames
BY DEF Frames, Phases, Results

\* A handler that has come to its end.
LEMMA EndedType ==
    ASSUME NEW f \in Frames, NEW result \in {"ok", "error"}
    PROVE  Ended(f, result) \in Frames
<1>1. Blank \in Configs /\ Blank.ver \in Contents
  BY IdleType DEF Configs
<1> QED
  BY <1>1 DEF Ended, Frames, PCs

\* Where a handler goes on.
LEMMA NextTypes ==
    ASSUME NEW f \in Frames
    PROVE  /\ Synced(f) \in Frames /\ Unsynced(f) \in Frames
           /\ \A n : \A after \in Frames : Skip(f, n, after) \in Frames
<1>1. /\ f.left \in SUBSET Nodes /\ Removed(f) \in SUBSET Nodes
      /\ \A n : f.todo \ {n} \in SUBSET Nodes
  BY FrameFields DEF Removed
<1>2. \A x \in PCs, t \in SUBSET Nodes : [f EXCEPT !.pc = x, !.todo = t] \in Frames
  BY DEF Frames
<1>3. {"retry", "purge", "drop", "undo"} \subseteq PCs
  BY DEF PCs
<1>4. Synced(f) \in Frames
  BY <1>1, <1>2, <1>3, EndedType DEF Synced
<1>5. Unsynced(f) \in Frames
  BY <1>3, FieldTypes, EndedType DEF Unsynced
<1>6. ASSUME NEW n, NEW after \in Frames PROVE Skip(f, n, after) \in Frames
  <2>1. [f EXCEPT !.todo = @ \ {n}] = [f EXCEPT !.todo = f.todo \ {n}]
    OBVIOUS
  <2> QED
    BY <1>1, <2>1, FieldTypes DEF Skip
<1> QED
  BY <1>4, <1>5, <1>6

\* The handlers stay handlers.
LEMMA ProcTypes ==
    ASSUME proc \in [Procs -> Frames], NEW p \in Procs, NEW frame \in Frames
    PROVE  /\ Disturbed \in [Procs -> Frames]
           /\ Go(p, frame) => proc' \in [Procs -> Frames]
           /\ GoDisturbed(p, frame) => proc' \in [Procs -> Frames]
           /\ Begin(p, frame) => proc' \in [Procs -> Frames]
<1>1. Disturbed \in [Procs -> Frames]
  BY FieldTypes DEF Disturbed
<1>2. \A x \in BOOLEAN : [frame EXCEPT !.alone = x] \in Frames
  BY FieldTypes
<1>3. Go(p, frame) => proc' \in [Procs -> Frames]
  BY DEF Go
<1>4. GoDisturbed(p, frame) => proc' \in [Procs -> Frames]
  BY <1>1, <1>2 DEF GoDisturbed
<1>5. ASSUME Begin(p, frame) PROVE proc' \in [Procs -> Frames]
  <2> DEFINE quiet == link = Nodes /\ \A q \in Procs \ {p} : proc[q].pc \in {"idle", "done"}
  <2>1. quiet \in BOOLEAN
    BY Zenon
  <2>2. proc' = [Disturbed EXCEPT ![p] = [frame EXCEPT !.alone = quiet]]
    BY <1>5 DEF Begin
  <2>3. [frame EXCEPT !.alone = quiet] \in Frames
    BY <1>2, <2>1
  <2> HIDE DEF quiet
  <2> QED
    BY <1>1, <2>2, <2>3
<1> QED
  BY <1>1, <1>3, <1>4, <1>5

\* A fault keeps the count of faults in its bound.
LEMMA FaultType ==
    ASSUME faults \in 0 .. MaxFaults, NEW kind, Fault(kind)
    PROVE  faults' \in 0 .. MaxFaults /\ faults' > faults
BY FaultAssumption DEF Fault

\* A request keeps the count of requests in its bound.
LEMMA AsksType ==
    ASSUME asked \in 0 .. MaxRequests, Asks
    PROVE  asked' \in 0 .. MaxRequests
BY FaultAssumption DEF Asks

\* What a command changes stays of its type.
LEMMA CommandType ==
    ASSUME TypeOK, NEW p \in Procs, NEW n \in Nodes, NEW s \in Configs \cup {NoService},
           NEW next \in Frames, NEW failed \in Frames, Command(p, n, s, next, failed)
    PROVE  /\ svc' \in [Nodes -> Configs \cup {NoService}]
           /\ proc' \in [Procs -> Frames]
           /\ faults' \in 0 .. MaxFaults
<1>1. [svc EXCEPT ![n] = s] \in [Nodes -> Configs \cup {NoService}]
  BY DEF TypeOK
<1>2. svc' \in [Nodes -> Configs \cup {NoService}]
  BY <1>1 DEF Command, TypeOK
<1>3. faults' \in 0 .. MaxFaults
  BY FaultType DEF Command, TypeOK
<1>4. proc' \in [Procs -> Frames]
  BY ProcTypes DEF Command, TypeOK
<1> QED
  BY <1>2, <1>3, <1>4

\* What a service becomes is a service.
LEMMA ServiceTypes ==
    /\ \A c \in Configs : c.ver \in Contents /\ c.on \in BOOLEAN
    /\ \A v \in Contents, b \in BOOLEAN : [on |-> b, ver |-> v] \in Configs
    /\ \A c \in Configs, b \in BOOLEAN : [c EXCEPT !.on = b] \in Configs
    /\ \A c \in Configs, v \in Contents : [c EXCEPT !.ver = v] \in Configs
    /\ NoService \notin Configs
BY NoneAssumption DEF Configs

\* Ports come from the entry nodes.
LEMMA EntryType == \A v \in Contents : Entry[v] \in SUBSET Nodes
BY EntryAssumption
-----------------------------------------------------------------------------
(* Types of the variables.                                                 *)

\* The first state is of its type.
LEMMA InitType == Init => TypeOK
BY IdleType, FaultAssumption DEF Init, TypeOK

\* A step of a handler inside the panel keeps the types.
LEMMA HandlerType ==
    ASSUME TypeOK, NEW p \in Procs,
           \/ Store(p) \/ StorePorts(p) \/ Reread(p) \/ Sync(p) \/ Quiet(p) \/ Undo(p)
           \/ UndoPorts(p) \/ Retry(p) \/ Write(p) \/ Drop(p) \/ Finish(p) \/ RedeployAgain(p)
    PROVE  TypeOK'
<1> DEFINE f == proc[p]
<1>f. f \in Frames
  BY DEF TypeOK
<1> HIDE DEF f
<1>1. CASE Store(p)
  <2>1. [f EXCEPT !.pc = "storePorts"] \in Frames
    BY <1>f, FieldTypes DEF PCs
  <2>2. row' \in Configs
    BY <1>1, <1>f, FrameFields, ServiceTypes DEF Store, TypeOK, f
  <2> QED
    BY <1>1, <2>1, <2>2, ProcTypes DEF Store, TypeOK, f
<1>2. CASE Reread(p)
  <2>1. Kept(f) \subseteq Nodes
    BY <1>f, FrameFields DEF Kept
  <2>2. row \in Configs
    BY DEF TypeOK
  <2>3. /\ [f EXCEPT !.pc = "undo"] \in Frames
        /\ [f EXCEPT !.use = row, !.pc = "sync"] \in Frames
        /\ [f EXCEPT !.use = row, !.pc = "clean", !.todo = Kept(f)] \in Frames
    BY <1>f, <2>1, <2>2 DEF Frames, PCs
  <2> QED
    BY <1>2, <2>3, ProcTypes DEF Reread, TypeOK, f
<1>3. CASE Sync(p)
  <2>1. [f EXCEPT !.pc = "apply", !.todo = ports] \in Frames
    BY <1>f DEF Frames, PCs, TypeOK
  <2> QED
    BY <1>3, <1>f, <2>1, NextTypes, ProcTypes DEF Sync, TypeOK, f
<1>4. CASE Quiet(p)
  <2>1. [f EXCEPT !.pc = "quieting", !.todo = ports] \in Frames
    BY <1>f DEF Frames, PCs, TypeOK
  <2> QED
    BY <1>4, <1>f, <2>1, NextTypes, ProcTypes DEF Quiet, TypeOK, f
<1>5. CASE Undo(p)
  <2>1. f.was \in Configs /\ [f EXCEPT !.pc = "undoPorts"] \in Frames
    BY <1>f, FrameFields, FieldTypes DEF PCs
  <2> QED
    BY <1>5, <2>1, ProcTypes DEF Undo, TypeOK, f
<1>6. CASE Retry(p)
  <2> DEFINE n    == f.node
             rest == [f EXCEPT !.pc = "control", !.phase = "main", !.left = {}, !.node = NoNode]
             last == [rest EXCEPT !.pc = "write", !.todo = {}]
  <2>1. rest \in Frames
    BY <1>f DEF Frames, PCs
  <2>2. last \in Frames
    BY <2>1 DEF Frames, PCs
  <2> HIDE DEF last, rest
  <2>3. Skip(rest, n, last) \in Frames /\ Ended(f, "error") \in Frames
    BY <1>f, <2>1, <2>2, NextTypes, EndedType
  <2>4. \/ /\ Go(p, Ended(f, "error")) \/ Go(p, Skip(rest, n, last))
           /\ UNCHANGED faults \/ Fault("refused") \/ Fault("late")
    BY <1>6 DEF Retry, f, rest, last
  <2>5. proc' \in [Procs -> Frames] /\ faults' \in 0 .. MaxFaults
    BY <2>3, <2>4, ProcTypes, FaultType DEF TypeOK
  <2>6. \/ svc' = svc
        \/ /\ n \in Nodes /\ svc[n] # NoService
           /\ svc' = [svc EXCEPT ![n].on = (f.op = "resume")]
    <3>1. n = NoNode => n \notin link
      BY NoneAssumption DEF TypeOK
    <3> QED
      BY <1>6, <1>f, <3>1, FrameFields DEF Retry, f
  <2>7. CASE svc' = svc
    BY <1>6, <2>5, <2>7 DEF Retry, TypeOK
  <2>8. CASE /\ n \in Nodes /\ svc[n] # NoService
             /\ svc' = [svc EXCEPT ![n].on = (f.op = "resume")]
    <3>1. svc[n] \in Configs
      BY <2>8 DEF TypeOK
    <3>2. [svc[n] EXCEPT !.on = (f.op = "resume")] \in Configs
      BY <3>1, ServiceTypes
    <3>3. svc' = [svc EXCEPT ![n] = [svc[n] EXCEPT !.on = (f.op = "resume")]]
      BY <2>8
    <3>4. svc' \in [Nodes -> Configs \cup {NoService}]
      BY <2>8, <3>2, <3>3 DEF TypeOK
    <3> QED
      BY <1>6, <2>5, <3>4 DEF Retry, TypeOK
  <2> QED
    BY <2>6, <2>7, <2>8
<1>7. CASE Write(p)
  <2>1. row' \in Configs
    BY <1>7, ServiceTypes DEF Write, TypeOK
  <2> QED
    BY <1>7, <1>f, <2>1, EndedType, ProcTypes DEF Write, TypeOK, f
<1>8. CASE Drop(p)
  <2>1. proc' \in [Procs -> Frames]
    <3>1. Ended(f, IF f.op = "create" THEN "error" ELSE "ok") \in Frames
      BY <1>f, EndedType
    <3> QED
      BY <1>8, <3>1, ProcTypes DEF Drop, TypeOK, f
  <2> QED
    BY <1>8, <2>1, IdleType DEF Drop, TypeOK
<1>9. CASE Finish(p)
  BY <1>9, IdleType, ProcTypes DEF Finish, TypeOK
<1>10. CASE RedeployAgain(p)
  <2>1. f.was \in Configs /\ f.tries + 1 \in 0 .. MaxRetries
    BY <1>10, <1>f, FrameFields, FaultAssumption DEF RedeployAgain, f
  <2>2. [f EXCEPT !.pc = "sync", !.use = f.was, !.result = "none",
                  !.healed = FALSE, !.tries = f.tries + 1] \in Frames
    BY <1>f, <2>1 DEF Frames, PCs
  <2>3. proc' \in [Procs -> Frames]
    BY <1>10, <2>2, ProcTypes, IdleType DEF RedeployAgain, TypeOK, f
  <2> QED
    BY <1>10, <2>3 DEF RedeployAgain, TypeOK
<1>11. CASE StorePorts(p)
  <2>1. [f EXCEPT !.pc = "reread"] \in Frames
    BY <1>f, FieldTypes DEF PCs
  <2>2. ports' \subseteq Nodes
    BY <1>11, <1>f, FrameFields, EntryType DEF StorePorts, f
  <2> QED
    BY <1>11, <2>1, <2>2, ProcTypes DEF StorePorts, TypeOK, f
<1>12. CASE UndoPorts(p)
  <2>1. f.was \in Configs /\ f.old \subseteq Nodes
    BY <1>f, FrameFields
  <2>2. [f EXCEPT !.pc = "sync", !.phase = "undo", !.use = f.was, !.todo = {}] \in Frames
    BY <1>f, <2>1 DEF Frames, PCs
  <2> QED
    BY <1>12, <2>1, <2>2, ProcTypes DEF UndoPorts, TypeOK, f
<1> QED
  BY <1>1, <1>2, <1>3, <1>4, <1>5, <1>6, <1>7, <1>8, <1>9, <1>10, <1>11, <1>12

\* So does one whose transaction or read fails: it changes nothing but the
\* handler.
LEMMA StorageType ==
    ASSUME TypeOK, NEW p \in Procs, StorageFails(p)
    PROVE  TypeOK'
<1> DEFINE f == proc[p]
<1>f. f \in Frames
  BY DEF TypeOK
<1>1. /\ Ended(f, "ok") \in Frames /\ Ended(f, "error") \in Frames /\ Unsynced(f) \in Frames
      /\ [f EXCEPT !.pc = "undo"] \in Frames /\ [f EXCEPT !.pc = "undoPorts"] \in Frames
  BY <1>f, NextTypes, EndedType, FieldTypes DEF PCs
<1>2. /\ UNCHANGED <<life, row, ports, svc, link, owed, asked>>
      /\ Fault("storage")
      /\ \E g \in Frames : Go(p, g) \/ GoDisturbed(p, g)
  <2> HIDE DEF f
  <2> QED
    BY <1>1 DEF StorageFails, CreateFails, StoreFails, UpdateFails, ListFails, UndoFails,
                UndoPortsFails, WriteFails, DropFails, f
<1>3. proc' \in [Procs -> Frames] /\ faults' \in 0 .. MaxFaults
  BY <1>2, ProcTypes, FaultType DEF TypeOK
<1> QED
  BY <1>2, <1>3 DEF TypeOK

\* A step of a handler at a node keeps the types.
LEMMA NodeType ==
    ASSUME TypeOK, NEW p \in Procs, NEW n \in Nodes, NodeStep(p, n)
    PROVE  TypeOK'
<1> DEFINE f == proc[p]
<1>f. f \in Frames
  BY DEF TypeOK
<1>s. /\ svc[n] \in Configs \cup {NoService}
      /\ \A b \in BOOLEAN : (IF svc[n] = NoService THEN NoService ELSE [svc[n] EXCEPT !.on = b])
                            \in Configs \cup {NoService}
  BY ServiceTypes DEF TypeOK
<1>n. \A after \in Frames : Skip(f, n, after) \in Frames
  BY <1>f, NextTypes
<1>a. Synced(f) \in Frames /\ Unsynced(f) \in Frames
      /\ Ended(f, "ok") \in Frames /\ Ended(f, "error") \in Frames
  BY <1>f, NextTypes, EndedType
<1>p. \A pc \in PCs : [f EXCEPT !.pc = pc, !.todo = {}] \in Frames
  BY <1>f DEF Frames
<1>q. {"quiet", "write", "sync", "drop"} \subseteq PCs
  BY DEF PCs
<1> HIDE DEF f
<1>1. CASE Apply(p, n)
  <2> DEFINE after == IF f.use.on THEN Synced(f) ELSE [f EXCEPT !.pc = "quiet", !.todo = {}]
  <2>1. after \in Frames
    BY <1>a, <1>p, <1>q
  <2>2. Skip(f, n, after) \in Frames
    BY <1>n, <2>1
  <2>3. [on |-> TRUE, ver |-> f.use.ver] \in Configs
    BY <1>f, FrameFields, ServiceTypes
  <2> HIDE DEF after
  <2>4. CASE Command(p, n, [on |-> TRUE, ver |-> f.use.ver], Skip(f, n, after), Unsynced(f))
    <3>1. /\ svc' \in [Nodes -> Configs \cup {NoService}]
          /\ proc' \in [Procs -> Frames] /\ faults' \in 0 .. MaxFaults
      BY <1>a, <2>2, <2>3, <2>4, CommandType
    <3> QED
      BY <1>1, <3>1 DEF Apply, TypeOK
  <2>5. CASE /\ Fault("refused")
             /\ svc' = [svc EXCEPT ![n] = NoService]
             /\ GoDisturbed(p, Unsynced(f)) \/ Go(p, Unsynced(f))
    <3>1. proc' \in [Procs -> Frames] /\ faults' \in 0 .. MaxFaults
      BY <1>a, <2>5, ProcTypes, FaultType DEF TypeOK
    <3> QED
      BY <1>1, <2>5, <3>1 DEF Apply, TypeOK
  <2> QED
    BY <1>1, <2>4, <2>5 DEF Apply, f, after
<1>2. CASE Quieting(p, n)
  <2>1. Skip(f, n, Synced(f)) \in Frames
    BY <1>a, <1>n
  <2>2. [f EXCEPT !.pc = "sync", !.healed = TRUE, !.todo = {}] \in Frames
    BY <1>f DEF Frames, PCs
  <2>3. CASE /\ Go(p, IF f.healed THEN Unsynced(f)
                      ELSE [f EXCEPT !.pc = "sync", !.healed = TRUE, !.todo = {}])
             /\ UNCHANGED <<svc, faults>>
    BY <1>2, <1>a, <2>2, <2>3, ProcTypes DEF Quieting, TypeOK
  <2>4. CASE Command(p, n, IF svc[n] = NoService THEN NoService ELSE [svc[n] EXCEPT !.on = FALSE],
                     Skip(f, n, Synced(f)), Unsynced(f))
    <3>1. /\ svc' \in [Nodes -> Configs \cup {NoService}]
          /\ proc' \in [Procs -> Frames] /\ faults' \in 0 .. MaxFaults
      BY <1>a, <1>s, <2>1, <2>4, CommandType
    <3> QED
      BY <1>2, <3>1 DEF Quieting, TypeOK
  <2> QED
    BY <1>2, <2>3, <2>4 DEF Quieting, f
<1>3. CASE Clean(p, n)
  <2>1. Skip(f, n, [f EXCEPT !.pc = "sync", !.todo = {}]) \in Frames
    BY <1>n, <1>p, <1>q
  <2>2. /\ svc' \in [Nodes -> Configs \cup {NoService}]
        /\ proc' \in [Procs -> Frames] /\ faults' \in 0 .. MaxFaults
    BY <1>3, <2>1, CommandType DEF Clean, f
  <2> QED
    BY <1>3, <2>2 DEF Clean, TypeOK
<1>4. CASE Purge(p, n)
  <2>1. Skip(f, n, Ended(f, "ok")) \in Frames
    BY <1>n, <1>a
  <2>2. /\ svc' \in [Nodes -> Configs \cup {NoService}]
        /\ proc' \in [Procs -> Frames] /\ faults' \in 0 .. MaxFaults
    BY <1>4, <2>1, CommandType DEF Purge, f
  <2> QED
    BY <1>4, <2>2 DEF Purge, TypeOK
<1>5. CASE ControlNode(p, n)
  <2>1. Skip(f, n, [f EXCEPT !.pc = "write", !.todo = {}]) \in Frames
    BY <1>n, <1>p, <1>q
  <2>2. [f EXCEPT !.pc = "sync", !.phase = "heal", !.healed = TRUE,
                  !.node = n, !.left = f.todo, !.todo = {}] \in Frames
    BY <1>f DEF Frames, PCs
  <2>3. CASE /\ Go(p, IF f.healed THEN Ended(f, "error")
                      ELSE [f EXCEPT !.pc = "sync", !.phase = "heal", !.healed = TRUE,
                                     !.node = n, !.left = f.todo, !.todo = {}])
             /\ UNCHANGED <<svc, faults>>
    BY <1>5, <1>a, <2>2, <2>3, ProcTypes DEF ControlNode, TypeOK
  <2>4. CASE Command(p, n, IF svc[n] = NoService THEN NoService
                           ELSE [svc[n] EXCEPT !.on = (f.op = "resume")],
                     Skip(f, n, [f EXCEPT !.pc = "write", !.todo = {}]), Ended(f, "error"))
    <3>1. (IF svc[n] = NoService THEN NoService ELSE [svc[n] EXCEPT !.on = (f.op = "resume")])
          \in Configs \cup {NoService}
      BY <1>s
    <3>2. /\ svc' \in [Nodes -> Configs \cup {NoService}]
          /\ proc' \in [Procs -> Frames] /\ faults' \in 0 .. MaxFaults
      BY <1>a, <2>1, <2>4, <3>1, CommandType
    <3> QED
      BY <1>5, <3>2 DEF ControlNode, TypeOK
  <2> QED
    BY <1>5, <2>3, <2>4 DEF ControlNode, f
<1>6. CASE Remove(p, n)
  <2>1. Skip(f, n, [f EXCEPT !.pc = "drop", !.todo = {}]) \in Frames
    BY <1>n, <1>p, <1>q
  <2>2. /\ svc' \in [Nodes -> Configs \cup {NoService}]
        /\ proc' \in [Procs -> Frames] /\ faults' \in 0 .. MaxFaults
    BY <1>6, <1>a, <2>1, CommandType DEF Remove, f
  <2> QED
    BY <1>6, <2>2 DEF Remove, TypeOK
<1> QED
  BY <1>1, <1>2, <1>3, <1>4, <1>5, <1>6 DEF NodeStep

\* The start of a request or of a redeploy keeps the types.
LEMMA RequestType ==
    ASSUME TypeOK, NEW p \in Procs, Request(p)
    PROVE  TypeOK'
<1>1. row \in Configs /\ ports \in SUBSET Nodes
  BY DEF TypeOK
<1>2. ASSUME NEW v \in Contents, Create(p, v) PROVE TypeOK'
  <2> DEFINE new == [on |-> TRUE, ver |-> v]
             frame == [Idle EXCEPT !.op = "create", !.pc = "sync", !.was = new, !.use = new]
  <2>1. new \in Configs
    BY ServiceTypes
  <2>2. frame \in Frames
    BY <2>1, IdleType DEF Frames, PCs
  <2>3. Begin(p, frame) /\ row' = new /\ ports' = Entry[v] /\ life' = "there" /\ Asks
    BY <1>2 DEF Create
  <2> HIDE DEF frame, new
  <2>4. proc' \in [Procs -> Frames] /\ asked' \in 0 .. MaxRequests
    BY <2>2, <2>3, ProcTypes, AsksType DEF TypeOK
  <2> QED
    BY <1>2, <2>1, <2>3, <2>4, EntryType DEF Create, TypeOK
<1>3. ASSUME NEW v \in Contents, Update(p, v) PROVE TypeOK'
  <2>1. [Idle EXCEPT !.op = "update", !.pc = "store", !.was = row, !.old = ports, !.want = v]
        \in Frames
    BY <1>1, IdleType DEF Frames, PCs
  <2>2. proc' \in [Procs -> Frames] /\ asked' \in 0 .. MaxRequests
    BY <1>3, <2>1, ProcTypes, AsksType DEF Update, TypeOK
  <2> QED
    BY <1>3, <2>2 DEF Update, TypeOK
<1>4. ASSUME NEW op \in {"pause", "resume"}, Control(p, op) PROVE TypeOK'
  <2>1. \A pc \in {"write", "control"} :
          [Idle EXCEPT !.op = op, !.pc = pc, !.was = row, !.use = row, !.todo = ports] \in Frames
    BY <1>1, IdleType DEF Frames, PCs
  <2>2. proc' \in [Procs -> Frames] /\ asked' \in 0 .. MaxRequests
    BY <1>4, <2>1, ProcTypes, AsksType DEF Control, TypeOK
  <2> QED
    BY <1>4, <2>2 DEF Control, TypeOK
<1>5. ASSUME Delete(p) PROVE TypeOK'
  <2>1. \A pc \in {"drop", "remove"} :
          [Idle EXCEPT !.op = "delete", !.pc = pc, !.was = row, !.old = ports, !.todo = ports] \in Frames
    BY <1>1, IdleType DEF Frames, PCs
  <2>2. proc' \in [Procs -> Frames] /\ asked' \in 0 .. MaxRequests
    BY <1>5, <2>1, ProcTypes, AsksType DEF Delete, TypeOK
  <2> QED
    BY <1>5, <2>2 DEF Delete, TypeOK
<1>6. ASSUME NEW n \in Nodes, Redeploy(p, n) PROVE TypeOK'
  <2>1. [Idle EXCEPT !.op = "redeploy", !.pc = "sync", !.was = row, !.use = row] \in Frames
    BY <1>1, IdleType DEF Frames, PCs
  <2>2. proc' \in [Procs -> Frames]
    BY <1>6, <2>1, ProcTypes DEF Redeploy, TypeOK
  <2> QED
    BY <1>6, <2>2 DEF Redeploy, TypeOK
<1> QED
  BY <1>2, <1>3, <1>4, <1>5, <1>6 DEF Request

\* A step of a node, of a sweep or of the panel as a whole keeps the types.
LEMMA WorldType ==
    ASSUME TypeOK,
           \/ ForceDelete \/ PanelRestarts
           \/ \E n \in Nodes : Sweep(n) \/ SweepMisled(n) \/ Lose(n) \/ AgentRestarts(n) \/ Reconnect(n)
    PROVE  TypeOK'
<1>1. CASE ForceDelete
  <2>1. proc' \in [Procs -> Frames]
    BY <1>1, FieldTypes DEF ForceDelete, Disturbed, TypeOK
  <2>2. asked' \in 0 .. MaxRequests
    BY <1>1, AsksType DEF ForceDelete, TypeOK
  <2> QED
    BY <1>1, <2>1, <2>2, IdleType DEF ForceDelete, TypeOK
<1>2. CASE PanelRestarts
  BY <1>2, IdleType, FaultType DEF PanelRestarts, TypeOK
<1>3. ASSUME NEW n \in Nodes, Sweep(n) \/ Reconnect(n) PROVE TypeOK'
  BY <1>3 DEF Sweep, Reconnect, TypeOK
<1>4. ASSUME NEW n \in Nodes, SweepMisled(n) \/ Lose(n) \/ AgentRestarts(n) PROVE TypeOK'
  <2>1. proc' \in [Procs -> Frames]
    BY <1>4, FieldTypes DEF SweepMisled, Lose, AgentRestarts, Disturbed, TypeOK
  <2>2. faults' \in 0 .. MaxFaults
    BY <1>4, FaultType DEF SweepMisled, Lose, AgentRestarts, TypeOK
  <2>3. svc' \in [Nodes -> Configs \cup {NoService}]
    BY <1>4, ServiceTypes DEF SweepMisled, Lose, AgentRestarts, TypeOK
  <2> QED
    BY <1>4, <2>1, <2>2, <2>3 DEF SweepMisled, Lose, AgentRestarts, TypeOK
<1> QED
  BY <1>1, <1>2, <1>3, <1>4

\* Every step keeps the types.
LEMMA TypeStep == TypeOK /\ [Next]_vars => TypeOK'
<1> SUFFICES ASSUME TypeOK, [Next]_vars PROVE TypeOK'
  OBVIOUS
<1>1. CASE UNCHANGED vars
  BY <1>1 DEF vars, TypeOK
<1> QED
  BY <1>1, HandlerType, StorageType, NodeType, RequestType, WorldType DEF Next, ProcStep

\* Every variable stays of its type (TypeOK).
THEOREM TypeCorrect == Spec => []TypeOK
BY InitType, TypeStep, PTL DEF Spec
-----------------------------------------------------------------------------
(* What an undisturbed handler knows, as a function of the row r (l: is it   *)
(* there), the port rows ps and the services sv.                            *)

\* Where only an update can be.
Updating == {"store", "storePorts", "reread", "undo", "undoPorts"}

UpdatesInv == \A p \in Procs : proc[p].pc \in Updating => proc[p].op = "update"

\* What is served for copy c, before it is paused again.
Served(c) == [on |-> TRUE, ver |-> c.ver]

\* A sync is given the row, which is what the handler wants it to be, and so are
\* the ports: an update has stored both, or both as they were.  Of the ports a
\* create or a redeploy finds nothing is known.
Given(f, r, ps) ==
    /\ f.use = r
    /\ \/ f.phase = "main" /\ f.op = "create"
       \/ f.phase = "main" /\ f.op = "redeploy" /\ r = f.was
       \/ f.phase = "main" /\ f.op = "update" /\ r.ver = f.want /\ ps = Entry[r.ver]
       \/ f.phase = "undo" /\ f.op = "update" /\ r = f.was /\ ps = f.old

Controlled(f, sv, S) ==
    \A n \in S : sv[n] # NoService /\ sv[n].on = (f.op = "resume")

\* What holds of a handler that is done.
Over(f, l, r, ps, sv) ==
    /\ f.op \in {"create", "redeploy"} /\ f.result = "ok" => \A n \in ps : sv[n] = r
    /\ f.op = "update" /\ f.result = "ok" =>
          /\ \A n \in ps : sv[n] = r
          /\ Tunnel[r.ver] # Tunnel[f.was.ver] \/ f.old \subseteq Entry[f.was.ver]
                => \A n \in f.old \ ps : sv[n] = NoService
    /\ f.op = "update" /\ f.result = "error" =>
          r = f.was /\ ps = f.old /\ \A n \in ps : sv[n] = r
    /\ f.op \in {"pause", "resume"} /\ f.result = "ok" =>
          r.on = (f.op = "resume") /\ \A n \in ps : sv[n] # NoService /\ sv[n].on = r.on
    /\ f.op = "delete" /\ f.result = "ok" => l = "gone" /\ \A n \in f.old : sv[n] = NoService
    /\ f.op \in {"update", "pause", "resume", "redeploy"} \/ (f.op = "create" /\ f.result = "ok") =>
          l = "there"
    /\ f.op = "redeploy" => f.phase = "main"
    /\ f.op = "redeploy" /\ f.result = "error" => r = f.was

\* What holds of a handler by where it is.
At(f, l, r, ps, sv) ==
    /\ f.pc \notin {"idle", "retry"}
    /\ f.pc \in Updating => f.op = "update"
    /\ f.pc \in {"store", "storePorts", "reread", "clean"} => f.phase = "main"
    /\ f.pc = "storePorts" => r.ver = f.want
    /\ f.pc \in {"reread", "clean"} =>
          f.op = "update" /\ r.ver = f.want /\ ps = Entry[r.ver]
    /\ f.pc = "undoPorts" => r = f.was
    /\ f.pc = "clean" => f.use = r
    /\ f.pc = "sync" => Given(f, r, ps)
    /\ f.pc = "apply" => Given(f, r, ps) /\ \A n \in ps \ f.todo : sv[n] = Served(r)
    /\ f.pc = "quiet" => Given(f, r, ps) /\ ~r.on /\ \A n \in ps : sv[n] = Served(r)
    /\ f.pc = "quieting" =>
          /\ Given(f, r, ps) /\ ~r.on
          /\ \A n \in f.todo : sv[n] = Served(r)
          /\ \A n \in ps \ f.todo : sv[n] = r
    /\ f.pc = "purge" =>
          /\ f.op = "update" /\ f.phase = "main" /\ r.ver = f.want
          /\ f.todo \cap ps = {} /\ \A n \in ps : sv[n] = r
          /\ \A n \in (f.old \ ps) \ f.todo : sv[n] = NoService
    /\ f.pc = "control" => Controlled(f, sv, ps \ f.todo)
    /\ f.pc = "write" => Controlled(f, sv, ps)
    /\ f.pc = "remove" => f.op = "delete" /\ \A n \in f.old \ f.todo : sv[n] = NoService
    /\ f.pc = "drop" => f.op = "create" \/ (f.op = "delete" /\ \A n \in f.old : sv[n] = NoService)
    /\ f.pc = "done" => Over(f, l, r, ps, sv)

\* A pause or a resume that had to deploy a missing service.
Healed(f) == f.op \in {"pause", "resume"} /\ f.healed

Fits(f, l, r, ps, sv) ==
    /\ f.pc # "done" => l = "there"
    /\ f.pc \in {"control", "write"} => f.op \in {"pause", "resume"} /\ f.phase = "main"
    /\ Healed(f) \/ At(f, l, r, ps, sv)

AloneInv == \A p \in Procs : proc[p].alone =>
    /\ link = Nodes
    /\ \A q \in Procs \ {p} : proc[q].pc \in {"idle", "done"}
    /\ Fits(proc[p], life, row, ports, svc)

IInv == TypeOK /\ UpdatesInv /\ AloneInv

\* The first state satisfies the invariant.
LEMMA InitInv == Init => IInv
<1> SUFFICES ASSUME Init PROVE IInv
  OBVIOUS
<1>1. TypeOK
  BY InitType
<1>2. UpdatesInv
  BY DEF Init, UpdatesInv, Updating, Idle
<1>3. AloneInv
  BY DEF Init, AloneInv, Idle
<1> QED
  BY <1>1, <1>2, <1>3 DEF IInv

\* A handler that comes to the end of a sync with every port row served as the
\* row says fits where it goes on.
LEMMA SyncedFits ==
    ASSUME NEW f \in Frames, NEW r \in Configs, NEW ps, NEW sv,
           Healed(f) \/ (Given(f, r, ps) /\ \A n \in ps : sv[n] = r)
    PROVE  Fits(Synced(f), "there", r, ps, sv) /\ Synced(f).alone = f.alone
<1>0. \A result \in {"ok", "error"} :
         /\ Ended(f, result).pc = "done" /\ Ended(f, result).result = result
         /\ Ended(f, result).op = f.op /\ Ended(f, result).was = f.was /\ Ended(f, result).old = f.old
         /\ Ended(f, result).alone = f.alone /\ Ended(f, result).healed = f.healed
         /\ Ended(f, result).phase = "main"
  BY DEF Ended, Frames
<1>1. CASE f.phase = "heal"
  <2>1. Synced(f) = [f EXCEPT !.pc = "retry", !.todo = f.left]
    BY <1>1 DEF Synced
  <2>2. Healed(f)
    BY <1>1 DEF Given
  <2> QED
    BY <2>1, <2>2 DEF Fits, Healed, Frames
<1>2. CASE f.phase = "undo"
  <2>1. Synced(f) = Ended(f, "error")
    BY <1>2 DEF Synced
  <2> QED
    BY <1>0, <1>2, <2>1 DEF Fits, Healed, At, Over, Given
<1>3. CASE f.phase = "main" /\ f.op = "update" /\ TunnelChanged(f) /\ Removed(f) # {}
  <2>1. Synced(f) = [f EXCEPT !.pc = "purge", !.todo = Removed(f)]
    BY <1>3 DEF Synced
  <2>2. ~Healed(f) /\ r.ver = f.want /\ Removed(f) = f.old \ ps /\ \A n \in ps : sv[n] = r
    BY <1>3 DEF Healed, Given, Removed
  <2> QED
    BY <1>3, <2>1, <2>2 DEF Fits, At, Updating, Frames
<1>4. CASE f.phase = "main" /\ ~(f.op = "update" /\ TunnelChanged(f) /\ Removed(f) # {})
  <2>1. Synced(f) = Ended(f, "ok")
    BY <1>4 DEF Synced
  <2>2. CASE f.op = "update"
    <3>1. /\ r.ver = f.want /\ f.was.ver \in Contents /\ f.want \in Contents
          /\ ps = Entry[r.ver] /\ \A n \in ps : sv[n] = r
      <4>1. f.was \in Configs /\ f.want \in Contents
        BY FrameFields
      <4>2. Given(f, r, ps)
        BY <2>2 DEF Healed
      <4> QED
        BY <1>4, <2>2, <4>1, <4>2, ServiceTypes DEF Given, Healed
    <3>2. Tunnel[r.ver] # Tunnel[f.was.ver] \/ f.old \subseteq Entry[f.was.ver] => f.old \subseteq ps
      BY <1>4, <2>2, <3>1, EntryAssumption DEF TunnelChanged, Removed
    <3>3. Over(Ended(f, "ok"), "there", r, ps, sv)
      BY <1>0, <2>2, <3>1, <3>2 DEF Over
    <3> QED
      BY <1>0, <2>1, <3>3 DEF Fits, At, Updating
  <2>3. CASE f.op # "update"
    BY <1>0, <1>4, <2>1, <2>3 DEF Fits, Healed, At, Updating, Over, Given
  <2> QED
    BY <2>2, <2>3
<1> QED
  BY <1>1, <1>2, <1>3, <1>4, FrameFields DEF Phases

\* So does one whose sync was refused, unless it was undoing something already.
LEMMA UnsyncedFits ==
    ASSUME NEW f \in Frames, NEW r \in Configs, NEW ps, NEW sv,
           Healed(f) \/ (Given(f, r, ps) /\ (f.phase # "undo" \/ ps = {}))
    PROVE  Fits(Unsynced(f), "there", r, ps, sv) /\ Unsynced(f).alone = f.alone
<1>1. CASE f.phase = "main" /\ f.op = "create"
  <2>1. Unsynced(f) = [f EXCEPT !.pc = "drop"]
    BY <1>1 DEF Unsynced
  <2> QED
    BY <1>1, <2>1 DEF Fits, At, Updating, Frames
<1>2. CASE f.phase = "main" /\ f.op = "update"
  <2>1. Unsynced(f) = [f EXCEPT !.pc = "undo"]
    BY <1>2 DEF Unsynced
  <2> QED
    BY <1>2, <2>1 DEF Fits, At, Frames
<1>3. CASE ~(f.phase = "main" /\ f.op \in {"create", "update"})
  <2> DEFINE e == Ended(f, "error")
  <2>1. Unsynced(f) = e
    BY <1>3 DEF Unsynced
  <2>2. /\ e.pc = "done" /\ e.result = "error" /\ e.op = f.op /\ e.was = f.was /\ e.old = f.old
        /\ e.alone = f.alone /\ e.healed = f.healed /\ e.phase = "main"
    BY DEF Ended, Frames
  <2>3. \/ Healed(e)
        \/ f.op = "redeploy" /\ r = f.was
        \/ f.op = "update" /\ r = f.was /\ ps = f.old /\ ps = {}
    BY <1>3, <2>2 DEF Given, Healed
  <2> HIDE DEF e
  <2>4. Healed(e) \/ Over(e, "there", r, ps, sv)
    BY <2>2, <2>3 DEF Over
  <2>5. Fits(e, "there", r, ps, sv) /\ e.alone = f.alone
    BY <2>2, <2>4 DEF Fits, At, Updating
  <2> QED
    BY <2>1, <2>5
<1> QED
  BY <1>1, <1>2, <1>3

-----------------------------------------------------------------------------
(* The steps of a handler keep the invariant.                               *)

\* The same request, further on.
Same(f, g) ==
    /\ g.op = f.op /\ g.old = f.old /\ g.was = f.was /\ g.alone = f.alone
    /\ g.pc \in Updating => g.op = "update"

\* Where a handler goes on, it serves the same request.
LEMMA SameFacts ==
    ASSUME NEW f \in Frames
    PROVE  /\ Same(f, Synced(f)) /\ Same(f, Unsynced(f))
           /\ Same(f, Ended(f, "ok")) /\ Same(f, Ended(f, "error"))
           /\ f.pc \notin Updating =>
                 \A n, after : Same(f, after) => Same(f, Skip(f, n, after))
<1>1. Same(f, Ended(f, "ok")) /\ Same(f, Ended(f, "error"))
  BY DEF Same, Updating, Ended, Frames
<1>2. Same(f, Unsynced(f))
  BY <1>1 DEF Unsynced, Same, Updating, Frames
<1>3. Same(f, Synced(f))
  BY <1>1 DEF Synced, Same, Updating, Frames
<1>4. f.pc \notin Updating => \A n, after : Same(f, after) => Same(f, Skip(f, n, after))
  BY DEF Skip, Same, Frames
<1> QED
  BY <1>1, <1>2, <1>3, <1>4

\* While a handler is at work no other one is alone, and if it is alone itself
\* every node is connected.
LEMMA WorkingAlone ==
    ASSUME IInv, NEW p \in Procs, proc[p].pc \notin {"idle", "done"}
    PROVE  /\ \A q \in Procs \ {p} : ~proc[q].alone
           /\ proc[p].alone => /\ link = Nodes /\ life = "there"
                               /\ Fits(proc[p], life, row, ports, svc)
<1>1. \A q \in Procs \ {p} : ~proc[q].alone
  BY DEF IInv, AloneInv
<1>2. proc[p].alone => link = Nodes /\ Fits(proc[p], life, row, ports, svc)
  BY DEF IInv, AloneInv
<1> QED
  BY <1>1, <1>2 DEF IInv, UpdatesInv, Fits

\* A handler that goes on with its request, and fits where it goes as long as
\* it is alone, keeps the invariant.
LEMMA GoesOn ==
    ASSUME IInv, TypeOK', link' = link,
           NEW p \in Procs, proc[p].pc \notin {"idle", "done"},
           NEW next \in Frames, Same(proc[p], next),
           \/ GoDisturbed(p, next)
           \/ Go(p, next) /\ (proc[p].alone => Fits(next, life', row', ports', svc'))
    PROVE  IInv'
<1>1. \A q \in Procs : proc[q] \in Frames
  BY DEF IInv, TypeOK
<1>2. CASE GoDisturbed(p, next)
  <2>1. \A q \in Procs : proc'[q] = [(IF q = p THEN next ELSE proc[q]) EXCEPT !.alone = FALSE]
    BY <1>2 DEF GoDisturbed, Disturbed
  <2>2. \A g \in Frames : LET h == [g EXCEPT !.alone = FALSE] IN
           ~h.alone /\ h.op = g.op /\ h.old = g.old /\ h.was = g.was /\ h.pc = g.pc
    BY DEF Frames
  <2>3. ~proc'[p].alone /\ proc'[p].op = proc[p].op /\ proc'[p].old = proc[p].old
        /\ proc'[p].was = proc[p].was /\ proc'[p].pc = next.pc
    BY <2>1, <2>2 DEF Same
  <2>4. ASSUME NEW q \in Procs \ {p}
        PROVE  /\ ~proc'[q].alone /\ proc'[q].op = proc[q].op /\ proc'[q].old = proc[q].old
               /\ proc'[q].was = proc[q].was /\ proc'[q].pc = proc[q].pc
    <3>1. proc[q] \in Frames /\ proc'[q] = [proc[q] EXCEPT !.alone = FALSE]
      BY <1>1, <2>1
    <3> QED
      BY <3>1, <2>2
  <2>5. UpdatesInv'
    BY <2>3, <2>4 DEF IInv, UpdatesInv, Same
  <2> QED
    BY <2>3, <2>4, <2>5 DEF IInv, AloneInv
<1>3. CASE Go(p, next) /\ (proc[p].alone => Fits(next, life', row', ports', svc'))
  <2>1. proc'[p] = next /\ \A q \in Procs \ {p} : proc'[q] = proc[q]
    BY <1>3 DEF Go, IInv, TypeOK
  <2>2. UpdatesInv'
    BY <2>1 DEF IInv, UpdatesInv, Same
  <2>3. AloneInv'
    <3> SUFFICES ASSUME NEW q \in Procs, proc'[q].alone
                 PROVE  /\ link' = Nodes
                        /\ \A o \in Procs \ {q} : proc'[o].pc \in {"idle", "done"}
                        /\ Fits(proc'[q], life', row', ports', svc')
      BY DEF AloneInv
    <3>1. q = p /\ proc[p].alone
      BY <2>1, WorkingAlone DEF Same
    <3> QED
      BY <1>3, <2>1, <3>1 DEF IInv, AloneInv
  <2> QED
    BY <2>2, <2>3 DEF IInv
<1> QED
  BY <1>2, <1>3

\* A command keeps the invariant if the handler fits where it goes on with the
\* service in its new state, and where it goes when it is refused.
LEMMA CommandKeeps ==
    ASSUME IInv, TypeOK', UNCHANGED <<life, row, ports, link>>,
           NEW p \in Procs, proc[p].pc \notin {"idle", "done"}, NEW n \in Nodes, NEW s,
           NEW next \in Frames, Same(proc[p], next), NEW failed \in Frames, Same(proc[p], failed),
           Command(p, n, s, next, failed),
           proc[p].alone => Fits(next, life, row, ports, [svc EXCEPT ![n] = s]),
           proc[p].alone /\ proc[p].phase # "undo" /\ failed # next => Fits(failed, life, row, ports, svc)
    PROVE  IInv'
<1>1. proc[p].alone => link = Nodes
  BY WorkingAlone
<1>2. CASE Go(p, next) /\ svc' = [svc EXCEPT ![n] = s]
  BY <1>2, GoesOn
<1>3. CASE Go(p, next) /\ n \notin link
  BY <1>1, <1>3, GoesOn
<1>4. CASE GoDisturbed(p, next) \/ GoDisturbed(p, failed)
  BY <1>4, GoesOn
<1>5. CASE Go(p, failed) /\ svc' = svc /\ proc[p].phase # "undo" /\ failed # next
  BY <1>5, GoesOn
<1> QED
  BY <1>2, <1>3, <1>4, <1>5 DEF Command

\* A step of a handler inside the panel keeps the invariant.
LEMMA HandlerKeeps ==
    ASSUME IInv, TypeOK', NEW p \in Procs,
           \/ Store(p) \/ StorePorts(p) \/ Reread(p) \/ Sync(p) \/ Quiet(p) \/ Undo(p)
           \/ UndoPorts(p) \/ Retry(p) \/ Write(p) \/ Drop(p)
    PROVE  IInv'
<1> DEFINE f == proc[p]
<1>f. f \in Frames /\ row \in Configs
  BY DEF IInv, TypeOK
<1>b. f.pc \notin {"idle", "done"}
  BY DEF Store, StorePorts, Reread, Sync, Quiet, Undo, UndoPorts, Retry, Write, Drop
<1>a. f.alone => link = Nodes /\ life = "there" /\ Fits(f, life, row, ports, svc)
  BY <1>b, WorkingAlone
<1>r. f.pc \in Updating => f.op = "update"
  BY DEF IInv, UpdatesInv
<1>e. /\ Ended(f, "ok") \in Frames /\ Ended(f, "error") \in Frames
      /\ Synced(f) \in Frames /\ Unsynced(f) \in Frames
  BY <1>f, NextTypes, EndedType
<1>s. /\ Same(f, Synced(f)) /\ Same(f, Unsynced(f))
      /\ Same(f, Ended(f, "ok")) /\ Same(f, Ended(f, "error"))
  BY <1>f, SameFacts
<1>g. ASSUME NEW g \in Frames, Same(f, g), Go(p, g), f.alone => Fits(g, life', row', ports', svc'),
             link' = link
      PROVE  IInv'
  BY <1>b, <1>g, GoesOn DEF f
<1>1. CASE Store(p)
  <2> DEFINE g == [f EXCEPT !.pc = "storePorts"]
  <2>1. f.pc = "store" /\ f.op = "update"
    BY <1>1, <1>r DEF Store, Updating
  <2>2. g \in Frames /\ Same(f, g)
    BY <1>f, <2>1 DEF Frames, PCs, Same
  <2>3. life' = life /\ life = "there" => row'.ver = f.want
    BY <1>1, <1>f DEF Store, Configs
  <2>4. ASSUME f.alone PROVE Fits(g, life', row', ports', svc')
    <3>1. life' = "there" /\ row'.ver = f.want /\ f.phase = "main"
      BY <1>1, <1>a, <2>1, <2>3, <2>4 DEF Store, Fits, At, Healed
    <3> QED
      BY <1>f, <2>1, <3>1 DEF Fits, At, Frames
  <2> QED
    BY <1>1, <1>g, <2>2, <2>4 DEF Store
<1>2. CASE Reread(p)
  <2> DEFINE clean == [f EXCEPT !.use = row, !.pc = "clean", !.todo = Kept(f)]
             sync  == [f EXCEPT !.use = row, !.pc = "sync"]
             undo  == [f EXCEPT !.pc = "undo"]
  <2>1. f.pc = "reread" /\ f.op = "update"
    BY <1>2, <1>r DEF Reread, Updating
  <2>2. Kept(f) \subseteq Nodes
    BY <1>f, FrameFields DEF Kept
  <2>3. clean \in Frames /\ sync \in Frames /\ undo \in Frames
    BY <1>f, <2>2 DEF Frames, PCs
  <2>4. Same(f, clean) /\ Same(f, sync) /\ Same(f, undo)
    BY <1>f, <2>1 DEF Frames, Same, Updating
  <2>5. UNCHANGED <<life, row, ports, svc, link>>
    BY <1>2 DEF Reread
  <2>6. ASSUME f.alone
        PROVE  /\ life = "there" /\ Fits(clean, life, row, ports, svc)
               /\ Fits(sync, life, row, ports, svc)
    <3>1. life = "there" /\ f.phase = "main" /\ row.ver = f.want /\ ports = Entry[row.ver]
      BY <1>a, <2>1, <2>6 DEF Fits, At, Healed
    <3> QED
      BY <1>f, <2>1, <3>1 DEF Fits, At, Updating, Given, Frames
  <2>7. (Go(p, undo) /\ life = "gone") \/ Go(p, clean) \/ Go(p, sync)
    BY <1>2 DEF Reread
  <2> HIDE DEF clean, sync, undo, f
  <2> QED
    BY <1>g, <2>3, <2>4, <2>5, <2>6, <2>7
<1>3. CASE Sync(p)
  <2> DEFINE g == [f EXCEPT !.pc = "apply", !.todo = ports]
  <2>1. g \in Frames /\ Same(f, g)
    BY <1>f DEF Frames, PCs, Same, Updating, IInv, TypeOK
  <2>2. f.alone => Fits(g, life, row, ports, svc)
    BY <1>3, <1>a, <1>f DEF Sync, Fits, At, Updating, Given, Healed, Frames
  <2>3. ASSUME f.alone, ports = {} PROVE Fits(Unsynced(f), life, row, ports, svc)
    <3>1. life = "there" /\ (Healed(f) \/ Given(f, row, ports))
      BY <1>3, <1>a, <2>3 DEF Sync, Fits, At
    <3> QED
      BY <1>f, <2>3, <3>1, UnsyncedFits
  <2>4. Go(p, g) \/ (ports = {} /\ Go(p, Unsynced(f)))
    BY <1>3 DEF Sync
  <2>5. UNCHANGED <<life, row, ports, svc, link>>
    BY <1>3 DEF Sync
  <2> HIDE DEF g, f
  <2> QED
    BY <1>g, <1>e, <1>s, <2>1, <2>2, <2>3, <2>4, <2>5
<1>4. CASE Quiet(p)
  <2> DEFINE g == [f EXCEPT !.pc = "quieting", !.todo = ports]
  <2>1. g \in Frames /\ Same(f, g)
    BY <1>f DEF Frames, PCs, Same, Updating, IInv, TypeOK
  <2>2. f.alone => Fits(g, life, row, ports, svc)
    BY <1>4, <1>a, <1>f DEF Quiet, Fits, At, Updating, Given, Healed, Frames
  <2>3. ASSUME f.alone, ports = {} PROVE Fits(Synced(f), life, row, ports, svc)
    <3>1. life = "there" /\ (Healed(f) \/ Given(f, row, ports))
      BY <1>4, <1>a, <2>3 DEF Quiet, Fits, At
    <3>2. \A n \in ports : svc[n] = row
      BY <2>3
    <3> QED
      BY <1>f, <3>1, <3>2, SyncedFits
  <2>4. Go(p, g) \/ (ports = {} /\ Go(p, Synced(f)))
    BY <1>4 DEF Quiet
  <2>5. UNCHANGED <<life, row, ports, svc, link>>
    BY <1>4 DEF Quiet
  <2> HIDE DEF g, f
  <2> QED
    BY <1>g, <1>e, <1>s, <2>1, <2>2, <2>3, <2>4, <2>5
<1>5. CASE Undo(p)
  <2> DEFINE g == [f EXCEPT !.pc = "undoPorts"]
  <2>1. f.op = "update"
    BY <1>5, <1>r DEF Undo, Updating
  <2>2. g \in Frames /\ Same(f, g)
    BY <1>f, <2>1 DEF Frames, PCs, Same
  <2>3. life' = life /\ link' = link /\ (life = "there" => row' = f.was)
    BY <1>5 DEF Undo
  <2>4. f.alone => Fits(g, life', row', ports', svc')
    BY <1>a, <1>f, <2>1, <2>3 DEF Fits, At, Frames
  <2> QED
    BY <1>5, <1>g, <2>2, <2>3, <2>4 DEF Undo
<1>6. CASE Retry(p)
  <2> DEFINE n    == f.node
             rest == [f EXCEPT !.pc = "control", !.phase = "main", !.left = {}, !.node = NoNode]
             last == [rest EXCEPT !.pc = "write", !.todo = {}]
             g    == Skip(rest, n, last)
  <2>1. rest \in Frames
    BY <1>f DEF Frames, PCs
  <2>2. last \in Frames
    BY <2>1 DEF Frames, PCs
  <2>3. g \in Frames
    BY <2>1, <2>2, NextTypes
  <2>4. /\ Same(f, g) /\ g.healed = f.healed /\ g.phase = "main" /\ g.pc \in {"control", "write"}
    BY <1>f DEF Frames, Same, Updating, Skip
  <2>5. LET h == Ended(f, "error") IN h.pc = "done" /\ h.healed = f.healed
    BY <1>f DEF Frames, Ended
  <2>6. f.alone => Healed(f) /\ life = "there"
    BY <1>6, <1>a DEF Retry, Fits, At
  <2>7. f.alone => \A sv : Fits(g, life, row, ports, sv) /\ Fits(Ended(f, "error"), life, row, ports, sv)
    BY <1>s, <2>4, <2>5, <2>6 DEF Fits, Healed, Same
  <2>8. UNCHANGED <<life, row, ports, link>>
    BY <1>6 DEF Retry
  <2>9. Go(p, g) \/ Go(p, Ended(f, "error"))
    BY <1>6 DEF Retry
  <2> HIDE DEF g, rest, last, f
  <2> QED
    BY <1>g, <1>e, <1>s, <2>3, <2>4, <2>7, <2>8, <2>9
<1>7. CASE Write(p)
  <2> DEFINE g == Ended(f, "ok")
  <2>1. g.pc = "done" /\ g.healed = f.healed /\ g.op = f.op /\ g.result = "ok" /\ g.phase = "main"
    BY <1>f DEF Frames, Ended
  <2>2. row'.ver = row.ver /\ (life = "there" => row'.on = (f.op = "resume"))
    BY <1>7, <1>f DEF Write, Configs
  <2>3. UNCHANGED <<life, ports, svc, link>> /\ Go(p, g) /\ f.pc = "write"
    BY <1>7 DEF Write
  <2>4. ASSUME f.alone PROVE Fits(g, life', row', ports', svc')
    <3>1. f.op \in {"pause", "resume"} /\ life = "there"
      BY <1>a, <2>3, <2>4 DEF Fits
    <3>2. Healed(f) \/ Controlled(f, svc, ports)
      BY <1>a, <2>3, <2>4 DEF Fits, At
    <3> QED
      BY <2>1, <2>2, <2>3, <3>1, <3>2 DEF Fits, Healed, At, Updating, Over, Controlled
  <2> HIDE DEF g, f
  <2> QED
    BY <1>g, <1>e, <1>s, <2>3, <2>4 DEF g
<1>8. CASE Drop(p)
  <2> DEFINE g == Ended(f, IF f.op = "create" THEN "error" ELSE "ok")
  <2>1. /\ g.pc = "done" /\ g.healed = f.healed /\ g.op = f.op /\ g.old = f.old
        /\ g.result = (IF f.op = "create" THEN "error" ELSE "ok")
    BY <1>f DEF Frames, Ended
  <2>2. life' = "gone" /\ UNCHANGED <<svc, link>> /\ Go(p, g) /\ f.pc = "drop"
    BY <1>8 DEF Drop
  <2>3. ASSUME f.alone PROVE Fits(g, life', row', ports', svc')
    <3>1. \/ Healed(f) \/ f.op = "create"
          \/ f.op = "delete" /\ \A n \in f.old : svc[n] = NoService
      BY <1>a, <2>2, <2>3 DEF Fits, At
    <3> QED
      BY <2>1, <2>2, <3>1 DEF Fits, Healed, At, Updating, Over
  <2>4. g \in Frames /\ Same(f, g)
    BY <1>e, <1>s
  <2> HIDE DEF g, f
  <2> QED
    BY <1>g, <2>2, <2>3, <2>4
<1>9. CASE StorePorts(p)
  <2> DEFINE g == [f EXCEPT !.pc = "reread"]
  <2>1. f.pc = "storePorts" /\ f.op = "update"
    BY <1>9, <1>r DEF StorePorts, Updating
  <2>2. g \in Frames /\ Same(f, g)
    BY <1>f, <2>1 DEF Frames, PCs, Same
  <2>3. ASSUME f.alone PROVE Fits(g, life', row', ports', svc')
    <3>1. life = "there" /\ row.ver = f.want /\ f.phase = "main"
      BY <1>a, <2>1, <2>3 DEF Fits, At, Healed
    <3> QED
      BY <1>9, <1>f, <2>1, <3>1 DEF StorePorts, Fits, At, Frames
  <2> QED
    BY <1>9, <1>g, <2>2, <2>3 DEF StorePorts
<1>10. CASE UndoPorts(p)
  <2> DEFINE g == [f EXCEPT !.pc = "sync", !.phase = "undo", !.use = f.was, !.todo = {}]
  <2>1. f.pc = "undoPorts" /\ f.op = "update"
    BY <1>10, <1>r DEF UndoPorts, Updating
  <2>2. g \in Frames /\ Same(f, g)
    BY <1>f, FrameFields DEF Frames, PCs, Same, Updating
  <2>3. UNCHANGED <<life, row, link>> /\ ports' = f.old
    BY <1>10 DEF UndoPorts
  <2>4. ASSUME f.alone PROVE Fits(g, life', row', ports', svc')
    <3>1. life = "there" /\ row = f.was
      BY <1>a, <2>1, <2>4 DEF Fits, At, Healed
    <3> QED
      BY <1>f, <2>1, <2>3, <3>1 DEF Fits, At, Updating, Given, Frames
  <2> QED
    BY <1>10, <1>g, <2>2, <2>3, <2>4 DEF UndoPorts
<1> QED
  BY <1>1, <1>2, <1>3, <1>4, <1>5, <1>6, <1>7, <1>8, <1>9, <1>10

\* A transaction or a read that fails keeps the invariant: the handler goes on
\* to undo what it did, or ends without a promise, or is disturbed.
LEMMA StorageKeeps ==
    ASSUME IInv, TypeOK', NEW p \in Procs, StorageFails(p)
    PROVE  IInv'
<1> DEFINE f    == proc[p]
           undo == [f EXCEPT !.pc = "undo"]
           back == [f EXCEPT !.pc = "undoPorts"]
           e    == Ended(f, "error")
<1>f. f \in Frames /\ row \in Configs
  BY DEF IInv, TypeOK
<1>b. f.pc \notin {"idle", "done"} /\ UNCHANGED <<life, row, ports, svc, link>>
  BY DEF StorageFails, CreateFails, StoreFails, UpdateFails, ListFails, UndoFails,
         UndoPortsFails, WriteFails, DropFails
<1>a. f.alone => life = "there" /\ Fits(f, life, row, ports, svc)
  BY <1>b, WorkingAlone
<1>r. f.pc \in Updating => f.op = "update"
  BY DEF IInv, UpdatesInv
<1>e. /\ Ended(f, "ok") \in Frames /\ e \in Frames /\ Unsynced(f) \in Frames
      /\ Same(f, Ended(f, "ok")) /\ Same(f, e) /\ Same(f, Unsynced(f))
  BY <1>f, NextTypes, EndedType, SameFacts
<1>d. e.pc = "done" /\ e.result = "error" /\ e.op = f.op /\ e.healed = f.healed
  BY <1>f DEF Ended, Frames
<1>g. ASSUME NEW g \in Frames, Same(f, g),
             GoDisturbed(p, g) \/ (Go(p, g) /\ (f.alone => Fits(g, life, row, ports, svc)))
      PROVE  IInv'
  BY <1>b, <1>g, GoesOn
<1>1. CASE CreateFails(p)
  <2>1. f.op = "create" /\ Go(p, e)
    BY <1>1 DEF CreateFails
  <2>2. Fits(e, life, row, ports, svc)
    BY <1>d, <2>1 DEF Fits, At, Updating, Over
  <2> QED
    BY <1>e, <1>g, <2>1, <2>2
<1>2. CASE StoreFails(p) \/ UndoPortsFails(p) \/ WriteFails(p)
  BY <1>2, <1>e, <1>g DEF StoreFails, UndoPortsFails, WriteFails
<1>3. CASE UpdateFails(p)
  <2>1. f.op = "update" /\ Go(p, undo)
    BY <1>3, <1>r DEF UpdateFails, Updating
  <2>2. undo \in Frames /\ Same(f, undo)
    BY <1>f, <2>1 DEF Frames, PCs, Same
  <2>3. f.alone => Fits(undo, life, row, ports, svc)
    BY <1>a, <1>f, <2>1 DEF Fits, At, Frames
  <2> QED
    BY <1>g, <2>1, <2>2, <2>3
<1>4. CASE ListFails(p)
  <2>1. /\ f.pc \in {"sync", "quiet"}
        /\ GoDisturbed(p, Unsynced(f)) \/ (Go(p, Unsynced(f)) /\ f.phase # "undo")
    BY <1>4 DEF ListFails
  <2>2. ASSUME f.alone, f.phase # "undo" PROVE Fits(Unsynced(f), life, row, ports, svc)
    <3>1. life = "there" /\ (Healed(f) \/ Given(f, row, ports))
      BY <1>a, <2>1, <2>2 DEF Fits, At
    <3> QED
      BY <1>f, <2>2, <3>1, UnsyncedFits
  <2> QED
    BY <1>e, <1>g, <2>1, <2>2
<1>5. CASE UndoFails(p)
  <2>1. f.op = "update" /\ GoDisturbed(p, back)
    BY <1>5, <1>r DEF UndoFails, Updating
  <2>2. back \in Frames /\ Same(f, back)
    BY <1>f, <2>1 DEF Frames, PCs, Same
  <2> QED
    BY <1>g, <2>1, <2>2
<1>6. CASE DropFails(p)
  <2>1. f.pc = "drop" /\ Go(p, e)
    BY <1>6 DEF DropFails
  <2>2. ASSUME f.alone PROVE Fits(e, life, row, ports, svc)
    <3>1. Healed(f) \/ f.op \in {"create", "delete"}
      BY <1>a, <2>1, <2>2 DEF Fits, At
    <3> QED
      BY <1>d, <3>1 DEF Fits, Healed, At, Updating, Over
  <2> QED
    BY <1>e, <1>g, <2>1, <2>2
<1> QED
  BY <1>1, <1>2, <1>3, <1>4, <1>5, <1>6 DEF StorageFails

\* A step of a handler at a node keeps the invariant.
LEMMA NodeKeeps ==
    ASSUME IInv, TypeOK', NEW p \in Procs, NEW n \in Nodes, NodeStep(p, n)
    PROVE  IInv'
<1> DEFINE f == proc[p]
           With(s) == [svc EXCEPT ![n] = s]
<1>f. f \in Frames /\ row \in Configs /\ DOMAIN svc = Nodes /\ ports \subseteq Nodes
  BY DEF IInv, TypeOK
<1>b. f.pc \notin {"idle", "done"} /\ f.pc \notin Updating /\ n \in f.todo
  BY DEF NodeStep, Apply, Quieting, Clean, Purge, ControlNode, Remove, Updating
<1>u. UNCHANGED <<life, row, ports, link>>
  BY DEF NodeStep, Apply, Quieting, Clean, Purge, ControlNode, Remove
<1>a. f.alone => link = Nodes /\ life = "there" /\ Fits(f, life, row, ports, svc)
  BY <1>b, WorkingAlone
<1>e. /\ Ended(f, "ok") \in Frames /\ Ended(f, "error") \in Frames
      /\ Synced(f) \in Frames /\ Unsynced(f) \in Frames
      /\ \A after \in Frames : Skip(f, n, after) \in Frames
  BY <1>f, NextTypes, EndedType
<1>s. /\ Same(f, Synced(f)) /\ Same(f, Unsynced(f))
      /\ Same(f, Ended(f, "ok")) /\ Same(f, Ended(f, "error"))
      /\ \A after : Same(f, after) => Same(f, Skip(f, n, after))
  BY <1>f, <1>b, SameFacts
<1>p. \A pc \in PCs \ Updating : /\ [f EXCEPT !.pc = pc, !.todo = {}] \in Frames
                                 /\ Same(f, [f EXCEPT !.pc = pc, !.todo = {}])
  BY <1>f DEF Frames, Same
<1>q. {"quiet", "write", "sync", "drop"} \subseteq PCs \ Updating
  BY DEF PCs, Updating
<1>d. /\ Ended(f, "error").pc = "done" /\ Ended(f, "error").result = "error"
      /\ Ended(f, "ok").pc = "done" /\ Ended(f, "ok").result = "ok"
      /\ Ended(f, "error").healed = f.healed /\ Ended(f, "ok").healed = f.healed
  BY <1>f DEF Ended, Frames
<1>g. ASSUME NEW g \in Frames, Same(f, g),
             GoDisturbed(p, g) \/ (Go(p, g) /\ (f.alone => Fits(g, life, row, ports, svc')))
      PROVE  IInv'
  BY <1>b, <1>g, <1>u, GoesOn
<1>c. ASSUME NEW s, NEW next \in Frames, NEW failed \in Frames, Same(f, next), Same(f, failed),
             Command(p, n, s, next, failed),
             f.alone => Fits(next, life, row, ports, With(s)),
             f.alone /\ f.phase # "undo" /\ failed # next => Fits(failed, life, row, ports, svc)
      PROVE  IInv'
  BY <1>b, <1>c, <1>u, CommandKeeps
<1>1. CASE Apply(p, n)
  <2> DEFINE s     == [on |-> TRUE, ver |-> f.use.ver]
             quiet == [f EXCEPT !.pc = "quiet", !.todo = {}]
             after == IF f.use.on THEN Synced(f) ELSE quiet
             rest  == [f EXCEPT !.todo = @ \ {n}]
  <2>0. f.pc = "apply"
    BY <1>1 DEF Apply
  <2>1. after \in Frames /\ Same(f, after)
    BY <1>e, <1>s, <1>p, <1>q
  <2>2. ASSUME f.alone
        PROVE  /\ life = "there"
               /\ Healed(f) \/ (Given(f, row, ports) /\ \A m \in ports \ f.todo : svc[m] = Served(row))
               /\ Healed(f) \/ s = Served(row)
    BY <1>a, <2>0, <2>2 DEF Fits, At, Given, Served
  <2>3. ASSUME f.alone PROVE Fits(Skip(f, n, after), life, row, ports, With(s))
    <3>1. CASE f.todo # {n}
      <4>1. Skip(f, n, after) = rest /\ Healed(rest) = Healed(f) /\ rest.pc = "apply"
            /\ rest.todo = f.todo \ {n} /\ (Given(f, row, ports) => Given(rest, row, ports))
        BY <1>f, <2>0, <3>1 DEF Skip, Frames, Healed, Given
      <4>2. ~Healed(f) => \A m \in ports \ rest.todo : With(s)[m] = Served(row)
        BY <1>f, <2>2, <2>3, <4>1
      <4> HIDE DEF rest
      <4> QED
        BY <2>2, <2>3, <4>1, <4>2 DEF Fits, At, Updating
    <3>2. CASE f.todo = {n}
      <4>1. Skip(f, n, after) = after
        BY <3>2 DEF Skip
      <4>2. ~Healed(f) => Given(f, row, ports) /\ \A m \in ports : With(s)[m] = Served(row)
        BY <1>f, <2>2, <2>3, <3>2
      <4>3. CASE f.use.on
        <5>1. ~Healed(f) => Served(row) = row
          BY <1>f, <4>2, <4>3 DEF Given, Served, Configs
        <5>2. Fits(Synced(f), "there", row, ports, With(s))
          BY <1>f, <4>2, <5>1, SyncedFits
        <5> QED
          BY <1>a, <2>3, <4>1, <4>3, <5>2
      <4>4. CASE ~f.use.on
        <5>1. Healed(quiet) = Healed(f) /\ quiet.pc = "quiet" /\ (Given(f, row, ports) => Given(quiet, row, ports))
          BY <1>f DEF Frames, Healed, Given
        <5>2. ~Healed(f) => ~row.on
          BY <4>2, <4>4 DEF Given
        <5> HIDE DEF quiet
        <5> QED
          BY <2>2, <2>3, <4>1, <4>2, <4>4, <5>1, <5>2 DEF Fits, At, Updating
      <4> QED
        BY <4>3, <4>4
    <3> QED
      BY <3>1, <3>2
  <2>4. ASSUME f.alone, f.phase # "undo"
        PROVE  \A sv : Fits(Unsynced(f), life, row, ports, sv)
    BY <1>f, <2>2, <2>4, UnsyncedFits
  <2> HIDE DEF after, s
  <2>5. CASE Command(p, n, s, Skip(f, n, after), Unsynced(f))
    BY <1>c, <1>e, <1>s, <2>1, <2>3, <2>4, <2>5
  <2>6. CASE GoDisturbed(p, Unsynced(f)) \/ (f.phase # "undo" /\ Go(p, Unsynced(f)))
    BY <1>g, <1>e, <1>s, <2>4, <2>6
  <2> QED
    BY <1>1, <2>5, <2>6 DEF Apply, after, s
<1>2. CASE Quieting(p, n)
  <2> DEFINE s     == IF svc[n] = NoService THEN NoService ELSE [svc[n] EXCEPT !.on = FALSE]
             again == [f EXCEPT !.pc = "sync", !.healed = TRUE, !.todo = {}]
             rest  == [f EXCEPT !.todo = @ \ {n}]
  <2>0. f.pc = "quieting"
    BY <1>2 DEF Quieting
  <2>1. again \in Frames /\ Same(f, again)
    BY <1>f DEF Frames, PCs, Same, Updating
  <2>2. ASSUME f.alone, ~Healed(f)
        PROVE  /\ Given(f, row, ports) /\ ~row.on /\ \A m \in f.todo : svc[m] = Served(row)
               /\ \A m \in ports \ f.todo : svc[m] = row
               /\ svc[n] # NoService /\ s = row
    <3>1. /\ Given(f, row, ports) /\ ~row.on /\ \A m \in f.todo : svc[m] = Served(row)
          /\ \A m \in ports \ f.todo : svc[m] = row
      BY <1>a, <2>0, <2>2 DEF Fits, At
    <3>2. svc[n] = Served(row) /\ Served(row) # NoService
      BY <1>b, <1>f, <3>1, ServiceTypes DEF Served
    <3>3. [Served(row) EXCEPT !.on = FALSE] = row
      BY <1>f, <3>1 DEF Served, Configs
    <3> QED
      BY <3>1, <3>2, <3>3
  <2>3. ASSUME f.alone PROVE Fits(Skip(f, n, Synced(f)), life, row, ports, With(s))
    <3>0. life = "there"
      BY <1>a, <2>3
    <3>1. CASE f.todo # {n}
      <4>1. Skip(f, n, Synced(f)) = rest /\ Healed(rest) = Healed(f) /\ rest.pc = "quieting"
            /\ rest.todo = f.todo \ {n} /\ (Given(f, row, ports) => Given(rest, row, ports))
        BY <1>f, <2>0, <3>1 DEF Skip, Frames, Healed, Given
      <4>2. ~Healed(f) => /\ \A m \in rest.todo : With(s)[m] = Served(row)
                          /\ \A m \in ports \ rest.todo : With(s)[m] = row
        BY <1>f, <2>2, <2>3, <4>1, FrameFields
      <4> HIDE DEF rest, s
      <4> QED
        BY <2>2, <2>3, <3>0, <4>1, <4>2 DEF Fits, At, Updating
    <3>2. CASE f.todo = {n}
      <4>1. ~Healed(f) => Given(f, row, ports) /\ \A m \in ports : With(s)[m] = row
        BY <1>a, <1>f, <2>2, <2>3, <3>2
      <4> HIDE DEF s
      <4>2. Fits(Synced(f), "there", row, ports, With(s))
        BY <1>f, <4>1, SyncedFits
      <4> QED
        BY <1>a, <2>3, <3>2, <4>2 DEF Skip
    <3> QED
      BY <3>1, <3>2
  <2>4. ASSUME f.alone, f.phase # "undo" \/ Healed(f)
        PROVE  Fits(Unsynced(f), life, row, ports, svc)
    BY <1>a, <1>f, <2>2, <2>4, UnsyncedFits
  <2>5. CASE svc[n] = NoService /\ svc' = svc /\ Go(p, IF f.healed THEN Unsynced(f) ELSE again)
    <3>1. ASSUME f.alone PROVE Fits(again, life, row, ports, svc) \/ f.healed
      <4>1. Healed(f)
        BY <2>2, <2>5, <3>1
      <4>2. Healed(again) /\ again.pc = "sync"
        BY <1>f, <4>1 DEF Healed, Frames
      <4> HIDE DEF again
      <4> QED
        BY <1>a, <3>1, <4>2 DEF Fits
    <3>2. f.alone => Healed(f)
      BY <2>2, <2>5
    <3> HIDE DEF again
    <3>3. CASE f.healed
      BY <1>g, <1>e, <1>s, <2>4, <2>5, <3>2, <3>3
    <3>4. CASE ~f.healed
      BY <1>g, <2>1, <2>5, <3>1, <3>4
    <3> QED
      BY <3>3, <3>4
  <2> HIDE DEF s
  <2>6. CASE Command(p, n, s, Skip(f, n, Synced(f)), Unsynced(f))
    BY <1>c, <1>e, <1>s, <2>3, <2>4, <2>6
  <2> QED
    BY <1>2, <2>5, <2>6 DEF Quieting, s
<1>3. CASE Clean(p, n)
  <2> DEFINE sync == [f EXCEPT !.pc = "sync", !.todo = {}]
             rest == [f EXCEPT !.todo = @ \ {n}]
             next == Skip(f, n, sync)
  <2>0. f.pc = "clean" /\ Command(p, n, NoService, next, next)
    BY <1>3 DEF Clean
  <2>1. next \in Frames /\ Same(f, next)
    BY <1>e, <1>s, <1>p, <1>q
  <2>2. ASSUME f.alone PROVE Fits(next, life, row, ports, With(NoService))
    <3>1. /\ Healed(f) \/ /\ f.op = "update" /\ f.phase = "main" /\ row.ver = f.want
                          /\ ports = Entry[row.ver] /\ f.use = row
          /\ life = "there"
      BY <1>a, <2>0, <2>2 DEF Fits, At
    <3>2. /\ next.pc \in {"clean", "sync"} /\ next.op = f.op /\ next.phase = f.phase
          /\ next.want = f.want /\ next.use = f.use /\ next.healed = f.healed
      BY <1>f, <2>0 DEF Skip, Frames
    <3> HIDE DEF next
    <3> QED
      BY <3>1, <3>2 DEF Fits, At, Given, Healed
  <2> HIDE DEF next
  <2> QED
    BY <1>c, <2>0, <2>1, <2>2
<1>4. CASE Purge(p, n)
  <2> DEFINE last == Ended(f, "ok")
             rest == [f EXCEPT !.todo = @ \ {n}]
             next == Skip(f, n, last)
  <2>0. f.pc = "purge" /\ Command(p, n, NoService, next, next)
    BY <1>4 DEF Purge
  <2>1. next \in Frames /\ Same(f, next)
    BY <1>e, <1>s
  <2>2. ASSUME f.alone PROVE Fits(next, life, row, ports, With(NoService))
    <3>1. /\ life = "there"
          /\ Healed(f) \/ /\ f.op = "update" /\ f.phase = "main" /\ row.ver = f.want
                          /\ f.todo \cap ports = {} /\ \A m \in ports : svc[m] = row
                          /\ \A m \in (f.old \ ports) \ f.todo : svc[m] = NoService
      BY <1>a, <2>0, <2>2 DEF Fits, At
    <3>2. f.old \subseteq Nodes
      BY <1>f, FrameFields
    <3>3. ~Healed(f) => /\ \A m \in ports : With(NoService)[m] = row
                        /\ \A m \in (f.old \ ports) \ (f.todo \ {n}) : With(NoService)[m] = NoService
      BY <1>b, <1>f, <3>1, <3>2
    <3>4. CASE f.todo # {n}
      <4>1. /\ next.pc = "purge" /\ next.op = f.op /\ next.phase = f.phase /\ next.want = f.want
            /\ next.todo = f.todo \ {n} /\ next.old = f.old /\ next.healed = f.healed
        BY <1>f, <2>0, <3>4 DEF Skip, Frames
      <4> HIDE DEF next
      <4> QED
        BY <3>1, <3>3, <4>1 DEF Fits, At, Healed
    <3>5. CASE f.todo = {n}
      <4>1. /\ next.pc = "done" /\ next.result = "ok" /\ next.healed = f.healed
            /\ next.op = f.op /\ next.old = f.old
        BY <1>d, <1>s, <3>5 DEF Skip, Same
      <4> HIDE DEF next
      <4> QED
        BY <3>1, <3>3, <3>5, <4>1 DEF Fits, At, Over, Healed
    <3> QED
      BY <3>4, <3>5
  <2> HIDE DEF next
  <2> QED
    BY <1>c, <2>0, <2>1, <2>2
<1>5. CASE ControlNode(p, n)
  <2> DEFINE s    == IF svc[n] = NoService THEN NoService ELSE [svc[n] EXCEPT !.on = (f.op = "resume")]
             heal == [f EXCEPT !.pc = "sync", !.phase = "heal", !.healed = TRUE,
                               !.node = n, !.left = f.todo, !.todo = {}]
             last == [f EXCEPT !.pc = "write", !.todo = {}]
             next == Skip(f, n, last)
  <2>0. f.pc = "control"
    BY <1>5 DEF ControlNode
  <2>1. heal \in Frames /\ Same(f, heal)
    BY <1>f DEF Frames, PCs, Same, Updating
  <2>2. next \in Frames /\ Same(f, next)
    BY <1>e, <1>s, <1>p, <1>q
  <2>3. ASSUME f.alone
        PROVE  /\ f.op \in {"pause", "resume"} /\ f.phase = "main" /\ life = "there"
               /\ Healed(f) \/ Controlled(f, svc, ports \ f.todo)
    BY <1>a, <2>0, <2>3 DEF Fits, At
  <2>4. ASSUME f.alone PROVE Fits(Ended(f, "error"), life, row, ports, svc)
    BY <1>d, <1>s, <2>3, <2>4 DEF Fits, At, Over, Same
  <2>5. ASSUME f.alone PROVE Fits(heal, life, row, ports, svc)
    <3>1. Healed(heal) /\ heal.pc = "sync"
      BY <1>f, <2>3, <2>5 DEF Healed, Frames
    <3> HIDE DEF heal
    <3> QED
      BY <2>3, <2>5, <3>1 DEF Fits
  <2>6. ASSUME f.alone, svc[n] # NoService PROVE Fits(next, life, row, ports, With(s))
    <3>1. svc[n] \in Configs
      BY <2>6 DEF IInv, TypeOK
    <3>2. s # NoService /\ s.on = (f.op = "resume")
      <4>1. s = [svc[n] EXCEPT !.on = (f.op = "resume")]
        BY <2>6
      <4>2. [svc[n] EXCEPT !.on = (f.op = "resume")] \in Configs
        BY <3>1, ServiceTypes
      <4>3. [svc[n] EXCEPT !.on = (f.op = "resume")].on = (f.op = "resume")
        BY <3>1 DEF Configs
      <4> HIDE DEF s
      <4> QED
        BY <4>1, <4>2, <4>3, ServiceTypes
    <3>3. /\ next.pc \in {"control", "write"} /\ next.op = f.op /\ next.phase = f.phase
          /\ next.healed = f.healed
          /\ next.pc = "control" => next.todo = f.todo \ {n}
          /\ next.pc = "write" => f.todo = {n}
      BY <1>f, <2>0 DEF Skip, Frames
    <3> HIDE DEF s, next
    <3>4. Healed(f) \/ \A m \in ports \ (f.todo \ {n}) :
                          With(s)[m] # NoService /\ With(s)[m].on = (f.op = "resume")
      BY <1>f, <2>3, <2>6, <3>2 DEF Controlled
    <3> QED
      BY <2>3, <2>6, <3>3, <3>4 DEF Fits, At, Updating, Healed, Controlled
  <2>7. CASE svc' = svc /\ Go(p, IF f.healed THEN Ended(f, "error") ELSE heal)
    <3> HIDE DEF heal
    <3>1. CASE f.healed
      BY <1>g, <1>e, <1>s, <2>4, <2>7, <3>1
    <3>2. CASE ~f.healed
      BY <1>g, <2>1, <2>5, <2>7, <3>2
    <3> QED
      BY <3>1, <3>2
  <2>8. CASE /\ Command(p, n, s, next, Ended(f, "error"))
             /\ n \notin link \/ svc[n] # NoService
    <3>1. f.alone => svc[n] # NoService
      BY <1>a, <2>8
    <3> HIDE DEF s, next
    <3> QED
      BY <1>c, <1>e, <1>s, <2>2, <2>4, <2>6, <2>8, <3>1
  <2> QED
    BY <1>5, <2>7, <2>8 DEF ControlNode
<1>6. CASE Remove(p, n)
  <2> DEFINE last == [f EXCEPT !.pc = "drop", !.todo = {}]
             next == Skip(f, n, last)
  <2>0. f.pc = "remove" /\ Command(p, n, NoService, next, Ended(f, "error"))
    BY <1>6 DEF Remove
  <2>1. next \in Frames /\ Same(f, next)
    BY <1>e, <1>s, <1>p, <1>q
  <2>2. ASSUME f.alone
        PROVE  /\ life = "there"
               /\ Healed(f) \/ (f.op = "delete" /\ \A m \in f.old \ f.todo : svc[m] = NoService)
    BY <1>a, <2>0, <2>2 DEF Fits, At
  <2>3. ASSUME f.alone PROVE Fits(Ended(f, "error"), life, row, ports, svc)
    BY <1>d, <1>s, <2>2, <2>3 DEF Fits, At, Over, Healed, Same
  <2>4. ASSUME f.alone PROVE Fits(next, life, row, ports, With(NoService))
    <3>1. f.old \subseteq Nodes
      BY <1>f, FrameFields
    <3>2. Healed(f) \/ \A m \in f.old \ (f.todo \ {n}) : With(NoService)[m] = NoService
      BY <1>f, <2>2, <2>4, <3>1
    <3>3. /\ next.pc \in {"remove", "drop"} /\ next.op = f.op /\ next.old = f.old
          /\ next.healed = f.healed
          /\ next.pc = "remove" => next.todo = f.todo \ {n}
          /\ next.pc = "drop" => f.todo = {n}
      BY <1>f, <2>0 DEF Skip, Frames
    <3> HIDE DEF next
    <3> QED
      BY <2>2, <2>4, <3>2, <3>3 DEF Fits, At, Updating, Healed
  <2> HIDE DEF next
  <2> QED
    BY <1>c, <1>e, <1>s, <2>0, <2>1, <2>3, <2>4
<1> QED
  BY <1>1, <1>2, <1>3, <1>4, <1>5, <1>6 DEF NodeStep

-----------------------------------------------------------------------------
(* Requests, nodes and the theorems.                                       *)

\* A handler that starts is alone only when nothing else runs; it keeps the
\* invariant if it fits where it starts.
LEMMA BeginKeeps ==
    ASSUME IInv, TypeOK', link' = link, life' = "there",
           NEW p \in Procs, NEW frame \in Frames, Begin(p, frame),
           frame.pc \in Updating => frame.op = "update",
           Fits(frame, life', row', ports', svc')
    PROVE  IInv'
<1> DEFINE quiet == link = Nodes /\ \A q \in Procs \ {p} : proc[q].pc \in {"idle", "done"}
           With(g, b) == [g EXCEPT !.alone = b]
<1>1. \A g \in Frames, b \in BOOLEAN :
        /\ With(g, b).alone = b /\ With(g, b).op = g.op /\ With(g, b).old = g.old
        /\ With(g, b).was = g.was /\ With(g, b).pc = g.pc
  BY DEF Frames
<1>2. proc'[p] = With(frame, quiet) /\ quiet \in BOOLEAN
  BY DEF Begin, Disturbed, IInv, TypeOK
<1>3. ASSUME NEW q \in Procs \ {p}
      PROVE  /\ ~proc'[q].alone /\ proc'[q].op = proc[q].op /\ proc'[q].old = proc[q].old
             /\ proc'[q].was = proc[q].was /\ proc'[q].pc = proc[q].pc
  <2>1. proc[q] \in Frames /\ proc'[q] = With(proc[q], FALSE)
    BY DEF Begin, Disturbed, IInv, TypeOK
  <2> HIDE DEF With
  <2> QED
    BY <1>1, <2>1
<1>4. Fits(With(frame, quiet), life', row', ports', svc')
  <2>1. LET g == With(frame, quiet) IN
        /\ g.op = frame.op /\ g.pc = frame.pc /\ g.phase = frame.phase /\ g.was = frame.was
        /\ g.use = frame.use /\ g.want = frame.want /\ g.old = frame.old /\ g.todo = frame.todo
        /\ g.result = frame.result /\ g.healed = frame.healed
    BY DEF Frames
  <2> HIDE DEF With, quiet
  <2> QED
    BY <2>1 DEF Fits, At, Over, Given, Healed, Controlled
<1> HIDE DEF With
<1>5. /\ proc'[p].alone = quiet /\ proc'[p].op = frame.op /\ proc'[p].old = frame.old
      /\ proc'[p].was = frame.was /\ proc'[p].pc = frame.pc
  <2> HIDE DEF quiet
  <2> QED
    BY <1>1, <1>2
<1>6. UpdatesInv'
  BY <1>3, <1>5 DEF IInv, UpdatesInv
<1>7. AloneInv'
  <2> SUFFICES ASSUME NEW q \in Procs, proc'[q].alone
               PROVE  /\ link' = Nodes
                      /\ \A o \in Procs \ {q} : proc'[o].pc \in {"idle", "done"}
                      /\ Fits(proc'[q], life', row', ports', svc')
    BY DEF AloneInv
  <2>1. q = p /\ quiet
    BY <1>3, <1>5
  <2> QED
    BY <1>2, <1>3, <1>4, <2>1
<1> QED
  BY <1>6, <1>7 DEF IInv

\* A request or a redeploy that starts keeps the invariant.
LEMMA RequestKeeps ==
    ASSUME IInv, TypeOK', NEW p \in Procs, Request(p)
    PROVE  IInv'
<1>1. row \in Configs /\ ports \in SUBSET Nodes
  BY DEF IInv, TypeOK
<1>2. ASSUME NEW v \in Contents, Create(p, v) PROVE IInv'
  <2> DEFINE new == [on |-> TRUE, ver |-> v]
             frame == [Idle EXCEPT !.op = "create", !.pc = "sync", !.was = new, !.use = new]
  <2>1. new \in Configs /\ new.ver = v
    BY ServiceTypes
  <2>2. frame \in Frames
    BY <2>1, IdleType DEF Frames, PCs
  <2>3. /\ frame.op = "create" /\ frame.pc = "sync" /\ frame.phase = "main" /\ frame.use = new
    BY DEF Idle
  <2>4. Begin(p, frame) /\ row' = new /\ ports' = Entry[v] /\ life' = "there" /\ link' = link
    BY <1>2 DEF Create
  <2> HIDE DEF frame, new
  <2>5. Fits(frame, life', row', ports', svc')
    BY <2>3, <2>4 DEF Fits, At, Updating, Given
  <2> QED
    BY <2>1, <2>2, <2>3, <2>4, <2>5, BeginKeeps DEF Updating
<1>3. ASSUME NEW v \in Contents, Update(p, v) PROVE IInv'
  <2> DEFINE frame == [Idle EXCEPT !.op = "update", !.pc = "store", !.was = row, !.old = ports, !.want = v]
  <2>1. frame \in Frames
    BY <1>1, IdleType DEF Frames, PCs
  <2>2. /\ frame.op = "update" /\ frame.pc = "store" /\ frame.phase = "main" /\ frame.was = row
        /\ frame.old = ports
    BY DEF Idle
  <2>3. Begin(p, frame) /\ life = "there" /\ UNCHANGED <<life, row, ports, svc, link>>
    BY <1>3 DEF Update
  <2> HIDE DEF frame
  <2>4. Fits(frame, life', row', ports', svc')
    BY <2>2, <2>3 DEF Fits, At
  <2> QED
    BY <1>1, <2>1, <2>2, <2>3, <2>4, BeginKeeps
<1>4. ASSUME NEW op \in {"pause", "resume"}, Control(p, op) PROVE IInv'
  <2> DEFINE pc    == IF ports = {} THEN "write" ELSE "control"
             frame == [Idle EXCEPT !.op = op, !.pc = pc, !.was = row, !.use = row, !.todo = ports]
  <2>1. frame \in Frames
    BY <1>1, IdleType DEF Frames, PCs
  <2>2. /\ frame.op = op /\ frame.pc = pc /\ frame.phase = "main" /\ frame.todo = ports
    BY DEF Idle
  <2>3. Begin(p, frame) /\ life = "there" /\ UNCHANGED <<life, row, ports, svc, link>>
    BY <1>4 DEF Control
  <2> HIDE DEF frame
  <2>4. Fits(frame, life', row', ports', svc')
    BY <2>2, <2>3 DEF Fits, At, Updating, Controlled
  <2> QED
    BY <1>1, <2>1, <2>2, <2>3, <2>4, BeginKeeps DEF Updating
<1>5. ASSUME Delete(p) PROVE IInv'
  <2> DEFINE pc    == IF ports = {} THEN "drop" ELSE "remove"
             frame == [Idle EXCEPT !.op = "delete", !.pc = pc, !.was = row, !.old = ports, !.todo = ports]
  <2>1. frame \in Frames
    BY <1>1, IdleType DEF Frames, PCs
  <2>2. /\ frame.op = "delete" /\ frame.pc = pc /\ frame.old = ports /\ frame.todo = ports
    BY DEF Idle
  <2>3. Begin(p, frame) /\ life = "there" /\ UNCHANGED <<life, row, ports, svc, link>>
    BY <1>5 DEF Delete
  <2> HIDE DEF frame
  <2>4. Fits(frame, life', row', ports', svc')
    BY <2>2, <2>3 DEF Fits, At, Updating
  <2> QED
    BY <1>1, <2>1, <2>2, <2>3, <2>4, BeginKeeps DEF Updating
<1>6. ASSUME NEW n \in Nodes, Redeploy(p, n) PROVE IInv'
  <2> DEFINE frame == [Idle EXCEPT !.op = "redeploy", !.pc = "sync", !.was = row, !.use = row]
  <2>1. frame \in Frames
    BY <1>1, IdleType DEF Frames, PCs
  <2>2. /\ frame.op = "redeploy" /\ frame.pc = "sync" /\ frame.phase = "main" /\ frame.was = row
        /\ frame.use = row
    BY DEF Idle
  <2>3. UNCHANGED <<life, row, ports, svc, link>>
    BY <1>6 DEF Redeploy
  <2>4. CASE UNCHANGED proc
    BY <2>3, <2>4 DEF IInv, UpdatesInv, AloneInv
  <2>5. CASE Begin(p, frame) /\ life = "there"
    <3> HIDE DEF frame
    <3>1. Fits(frame, life', row', ports', svc')
      BY <2>2, <2>3, <2>5 DEF Fits, At, Updating, Given
    <3> QED
      BY <1>1, <2>1, <2>2, <2>3, <2>5, <3>1, BeginKeeps DEF Updating
  <2> QED
    BY <1>6, <2>4, <2>5 DEF Redeploy
<1> QED
  BY <1>2, <1>3, <1>4, <1>5, <1>6 DEF Request

\* Another try of a redeploy keeps the invariant: an undisturbed one finds the
\* row as its copy has it.
LEMMA AgainKeeps ==
    ASSUME IInv, TypeOK', NEW p \in Procs, RedeployAgain(p)
    PROVE  IInv'
<1> DEFINE f == proc[p]
           g == [f EXCEPT !.pc = "sync", !.use = f.was, !.result = "none",
                          !.healed = FALSE, !.tries = @ + 1]
<1>f. f \in Frames /\ \A q \in Procs : proc[q] \in Frames
  BY DEF IInv, TypeOK
<1>1. /\ f.pc = "done" /\ f.op = "redeploy" /\ f.result = "error"
      /\ UNCHANGED <<life, row, ports, svc, link>>
      /\ proc'[p] = g
  BY DEF RedeployAgain, Disturbed, IInv, TypeOK
<1>2. /\ g.pc = "sync" /\ g.op = "redeploy" /\ g.use = f.was /\ g.was = f.was /\ g.old = f.old
      /\ g.phase = f.phase /\ g.alone = f.alone
  BY <1>f, <1>1 DEF Frames
<1>3. ASSUME NEW q \in Procs \ {p}
      PROVE  /\ ~proc'[q].alone /\ proc'[q].op = proc[q].op /\ proc'[q].old = proc[q].old
             /\ proc'[q].was = proc[q].was /\ proc'[q].pc = proc[q].pc
  <2>1. proc[q] \in Frames /\ proc'[q] = [proc[q] EXCEPT !.alone = FALSE]
    BY <1>f DEF RedeployAgain, Disturbed
  <2> QED
    BY <2>1 DEF Frames
<1> HIDE DEF g
<1>4. UpdatesInv'
  BY <1>1, <1>2, <1>3 DEF IInv, UpdatesInv, Updating
<1>5. AloneInv'
  <2> SUFFICES ASSUME NEW q \in Procs, proc'[q].alone
               PROVE  /\ link' = Nodes
                      /\ \A o \in Procs \ {q} : proc'[o].pc \in {"idle", "done"}
                      /\ Fits(proc'[q], life', row', ports', svc')
    BY DEF AloneInv
  <2>1. q = p /\ f.alone
    BY <1>1, <1>2, <1>3
  <2>2. link = Nodes /\ Fits(f, life, row, ports, svc) /\ \A o \in Procs \ {p} : proc[o].pc \in {"idle", "done"}
    BY <2>1 DEF IInv, AloneInv
  <2>3. life = "there" /\ row = f.was /\ f.phase = "main"
    BY <1>1, <2>2 DEF Fits, Healed, At, Over
  <2>4. Fits(g, life, row, ports, svc)
    BY <1>2, <2>3 DEF Fits, At, Updating, Given
  <2> QED
    BY <1>1, <1>3, <2>1, <2>2, <2>4
<1> QED
  BY <1>4, <1>5 DEF IInv

\* A handler that is forgotten keeps the invariant.
LEMMA FinishKeeps ==
    ASSUME IInv, TypeOK', NEW p \in Procs, Finish(p)
    PROVE  IInv'
<1>1. /\ proc'[p] = Idle /\ \A q \in Procs \ {p} : proc'[q] = proc[q]
      /\ UNCHANGED <<life, row, ports, svc, link>>
  BY DEF Finish, Go, IInv, TypeOK
<1>2. UpdatesInv'
  BY <1>1 DEF IInv, UpdatesInv, Idle, Updating
<1>3. AloneInv'
  BY <1>1 DEF IInv, AloneInv, Idle
<1> QED
  BY <1>2, <1>3 DEF IInv

\* What happens to a node, to a sweep or to the panel keeps the invariant: it
\* disturbs whatever runs, or finds nothing alone that could mind.
LEMMA WorldKeeps ==
    ASSUME IInv, TypeOK',
           \/ ForceDelete \/ PanelRestarts
           \/ \E n \in Nodes : Sweep(n) \/ SweepMisled(n) \/ Lose(n) \/ AgentRestarts(n) \/ Reconnect(n)
    PROVE  IInv'
<1>1. ASSUME proc' = Disturbed PROVE IInv'
  <2>1. ASSUME NEW q \in Procs
        PROVE  /\ ~proc'[q].alone /\ proc'[q].op = proc[q].op /\ proc'[q].old = proc[q].old
               /\ proc'[q].was = proc[q].was /\ proc'[q].pc = proc[q].pc
    <3>1. proc[q] \in Frames /\ proc'[q] = [proc[q] EXCEPT !.alone = FALSE]
      BY <1>1 DEF Disturbed, IInv, TypeOK
    <3> QED
      BY <3>1 DEF Frames
  <2>2. UpdatesInv'
    BY <1>1, <2>1 DEF IInv, UpdatesInv
  <2> QED
    BY <2>1, <2>2 DEF IInv, AloneInv
<1>2. CASE ForceDelete
  BY <1>1, <1>2 DEF ForceDelete
<1>3. CASE PanelRestarts
  <2>1. UpdatesInv'
    BY <1>3 DEF PanelRestarts, IInv, UpdatesInv, Idle, Updating
  <2>2. AloneInv'
    BY <1>3 DEF PanelRestarts, AloneInv, Idle
  <2> QED
    BY <2>1, <2>2 DEF IInv
<1>4. ASSUME NEW n \in Nodes, SweepMisled(n) \/ Lose(n) \/ AgentRestarts(n) PROVE IInv'
  BY <1>1, <1>4 DEF SweepMisled, Lose, AgentRestarts
<1>5. ASSUME NEW n \in Nodes, Reconnect(n) PROVE IInv'
  <2>1. UNCHANGED <<life, row, ports, svc, proc>> /\ n \notin link
    BY <1>5 DEF Reconnect
  <2>2. \A q \in Procs : ~proc[q].alone
    BY <2>1 DEF IInv, AloneInv
  <2> QED
    BY <2>1, <2>2 DEF IInv, UpdatesInv, AloneInv
<1>6. ASSUME NEW n \in Nodes, Sweep(n) PROVE IInv'
  <2>1. /\ UNCHANGED <<life, row, ports, link, proc>> /\ life = "gone"
        /\ \A m \in Nodes : svc[m] = NoService => svc'[m] = NoService
    BY <1>6 DEF Sweep, IInv, TypeOK
  <2>2. UpdatesInv'
    BY <2>1 DEF IInv, UpdatesInv
  <2>3. ASSUME NEW q \in Procs, proc[q].alone
        PROVE  Fits(proc[q], life, row, ports, svc')
    <3> DEFINE f == proc[q]
    <3>1. f \in Frames /\ Fits(f, life, row, ports, svc)
      BY <2>3 DEF IInv, TypeOK, AloneInv
    <3>2. f.old \subseteq Nodes
      BY <3>1, FrameFields
    <3>3. f.pc = "done" /\ (Healed(f) \/ Over(f, life, row, ports, svc))
      BY <2>1, <3>1 DEF Fits, At
    <3> HIDE DEF f
    <3>4. Healed(f) \/ Over(f, life, row, ports, svc')
      BY <2>1, <3>2, <3>3 DEF Over
    <3> QED
      BY <3>3, <3>4 DEF Fits, At, Updating, f
  <2>4. AloneInv'
    BY <2>1, <2>3 DEF IInv, AloneInv
  <2> QED
    BY <2>2, <2>4 DEF IInv
<1> QED
  BY <1>2, <1>3, <1>4, <1>5, <1>6

\* The invariant is inductive.
THEOREM Invariant == Spec => []IInv
<1>1. ASSUME IInv, [Next]_vars PROVE IInv'
  <2>1. TypeOK'
    BY <1>1, TypeStep DEF IInv
  <2>2. CASE UNCHANGED vars
    BY <1>1, <2>1, <2>2 DEF vars, IInv, UpdatesInv, AloneInv
  <2>3. CASE \E p \in Procs : Request(p) \/ ProcStep(p) \/ StorageFails(p) \/ RedeployAgain(p)
    BY <1>1, <2>1, <2>3, RequestKeeps, HandlerKeeps, StorageKeeps, NodeKeeps, FinishKeeps,
       AgainKeeps DEF ProcStep
  <2>4. CASE \/ ForceDelete \/ PanelRestarts
             \/ \E n \in Nodes : Sweep(n) \/ SweepMisled(n) \/ Lose(n) \/ AgentRestarts(n) \/ Reconnect(n)
    BY <1>1, <2>1, <2>4, WorldKeeps
  <2> QED
    BY <1>1, <2>2, <2>3, <2>4 DEF Next
<1> QED
  BY <1>1, InitInv, PTL DEF Spec

\* A handler that runs undisturbed leaves the nodes as the rows say
\* (UndisturbedAchieves), whatever races, failures and crashes were before it; an
\* update that keeps the tunnel may leave the listeners of ports it found that
\* are not of the tunnel.
THEOREM Undisturbed == Spec => []UndisturbedAchieves
<1>1. ASSUME IInv PROVE UndisturbedAchieves
  <2> SUFFICES ASSUME NEW p \in Procs, proc[p].pc = "done", proc[p].alone
               PROVE  Achieved(proc[p])
    BY DEF UndisturbedAchieves
  <2>1. Healed(proc[p]) \/ Over(proc[p], life, row, ports, svc)
    BY <1>1 DEF IInv, AloneInv, Fits, At
  <2>2. CASE Healed(proc[p])
    BY <2>2 DEF Achieved, Healed
  <2>3. CASE Over(proc[p], life, row, ports, svc)
    BY <2>3 DEF Achieved, Over
  <2> QED
    BY <2>1, <2>2, <2>3
<1> QED
  BY <1>1, Invariant, PTL

-----------------------------------------------------------------------------
(* Services do not disappear of themselves.                                *)

Lost(n) == svc[n] # NoService /\ svc'[n] = NoService

Cause(n) ==
    \/ life = "gone"
    \/ faults' > faults
    \/ \E p \in Procs : proc[p].pc \in {"clean", "purge", "remove"} /\ n \in proc[p].todo

\* A command makes only the service of its node disappear, and only if it is
\* meant to.
LEMMA CommandLoses ==
    ASSUME TypeOK, NEW p, NEW n \in Nodes, NEW s, NEW next, NEW failed,
           Command(p, n, s, next, failed), NEW m \in Nodes, Lost(m)
    PROVE  m = n /\ s = NoService
BY DEF Command, Lost, TypeOK

\* Changing whether a service is on does not make it disappear.
LEMMA SwitchLosesNothing ==
    ASSUME TypeOK, NEW n \in Nodes, svc[n] # NoService, NEW b \in BOOLEAN
    PROVE  [svc[n] EXCEPT !.on = b] # NoService
BY ServiceTypes DEF TypeOK

\* A step of a handler at a node makes a service disappear for a cause.
LEMMA NodeLoses ==
    ASSUME TypeOK, NEW p \in Procs, NEW n \in Nodes, NodeStep(p, n), NEW m \in Nodes, Lost(m)
    PROVE  Cause(m)
<1> DEFINE f == proc[p]
<1>1. CASE Clean(p, n) \/ Purge(p, n) \/ Remove(p, n)
  <2>1. /\ f.pc \in {"clean", "purge", "remove"} /\ n \in f.todo
        /\ \E next, failed : Command(p, n, NoService, next, failed)
    BY <1>1 DEF Clean, Purge, Remove
  <2> QED
    BY <2>1, CommandLoses DEF Cause
<1>2. CASE Apply(p, n)
  <2> DEFINE s == [on |-> TRUE, ver |-> f.use.ver]
  <2>1. s # NoService
    <3>1. f \in Frames
      BY DEF TypeOK
    <3>2. f.use.ver \in Contents
      BY <3>1, FrameFields, ServiceTypes
    <3> QED
      BY <3>2, ServiceTypes
  <2>2. (\E next, failed : Command(p, n, s, next, failed)) \/ Fault("refused")
    BY <1>2 DEF Apply
  <2> HIDE DEF s
  <2>3. CASE Fault("refused")
    BY <2>3, FaultType DEF Cause, TypeOK
  <2> QED
    BY <2>1, <2>2, <2>3, CommandLoses
<1>3. CASE Quieting(p, n) \/ ControlNode(p, n)
  <2>1. \/ UNCHANGED svc
        \/ \E b \in BOOLEAN : \E next, failed :
              Command(p, n, IF svc[n] = NoService THEN NoService ELSE [svc[n] EXCEPT !.on = b],
                      next, failed)
    <3>1. (f.op = "resume") \in BOOLEAN
      OBVIOUS
    <3> QED
      BY <1>3, <3>1, Zenon DEF Quieting, ControlNode
  <2>2. CASE UNCHANGED svc
    BY <2>2 DEF Lost
  <2>3. ASSUME NEW b \in BOOLEAN, NEW next, NEW failed,
               Command(p, n, IF svc[n] = NoService THEN NoService ELSE [svc[n] EXCEPT !.on = b],
                       next, failed)
        PROVE  FALSE
    <3> DEFINE s == IF svc[n] = NoService THEN NoService ELSE [svc[n] EXCEPT !.on = b]
    <3>1. Command(p, n, s, next, failed)
      BY <2>3
    <3>2. svc[n] # NoService => s # NoService
      BY SwitchLosesNothing
    <3> HIDE DEF s
    <3>3. m = n /\ s = NoService
      BY <3>1, CommandLoses
    <3> QED
      BY <3>2, <3>3 DEF Lost
  <2> QED
    BY <2>1, <2>2, <2>3
<1> QED
  BY <1>1, <1>2, <1>3 DEF NodeStep

\* The retry of a command after a heal makes no service disappear.
LEMMA RetryLosesNothing ==
    ASSUME TypeOK, NEW p \in Procs, Retry(p), NEW m \in Nodes
    PROVE  ~Lost(m)
<1> DEFINE f == proc[p]
<1>1. \/ UNCHANGED svc
      \/ svc[f.node] # NoService /\ svc' = [svc EXCEPT ![f.node].on = (f.op = "resume")]
  BY DEF Retry
<1>2. ASSUME svc[m] # NoService, m = f.node, svc' = [svc EXCEPT ![f.node].on = (f.op = "resume")]
      PROVE  svc'[m] # NoService
  <2>1. svc'[m] = [svc[m] EXCEPT !.on = (f.op = "resume")]
    BY <1>2 DEF TypeOK
  <2> QED
    BY <1>2, <2>1, SwitchLosesNothing
<1>3. ASSUME m # f.node, svc' = [svc EXCEPT ![f.node].on = (f.op = "resume")]
      PROVE  svc'[m] = svc[m]
  BY <1>3 DEF TypeOK
<1> QED
  BY <1>1, <1>2, <1>3 DEF Lost

\* A service of a forward that exists disappears only by a handler that deletes
\* it or by something that went wrong (LostWithCause).
THEOREM NothingLostSilently == Spec => LostWithCause
<1>1. ASSUME TypeOK, [Next]_vars, NEW m \in Nodes, Lost(m) PROVE Cause(m)
  <2>1. CASE UNCHANGED vars
    BY <1>1, <2>1 DEF vars, Lost
  <2>2. ASSUME NEW p \in Procs, Request(p) \/ RedeployAgain(p) PROVE FALSE
    BY <1>1, <2>2 DEF Request, Create, Update, Control, Delete, Redeploy, RedeployAgain, Lost
  <2>3. ASSUME NEW p \in Procs,
               \/ Store(p) \/ StorePorts(p) \/ Reread(p) \/ Sync(p) \/ Quiet(p) \/ Undo(p)
               \/ UndoPorts(p) \/ Write(p) \/ Drop(p) \/ Finish(p) \/ StorageFails(p)
        PROVE  FALSE
    BY <1>1, <2>3 DEF Store, StorePorts, Reread, Sync, Quiet, Undo, UndoPorts, Write, Drop, Finish,
                      StorageFails, CreateFails, StoreFails, UpdateFails, ListFails, UndoFails,
                      UndoPortsFails, WriteFails, DropFails, Lost
  <2>4. ASSUME NEW p \in Procs, Retry(p) PROVE FALSE
    BY <1>1, <2>4, RetryLosesNothing
  <2>5. ASSUME NEW p \in Procs, NEW n \in Nodes, NodeStep(p, n) PROVE Cause(m)
    BY <1>1, <2>5, NodeLoses
  <2>6. CASE ForceDelete \/ PanelRestarts
    BY <1>1, <2>6 DEF ForceDelete, PanelRestarts, Lost
  <2>7. ASSUME NEW n \in Nodes, Sweep(n) \/ Lose(n) \/ Reconnect(n) PROVE Cause(m)
    BY <1>1, <2>7 DEF Sweep, Lose, Reconnect, Lost, Cause
  <2>8. ASSUME NEW n \in Nodes, SweepMisled(n) \/ AgentRestarts(n) PROVE Cause(m)
    <3>1. \E kind : Fault(kind)
      BY <2>8 DEF SweepMisled, AgentRestarts
    <3> QED
      BY <1>1, <3>1, FaultType DEF Cause, TypeOK
  <2> QED
    BY <1>1, <2>1, <2>2, <2>3, <2>4, <2>5, <2>6, <2>7, <2>8 DEF Next, ProcStep
<1>2. TypeOK /\ [Next]_vars => [\A n \in Nodes : Lost(n) => Cause(n)]_vars
  BY <1>1
<1>3. [\A n \in Nodes : Lost(n) => Cause(n)]_vars
      <=> [\A n \in Nodes :
             svc[n] # NoService /\ svc'[n] = NoService =>
                \/ life = "gone"
                \/ faults' > faults
                \/ \E p \in Procs : proc[p].pc \in {"clean", "purge", "remove"} /\ n \in proc[p].todo]_vars
  BY DEF Lost, Cause
<1> QED
  BY <1>2, <1>3, TypeCorrect, PTL DEF Spec, LostWithCause
=============================================================================

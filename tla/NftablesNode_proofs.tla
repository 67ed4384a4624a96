------------------------- MODULE NftablesNode_proofs -------------------------
(***************************************************************************)
(* What NftablesNode promises, for any forwards, versions, requests and      *)
(* faults.  As long as no table is loaded twice, what is charged for a        *)
(* forward and what its counter, the job's sample of it and the count that is  *)
(* paid for still let the job charge do not exceed what the forward carried.   *)
(* And a request that is alone on the node leaves it as the rows say: LoneInv  *)
(* says what each of its places implies.                                    *)
(***************************************************************************)
EXTENDS NftablesNode, FiniteSetTheorems, SequenceTheorems, TLAPS

-----------------------------------------------------------------------------
(* Sequences and numbers.                                                  *)

\* A set of indices that is not empty has a last one.
LEMMA HasLast ==
    ASSUME NEW n \in Nat, NEW T, T \subseteq 1 .. n, T # {}
    PROVE  \E i \in T : \A j \in T : j <= i
<1> DEFINE Left == {k \in Nat : n - k \in T}
           Less == {ss \in Nat \X Nat : ss[1] < ss[2]}
<1>1. PICK i \in T : TRUE
  OBVIOUS
<1>2. n - i \in Left
  BY <1>1
<1>3. IsWellFoundedOn(Less, Nat)
  BY NatLessThanWellFounded DEF OpToRel
<1>4. \E k \in Left : \A m \in Left : <<m, k>> \notin Less
  <2> HIDE DEF Less
  <2> QED
    BY <1>2, <1>3, WFMin, Left \subseteq Nat
<1>5. PICK k \in Left : \A m \in Left : <<m, k>> \notin Less
  BY <1>4
<1>6. ASSUME NEW j \in T PROVE j <= n - k
  <2>1. n - j \in Left /\ <<n - j, k>> \notin Less
    BY <1>5
  <2>2. n - j \in Nat /\ k \in Nat /\ <<n - j, k>>[1] = n - j /\ <<n - j, k>>[2] = k
    BY <2>1
  <2>3. ~ (n - j < k)
    BY <2>1, <2>2
  <2> QED
    BY <2>2, <2>3
<1>7. n - k \in T
  OBVIOUS
<1> QED
  BY <1>6, <1>7

\* A sequence with other elements is as long.
LEMMA SameLength ==
    ASSUME NEW S, NEW s \in Seq(S), NEW t, DOMAIN t = DOMAIN s, t = [i \in DOMAIN s |-> t[i]],
           \A i \in DOMAIN s : t[i] \in S
    PROVE  t \in Seq(S) /\ Len(t) = Len(s)
<1>1. Len(s) \in Nat /\ DOMAIN s = 1 .. Len(s)
  BY LenProperties
<1>2. t \in [1 .. Len(s) -> S]
  BY <1>1
<1>3. t \in Seq(S)
  BY <1>1, <1>2, SeqDef
<1>4. DOMAIN t = 1 .. Len(t) /\ Len(t) \in Nat
  BY <1>3, LenProperties
<1> QED
  BY <1>1, <1>3, <1>4

-----------------------------------------------------------------------------
(* Types.                                                                  *)

\* The small parts of the state are of their types.
LEMMA PartTypes ==
    /\ Blank.ver \in Versions /\ Blank \in Configs
    /\ Nothing \in Plans /\ Nothing \in Loads /\ Nothing \in [Forwards -> Bindings]
    /\ NoScript \in Scripts /\ Idle \in Frames /\ Starting \in Frames /\ Resting \in Jobs
    /\ [Resting EXCEPT !.pc = "starting"] \in Jobs
<1>1. Blank.ver \in Versions /\ Blank \in Configs
  BY NoneAssumption DEF Blank, Configs
<1>2. Nothing \in Plans /\ Nothing \in Loads /\ Nothing \in [Forwards -> Bindings]
  BY DEF Nothing, Plans, Loads, Counts, Bindings
<1>3. NoScript \in Scripts
  BY <1>2 DEF NoScript, Scripts
<1>4. Idle \in Frames
  BY <1>1, <1>2 DEF Idle, Frames
<1>5. Starting \in Frames
  BY <1>4 DEF Starting, Frames
<1>6. <<>> \in Seq(Loads)
  BY EmptySeq
<1>7. Resting \in Jobs /\ [Resting EXCEPT !.pc = "starting"] \in Jobs
  BY <1>2, <1>6 DEF Resting, Jobs
<1> QED
  BY <1>1, <1>2, <1>3, <1>4, <1>5, <1>7

\* A frame that is changed in some of its fields.
LEMMA PatchedFrames ==
    ASSUME NEW f \in Frames
    PROVE  /\ [f EXCEPT !.alone = FALSE] \in Frames
           /\ \A plan \in Plans : /\ [f EXCEPT !.pc = "drop", !.plan = plan] \in Frames
                                  /\ [f EXCEPT !.pc = "undo", !.plan = plan] \in Frames
                                  /\ [f EXCEPT !.pc = "apply", !.plan = plan] \in Frames
           /\ \A todo \in SUBSET f.todo : [f EXCEPT !.todo = todo] \in Frames
           /\ \A todo \in SUBSET Planned(f) : [f EXCEPT !.pc = "bind", !.todo = todo] \in Frames
           /\ \A todo \in SUBSET Forwards : /\ [f EXCEPT !.pc = "mark", !.todo = todo] \in Frames
                                            /\ [f EXCEPT !.pc = "list", !.todo = todo] \in Frames
                                            /\ [f EXCEPT !.pc = "unbind", !.todo = todo] \in Frames
           /\ \A pc \in {"plan", "wait", "list"} : [f EXCEPT !.pc = pc] \in Frames
           /\ [f EXCEPT !.pc = "plan", !.phase = "undo"] \in Frames
<1>1. [f EXCEPT !.alone = FALSE] \in Frames /\ [f EXCEPT !.pc = "plan", !.phase = "undo"] \in Frames
  BY DEF Frames
<1>2. \A plan \in Plans : /\ [f EXCEPT !.pc = "drop", !.plan = plan] \in Frames
                         /\ [f EXCEPT !.pc = "undo", !.plan = plan] \in Frames
                         /\ [f EXCEPT !.pc = "apply", !.plan = plan] \in Frames
  BY DEF Frames
<1>3. \A todo \in SUBSET f.todo : [f EXCEPT !.todo = todo] \in Frames
  BY DEF Frames
<1>4. \A todo \in SUBSET Planned(f) : [f EXCEPT !.pc = "bind", !.todo = todo] \in Frames
  BY DEF Frames, Planned
<1>5. \A todo \in SUBSET Forwards : /\ [f EXCEPT !.pc = "mark", !.todo = todo] \in Frames
                                   /\ [f EXCEPT !.pc = "list", !.todo = todo] \in Frames
                                   /\ [f EXCEPT !.pc = "unbind", !.todo = todo] \in Frames
  BY DEF Frames
<1>6. \A pc \in {"plan", "wait", "list"} : [f EXCEPT !.pc = pc] \in Frames
  BY DEF Frames
<1> QED
  BY <1>1, <1>2, <1>3, <1>4, <1>5, <1>6

\* Where a handler goes on is a frame.
LEMMA FrameTypes ==
    ASSUME NEW f \in Frames
    PROVE  /\ \A r \in {"none", "ok", "error"} : Ended(f, r) \in Frames
           /\ Synced(f) \in Frames /\ Unsynced(f) \in Frames /\ Marking(f) \in Frames
           /\ \A g : \A after \in Frames : Rest(f, g, after) \in Frames
<1>1. \A r \in {"none", "ok", "error"} : Ended(f, r) \in Frames
  BY PartTypes DEF Ended, Frames
<1>2. Synced(f) \in Frames
  BY <1>1 DEF Synced
<1>3. Unsynced(f) \in Frames
  BY <1>1, PartTypes, PatchedFrames DEF Unsynced
<1>4. Marking(f) \in Frames
  BY <1>3, PatchedFrames DEF Marking, Bound
<1>5. ASSUME NEW g, NEW after \in Frames PROVE Rest(f, g, after) \in Frames
  <2>1. [f EXCEPT !.todo = f.todo \ {g}] \in Frames
    BY PatchedFrames
  <2> QED
    BY <2>1 DEF Rest
<1> QED
  BY <1>1, <1>2, <1>3, <1>4, <1>5

\* A goroutine goes on as a frame, and the others as they are or disturbed.
LEMMA GoTypes ==
    ASSUME proc \in [Procs -> Frames], NEW p \in Procs, NEW frame \in Frames
    PROVE  /\ Disturbed \in [Procs -> Frames]
           /\ Go(p, frame) => proc' \in [Procs -> Frames]
           /\ GoDisturbed(p, frame) => proc' \in [Procs -> Frames]
           /\ Failing(p, frame) => proc' \in [Procs -> Frames]
<1>1. Disturbed \in [Procs -> Frames]
  BY PartTypes, PatchedFrames DEF Disturbed
<1>2. Go(p, frame) => proc' \in [Procs -> Frames]
  BY DEF Go
<1>3. GoDisturbed(p, frame) => proc' \in [Procs -> Frames]
  BY <1>1, PatchedFrames DEF GoDisturbed
<1> QED
  BY <1>1, <1>2, <1>3 DEF Failing

\* A fault, and a request, keep their counts in their bounds.
LEMMA CountTypes ==
    ASSUME TypeOK
    PROVE  /\ \A kind : Fault(kind) => faults' \in 0 .. MaxFaults
           /\ Asks => asked' \in 0 .. MaxRequests
BY BoundAssumption DEF TypeOK, Fault, Asks

\* A request that begins.
LEMMA BeginTypes ==
    ASSUME TypeOK, NEW p \in Procs, NEW frame \in Frames, Begin(p, frame)
    PROVE  proc' \in [Procs -> Frames] /\ asked' \in 0 .. MaxRequests
<1>1. [frame EXCEPT !.alone = \A q \in Procs : /\ script[q] = NoScript
                                               /\ proc[q].pc \in {"idle", "done"}] \in Frames
  BY DEF Frames
<1> QED
  BY <1>1, GoTypes, CountTypes DEF Begin, TypeOK

\* A request keeps the variables in their types.
LEMMA RequestTypes ==
    ASSUME TypeOK, NEW p \in Procs, Request(p)
    PROVE  TypeOK'
<1> USE DEF TypeOK, rows, node, bills
<1>1. ASSUME NEW f \in Forwards, Create(p, f) PROVE TypeOK'
  <2>1. [Idle EXCEPT !.op = "create", !.pc = "plan", !.fwd = f] \in Frames
    BY PartTypes DEF Frames
  <2> QED
    BY <1>1, <2>1, BeginTypes, PartTypes DEF Create, Configs
<1>2. ASSUME NEW f \in Forwards, NEW v \in Versions, Update(p, f, v) PROVE TypeOK'
  <2>1. [Idle EXCEPT !.op = "update", !.pc = "store", !.fwd = f, !.was = row[f], !.want = v]
            \in Frames
    BY PartTypes DEF Frames
  <2> QED
    BY <1>2, <2>1, BeginTypes DEF Update
<1>3. ASSUME NEW f \in Forwards, NEW next \in {"plan", "unlist"}, Delete(p, f, next)
      PROVE  TypeOK'
  <2>1. [Idle EXCEPT !.op = "delete", !.pc = next, !.fwd = f] \in Frames
    BY PartTypes DEF Frames
  <2> QED
    BY <1>3, <2>1, BeginTypes, PartTypes DEF Delete, Counts
<1>4. CASE Reconcile(p)
  <2>1. [Idle EXCEPT !.op = "reconcile", !.pc = "plan"] \in Frames
    BY PartTypes DEF Frames
  <2> QED
    BY <1>4, <2>1, BeginTypes DEF Reconcile
<1>5. CASE Clear(p)
  <2>1. [Idle EXCEPT !.op = "clear", !.pc = "apply"] \in Frames
    BY PartTypes DEF Frames
  <2> QED
    BY <1>5, <2>1, BeginTypes DEF Clear
<1> QED
  BY <1>1, <1>2, <1>3, <1>4, <1>5 DEF Request

\* A step of a handler keeps the variables in their types.
LEMMA ProcTypes ==
    ASSUME TypeOK, NEW p \in Procs, ProcStep(p) \/ GiveUp(p)
    PROVE  TypeOK'
<1> DEFINE f == proc[p]
<1> USE DEF TypeOK, rows, node, bills
<1>1. f \in Frames /\ f.want \in Versions /\ f.was \in Configs /\ f.plan \in Plans
  BY DEF Frames
<1>2. Bound \subseteq Forwards /\ Unsynced(f) \in Frames /\ Marking(f) \in Frames
  BY <1>1, FrameTypes DEF Bound
<1>3. CASE Store(p)
  BY <1>1, <1>3, PatchedFrames, GoTypes DEF Store, Configs
<1>4. CASE Unlist(p)
  BY <1>1, <1>4, PatchedFrames, GoTypes, CountTypes DEF Unlist, Bindings
<1>5. CASE Plan(p)
  <2> DEFINE plan == [g \in Forwards |-> IF Active(g) THEN row[g].ver ELSE None]
  <2>1. plan \in Plans
    BY DEF Plans, Configs
  <2>2. [f EXCEPT !.pc = "apply", !.plan = plan] \in Frames
    BY <1>1, <2>1, PatchedFrames
  <2> QED
    BY <1>2, <1>5, <2>2, GoTypes, CountTypes DEF Plan
<1>6. CASE Apply(p)
  <2>1. [pc |-> "delete", plan |-> f.plan] \in Scripts
    BY <1>1 DEF Scripts
  <2>2. [f EXCEPT !.pc = "wait"] \in Frames
    BY <1>1, PatchedFrames
  <2> QED
    BY <1>2, <1>6, <2>1, <2>2, GoTypes, CountTypes DEF Apply
<1>7. CASE ListStale(p)
  <2>1. \A stale \in SUBSET Forwards : [f EXCEPT !.pc = "unbind", !.todo = stale] \in Frames
    BY <1>1, PatchedFrames
  <2> QED
    BY <1>1, <1>2, <1>7, <2>1, FrameTypes, GoTypes DEF ListStale
<1>8. CASE Drop(p)
  BY <1>1, <1>8, FrameTypes, GoTypes, PartTypes DEF Drop, Counts
<1>9. CASE Undo(p)
  BY <1>1, <1>9, PatchedFrames, GoTypes DEF Undo
<1>10. CASE Finish(p)
  BY <1>10, PartTypes, GoTypes DEF Finish
<1>11. ASSUME NEW g \in Forwards, MarkError(p, g) PROVE TypeOK'
  <2>1. Unsynced([f EXCEPT !.todo = {}]) \in Frames
    BY <1>1, PatchedFrames, FrameTypes
  <2>2. Rest(f, g, Unsynced([f EXCEPT !.todo = {}])) \in Frames
    BY <1>1, <2>1, FrameTypes
  <2> QED
    BY <1>11, <2>2, GoTypes, CountTypes DEF MarkError, Bindings
<1>12. ASSUME NEW g \in Forwards, Bind(p, g) PROVE TypeOK'
  <2>1. Rest(f, g, [f EXCEPT !.pc = "list", !.todo = {}]) \in Frames
    BY <1>1, PatchedFrames, FrameTypes
  <2>2. f.pc = "bind" /\ g \in f.todo => f.plan[g] \in Versions
    BY <1>1 DEF Frames, Plans
  <2>3. f.plan[g] \in Versions => [ver |-> f.plan[g], ok |-> TRUE] \in Bindings
    BY DEF Bindings
  <2> QED
    BY <1>12, <2>1, <2>2, <2>3, GoTypes, CountTypes DEF Bind
<1>13. ASSUME NEW g \in Forwards, Unbind(p, g) PROVE TypeOK'
  <2>1. Rest(f, g, Synced(f)) \in Frames /\ Ended(f, "error") \in Frames
    BY <1>1, FrameTypes
  <2> QED
    BY <1>13, <2>1, GoTypes, CountTypes DEF Unbind, Bindings
<1>14. CASE GiveUp(p)
  BY <1>2, <1>14, GoTypes, CountTypes DEF GiveUp
<1> QED
  BY <1>3, <1>4, <1>5, <1>6, <1>7, <1>8, <1>9, <1>10, <1>11, <1>12, <1>13, <1>14 DEF ProcStep

\* What a script loads is a load.
LEMMA RenderedType == \A plan \in Plans : Rendered(plan) \in Loads
BY BoundAssumption DEF Rendered, Plans, Loads, Counts

\* A step of a script keeps the variables in their types.
LEMMA ScriptTypes ==
    ASSUME TypeOK, NEW p \in Procs, ScriptStep(p) \/ LoadFails(p) \/ Abandon(p)
    PROVE  TypeOK'
<1> DEFINE f == proc[p]
<1> USE DEF TypeOK, rows, node, bills
<1>1. f \in Frames /\ script[p].plan \in Plans /\ [script[p] EXCEPT !.pc = "load"] \in Scripts
  BY DEF Scripts
<1>2. CASE DeleteTable(p)
  <2>1. script' = [script EXCEPT ![p] = [script[p] EXCEPT !.pc = "load"]]
    BY <1>2 DEF DeleteTable, Scripts
  <2> QED
    BY <1>1, <1>2, <2>1, EmptySeq DEF DeleteTable
<1>3. CASE Load(p)
  <2>1. Append(table, Rendered(script[p].plan)) \in Seq(Loads)
    BY <1>1, RenderedType, AppendProperties
  <2>2. /\ [f EXCEPT !.pc = "list"] \in Frames
        /\ [f EXCEPT !.pc = "bind", !.todo = Planned(f)] \in Frames
    BY <1>1, PatchedFrames
  <2> QED
    BY <1>3, <2>1, <2>2, GoTypes, PartTypes DEF Load
<1>4. CASE LoadFails(p)
  BY <1>1, <1>4, FrameTypes, GoTypes, CountTypes, PartTypes DEF LoadFails
<1>5. CASE Abandon(p)
  BY <1>5, PartTypes DEF Abandon
<1> QED
  BY <1>2, <1>3, <1>4, <1>5 DEF ScriptStep

\* No counter has counted more than was carried.
CountInv == \A i \in DOMAIN table, f \in Forwards :
    table[i][f] # None => table[i][f].bytes <= carried[f]

\* A byte that goes by leaves the table as long as it is, and its loads loads.
LEMMA CarryTypes ==
    ASSUME TypeOK, CountInv, NEW f \in Forwards, NEW v \in Versions, Carry(f, v)
    PROVE  /\ table' \in Seq(Loads) /\ DOMAIN table' = DOMAIN table /\ Len(table') = Len(table)
           /\ carried' = [carried EXCEPT ![f] = carried[f] + 1]
           /\ \A i \in DOMAIN table :
                 \/ table'[i] = table[i]
                 \/ /\ table[i][f] # None /\ table'[i][f] # None
                    /\ table'[i] = [table[i] EXCEPT ![f] = [table[i][f] EXCEPT !.bytes = @ + 1]]
<1> DEFINE copies == {i \in DOMAIN table : table[i][f] # None /\ table[i][f].ver = v}
           More(i) == [table[i] EXCEPT ![f] = [table[i][f] EXCEPT !.bytes = @ + 1]]
<1>1. table \in Seq(Loads) /\ DOMAIN table = 1 .. Len(table) /\ Len(table) \in Nat
  BY LenProperties DEF TypeOK
<1>2. table' = [i \in DOMAIN table |-> IF i \in copies THEN More(i) ELSE table[i]]
  <2>1. \A i \in DOMAIN table :
           [table[i] EXCEPT ![f].bytes = @ + 1] = More(i)
    OBVIOUS
  <2> QED
    BY <2>1 DEF Carry
<1>3. carried[f] \in Nat /\ carried[f] < MaxBytes /\ carried' = [carried EXCEPT ![f] = carried[f] + 1]
  BY BoundAssumption DEF Carry, TypeOK
<1>4. ASSUME NEW i \in DOMAIN table PROVE table[i] \in Loads
  BY <1>1, ElementOfSeq
<1>5. ASSUME NEW i \in copies PROVE More(i) \in Loads /\ More(i)[f] # None
  <2>1. table[i] \in Loads /\ table[i][f] \in [ver : Versions, bytes : 0 .. MaxBytes]
    BY <1>4 DEF Loads, Counts
  <2>2. table[i][f].bytes <= carried[f]
    BY DEF CountInv
  <2>3. table[i][f].bytes + 1 \in 0 .. MaxBytes
    BY <1>3, <2>1, <2>2, BoundAssumption
  <2>4. [table[i][f] EXCEPT !.bytes = @ + 1] \in Counts \ {None}
    <3>1. [table[i][f] EXCEPT !.bytes = @ + 1] \in [ver : Versions, bytes : 0 .. MaxBytes]
      BY <2>1, <2>3
    <3> QED
      BY <3>1, NoneAssumption DEF Counts
  <2> QED
    BY <2>1, <2>4 DEF Loads
<1>6. \A i \in DOMAIN table : table'[i] \in Loads
  BY <1>2, <1>4, <1>5
<1>7. DOMAIN table' = DOMAIN table /\ table' = [i \in DOMAIN table |-> table'[i]]
  BY <1>2
<1>8. table' \in Seq(Loads) /\ Len(table') = Len(table)
  BY <1>1, <1>6, <1>7, SameLength
<1>9. \A i \in DOMAIN table : table'[i] = table[i] \/ (/\ table[i][f] # None /\ table'[i][f] # None
                                                        /\ table'[i] = More(i))
  BY <1>2, <1>5
<1> QED
  BY <1>3, <1>7, <1>8, <1>9

\* The copies of a forward in the sample, and what they add up to.
LEMMA SampleTypes ==
    ASSUME TypeOK, NEW f \in Forwards
    PROVE  /\ Copies(f) \subseteq 1 .. Len(job.samples) /\ Len(job.samples) \in Nat
           /\ \A i \in Copies(f) : job.samples[i][f] \in [ver : Versions, bytes : 0 .. MaxBytes]
           /\ f \in Known => Latest(f) \in Counts
           /\ Cardinality(Growth(f)) \in Nat
<1>1. /\ job.samples \in Seq(Loads) /\ Len(job.samples) \in Nat
      /\ DOMAIN job.samples = 1 .. Len(job.samples)
  BY LenProperties DEF TypeOK, Jobs
<1>2. Copies(f) \subseteq 1 .. Len(job.samples)
  BY <1>1 DEF Copies
<1>3. ASSUME NEW i \in Copies(f)
      PROVE  job.samples[i][f] \in [ver : Versions, bytes : 0 .. MaxBytes]
  <2>1. job.samples[i] \in Loads
    BY <1>1, <1>2, ElementOfSeq
  <2> QED
    BY <2>1 DEF Copies, Loads, Counts
<1>4. ASSUME f \in Known PROVE Latest(f) \in Counts
  <2>1. \E i \in Copies(f) : \A j \in Copies(f) : j <= i
    BY <1>1, <1>2, <1>4, HasLast DEF Known
  <2> DEFINE last == CHOOSE i \in Copies(f) : \A j \in Copies(f) : j <= i
  <2>2. last \in Copies(f)
    BY <2>1
  <2>3. binding[f].ver \in Versions
    BY <1>4 DEF Known, TypeOK, Bindings
  <2> HIDE DEF last
  <2>4. [ver |-> binding[f].ver, bytes |-> job.samples[last][f].bytes] \in Counts
    BY <1>3, <2>2, <2>3 DEF Counts
  <2> QED
    BY <2>4 DEF Latest, last
<1>5. Cardinality(Growth(f)) \in Nat
  <2>1. IsFiniteSet(1 .. Len(job.samples)) /\ IsFiniteSet(1 .. MaxBytes)
    BY <1>1, FS_Interval, BoundAssumption
  <2>2. IsFiniteSet((1 .. Len(job.samples)) \X (1 .. MaxBytes))
    BY <2>1, FS_Product
  <2>3. Growth(f) \subseteq (1 .. Len(job.samples)) \X (1 .. MaxBytes)
    BY <1>2 DEF Growth
  <2>4. IsFiniteSet(Growth(f))
    BY <2>2, <2>3, FS_Subset
  <2> QED
    BY <2>4, FS_CardinalityType
<1> QED
  BY <1>1, <1>2, <1>3, <1>4, <1>5

\* The collecting job keeps the variables in their types.
LEMMA JobTypes ==
    ASSUME TypeOK, JobStep
    PROVE  TypeOK'
<1> USE DEF TypeOK, rows, node, bills
<1>1. Resting \in Jobs
  BY PartTypes
<1>2. CASE StartCollecting
  BY <1>1, <1>2 DEF StartCollecting
<1>3. CASE Sample
  BY <1>3 DEF Sample, Jobs
<1>4. CASE ReadStates
  BY <1>4 DEF ReadStates, Jobs, Loads
<1>5. CASE ReadBindings
  <2> DEFINE due == [f \in Forwards |-> IF f \in Known THEN Cardinality(Growth(f)) ELSE 0]
             new == [f \in Forwards |-> IF f \in Known THEN Latest(f) ELSE None]
  <2>1. due \in [Forwards -> Nat]
    BY SampleTypes
  <2>2. new \in Loads
    BY SampleTypes DEF Loads, Counts
  <2>3. \A pc \in {"account", "metas"} :
           [job EXCEPT !.pc = pc, !.samples = <<>>, !.states = Nothing, !.due = due, !.new = new]
             \in Jobs
    <3>1. <<>> \in Seq(Loads) /\ Nothing \in Loads
      BY EmptySeq, PartTypes
    <3> HIDE DEF due, new
    <3> QED
      BY <2>1, <2>2, <3>1 DEF Jobs
  <2>4. job' \in Jobs
    <3> HIDE DEF due, new
    <3>1. \/ job' = Resting
          \/ \E pc \in {"account", "metas"} :
                job' = [job EXCEPT !.pc = pc, !.samples = <<>>, !.states = Nothing, !.due = due,
                                   !.new = new]
      BY <1>5 DEF ReadBindings, due, new
    <3> QED
      BY <1>1, <2>3, <3>1
  <2> QED
    BY <1>5, <2>4 DEF ReadBindings
<1>6. CASE LoadMetas
  BY <1>1, <1>6, CountTypes DEF LoadMetas, Jobs
<1>7. CASE Account
  <2>1. \A n \in Nat : Capped(n) \in 0 .. MaxBytes + 1
    BY BoundAssumption DEF Capped
  <2>2. job.due \in [Forwards -> Nat] /\ job.new \in Loads
    BY DEF Jobs
  <2>3. ASSUME NEW f \in Forwards PROVE Capped(billed[f] + job.due[f]) \in 0 .. MaxBytes + 1
    <3>1. billed[f] \in Nat /\ job.due[f] \in Nat
      BY <2>2, BoundAssumption
    <3>2. billed[f] + job.due[f] \in Nat
      BY <3>1
    <3> QED
      BY <2>1, <3>2
  <2>4. [f \in Forwards |-> IF job.new[f] = None THEN base[f] ELSE job.new[f]] \in Loads
    BY <2>2 DEF Loads
  <2>5. billed' \in [Forwards -> 0 .. MaxBytes + 1] /\ base' \in [Forwards -> Counts]
    BY <1>7, <2>3, <2>4 DEF Account, Loads
  <2>6. faults' \in 0 .. MaxFaults
    BY <1>7, CountTypes DEF Account
  <2> QED
    BY <1>1, <1>7, <2>5, <2>6 DEF Account
<1> QED
  BY <1>2, <1>3, <1>4, <1>5, <1>6, <1>7 DEF JobStep

\* The first state is of its type.
LEMMA InitType == Init => TypeOK /\ CountInv
<1> SUFFICES ASSUME Init PROVE TypeOK /\ CountInv
  OBVIOUS
<1>1. <<>> \in Seq(Loads) /\ DOMAIN <<>> = {}
  BY EmptySeq
<1>2. proc \in [Procs -> Frames] /\ script \in [Procs -> Scripts] /\ job \in Jobs
  BY PartTypes DEF Init
<1>3. base \in [Forwards -> Counts] /\ binding \in [Forwards -> Bindings] /\ row \in [Forwards -> Configs]
  BY PartTypes DEF Init, Loads
<1>4. table \in Seq(Loads) /\ CountInv
  BY <1>1 DEF Init, CountInv
<1>5. /\ life \in [Forwards -> {"new", "there", "gone"}] /\ carried \in [Forwards -> 0 .. MaxBytes]
      /\ billed \in [Forwards -> 0 .. MaxBytes + 1]
      /\ asked \in 0 .. MaxRequests /\ faults \in 0 .. MaxFaults
  BY BoundAssumption DEF Init
<1>6. doubled \in BOOLEAN
  BY DEF Init
<1> QED
  BY <1>2, <1>3, <1>4, <1>5, <1>6 DEF TypeOK

\* Every step keeps the variables in their types.
LEMMA TypeStep == TypeOK /\ CountInv /\ [Next]_vars => TypeOK'
<1> SUFFICES ASSUME TypeOK, CountInv, [Next]_vars PROVE TypeOK'
  OBVIOUS
<1> USE DEF TypeOK, rows, node, bills
<1>1. ASSUME NEW p \in Procs, Request(p) \/ ProcStep(p) \/ GiveUp(p) PROVE TypeOK'
  BY <1>1, RequestTypes, ProcTypes
<1>2. ASSUME NEW p \in Procs, ScriptStep(p) \/ LoadFails(p) \/ Abandon(p) PROVE TypeOK'
  BY <1>2, ScriptTypes
<1>3. ASSUME NEW f \in Forwards, NEW on \in BOOLEAN, SetStatus(f, on) PROVE TypeOK'
  <2>1. Disturbed \in [Procs -> Frames]
    BY PartTypes, PatchedFrames DEF Disturbed
  <2> QED
    BY <1>3, <2>1, CountTypes DEF SetStatus, Configs
<1>4. ASSUME NEW f \in Forwards, NEW v \in Versions, Carry(f, v) PROVE TypeOK'
  <2>1. table' \in Seq(Loads) /\ carried' = [carried EXCEPT ![f] = carried[f] + 1]
    BY <1>4, CarryTypes
  <2>2. carried[f] + 1 \in 0 .. MaxBytes
    BY <1>4, BoundAssumption DEF Carry
  <2> QED
    BY <1>4, <2>1, <2>2 DEF Carry
<1>5. CASE JobStep
  BY <1>5, JobTypes
<1>6. CASE NodeRestarts
  <2>1. \A p \in Procs : /\ [Marking(proc[p]) EXCEPT !.alone = FALSE] \in Frames
                         /\ [proc[p] EXCEPT !.alone = FALSE] \in Frames
    BY FrameTypes, PatchedFrames
  <2>2. proc' \in [Procs -> Frames]
    BY <1>6, <2>1 DEF NodeRestarts
  <2> QED
    BY <1>6, <2>2, PartTypes, EmptySeq, CountTypes DEF NodeRestarts
<1>7. CASE PanelRestarts
  BY <1>7, PartTypes, CountTypes DEF PanelRestarts
<1>8. CASE UNCHANGED vars
  BY <1>8 DEF vars
<1> QED
  BY <1>1, <1>2, <1>3, <1>4, <1>5, <1>6, <1>7, <1>8 DEF Next

-----------------------------------------------------------------------------
(* No byte is charged twice.                                               *)

\* How far n is beyond m.
Beyond(n, m) == IF m < n THEN n - m ELSE 0

\* What a count of n leaves to charge over the count b that is paid for.
Unpaid(b, n) == IF b = None THEN 0 ELSE Beyond(n, b.bytes)

\* The count of a forward in the first load of a table.
Counted(loads, f) == IF loads = <<>> \/ loads[1][f] = None THEN 0 ELSE loads[1][f].bytes

Single ==
    /\ Len(table) <= 1
    /\ job.pc \in {"states", "bindings"} => Len(job.samples) = 1

Paid(f) == billed[f] + Unpaid(base[f], Counted(table, f)) <= carried[f]

\* The job has a sample: what it may charge by it, and what the counter has
\* counted since, still fit into what was carried.
Sampled(f) ==
    job.pc \in {"states", "bindings"} =>
        billed[f]
          + Unpaid(IF job.pc = "states" THEN base[f] ELSE job.states[f], Counted(job.samples, f))
          + Beyond(Counted(table, f), Counted(job.samples, f)) <= carried[f]

\* The job has a charge, and the count that is then paid for.
Charged(f) ==
    job.pc \in {"metas", "account"} =>
        IF job.new[f] = None THEN job.due[f] = 0
        ELSE billed[f] + job.due[f] + Beyond(Counted(table, f), job.new[f].bytes) <= carried[f]

ChargeInv == ~doubled => Single /\ \A f \in Forwards : Paid(f) /\ Sampled(f) /\ Charged(f)

IInv == TypeOK /\ CountInv /\ ChargeInv

\* What these are made of are numbers.
LEMMA Numbers ==
    ASSUME TypeOK, NEW f \in Forwards
    PROVE  /\ billed[f] \in Nat /\ carried[f] \in Nat /\ job.due[f] \in Nat
           /\ base[f] \in Counts /\ job.states[f] \in Counts /\ job.new[f] \in Counts
           /\ \A b \in Counts \ {None} : b.bytes \in Nat
           /\ \A m, n \in Nat : Beyond(n, m) \in Nat
           /\ \A b \in Counts, n \in Nat : Unpaid(b, n) \in Nat
           /\ \A loads \in Seq(Loads) : Counted(loads, f) \in Nat
<1>1. billed[f] \in Nat /\ carried[f] \in Nat
  BY BoundAssumption DEF TypeOK
<1>2. /\ job.due[f] \in Nat /\ base[f] \in Counts /\ job.states[f] \in Counts
      /\ job.new[f] \in Counts
  BY DEF TypeOK, Jobs, Loads
<1>3. \A b \in Counts \ {None} : b.bytes \in Nat
  BY BoundAssumption DEF Counts
<1>4. \A m, n \in Nat : Beyond(n, m) \in Nat
  BY DEF Beyond
<1>5. \A b \in Counts, n \in Nat : Unpaid(b, n) \in Nat
  BY <1>3, <1>4 DEF Unpaid
<1>6. ASSUME NEW loads \in Seq(Loads), loads # <<>> PROVE loads[1][f] \in Counts
  <2>1. 1 \in 1 .. Len(loads)
    BY <1>6, EmptySeq
  <2>2. loads[1] \in Loads
    BY <2>1, ElementOfSeq
  <2> QED
    BY <2>2 DEF Loads
<1>7. \A loads \in Seq(Loads) : Counted(loads, f) \in Nat
  BY <1>3, <1>6 DEF Counted
<1> QED
  BY <1>1, <1>2, <1>3, <1>4, <1>5, <1>7

\* The first state satisfies the invariant.
LEMMA InitInv == Init => IInv
<1> SUFFICES ASSUME Init PROVE IInv
  OBVIOUS
<1>1. TypeOK /\ CountInv
  BY InitType
<1>2. Len(table) = 0 /\ table = <<>> /\ job.pc = "starting"
  BY EmptySeq DEF Init, Resting
<1>3. Single /\ \A f \in Forwards : Sampled(f) /\ Charged(f)
  BY <1>2 DEF Single, Sampled, Charged
<1>4. \A f \in Forwards : Paid(f)
  BY DEF Init, Paid, Unpaid, Nothing
<1> QED
  BY <1>1, <1>3, <1>4 DEF IInv, ChargeInv

\* A step that moves no charge: counters go on or start from zero, counts that
\* are paid for stay or go, and the job does as well.
LEMMA CalmStep ==
    ASSUME IInv, TypeOK', CountInv', UNCHANGED bills, doubled' = doubled,
           Len(table') <= 1 \/ Len(table') = Len(table),
           job' = job \/ job'.pc \in {"starting", "idle"},
           \A f \in Forwards : /\ base'[f] \in {base[f], None}
                               /\ Counted(table', f) \in {Counted(table, f), 0}
    PROVE  IInv'
<1>1. CASE doubled
  BY <1>1 DEF IInv, ChargeInv
<1>2. CASE ~doubled
  <2>1. Single /\ \A f \in Forwards : Paid(f) /\ Sampled(f) /\ Charged(f)
    BY <1>2 DEF IInv, ChargeInv
  <2>2. Single'
    BY <2>1 DEF Single
  <2>3. ASSUME NEW f \in Forwards PROVE Paid(f)' /\ Sampled(f)' /\ Charged(f)'
    <3> DEFINE c == Counted(table, f)
               d == Counted(table', f)
    <3>1. /\ billed[f] \in Nat /\ carried[f] \in Nat /\ job.due[f] \in Nat
          /\ c \in Nat /\ Counted(job.samples, f) \in Nat
          /\ base[f] \in Counts /\ job.states[f] \in Counts /\ job.new[f] \in Counts
      BY Numbers DEF IInv, TypeOK, Jobs
    <3>2. \A m \in Nat : Beyond(0, m) = 0 /\ Beyond(c, m) \in Nat
      BY <3>1 DEF Beyond
    <3>3. d \in {c, 0}
      OBVIOUS
    <3>4. \A m \in Nat : Beyond(d, m) \in Nat /\ Beyond(d, m) <= Beyond(c, m)
      BY <3>2, <3>3
    <3>5. \A b \in Counts : /\ Unpaid(b, d) \in Nat /\ Unpaid(b, d) <= Unpaid(b, c)
                            /\ Unpaid(None, d) = 0 /\ Unpaid(b, c) \in Nat
      <4>1. \A b \in Counts \ {None} : b.bytes \in Nat
        BY Numbers DEF IInv
      <4> HIDE DEF c, d
      <4>2. Unpaid(None, d) = 0
        BY DEF Unpaid
      <4>3. ASSUME NEW b \in Counts \ {None}
            PROVE  /\ Unpaid(b, d) = Beyond(d, b.bytes) /\ Unpaid(b, c) = Beyond(c, b.bytes)
                   /\ Beyond(d, b.bytes) \in Nat /\ Beyond(c, b.bytes) \in Nat
                   /\ Beyond(d, b.bytes) <= Beyond(c, b.bytes)
        BY <3>2, <3>4, <4>1 DEF Unpaid
      <4>4. Unpaid(None, c) = 0
        BY DEF Unpaid
      <4> QED
        BY <4>2, <4>3, <4>4
    <3>6. \A b \in Counts : /\ Unpaid(b, Counted(job.samples, f)) \in Nat
                            /\ Unpaid(None, Counted(job.samples, f)) = 0
      BY <3>1, Numbers DEF IInv, Unpaid
    <3>7. base'[f] \in {base[f], None} /\ billed'[f] = billed[f] /\ carried'[f] = carried[f]
      BY DEF bills
    <3> HIDE DEF c, d
    <3>8. Paid(f)'
      <4>1. billed[f] + Unpaid(base[f], c) <= carried[f]
        BY <2>1 DEF Paid, c
      <4>2. billed[f] + Unpaid(base'[f], d) <= carried[f]
        BY <3>1, <3>5, <3>7, <4>1
      <4> QED
        BY <3>7, <4>2 DEF Paid, d
    <3>9. CASE job'.pc \in {"starting", "idle"}
      BY <3>8, <3>9 DEF Sampled, Charged
    <3>10. CASE job' = job
      <4>1. Sampled(f)'
        <5> DEFINE s == Counted(job.samples, f)
                   b == IF job.pc = "states" THEN base[f] ELSE job.states[f]
                   a == IF job.pc = "states" THEN base'[f] ELSE job.states[f]
        <5>1. SUFFICES ASSUME job.pc \in {"states", "bindings"}
                       PROVE  billed[f] + Unpaid(a, s) + Beyond(d, s) <= carried[f]
          BY <3>7, <3>10 DEF Sampled, d
        <5>2. billed[f] + Unpaid(b, s) + Beyond(c, s) <= carried[f]
          BY <2>1, <5>1 DEF Sampled, c
        <5>3. a \in {b, None} /\ b \in Counts
          BY <3>1, <3>7
        <5>4. s \in Nat /\ Unpaid(b, s) \in Nat /\ Unpaid(None, s) = 0
          BY <3>1, <3>6, <5>3
        <5> HIDE DEF s, a, b
        <5>5. Unpaid(a, s) \in Nat /\ Unpaid(a, s) <= Unpaid(b, s)
          BY <5>3, <5>4
        <5>6. /\ Beyond(d, s) \in Nat /\ Beyond(c, s) \in Nat
              /\ Beyond(d, s) <= Beyond(c, s)
          BY <3>2, <3>4, <5>4
        <5> QED
          BY <3>1, <5>2, <5>4, <5>5, <5>6
      <4>2. Charged(f)'
        <5>1. SUFFICES ASSUME job.pc \in {"metas", "account"}, job.new[f] # None
                       PROVE  billed[f] + job.due[f] + Beyond(d, job.new[f].bytes) <= carried[f]
          BY <2>1, <3>7, <3>10 DEF Charged, d
        <5>2. billed[f] + job.due[f] + Beyond(c, job.new[f].bytes) <= carried[f]
          BY <2>1, <5>1 DEF Charged, c
        <5>3. job.new[f].bytes \in Nat
          BY <3>1, <5>1, Numbers DEF IInv
        <5>4. /\ Beyond(d, job.new[f].bytes) \in Nat /\ Beyond(c, job.new[f].bytes) \in Nat
              /\ Beyond(d, job.new[f].bytes) <= Beyond(c, job.new[f].bytes)
          BY <3>2, <3>4, <5>3
        <5> QED
          BY <3>1, <5>2, <5>4
      <4> QED
        BY <3>8, <4>1, <4>2
    <3> QED
      BY <3>9, <3>10
  <2> QED
    BY <2>2, <2>3 DEF IInv, ChargeInv
<1> QED
  BY <1>1, <1>2

\* Steps that touch neither the table, what was carried or charged, nor the
\* job, and of the counts that are paid for only forget some.
LEMMA QuietSteps ==
    ASSUME TypeOK, NEW p \in Procs,
           \/ Request(p) \/ ProcStep(p) \/ GiveUp(p) \/ LoadFails(p) \/ Abandon(p)
           \/ \E f \in Forwards, on \in BOOLEAN : SetStatus(f, on)
           \/ UNCHANGED vars
    PROVE  /\ UNCHANGED <<table, job, bills, doubled>>
           /\ \A f \in Forwards : base'[f] \in {base[f], None}
<1>1. CASE Request(p)
  BY <1>1 DEF Request, Create, Update, Delete, Reconcile, Clear, TypeOK, node
<1>2. CASE ProcStep(p) \/ GiveUp(p)
  BY <1>2 DEF ProcStep, GiveUp, Store, Unlist, Plan, Apply, ListStale, Drop, Undo, Finish,
              MarkError, Bind, Unbind, TypeOK, node
<1>3. CASE LoadFails(p) \/ Abandon(p)
  BY <1>3 DEF LoadFails, Abandon
<1>4. ASSUME NEW f \in Forwards, NEW on \in BOOLEAN, SetStatus(f, on)
      PROVE  UNCHANGED <<table, job, bills, doubled, base>>
  BY <1>4 DEF SetStatus, node
<1>5. CASE UNCHANGED vars
  BY <1>5 DEF vars, node
<1> QED
  BY <1>1, <1>2, <1>3, <1>4, <1>5

\* A load adds a table's worth of rules that have counted nothing.
LEMMA LoadFacts ==
    ASSUME TypeOK, NEW p \in Procs, Load(p)
    PROVE  /\ Len(table') = Len(table) + 1 /\ DOMAIN table' = 1 .. Len(table) + 1
           /\ Len(table) \in Nat /\ DOMAIN table = 1 .. Len(table)
           /\ \A i \in DOMAIN table : table'[i] = table[i]
           /\ \A f \in Forwards : LET new == table'[Len(table) + 1][f] IN
                 new # None => new.bytes = 0
<1> DEFINE load == Rendered(script[p].plan)
<1>1. load \in Loads
  BY RenderedType DEF TypeOK, Scripts
<1>2. table' = Append(table, load)
  BY DEF Load
<1>3. table \in Seq(Loads)
  BY DEF TypeOK
<1>4. \A f \in Forwards : load[f] # None => load[f].bytes = 0
  BY DEF Rendered
<1> HIDE DEF load
<1>5. /\ table' \in Seq(Loads) /\ Len(table') = Len(table) + 1
      /\ \A i \in 1 .. Len(table) : table'[i] = table[i]
      /\ table'[Len(table) + 1] = load
  BY <1>1, <1>2, <1>3, AppendProperties
<1>6. DOMAIN table' = 1 .. Len(table') /\ DOMAIN table = 1 .. Len(table) /\ Len(table) \in Nat
  BY <1>3, <1>5, LenProperties
<1> QED
  BY <1>4, <1>5, <1>6

\* No step makes a counter exceed what was carried.
LEMMA CountStep == TypeOK /\ CountInv /\ [Next]_vars => CountInv'
<1> SUFFICES ASSUME TypeOK, CountInv, [Next]_vars PROVE CountInv'
  OBVIOUS
<1>1. CASE UNCHANGED <<table, bills>>
  BY <1>1 DEF CountInv, bills
<1>2. CASE table' = <<>>
  BY <1>2, EmptySeq DEF CountInv
<1>3. ASSUME NEW p \in Procs, Load(p) PROVE CountInv'
  <2>1. carried' = carried
    BY <1>3 DEF Load, bills
  <2>2. \A f \in Forwards : carried[f] \in Nat
    BY BoundAssumption DEF TypeOK
  <2>3. \A i \in DOMAIN table' : i \in DOMAIN table \/ i = Len(table) + 1
    BY <1>3, LoadFacts
  <2> QED
    BY <1>3, <2>1, <2>2, <2>3, LoadFacts DEF CountInv
<1>4. ASSUME NEW f \in Forwards, NEW v \in Versions, Carry(f, v) PROVE CountInv'
  <2>1. /\ DOMAIN table' = DOMAIN table /\ carried' = [carried EXCEPT ![f] = carried[f] + 1]
        /\ \A i \in DOMAIN table :
              \/ table'[i] = table[i]
              \/ /\ table[i][f] # None
                 /\ table'[i] = [table[i] EXCEPT ![f] = [table[i][f] EXCEPT !.bytes = @ + 1]]
    BY <1>4, CarryTypes
  <2>2. ASSUME NEW i \in DOMAIN table, NEW g \in Forwards, table'[i][g] # None
        PROVE  table'[i][g].bytes <= carried'[g]
    <3>1. table[i] \in Loads
      BY LenProperties, ElementOfSeq DEF TypeOK
    <3>2. table[i][g] \in Counts /\ carried[g] \in Nat
      BY <3>1, BoundAssumption DEF Loads, TypeOK
    <3>3. carried'[g] = IF g = f THEN carried[g] + 1 ELSE carried[g]
      BY <2>1 DEF TypeOK
    <3>4. table[i][g] # None => table[i][g].bytes \in Nat /\ table[i][g].bytes <= carried[g]
      BY <3>2, BoundAssumption DEF CountInv, Counts
    <3>5. CASE table'[i] = table[i]
      BY <2>2, <3>2, <3>3, <3>4, <3>5
    <3>6. CASE /\ table[i][f] # None
               /\ table'[i] = [table[i] EXCEPT ![f] = [table[i][f] EXCEPT !.bytes = @ + 1]]
      <4>1. CASE g = f
        <5>1. table[i][f] \in [ver : Versions, bytes : 0 .. MaxBytes]
          BY <3>2, <3>6, <4>1 DEF Counts
        <5>2. table'[i][f] = [table[i][f] EXCEPT !.bytes = @ + 1]
          BY <3>1, <3>6 DEF Loads
        <5>3. table'[i][f].bytes = table[i][f].bytes + 1
          BY <5>1, <5>2
        <5> QED
          BY <3>2, <3>3, <3>4, <3>6, <4>1, <5>3
      <4>2. CASE g # f
        <5>1. table'[i][g] = table[i][g]
          BY <3>1, <3>6, <4>2 DEF Loads
        <5> QED
          BY <2>2, <3>2, <3>3, <3>4, <4>2, <5>1
      <4> QED
        BY <4>1, <4>2
    <3> QED
      BY <2>1, <3>5, <3>6
  <2> QED
    BY <2>1, <2>2 DEF CountInv
<1>5. ASSUME NEW p \in Procs,
             \/ Request(p) \/ ProcStep(p) \/ GiveUp(p) \/ LoadFails(p) \/ Abandon(p)
             \/ \E f \in Forwards, on \in BOOLEAN : SetStatus(f, on)
             \/ UNCHANGED vars
      PROVE  CountInv'
  BY <1>1, <1>5, QuietSteps
<1>6. ASSUME NEW p \in Procs, DeleteTable(p) PROVE CountInv'
  BY <1>2, <1>6 DEF DeleteTable
<1>7. CASE JobStep
  <2>1. table' = table /\ carried' = carried
    BY <1>7 DEF JobStep, StartCollecting, Sample, ReadStates, ReadBindings, LoadMetas, Account,
                node, bills
  <2> QED
    BY <2>1 DEF CountInv
<1>8. CASE NodeRestarts \/ PanelRestarts
  BY <1>1, <1>2, <1>8 DEF NodeRestarts, PanelRestarts, node, bills
<1> QED
  BY <1>3, <1>4, <1>5, <1>6, <1>7, <1>8 DEF Next, ScriptStep, Procs

\* A single table is empty, or has one load.
LEMMA OneLoad ==
    ASSUME IInv, ~doubled
    PROVE  /\ Len(table) \in {0, 1} /\ (table = <<>> <=> Len(table) = 0)
           /\ job.pc \in {"states", "bindings"} => job.samples # <<>> /\ Len(job.samples) = 1
<1>1. table \in Seq(Loads) /\ Len(table) \in Nat
  BY LenProperties DEF IInv, TypeOK
<1>2. Len(table) <= 1 /\ (job.pc \in {"states", "bindings"} => Len(job.samples) = 1)
  BY DEF IInv, ChargeInv, Single
<1>3. Len(table) \in {0, 1}
  <2>1. \A n \in Nat : n <= 1 => n \in {0, 1}
    OBVIOUS
  <2> QED
    BY <1>1, <1>2, <2>1
<1>4. Len(<<>>) = 0 /\ (table # <<>> => Len(table) # 0)
  BY <1>1, EmptySeq
<1> QED
  BY <1>2, <1>3, <1>4

\* A script's step keeps the invariant.
LEMMA ScriptKeeps ==
    ASSUME IInv, TypeOK', CountInv', NEW p \in Procs, ScriptStep(p)
    PROVE  IInv'
<1>1. CASE DeleteTable(p)
  <2>1. table' = <<>> /\ UNCHANGED <<base, job, bills, doubled>>
    BY <1>1 DEF DeleteTable
  <2>2. Len(table') = 0 /\ \A f \in Forwards : Counted(table', f) = 0
    BY <2>1, EmptySeq DEF Counted
  <2> QED
    BY <2>1, <2>2, CalmStep
<1>2. CASE Load(p)
  <2>1. UNCHANGED <<base, job, bills>> /\ doubled' = (doubled \/ table # <<>>)
    BY <1>2 DEF Load
  <2>2. CASE doubled'
    BY <2>2 DEF IInv, ChargeInv
  <2>3. CASE ~doubled'
    <3>1. ~doubled /\ table = <<>> /\ Len(table) = 0
      BY <2>1, <2>3, EmptySeq
    <3>2. /\ Len(table') = 1
          /\ \A f \in Forwards : table'[1][f] # None => table'[1][f].bytes = 0
      BY <1>2, <3>1, LoadFacts DEF IInv
    <3>3. \A f \in Forwards : Counted(table', f) = 0
      BY <3>2 DEF Counted
    <3> QED
      BY <2>1, <2>3, <3>1, <3>2, <3>3, CalmStep DEF IInv, TypeOK
  <2> QED
    BY <2>2, <2>3
<1> QED
  BY <1>1, <1>2 DEF ScriptStep

\* A byte that goes by is carried, and counted at most once.
LEMMA CarryKeeps ==
    ASSUME IInv, TypeOK', CountInv', NEW f \in Forwards, NEW v \in Versions, Carry(f, v)
    PROVE  IInv'
<1>1. UNCHANGED <<base, job, billed, doubled>>
  BY DEF Carry
<1>2. SUFFICES ASSUME ~doubled PROVE ChargeInv'
  BY <1>1 DEF IInv, ChargeInv
<1>3. /\ table' \in Seq(Loads) /\ DOMAIN table' = DOMAIN table /\ Len(table') = Len(table)
      /\ carried' = [carried EXCEPT ![f] = carried[f] + 1]
      /\ \A i \in DOMAIN table :
            \/ table'[i] = table[i]
            \/ /\ table[i][f] # None /\ table'[i][f] # None
               /\ table'[i] = [table[i] EXCEPT ![f] = [table[i][f] EXCEPT !.bytes = @ + 1]]
  BY CarryTypes DEF IInv
<1>4. Single /\ \A g \in Forwards : Paid(g) /\ Sampled(g) /\ Charged(g)
  BY <1>2 DEF IInv, ChargeInv
<1>5. Single'
  BY <1>1, <1>3, <1>4 DEF Single
<1>6. table # <<>> /\ table' # <<>> /\ 1 \in DOMAIN table
  <2>1. DOMAIN table # {}
    BY DEF Carry
  <2>2. DOMAIN table = 1 .. Len(table) /\ Len(table) \in {0, 1}
    BY <1>2, OneLoad, LenProperties DEF IInv, TypeOK
  <2> QED
    BY <1>3, <2>1, <2>2, EmptySeq
<1>7. ASSUME NEW g \in Forwards PROVE Paid(g)' /\ Sampled(g)' /\ Charged(g)'
  <2> DEFINE c == Counted(table, g)
             d == Counted(table', g)
             s == Counted(job.samples, g)
  <2>1. /\ billed[g] \in Nat /\ carried[g] \in Nat /\ job.due[g] \in Nat
        /\ c \in Nat /\ d \in Nat /\ s \in Nat
        /\ base[g] \in Counts /\ job.states[g] \in Counts /\ job.new[g] \in Counts
        /\ \A b \in Counts \ {None} : b.bytes \in Nat
    BY <1>3, Numbers DEF IInv, TypeOK, Jobs
  <2>2. table[1] \in Loads /\ table[1][g] \in Counts
    BY <1>6, LenProperties, ElementOfSeq DEF IInv, TypeOK, Loads
  <2>3. carried'[g] = (IF g = f THEN carried[g] + 1 ELSE carried[g]) /\ billed'[g] = billed[g]
    BY <1>1, <1>3 DEF IInv, TypeOK
  <2>4. d = c \/ (g = f /\ d = c + 1)
    <3>1. CASE table'[1] = table[1]
      BY <1>6, <3>1 DEF Counted
    <3>2. CASE /\ table[1][f] # None /\ table'[1][f] # None
               /\ table'[1] = [table[1] EXCEPT ![f] = [table[1][f] EXCEPT !.bytes = @ + 1]]
      <4>1. CASE g = f
        <5>1. table[1][f] \in [ver : Versions, bytes : 0 .. MaxBytes]
          BY <2>2, <3>2, <4>1 DEF Counts
        <5>2. table'[1][f] = [table[1][f] EXCEPT !.bytes = @ + 1]
          BY <2>2, <3>2 DEF Loads
        <5>3. table'[1][f].bytes = table[1][f].bytes + 1 /\ table'[1][f] # None
          BY <3>2, <5>1, <5>2
        <5> QED
          BY <1>6, <3>2, <4>1, <5>3 DEF Counted
      <4>2. CASE g # f
        <5>1. table'[1][g] = table[1][g]
          BY <2>2, <3>2, <4>2 DEF Loads
        <5> QED
          BY <1>6, <5>1 DEF Counted
      <4> QED
        BY <4>1, <4>2
    <3> QED
      BY <1>3, <1>6, <3>1, <3>2
  <2> HIDE DEF c, d, s
  <2>5. \A m \in Nat : /\ Beyond(c, m) \in Nat /\ Beyond(d, m) \in Nat
                       /\ Beyond(d, m) <= Beyond(c, m) + (d - c)
    BY <2>1, <2>4 DEF Beyond
  <2>6. \A b \in Counts : /\ Unpaid(b, c) \in Nat /\ Unpaid(b, d) \in Nat /\ Unpaid(b, s) \in Nat
                          /\ Unpaid(b, d) <= Unpaid(b, c) + (d - c)
    <3> SUFFICES ASSUME NEW b \in Counts
                 PROVE  /\ Unpaid(b, c) \in Nat /\ Unpaid(b, d) \in Nat /\ Unpaid(b, s) \in Nat
                        /\ Unpaid(b, d) <= Unpaid(b, c) + (d - c)
      OBVIOUS
    <3>1. CASE b = None
      BY <2>1, <2>4, <3>1 DEF Unpaid
    <3>2. CASE b # None
      <4>1. b.bytes \in Nat
        BY <2>1, <3>2
      <4>2. Beyond(s, b.bytes) \in Nat
        BY <2>1, <4>1 DEF Beyond
      <4> QED
        BY <2>5, <3>2, <4>1, <4>2 DEF Unpaid
    <3> QED
      BY <3>1, <3>2
  <2>7. d - c <= carried'[g] - carried[g] /\ d - c \in Nat /\ carried'[g] \in Nat
    BY <2>1, <2>3, <2>4
  <2>8. Paid(g)'
    <3>1. billed[g] + Unpaid(base[g], c) <= carried[g]
      BY <1>4 DEF Paid, c
    <3>2. Unpaid(base[g], c) \in Nat /\ Unpaid(base[g], d) \in Nat
          /\ Unpaid(base[g], d) <= Unpaid(base[g], c) + (d - c)
      BY <2>1, <2>6
    <3>3. billed[g] + Unpaid(base[g], d) <= carried'[g]
      BY <2>1, <2>7, <3>1, <3>2
    <3> QED
      BY <1>1, <3>3 DEF Paid, d
  <2>9. Sampled(g)'
    <3> DEFINE b == IF job.pc = "states" THEN base[g] ELSE job.states[g]
    <3>1. SUFFICES ASSUME job.pc \in {"states", "bindings"}
                   PROVE  billed[g] + Unpaid(b, s) + Beyond(d, s) <= carried'[g]
      BY <1>1 DEF Sampled, d, s
    <3>2. billed[g] + Unpaid(b, s) + Beyond(c, s) <= carried[g]
      BY <1>4, <3>1 DEF Sampled, c, s
    <3>3. Unpaid(b, s) \in Nat /\ Beyond(c, s) \in Nat /\ Beyond(d, s) \in Nat
          /\ Beyond(d, s) <= Beyond(c, s) + (d - c)
      BY <2>1, <2>5, <2>6
    <3> HIDE DEF b
    <3> QED
      BY <2>1, <2>7, <3>2, <3>3
  <2>10. Charged(g)'
    <3>1. SUFFICES ASSUME job.pc \in {"metas", "account"}, job.new[g] # None
                   PROVE  billed[g] + job.due[g] + Beyond(d, job.new[g].bytes) <= carried'[g]
      BY <1>1, <1>4 DEF Charged, d
    <3>2. billed[g] + job.due[g] + Beyond(c, job.new[g].bytes) <= carried[g]
      BY <1>4, <3>1 DEF Charged, c
    <3>3. job.new[g].bytes \in Nat
      BY <2>1, <3>1
    <3>4. /\ Beyond(c, job.new[g].bytes) \in Nat /\ Beyond(d, job.new[g].bytes) \in Nat
          /\ Beyond(d, job.new[g].bytes) <= Beyond(c, job.new[g].bytes) + (d - c)
      BY <2>5, <3>3
    <3> QED
      BY <2>1, <2>7, <3>2, <3>4
  <2> QED
    BY <2>8, <2>9, <2>10
<1> QED
  BY <1>5, <1>7 DEF ChargeInv

\* The pairs of one index and the numbers above m up to n.
LEMMA PairsAbove ==
    ASSUME NEW m \in Nat, NEW n \in Nat, m < n
    PROVE  /\ IsFiniteSet({1} \X (m + 1 .. n))
           /\ Cardinality({1} \X (m + 1 .. n)) = n - m
<1> DEFINE above == m + 1 .. n
<1>1. m + 1 \in Int /\ n \in Int /\ ~(m + 1 > n) /\ n - (m + 1) + 1 = n - m
  OBVIOUS
<1>2. IsFiniteSet(above) /\ Cardinality(above) = n - (m + 1) + 1
  BY <1>1, FS_Interval
<1>3. IsFiniteSet({1}) /\ Cardinality({1}) = 1
  BY FS_Singleton
<1> HIDE DEF above
<1>4. /\ IsFiniteSet({1} \X above)
      /\ Cardinality({1} \X above) = Cardinality({1}) * Cardinality(above)
  BY <1>2, <1>3, FS_Product
<1>5. Cardinality({1} \X above) = n - m
  BY <1>1, <1>2, <1>3, <1>4
<1> QED
  BY <1>4, <1>5 DEF above

\* What the job may charge by one sample is what it has counted over the count
\* that is paid for.
LEMMA GrowthBound ==
    ASSUME TypeOK, Len(job.samples) = 1, NEW f \in Known
    PROVE  /\ Cardinality(Growth(f)) <= Unpaid(job.states[f], Counted(job.samples, f))
           /\ Latest(f) # None /\ Latest(f).bytes = Counted(job.samples, f)
<1> DEFINE s == Counted(job.samples, f)
           b == job.states[f]
<1>1. f \in Forwards /\ Copies(f) # {} /\ Copies(f) \subseteq {1}
  BY SampleTypes DEF Known
<1>2. Copies(f) = {1}
  BY <1>1
<1>3. job.samples # <<>>
  BY EmptySeq
<1>4. /\ job.samples[1][f] \in [ver : Versions, bytes : 0 .. MaxBytes]
      /\ s = job.samples[1][f].bytes
  <2>1. job.samples[1][f] \in [ver : Versions, bytes : 0 .. MaxBytes]
    BY <1>1, <1>2, SampleTypes
  <2>2. job.samples[1][f] # None
    BY <1>2 DEF Copies
  <2> QED
    BY <1>3, <2>1, <2>2 DEF Counted
<1>5. s \in Nat /\ s <= MaxBytes
  BY <1>4, BoundAssumption
<1>6. b \in Counts
  BY <1>1 DEF TypeOK, Jobs, Loads
<1>7. Latest(f) # None /\ Latest(f).bytes = s
  <2>1. (CHOOSE i \in Copies(f) : \A j \in Copies(f) : j <= i) = 1
    BY <1>2
  <2>2. Latest(f) = [ver |-> binding[f].ver, bytes |-> s]
    BY <1>4, <2>1 DEF Latest
  <2>3. binding[f].ver \in Versions
    BY <1>1 DEF Known, TypeOK, Bindings
  <2>4. s \in 0 .. MaxBytes
    BY <1>4
  <2> HIDE DEF s
  <2>5. Latest(f) \in [ver : Versions, bytes : 0 .. MaxBytes]
    BY <2>2, <2>3, <2>4
  <2> QED
    BY <2>2, <2>5, NoneAssumption
<1>8. CASE Growth(f) = {}
  <2>1. Cardinality(Growth(f)) = 0
    BY <1>8, FS_EmptySet
  <2>2. Unpaid(b, s) \in Nat
    BY <1>1, <1>5, <1>6, Numbers
  <2> QED
    BY <1>7, <2>1, <2>2
<1>9. CASE Growth(f) # {}
  <2>1. b # None /\ b.bytes \in Nat
    BY <1>6, <1>9, BoundAssumption DEF Growth, Counts
  <2>2. \A g \in Growth(f) : g[1] = 1 /\ g[2] \in b.bytes + 1 .. s
    BY <1>2, <1>4, <1>5, <1>9, <2>1, BoundAssumption DEF Growth
  <2>3. Growth(f) \subseteq {1} \X (b.bytes + 1 .. s)
    BY <1>2, <2>2 DEF Growth
  <2>4. PICK g \in Growth(f) : TRUE
    BY <1>9
  <2>5. b.bytes < s
    BY <1>5, <2>1, <2>2, <2>4
  <2>6. /\ IsFiniteSet({1} \X (b.bytes + 1 .. s))
        /\ Cardinality({1} \X (b.bytes + 1 .. s)) = s - b.bytes
    BY <1>5, <2>1, <2>5, PairsAbove
  <2>7. Cardinality(Growth(f)) <= s - b.bytes
    BY <2>3, <2>6, FS_Subset
  <2> QED
    BY <1>7, <2>1, <2>5, <2>7 DEF Unpaid, Beyond
<1> QED
  BY <1>8, <1>9

\* A step of the job keeps the invariant.
LEMMA JobKeeps ==
    ASSUME IInv, TypeOK', CountInv', JobStep
    PROVE  IInv'
<1>1. CASE StartCollecting
  <2>1. UNCHANGED <<base, table, bills, doubled>> /\ job' = Resting
    BY <1>1 DEF StartCollecting, node
  <2>2. job'.pc = "idle"
    BY <2>1 DEF Resting
  <2> QED
    BY <2>1, <2>2, CalmStep
<1>2. CASE Sample
  <2>1. /\ UNCHANGED <<base, table, bills, doubled>> /\ job.pc = "idle" /\ table # <<>>
        /\ job'.pc = "states" /\ job'.samples = table
    BY <1>2 DEF Sample, node, IInv, TypeOK, Jobs
  <2>2. SUFFICES ASSUME ~doubled PROVE ChargeInv'
    BY <2>1 DEF IInv, ChargeInv
  <2>3. Single'
    <3>1. Len(table) = 1
      BY <2>1, <2>2, OneLoad
    <3> QED
      BY <2>1, <3>1 DEF Single
  <2>4. ASSUME NEW f \in Forwards PROVE Paid(f)' /\ Sampled(f)' /\ Charged(f)'
    <3>1. Paid(f)
      BY <2>2 DEF IInv, ChargeInv
    <3>2. Counted(table, f) \in Nat /\ Beyond(Counted(table, f), Counted(table, f)) = 0
      BY Numbers DEF IInv, TypeOK, Beyond
    <3>3. billed[f] \in Nat /\ carried[f] \in Nat /\ Unpaid(base[f], Counted(table, f)) \in Nat
      BY <3>2, Numbers DEF IInv
    <3>4. Paid(f)' /\ Charged(f)'
      BY <2>1, <3>1 DEF Paid, Charged, bills
    <3>5. Sampled(f)'
      <4>1. billed[f] + Unpaid(base[f], Counted(table, f)) + 0 <= carried[f]
        BY <3>1, <3>3 DEF Paid
      <4> QED
        BY <2>1, <3>2, <4>1 DEF Sampled, bills
    <3> QED
      BY <3>4, <3>5
  <2> QED
    BY <2>3, <2>4 DEF ChargeInv
<1>3. CASE ReadStates
  <2>1. /\ UNCHANGED <<base, table, bills, doubled>> /\ job.pc = "states"
        /\ job'.pc = "bindings" /\ job'.samples = job.samples /\ job'.states = base
    BY <1>3 DEF ReadStates, node, IInv, TypeOK, Jobs
  <2>2. SUFFICES ASSUME ~doubled PROVE ChargeInv'
    BY <2>1 DEF IInv, ChargeInv
  <2>3. Single /\ \A f \in Forwards : Paid(f) /\ Sampled(f) /\ Charged(f)
    BY <2>2 DEF IInv, ChargeInv
  <2>4. Single'
    BY <2>1, <2>3 DEF Single
  <2>5. \A f \in Forwards : Paid(f)' /\ Sampled(f)' /\ Charged(f)'
    BY <2>1, <2>3 DEF Paid, Sampled, Charged, bills
  <2> QED
    BY <2>4, <2>5 DEF ChargeInv
<1>4. CASE ReadBindings
  <2>1. UNCHANGED <<base, table, bills, doubled>> /\ job.pc = "bindings"
    BY <1>4 DEF ReadBindings, node
  <2>2. CASE job' = Resting
    <3>1. job'.pc = "idle"
      BY <2>2 DEF Resting
    <3> QED
      BY <2>1, <3>1, CalmStep
  <2>3. CASE job' # Resting
    <3>1. /\ job'.pc \in {"account", "metas"}
          /\ job'.due = [f \in Forwards |-> IF f \in Known THEN Cardinality(Growth(f)) ELSE 0]
          /\ job'.new = [f \in Forwards |-> IF f \in Known THEN Latest(f) ELSE None]
      BY <1>4, <2>3 DEF ReadBindings, IInv, TypeOK, Jobs
    <3>2. SUFFICES ASSUME ~doubled PROVE ChargeInv'
      BY <2>1 DEF IInv, ChargeInv
    <3>3. Single /\ \A f \in Forwards : Paid(f) /\ Sampled(f)
      BY <3>2 DEF IInv, ChargeInv
    <3>4. Single'
      BY <2>1, <3>1, <3>3 DEF Single
    <3>5. ASSUME NEW f \in Forwards PROVE Paid(f)' /\ Sampled(f)' /\ Charged(f)'
      <4>1. Paid(f)' /\ Sampled(f)'
        BY <2>1, <3>1, <3>3 DEF Paid, Sampled, bills
      <4>2. CASE f \notin Known
        <5>1. job'.new[f] = None /\ job'.due[f] = 0
          BY <3>1, <4>2
        <5> QED
          BY <4>1, <5>1 DEF Charged
      <4>3. CASE f \in Known
        <5> DEFINE s == Counted(job.samples, f)
                   c == Counted(table, f)
                   g == Cardinality(Growth(f))
                   u == Unpaid(job.states[f], s)
        <5>1. g <= u /\ Latest(f) # None /\ Latest(f).bytes = s
          BY <2>1, <3>3, <4>3, GrowthBound DEF IInv, Single
        <5>2. /\ billed[f] \in Nat /\ carried[f] \in Nat /\ s \in Nat /\ c \in Nat
              /\ job.states[f] \in Counts
          BY Numbers DEF IInv, TypeOK, Jobs
        <5>3. u \in Nat /\ g \in Nat /\ Beyond(c, s) \in Nat
          BY <5>2, Numbers, SampleTypes DEF IInv
        <5>4. billed[f] + u + Beyond(c, s) <= carried[f]
          BY <2>1, <3>3 DEF Sampled
        <5> HIDE DEF s, c, g, u
        <5>5. billed[f] + g + Beyond(c, s) <= carried[f]
          BY <5>1, <5>2, <5>3, <5>4
        <5>6. job'.due[f] = g /\ job'.new[f] = Latest(f)
          BY <3>1, <4>3 DEF g
        <5>7. billed'[f] = billed[f] /\ carried'[f] = carried[f] /\ Counted(table', f) = c
          BY <2>1 DEF bills, c
        <5>8. /\ job'.new[f] # None
              /\ billed'[f] + job'.due[f] + Beyond(Counted(table', f), job'.new[f].bytes)
                   <= carried'[f]
          BY <5>1, <5>5, <5>6, <5>7
        <5>9. Charged(f)'
          BY <5>8 DEF Charged
        <5> QED
          BY <4>1, <5>9
      <4> QED
        BY <4>1, <4>2, <4>3
    <3> QED
      BY <3>4, <3>5 DEF ChargeInv
  <2> QED
    BY <2>2, <2>3
<1>5. CASE LoadMetas
  <2>1. UNCHANGED <<base, table, bills, doubled>> /\ job.pc = "metas"
    BY <1>5 DEF LoadMetas, node
  <2>2. CASE job' = Resting
    <3>1. job'.pc = "idle"
      BY <2>2 DEF Resting
    <3> QED
      BY <2>1, <3>1, CalmStep
  <2>3. CASE job' = [job EXCEPT !.pc = "account"]
    <3>1. job'.pc = "account" /\ job'.due = job.due /\ job'.new = job.new
      BY <2>3 DEF IInv, TypeOK, Jobs
    <3>2. SUFFICES ASSUME ~doubled PROVE ChargeInv'
      BY <2>1 DEF IInv, ChargeInv
    <3>3. Single /\ \A f \in Forwards : Paid(f) /\ Charged(f)
      BY <3>2 DEF IInv, ChargeInv
    <3>4. Single'
      BY <2>1, <3>1, <3>3 DEF Single
    <3>5. \A f \in Forwards : Paid(f)' /\ Sampled(f)' /\ Charged(f)'
      BY <2>1, <3>1, <3>3 DEF Paid, Sampled, Charged, bills
    <3> QED
      BY <3>4, <3>5 DEF ChargeInv
  <2> QED
    BY <1>5, <2>2, <2>3 DEF LoadMetas
<1>6. CASE Account
  <2>1. /\ UNCHANGED <<table, carried, doubled>> /\ job.pc = "account" /\ job' = Resting
        /\ job'.pc = "idle"
    BY <1>6 DEF Account, node, Resting
  <2>2. CASE UNCHANGED <<billed, base>>
    BY <2>1, <2>2, CalmStep DEF bills
  <2>3. CASE /\ billed' = [f \in Forwards |-> Capped(billed[f] + job.due[f])]
             /\ base' = [f \in Forwards |-> IF job.new[f] = None THEN base[f] ELSE job.new[f]]
    <3>1. SUFFICES ASSUME ~doubled PROVE ChargeInv'
      BY <2>1 DEF IInv, ChargeInv
    <3>2. Single /\ \A f \in Forwards : Paid(f) /\ Charged(f)
      BY <3>1 DEF IInv, ChargeInv
    <3>3. Single'
      BY <2>1, <3>2 DEF Single
    <3>4. ASSUME NEW f \in Forwards PROVE Paid(f)'
      <4> DEFINE c == Counted(table, f)
      <4>1. /\ billed[f] \in Nat /\ carried[f] \in Nat /\ job.due[f] \in Nat /\ c \in Nat
            /\ base[f] \in Counts /\ job.new[f] \in Counts
        BY Numbers DEF IInv, TypeOK
      <4>2. Unpaid(base[f], c) \in Nat
        BY <4>1, Numbers DEF IInv
      <4> HIDE DEF c
      <4>3. \A n \in Nat : Capped(n) \in Nat /\ Capped(n) <= n
        BY BoundAssumption DEF Capped
      <4>4. billed'[f] \in Nat /\ billed'[f] <= billed[f] + job.due[f]
        BY <2>3, <4>1, <4>3
      <4>5. CASE job.new[f] = None
        <5>1. job.due[f] = 0 /\ base'[f] = base[f]
          BY <2>1, <2>3, <3>2, <4>5 DEF Charged
        <5>2. billed[f] + Unpaid(base[f], c) <= carried[f]
          BY <3>2 DEF Paid, c
        <5>3. billed'[f] + Unpaid(base'[f], c) <= carried[f]
          BY <4>1, <4>2, <4>4, <5>1, <5>2
        <5> QED
          BY <2>1, <5>3 DEF Paid, c
      <4>6. CASE job.new[f] # None
        <5>1. billed[f] + job.due[f] + Beyond(c, job.new[f].bytes) <= carried[f]
          BY <2>1, <3>2, <4>6 DEF Charged, c
        <5>2. base'[f] = job.new[f] /\ Unpaid(base'[f], c) = Beyond(c, job.new[f].bytes)
          BY <2>3, <4>6 DEF Unpaid
        <5>3. Beyond(c, job.new[f].bytes) \in Nat
          BY <4>1, <4>6, Numbers DEF IInv
        <5>4. billed'[f] + Unpaid(base'[f], c) <= carried[f]
          BY <4>1, <4>4, <5>1, <5>2, <5>3
        <5> QED
          BY <2>1, <5>4 DEF Paid, c
      <4> QED
        BY <4>5, <4>6
    <3>5. \A f \in Forwards : Sampled(f)' /\ Charged(f)'
      BY <2>1 DEF Sampled, Charged
    <3> QED
      BY <3>3, <3>4, <3>5 DEF ChargeInv
  <2> QED
    BY <1>6, <2>2, <2>3 DEF Account
<1> QED
  BY <1>1, <1>2, <1>3, <1>4, <1>5, <1>6 DEF JobStep

\* Every step keeps the invariant.
LEMMA InvStep == IInv /\ [Next]_vars => IInv'
<1> SUFFICES ASSUME IInv, [Next]_vars PROVE IInv'
  OBVIOUS
<1>1. TypeOK' /\ CountInv'
  BY TypeStep, CountStep DEF IInv
<1>2. ASSUME NEW p \in Procs,
             \/ Request(p) \/ ProcStep(p) \/ GiveUp(p) \/ LoadFails(p) \/ Abandon(p)
             \/ \E f \in Forwards, on \in BOOLEAN : SetStatus(f, on)
             \/ UNCHANGED vars
      PROVE  IInv'
  <2>1. /\ UNCHANGED <<table, job, bills, doubled>>
        /\ \A f \in Forwards : base'[f] \in {base[f], None}
    BY <1>2, QuietSteps DEF IInv
  <2> QED
    BY <1>1, <2>1, CalmStep
<1>3. ASSUME NEW p \in Procs, ScriptStep(p) PROVE IInv'
  BY <1>1, <1>3, ScriptKeeps
<1>4. ASSUME NEW f \in Forwards, NEW v \in Versions, Carry(f, v) PROVE IInv'
  BY <1>1, <1>4, CarryKeeps
<1>5. CASE JobStep
  BY <1>1, <1>5, JobKeeps
<1>6. CASE NodeRestarts
  <2>1. table' = <<>> /\ UNCHANGED <<base, job, bills, doubled>>
    BY <1>6 DEF NodeRestarts
  <2>2. Len(table') = 0 /\ \A f \in Forwards : Counted(table', f) = 0
    BY <2>1, EmptySeq DEF Counted
  <2> QED
    BY <1>1, <2>1, <2>2, CalmStep
<1>7. CASE PanelRestarts
  <2>1. UNCHANGED <<base, table, bills, doubled>> /\ job'.pc = "starting"
    BY <1>7 DEF PanelRestarts, node, Resting
  <2> QED
    BY <1>1, <2>1, CalmStep
<1> QED
  BY <1>2, <1>3, <1>4, <1>5, <1>6, <1>7 DEF Next, Procs

-----------------------------------------------------------------------------

\* The invariant holds of every behaviour.
THEOREM Invariant == Spec => []IInv
BY InitInv, InvStep, PTL DEF Spec

\* Every variable stays of its type (TypeOK).
THEOREM TypeCorrect == Spec => []TypeOK
<1>1. IInv => TypeOK
  BY DEF IInv
<1> QED
  BY <1>1, Invariant, PTL

\* As long as no two scripts load one table, no byte is charged twice, whatever
\* is rendered, deleted, restarted or fails between a sample and its charge
\* (BilledOnce).
THEOREM NothingBilledTwice == Spec => []BilledOnce
<1>1. IInv => BilledOnce
  <2> SUFFICES ASSUME IInv, ~doubled, NEW f \in Forwards PROVE billed[f] <= carried[f]
    BY DEF BilledOnce
  <2>1. Paid(f)
    BY DEF IInv, ChargeInv
  <2>2. /\ billed[f] \in Nat /\ carried[f] \in Nat
        /\ base[f] \in Counts /\ Counted(table, f) \in Nat
    BY Numbers DEF IInv, TypeOK
  <2>3. Unpaid(base[f], Counted(table, f)) \in Nat
    BY <2>2, Numbers DEF IInv
  <2> QED
    BY <2>1, <2>2, <2>3 DEF Paid
<1> QED
  BY <1>1, Invariant, PTL

-----------------------------------------------------------------------------
(* Alone on the node: what the place of a request that nothing disturbs says *)
(* of its script, the table, the bindings and its forward's row.             *)

Rules     == [g \in Forwards |-> IF Active(g) THEN row[g].ver ELSE None]
Target(f) == IF f.op = "clear" THEN Nothing ELSE Rules

\* The node runs a plan, once.
Runs(plan) ==
    /\ Len(table) = 1
    /\ \A g \in Forwards : IF plan[g] = None THEN table[1][g] = None
                           ELSE table[1][g] # None /\ table[1][g].ver = plan[g]

Absent(g) == \A i \in DOMAIN table : table[i][g] = None

\* Nothing knows of a forward before it is created.
Fresh(g) == life[g] = "new" =>
    Absent(g) /\ \A p \in Procs : proc[p].plan[g] = None /\ script[p].plan[g] = None

Holds(f, g) == binding[g] = [ver |-> f.plan[g], ok |-> TRUE]

ScriptOf(p, f) ==
    IF f.pc = "wait"
    THEN /\ script[p].pc # "none" /\ script[p].plan = f.plan
         /\ script[p].pc = "load" => table = <<>>
    ELSE script[p] = NoScript

Place(f) ==
    /\ f.pc # "idle"
    /\ f.op \in {"create", "update"} => f.fwd \in Forwards
    /\ f.op = "update" /\ f.pc # "done" => life[f.fwd] = "there"
    /\ f.pc \in {"store", "undo"} => f.op = "update"
    /\ f.pc = "unlist" => f.op = "delete"
    /\ f.pc = "drop" => f.op = "create"
    /\ f.pc \in {"plan", "mark"} => f.op # "clear"
    /\ f.phase = "undo" => /\ f.op = "update" /\ row[f.fwd] = f.was
                           /\ f.pc \in {"plan", "apply", "wait", "bind", "list", "unbind"}

Rendering(f) ==
    /\ f.pc \in {"apply", "wait", "bind", "list", "unbind"} => f.plan = Target(f)
    /\ f.op = "create" /\ f.pc \in {"plan", "apply", "wait", "mark", "drop"} => Absent(f.fwd)
    /\ f.pc \in {"bind", "list", "unbind"} =>
          /\ Runs(f.plan)
          /\ \A g \in Forwards :
                f.plan[g] # None => Holds(f, g) \/ (f.pc = "bind" /\ g \in f.todo)
    /\ f.pc = "unbind" =>
          \A g \in Forwards : IF f.plan[g] = None THEN binding[g] = None \/ g \in f.todo
                              ELSE g \notin f.todo
    /\ f.pc = "done" => Achieved(f)

Alone(p) == proc[p].alone =>
    /\ \A q \in Procs \ {p} : proc[q].pc = "idle" /\ ~proc[q].alone /\ script[q] = NoScript
    /\ ScriptOf(p, proc[p]) /\ Place(proc[p]) /\ Rendering(proc[p])

LoneInv == (\A g \in Forwards : Fresh(g)) /\ \A p \in Procs : Alone(p)

\* Where a handler goes on is alone only if it was, and renders the same plan or none.
LEMMA Onwards ==
    ASSUME NEW f \in Frames, NEW todo \in SUBSET Forwards
    PROVE  /\ \A r \in {"none", "ok", "error"} :
                 (Ended(f, r).alone => f.alone) /\ Ended(f, r).plan \in {f.plan, Nothing}
           /\ (Synced(f).alone => f.alone) /\ Synced(f).plan \in {f.plan, Nothing}
           /\ (Unsynced(f).alone => f.alone) /\ Unsynced(f).plan \in {f.plan, Nothing}
           /\ LET u == Unsynced([f EXCEPT !.todo = todo])
              IN  (u.alone => f.alone) /\ u.plan \in {f.plan, Nothing}
           /\ (Marking(f).alone => f.alone) /\ Marking(f).plan \in {f.plan, Nothing}
<1>1. Idle.alone = FALSE /\ Idle.plan = Nothing
  BY DEF Idle
<1>2. ASSUME NEW e \in Frames
      PROVE  /\ \A r \in {"none", "ok", "error"} :
                   (Ended(e, r).alone => e.alone) /\ Ended(e, r).plan \in {e.plan, Nothing}
             /\ (Unsynced(e).alone => e.alone) /\ Unsynced(e).plan \in {e.plan, Nothing}
  <2>1. \A r \in {"none", "ok", "error"} :
           (Ended(e, r).alone => e.alone) /\ Ended(e, r).plan \in {e.plan, Nothing}
    BY DEF Ended, Idle, Frames
  <2>2. (Unsynced(e).alone => e.alone) /\ Unsynced(e).plan \in {e.plan, Nothing}
    BY <2>1 DEF Unsynced, Frames
  <2> QED
    BY <2>1, <2>2
<1>3. (Synced(f).alone => f.alone) /\ Synced(f).plan \in {f.plan, Nothing}
  BY <1>2 DEF Synced
<1>5. LET u == Unsynced([f EXCEPT !.todo = todo])
      IN  (u.alone => f.alone) /\ u.plan \in {f.plan, Nothing}
  BY DEF Unsynced, Ended, Idle, Frames
<1>6. (Marking(f).alone => f.alone) /\ Marking(f).plan \in {f.plan, Nothing}
  BY <1>2 DEF Marking, Frames
<1> QED
  BY <1>2, <1>3, <1>5, <1>6

\* Of two goroutines, one that does anything and one that is alone, there are none.
LEMMA Sole ==
    ASSUME LoneInv, NEW p \in Procs, proc[p].pc # "idle" \/ script[p] # NoScript
    PROVE  \A q \in Procs \ {p} : ~proc[q].alone
BY DEF LoneInv, Alone

\* A step of one goroutine concerns its own place only.
LEMMA OwnStep ==
    ASSUME LoneInv, NEW p \in Procs, proc[p].pc # "idle" \/ script[p] # NoScript,
           \A q \in Procs \ {p} : proc'[q] = proc[q] /\ script'[q] = script[q],
           proc'[p].alone => /\ proc[p].alone
                             /\ (ScriptOf(p, proc[p]) /\ Place(proc[p]) /\ Rendering(proc[p]))'
    PROVE  \A q \in Procs : Alone(q)'
<1>1. \A q \in Procs \ {p} : ~proc'[q].alone
  BY Sole
<1>2. Alone(p)'
  <2>1. SUFFICES ASSUME proc'[p].alone
                 PROVE  \A q \in Procs \ {p} : proc'[q].pc = "idle" /\ ~proc'[q].alone
                                                /\ script'[q] = NoScript'
    BY DEF Alone
  <2>2. Alone(p) /\ NoScript' = NoScript
    BY DEF LoneInv, NoScript, Nothing
  <2> QED
    BY <2>1, <2>2 DEF Alone
<1> QED
  BY <1>1, <1>2 DEF Alone

\* Disturbed, nobody is alone.
LEMMA NobodyAlone ==
    ASSUME \A q \in Procs : ~proc'[q].alone
    PROVE  \A q \in Procs : Alone(q)'
BY DEF Alone

\* Who is disturbed renders the same plan or none, and is idle if it was done.
LEMMA DisturbedFrames ==
    ASSUME proc \in [Procs -> Frames], NEW q \in Procs
    PROVE  /\ ~Disturbed[q].alone /\ Disturbed[q].plan \in {proc[q].plan, Nothing}
           /\ proc[q].pc \in {"idle", "done"} => Disturbed[q].pc = "idle"
<1>1. proc[q] \in Frames /\ Idle.alone = FALSE /\ Idle.plan = Nothing /\ Idle.pc = "idle"
  BY DEF Idle
<1> QED
  BY <1>1 DEF Disturbed, Frames

\* Who goes on disturbed leaves nobody alone.
LEMMA Disturbs ==
    ASSUME proc \in [Procs -> Frames], NEW p \in Procs, NEW frame \in Frames,
           GoDisturbed(p, frame)
    PROVE  /\ \A q \in Procs : ~proc'[q].alone
           /\ proc'[p].plan = frame.plan
           /\ \A q \in Procs \ {p} : proc'[q].plan \in {proc[q].plan, Nothing}
<1>1. Disturbed \in [Procs -> Frames]
  BY GoTypes
<1>2. proc' = [Disturbed EXCEPT ![p] = [frame EXCEPT !.alone = FALSE]]
  BY DEF GoDisturbed
<1>3. [frame EXCEPT !.alone = FALSE].alone = FALSE
      /\ [frame EXCEPT !.alone = FALSE].plan = frame.plan
  BY DEF Frames
<1> QED
  BY <1>1, <1>2, <1>3, DisturbedFrames

\* A forward that is new stays unknown to a step that loads, plans and runs
\* nothing but what was there, or the rules of the rows.
LEMMA FreshStep ==
    ASSUME LoneInv, \A g \in Forwards : life'[g] = "new" => life[g] = "new",
           \A q \in Procs : \/ proc'[q].plan \in {proc[q].plan, Nothing}
                            \/ proc'[q].plan = Rules,
           \A q \in Procs : script'[q].plan \in {script[q].plan, proc[q].plan, Nothing},
           \A g \in Forwards : Fresh(g) /\ life[g] = "new" => Absent(g)'
    PROVE  \A g \in Forwards : Fresh(g)'
<1> SUFFICES ASSUME NEW g \in Forwards, life'[g] = "new" PROVE Fresh(g)'
  BY DEF Fresh
<1>1. Fresh(g) /\ life[g] = "new" /\ Absent(g)'
  BY DEF LoneInv
<1>2. Nothing[g] = None /\ Rules[g] = None
  BY <1>1 DEF Nothing, Rules, Active
<1>3. ASSUME NEW q \in Procs PROVE proc'[q].plan[g] = None /\ script'[q].plan[g] = None
  BY <1>1, <1>2 DEF Fresh
<1> QED
  BY <1>1, <1>3 DEF Fresh


\* A main part that failed goes on to undo what it did, or is done.
LEMMA Compensates ==
    ASSUME TypeOK, NEW p \in Procs, NEW todo \in SUBSET Forwards,
           Place(proc[p]), proc[p].alone, proc[p].phase = "main", proc[p].pc # "done",
           UNCHANGED rows,
           proc'[p] = Unsynced([proc[p] EXCEPT !.todo = todo]), script'[p] = NoScript,
           proc[p].op = "create" => \A i \in DOMAIN table' : table'[i][proc[p].fwd] = None
    PROVE  (ScriptOf(p, proc[p]) /\ Place(proc[p]) /\ Rendering(proc[p]))'
<1> DEFINE f == proc[p]
<1>1. f \in Frames /\ NoScript' = NoScript
  BY DEF TypeOK, NoScript, Nothing
<1>2. CASE f.op = "create"
  <2>1. proc'[p] = [f EXCEPT !.todo = todo, !.pc = "drop", !.plan = Nothing]
    BY <1>1, <1>2 DEF Unsynced, Frames
  <2>2. /\ proc'[p].pc = "drop" /\ proc'[p].op = "create" /\ proc'[p].fwd = f.fwd
        /\ proc'[p].phase = "main"
    BY <1>1, <1>2, <2>1 DEF Frames
  <2>3. ScriptOf(p, proc[p])' /\ Place(proc[p])'
    BY <1>1, <1>2, <2>2 DEF ScriptOf, Place
  <2>4. Rendering(proc[p])'
    BY <1>2, <2>2 DEF Rendering, Absent
  <2> QED
    BY <2>3, <2>4
<1>3. CASE f.op = "update"
  <2>1. proc'[p] = [f EXCEPT !.todo = todo, !.pc = "undo", !.plan = Nothing]
    BY <1>1, <1>3 DEF Unsynced, Frames
  <2>2. /\ proc'[p].pc = "undo" /\ proc'[p].op = "update" /\ proc'[p].fwd = f.fwd
        /\ proc'[p].phase = "main"
    BY <1>1, <1>3, <2>1 DEF Frames
  <2>3. ScriptOf(p, proc[p])' /\ Rendering(proc[p])'
    BY <1>1, <2>2 DEF ScriptOf, Rendering
  <2>4. Place(proc[p])'
    BY <1>3, <2>2 DEF Place, rows
  <2> QED
    BY <2>3, <2>4
<1>4. CASE f.op \notin {"create", "update"}
  <2>1. /\ proc'[p].pc = "done" /\ proc'[p].op = f.op /\ proc'[p].result = "error"
        /\ proc'[p].phase = "main"
    BY <1>1, <1>4 DEF Unsynced, Ended, Idle, Frames
  <2>2. ScriptOf(p, proc[p])' /\ Place(proc[p])'
    BY <1>1, <1>4, <2>1 DEF ScriptOf, Place
  <2>3. Achieved(proc[p])'
    BY <1>4, <2>1 DEF Achieved
  <2>4. Rendering(proc[p])'
    BY <1>4, <2>1, <2>3 DEF Rendering
  <2> QED
    BY <2>2, <2>4
<1> QED
  BY <1>2, <1>3, <1>4

\* And so does one that marks the bindings first.
LEMMA Marks ==
    ASSUME TypeOK, NEW p \in Procs,
           Place(proc[p]), proc[p].alone, proc[p].phase = "main", proc[p].pc # "done",
           UNCHANGED rows, proc'[p] = Marking(proc[p]), script'[p] = NoScript,
           proc[p].op = "create" => \A i \in DOMAIN table' : table'[i][proc[p].fwd] = None
    PROVE  (ScriptOf(p, proc[p]) /\ Place(proc[p]) /\ Rendering(proc[p]))'
<1> DEFINE f == proc[p]
<1>1. f \in Frames /\ NoScript' = NoScript
  BY DEF TypeOK, NoScript, Nothing
<1>2. CASE proc'[p] = Unsynced(f)
  <2>1. f.todo \in SUBSET Forwards /\ [f EXCEPT !.todo = f.todo] = f
    BY <1>1 DEF Frames
  <2> QED
    BY <1>2, <2>1, Compensates
<1>3. CASE f.op # "clear" /\ proc'[p] = [f EXCEPT !.pc = "mark", !.todo = Bound]
  <2>1. /\ proc'[p].pc = "mark" /\ proc'[p].op = f.op /\ proc'[p].fwd = f.fwd
        /\ proc'[p].phase = "main"
    BY <1>1, <1>3 DEF Frames
  <2>2. ScriptOf(p, proc[p])' /\ Place(proc[p])'
    BY <1>1, <1>3, <2>1 DEF ScriptOf, Place, rows
  <2>3. Rendering(proc[p])'
    BY <2>1 DEF Rendering, Absent
  <2> QED
    BY <2>2, <2>3
<1> QED
  BY <1>2, <1>3 DEF Marking

\* A plan that holds the rules of the rows, runs, and is what the bindings know,
\* is what was to be achieved.
LEMMA Achieves ==
    ASSUME TypeOK, NEW p \in Procs, Place(proc[p]), proc[p].alone,
           proc[p].pc \in {"list", "unbind"}, proc[p].plan = Target(proc[p]), Runs(proc[p].plan),
           \A g \in Forwards : proc[p].plan[g] # None =>
               binding'[g] = [ver |-> proc[p].plan[g], ok |-> TRUE],
           \A g \in Forwards : proc[p].plan[g] = None => binding'[g] = None,
           UNCHANGED <<rows, table>>,
           proc'[p] = Synced(proc[p]), script'[p] = NoScript
    PROVE  (ScriptOf(p, proc[p]) /\ Place(proc[p]) /\ Rendering(proc[p]))'
<1> DEFINE f == proc[p]
<1>1. f \in Frames /\ NoScript' = NoScript /\ row \in [Forwards -> Configs]
  BY DEF TypeOK, NoScript, Nothing
<1>2. /\ proc'[p].pc = "done" /\ proc'[p].op = f.op /\ proc'[p].fwd = f.fwd
      /\ proc'[p].was = f.was /\ proc'[p].phase = "main"
      /\ proc'[p].result = IF f.phase = "undo" THEN "error" ELSE "ok"
  BY <1>1 DEF Synced, Ended, Idle, Frames
<1>3. CASE f.op = "clear"
  <2>1. proc'[p].result = "ok"
    BY <1>2, <1>3 DEF Place
  <2>2. Len(table') = 1 /\ \A g \in Forwards : table'[1][g] = None /\ binding'[g] = None
    BY <1>3 DEF Target, Nothing, Runs
  <2> QED
    BY <1>1, <1>2, <1>3, <2>1, <2>2 DEF ScriptOf, Place, Rendering, Achieved
<1>4. CASE f.op # "clear"
  <2>1. Agrees'
    <3>1. f.plan = Rules /\ Len(table) = 1
      BY <1>4 DEF Target, Runs
    <3>2. ASSUME NEW g \in Forwards
          PROVE  /\ Active(g)' = Active(g)
                 /\ IF Active(g) THEN f.plan[g] = row[g].ver /\ f.plan[g] # None
                                 ELSE f.plan[g] = None
      BY <1>1, <3>1, NoneAssumption DEF Rules, Active, Configs, rows
    <3> QED
      BY <3>1, <3>2 DEF Agrees, Runs, rows
  <2>2. f.phase = "undo" => f.op = "update" /\ row'[f.fwd] = f.was
    BY DEF Place, rows
  <2>3. Achieved(proc[p])'
    BY <1>2, <1>4, <2>1, <2>2 DEF Achieved
  <2> QED
    BY <1>1, <1>2, <2>3 DEF ScriptOf, Place, Rendering
<1> QED
  BY <1>3, <1>4


\* How a goroutine goes on: with the plan it had, none, or the rules of the rows,
\* and alone only if it was; the others as they were, or nobody alone.
Proceeds(p) ==
    /\ \A q \in Procs : proc'[q].plan \in {proc[q].plan, Nothing} \/ proc'[q].plan = Rules
    /\ \/ \A q \in Procs : ~proc'[q].alone
       \/ /\ \A q \in Procs \ {p} : proc'[q] = proc[q]
          /\ proc'[p].alone => proc[p].alone

\* Whichever way it goes on.
LEMMA GoesOn ==
    ASSUME proc \in [Procs -> Frames], NEW p \in Procs, NEW frame \in Frames,
           frame.plan \in {proc[p].plan, Nothing} \/ frame.plan = Rules,
           frame.alone => proc[p].alone,
           Go(p, frame) \/ GoDisturbed(p, frame) \/ Failing(p, frame)
    PROVE  Proceeds(p)
<1>1. CASE Go(p, frame)
  BY <1>1 DEF Go, Proceeds
<1>2. CASE GoDisturbed(p, frame)
  BY <1>2, Disturbs DEF Proceeds
<1> QED
  BY <1>1, <1>2 DEF Failing

\* The same of each step of a handler.
LEMMA ProcMoves ==
    ASSUME TypeOK, NEW p \in Procs, ProcStep(p) \/ GiveUp(p)
    PROVE  /\ proc[p].pc # "idle" /\ table' = table
           /\ \A g \in Forwards : life'[g] = "new" => life[g] = "new"
           /\ \A q \in Procs : script'[q].plan \in {script[q].plan, proc[q].plan}
           /\ \A q \in Procs \ {p} : script'[q] = script[q]
           /\ Proceeds(p)
<1> DEFINE f == proc[p]
           Still == /\ f.pc # "idle" /\ table' = table
                    /\ \A g \in Forwards : life'[g] = "new" => life[g] = "new"
                    /\ \A q \in Procs : script'[q].plan \in {script[q].plan, proc[q].plan}
                    /\ \A q \in Procs \ {p} : script'[q] = script[q]
<1>1. f \in Frames /\ proc \in [Procs -> Frames]
  BY DEF TypeOK
<1>2. /\ Unsynced(f) \in Frames /\ Marking(f) \in Frames /\ Synced(f) \in Frames
      /\ Ended(f, "error") \in Frames
      /\ \A e \in {Unsynced(f), Marking(f), Synced(f), Ended(f, "error")} :
            (e.alone => f.alone) /\ e.plan \in {f.plan, Nothing}
  <2>1. /\ Unsynced(f) \in Frames /\ Marking(f) \in Frames /\ Synced(f) \in Frames
        /\ Ended(f, "error") \in Frames
    BY <1>1, FrameTypes
  <2>2. {} \in SUBSET Forwards
    OBVIOUS
  <2>3. (Ended(f, "error").alone => f.alone) /\ Ended(f, "error").plan \in {f.plan, Nothing}
    BY <1>1, <2>2, Onwards
  <2>4. /\ (Synced(f).alone => f.alone) /\ Synced(f).plan \in {f.plan, Nothing}
        /\ (Unsynced(f).alone => f.alone) /\ Unsynced(f).plan \in {f.plan, Nothing}
        /\ (Marking(f).alone => f.alone) /\ Marking(f).plan \in {f.plan, Nothing}
    BY <1>1, <2>2, Onwards
  <2> QED
    BY <2>1, <2>3, <2>4
<1>3. ASSUME NEW g, NEW after \in Frames, after.alone => f.alone,
             after.plan \in {f.plan, Nothing}
      PROVE  LET r == Rest(f, g, after)
             IN  r \in Frames /\ (r.alone => f.alone) /\ r.plan \in {f.plan, Nothing}
  <2>1. Rest(f, g, after) \in Frames
    BY <1>1, <1>3, FrameTypes
  <2> QED
    BY <1>1, <1>3, <2>1 DEF Rest, Frames
<1>4. CASE Store(p)
  <2>1. LET e == [f EXCEPT !.pc = "plan"]
        IN  e \in Frames /\ e.alone = f.alone /\ e.plan = f.plan
    BY <1>1 DEF Frames
  <2>2. Still
    BY <1>4 DEF Store, node
  <2> QED
    BY <1>1, <1>4, <2>1, <2>2, GoesOn DEF Store
<1>5. CASE Unlist(p)
  <2>1. LET e == [f EXCEPT !.pc = "plan"]
        IN  e \in Frames /\ e.alone = f.alone /\ e.plan = f.plan
    BY <1>1 DEF Frames
  <2>2. Still
    BY <1>5 DEF Unlist, rows, node
  <2> QED
    BY <1>1, <1>5, <2>1, <2>2, GoesOn DEF Unlist
<1>6. CASE Plan(p)
  <2>1. Rules \in Plans
    BY DEF Rules, Plans, TypeOK, Configs
  <2>2. LET e == [f EXCEPT !.pc = "apply", !.plan = Rules]
        IN  e \in Frames /\ e.alone = f.alone /\ e.plan = Rules
    BY <1>1, <2>1 DEF Frames
  <2>3. Still
    BY <1>6 DEF Plan, rows, node
  <2> QED
    BY <1>1, <1>2, <1>6, <2>2, <2>3, GoesOn DEF Plan, Rules
<1>7. CASE Apply(p)
  <2>1. LET e == [f EXCEPT !.pc = "wait"]
        IN  e \in Frames /\ e.alone = f.alone /\ e.plan = f.plan
    BY <1>1 DEF Frames
  <2>2. script' = [script EXCEPT ![p] = [pc |-> "delete", plan |-> f.plan]] \/ script' = script
    BY <1>7 DEF Apply
  <2>3. script \in [Procs -> Scripts] /\ [pc |-> "delete", plan |-> f.plan].plan = f.plan
    BY DEF TypeOK
  <2>4. /\ \A q \in Procs : script'[q].plan \in {script[q].plan, proc[q].plan}
        /\ \A q \in Procs \ {p} : script'[q] = script[q]
    BY <2>2, <2>3
  <2>5. Still
    BY <1>7, <2>4 DEF Apply, rows
  <2> QED
    BY <1>1, <1>2, <1>7, <2>1, <2>5, GoesOn DEF Apply
<1>8. CASE ListStale(p)
  <2>1. Still
    BY <1>8 DEF ListStale, rows, node
  <2> DEFINE stale == {g \in Bound : f.plan[g] = None}
             e == [f EXCEPT !.pc = "unbind", !.todo = stale]
  <2>2. stale \in SUBSET Forwards
    BY DEF Bound
  <2>3. e \in Frames /\ e.alone = f.alone /\ e.plan = f.plan
    <3> HIDE DEF stale
    <3> QED
      BY <1>1, <2>2 DEF Frames
  <2>4. Go(p, e) \/ Go(p, Synced(f))
    BY <1>8 DEF ListStale
  <2> HIDE DEF e
  <2> QED
    BY <1>1, <1>2, <2>1, <2>3, <2>4, GoesOn
<1>9. CASE Drop(p)
  <2>1. Still
    BY <1>9 DEF Drop, node, TypeOK
  <2> QED
    BY <1>1, <1>2, <1>9, <2>1, GoesOn DEF Drop
<1>10. CASE Undo(p)
  <2>1. LET e == [f EXCEPT !.pc = "plan", !.phase = "undo"]
        IN  e \in Frames /\ e.alone = f.alone /\ e.plan = f.plan
    BY <1>1 DEF Frames
  <2>2. Still
    BY <1>10 DEF Undo, node
  <2> QED
    BY <1>1, <1>10, <2>1, <2>2, GoesOn DEF Undo
<1>11. CASE Finish(p)
  <2>1. Idle \in Frames /\ ~Idle.alone /\ Idle.plan = Nothing
    BY PartTypes DEF Idle
  <2>2. Still
    BY <1>11 DEF Finish, rows, node
  <2> QED
    BY <1>1, <1>11, <2>1, <2>2, GoesOn DEF Finish
<1>12. ASSUME NEW g \in Forwards, MarkError(p, g) PROVE Still /\ Proceeds(p)
  <2> DEFINE u == Unsynced([f EXCEPT !.todo = {}])
  <2>1. u \in Frames
    <3>1. {} \in SUBSET f.todo
      OBVIOUS
    <3>2. [f EXCEPT !.todo = {}] \in Frames
      BY <1>1, <3>1 DEF Frames
    <3> QED
      BY <3>2, FrameTypes
  <2>2. (u.alone => f.alone) /\ u.plan \in {f.plan, Nothing}
    BY <1>1, Onwards
  <2> HIDE DEF u
  <2>3. LET r == Rest(f, g, u)
        IN  r \in Frames /\ (r.alone => f.alone) /\ r.plan \in {f.plan, Nothing}
    BY <1>3, <2>1, <2>2
  <2>4. Still
    BY <1>12 DEF MarkError, rows, node
  <2> QED
    BY <1>1, <1>12, <2>3, <2>4, GoesOn DEF MarkError, u
<1>13. ASSUME NEW g \in Forwards, Bind(p, g) PROVE Still /\ Proceeds(p)
  <2> DEFINE u == [f EXCEPT !.pc = "list", !.todo = {}]
  <2>1. u \in Frames /\ (u.alone => f.alone) /\ u.plan \in {f.plan, Nothing}
    BY <1>1 DEF Frames
  <2> HIDE DEF u
  <2>2. LET r == Rest(f, g, u)
        IN  r \in Frames /\ (r.alone => f.alone) /\ r.plan \in {f.plan, Nothing}
    BY <1>3, <2>1
  <2>3. Still
    BY <1>13 DEF Bind, rows, node
  <2> QED
    BY <1>1, <1>13, <2>2, <2>3, GoesOn DEF Bind, u
<1>14. ASSUME NEW g \in Forwards, Unbind(p, g) PROVE Still /\ Proceeds(p)
  <2>1. LET r == Rest(f, g, Synced(f))
        IN  r \in Frames /\ (r.alone => f.alone) /\ r.plan \in {f.plan, Nothing}
    BY <1>2, <1>3
  <2>2. Still
    BY <1>14 DEF Unbind, rows, node
  <2> QED
    BY <1>1, <1>2, <1>14, <2>1, <2>2, GoesOn DEF Unbind
<1>15. CASE GiveUp(p)
  <2>1. Still
    BY <1>15 DEF GiveUp, rows, node
  <2> QED
    BY <1>1, <1>2, <1>15, <2>1, GoesOn DEF GiveUp
<1> QED
  BY <1>4, <1>5, <1>6, <1>7, <1>8, <1>9, <1>10, <1>11, <1>12, <1>13, <1>14, <1>15
     DEF ProcStep


\* A step of a handler that is alone, and stays so, leads to where it should be.
LEMMA OwnPlace ==
    ASSUME TypeOK, NEW p \in Procs, proc[p].alone, proc'[p].alone,
           ScriptOf(p, proc[p]), Place(proc[p]), Rendering(proc[p]),
           ProcStep(p) \/ GiveUp(p)
    PROVE  (ScriptOf(p, proc[p]) /\ Place(proc[p]) /\ Rendering(proc[p]))'
<1> DEFINE f == proc[p]
           There == (ScriptOf(p, proc[p]) /\ Place(proc[p]) /\ Rendering(proc[p]))'
<1>1. /\ f \in Frames /\ proc \in [Procs -> Frames] /\ script \in [Procs -> Scripts]
      /\ NoScript' = NoScript /\ Nothing' = Nothing
  BY DEF TypeOK, NoScript, Nothing
<1>2. /\ Unsynced(f) \in Frames /\ Marking(f) \in Frames /\ Ended(f, "error") \in Frames
  BY <1>1, FrameTypes
<1>3. ASSUME NEW frame \in Frames, Go(p, frame) \/ GoDisturbed(p, frame) \/ Failing(p, frame)
      PROVE  proc'[p] = frame /\ ~GoDisturbed(p, frame) /\ (Failing(p, frame) => f.phase = "main")
  <2>1. ~GoDisturbed(p, frame)
    BY <1>1, Disturbs
  <2> QED
    BY <1>1, <1>3, <2>1 DEF Go, Failing
<1>4. CASE Store(p)
  <2> DEFINE e == [f EXCEPT !.pc = "plan"]
  <2>1. e \in Frames /\ e.pc = "plan" /\ e.op = f.op /\ e.fwd = f.fwd /\ e.phase = f.phase
    BY <1>1 DEF Frames
  <2>2. proc'[p] = e /\ UNCHANGED <<life, script>> /\ f.pc = "store"
    BY <1>1, <1>4 DEF Store, Go, node
  <2> HIDE DEF e
  <2>3. ScriptOf(p, proc[p])' /\ Place(proc[p])'
    BY <1>1, <2>1, <2>2 DEF ScriptOf, Place
  <2>4. Rendering(proc[p])'
    BY <2>1, <2>2 DEF Rendering, Place
  <2> QED
    BY <2>3, <2>4
<1>5. CASE Unlist(p)
  <2> DEFINE e == [f EXCEPT !.pc = "plan"]
  <2>1. e \in Frames /\ e.pc = "plan" /\ e.op = f.op /\ e.fwd = f.fwd /\ e.phase = f.phase
    BY <1>1 DEF Frames
  <2>2. UNCHANGED <<rows, script>> /\ f.pc = "unlist" /\ (Go(p, e) \/ GoDisturbed(p, e))
    BY <1>1, <1>5 DEF Unlist, node
  <2> HIDE DEF e
  <2>3. proc'[p] = e
    BY <1>3, <2>1, <2>2
  <2>4. ScriptOf(p, proc[p])' /\ Place(proc[p])'
    BY <1>1, <2>1, <2>2, <2>3 DEF ScriptOf, Place
  <2>5. Rendering(proc[p])'
    BY <2>1, <2>2, <2>3 DEF Rendering, Place
  <2> QED
    BY <2>4, <2>5
<1>6. CASE Plan(p)
  <2>1. UNCHANGED <<rows, table, script>> /\ f.pc = "plan"
    BY <1>6 DEF Plan, node
  <2>2. ~(f.op = "update" /\ f.phase = "main" /\ life[f.fwd] = "gone")
    BY <2>1 DEF Place
  <2>3. CASE Failing(p, Unsynced(f))
    <3>1. proc'[p] = Unsynced(f) /\ f.phase = "main"
      BY <1>2, <1>3, <2>3
    <3>2. f.todo \in SUBSET Forwards /\ [f EXCEPT !.todo = f.todo] = f
      BY <1>1 DEF Frames
    <3>3. script'[p] = NoScript
      BY <2>1 DEF ScriptOf
    <3>4. f.op = "create" => \A i \in DOMAIN table' : table'[i][f.fwd] = None
      BY <2>1 DEF Rendering, Absent
    <3> QED
      BY <2>1, <3>1, <3>2, <3>3, <3>4, Compensates
  <2>4. CASE Go(p, [f EXCEPT !.pc = "apply", !.plan = Rules])
    <3> DEFINE e == [f EXCEPT !.pc = "apply", !.plan = Rules]
    <3>1. /\ e.pc = "apply" /\ e.op = f.op /\ e.fwd = f.fwd /\ e.phase = f.phase
          /\ e.was = f.was /\ e.plan = Rules
      BY <1>1 DEF Frames
    <3>2. proc'[p] = e
      BY <1>1, <2>4 DEF Go
    <3> HIDE DEF e
    <3>3. ScriptOf(p, proc[p])' /\ Place(proc[p])'
      BY <1>1, <2>1, <3>1, <3>2 DEF ScriptOf, Place, rows
    <3>4. Rules' = Rules
      BY <2>1 DEF Rules, Active, rows
    <3>5. Rendering(proc[p])'
      BY <2>1, <3>1, <3>2, <3>4 DEF Rendering, Place, Target, Absent
    <3> QED
      BY <3>3, <3>5
  <2> QED
    BY <1>6, <2>2, <2>3, <2>4 DEF Plan, Rules
<1>7. CASE Apply(p)
  <2>1. UNCHANGED <<rows, table>> /\ f.pc = "apply" /\ script[p] = NoScript
    BY <1>7 DEF Apply
  <2>2. f.op = "create" => \A i \in DOMAIN table' : table'[i][f.fwd] = None
    BY <2>1 DEF Rendering, Absent
  <2>3. CASE Failing(p, Marking(f)) /\ UNCHANGED script
    <3>1. proc'[p] = Marking(f) /\ f.phase = "main"
      BY <1>2, <1>3, <2>3
    <3> QED
      BY <2>1, <2>2, <2>3, <3>1, Marks
  <2>4. CASE /\ script' = [script EXCEPT ![p] = [pc |-> "delete", plan |-> f.plan]]
             /\ Go(p, [f EXCEPT !.pc = "wait"])
    <3> DEFINE e == [f EXCEPT !.pc = "wait"]
    <3>1. /\ e.pc = "wait" /\ e.op = f.op /\ e.fwd = f.fwd /\ e.phase = f.phase
          /\ e.was = f.was /\ e.plan = f.plan
      BY <1>1 DEF Frames
    <3>2. proc'[p] = e
      BY <1>1, <2>4 DEF Go
    <3>3. script'[p].pc = "delete" /\ script'[p].plan = f.plan
      BY <1>1, <2>4
    <3> HIDE DEF e
    <3>4. ScriptOf(p, proc[p])' /\ Place(proc[p])'
      BY <2>1, <3>1, <3>2, <3>3 DEF ScriptOf, Place, rows
    <3>5. f.plan = Target(f) /\ Rules' = Rules
      BY <2>1 DEF Rendering, Rules, Active, rows
    <3>6. Rendering(proc[p])'
      BY <1>1, <2>2, <3>1, <3>2, <3>5 DEF Rendering, Target, Absent
    <3> QED
      BY <3>4, <3>6
  <2> QED
    BY <1>7, <2>3, <2>4 DEF Apply
<1>8. CASE ListStale(p)
  <2> DEFINE stale == {g \in Bound : f.plan[g] = None}
             e == [f EXCEPT !.pc = "unbind", !.todo = stale]
  <2>1. UNCHANGED <<rows, binding, table, script>> /\ f.pc = "list"
    BY <1>8 DEF ListStale, node
  <2>2. /\ script'[p] = NoScript /\ f.plan = Target(f) /\ Runs(f.plan)
        /\ \A g \in Forwards : f.plan[g] # None => Holds(f, g)
    BY <2>1 DEF ScriptOf, Rendering
  <2>3. CASE stale = {} /\ proc'[p] = Synced(f)
    <3>1. \A g \in Forwards : f.plan[g] = None => binding'[g] = None
      BY <2>1, <2>3 DEF Bound
    <3> QED
      BY <2>1, <2>2, <2>3, <3>1, Achieves DEF Holds
  <2>4. CASE proc'[p] = e
    <3>1. /\ e.pc = "unbind" /\ e.op = f.op /\ e.fwd = f.fwd /\ e.phase = f.phase
          /\ e.was = f.was /\ e.plan = f.plan /\ e.todo = stale
      BY <1>1 DEF Frames
    <3>2. \A g \in Forwards : IF f.plan[g] = None THEN binding[g] = None \/ g \in stale
                              ELSE g \notin stale
      BY DEF Bound
    <3> HIDE DEF e, stale
    <3>3. ScriptOf(p, proc[p])' /\ Place(proc[p])'
      BY <1>1, <2>1, <2>2, <2>4, <3>1 DEF ScriptOf, Place, rows
    <3>4. Rules' = Rules /\ Runs(f.plan)' /\ \A g \in Forwards : Holds(f, g) => Holds(proc[p], g)'
      BY <2>1, <2>2, <2>4, <3>1 DEF Rules, Active, rows, Runs, Holds
    <3>5. Rendering(proc[p])'
      BY <1>1, <2>1, <2>2, <2>4, <3>1, <3>2, <3>4 DEF Rendering, Target, Runs
    <3> QED
      BY <3>3, <3>5
  <2> QED
    BY <1>1, <1>8, <2>3, <2>4 DEF ListStale, Go
<1>9. CASE Drop(p)
  <2>1. /\ UNCHANGED <<table, script>> /\ f.pc = "drop" /\ f.op = "create"
        /\ proc'[p] = Ended(f, "error")
    BY <1>1, <1>9 DEF Drop, node, Place, Go
  <2>2. /\ proc'[p].pc = "done" /\ proc'[p].op = "create" /\ proc'[p].fwd = f.fwd
        /\ proc'[p].result = "error" /\ proc'[p].phase = "main"
    BY <1>1, <2>1 DEF Ended, Idle, Frames
  <2>3. Achieved(proc[p])'
    BY <2>1, <2>2 DEF Achieved, Rendering, Absent
  <2>4. f.fwd \in Forwards /\ script'[p] = NoScript
    BY <2>1 DEF Place, ScriptOf
  <2> QED
    BY <1>1, <2>2, <2>3, <2>4 DEF ScriptOf, Place, Rendering
<1>10. CASE Undo(p)
  <2> DEFINE e == [f EXCEPT !.pc = "plan", !.phase = "undo"]
  <2>1. /\ e.pc = "plan" /\ e.op = f.op /\ e.fwd = f.fwd /\ e.phase = "undo" /\ e.was = f.was
    BY <1>1 DEF Frames
  <2>2. /\ UNCHANGED <<life, script>> /\ f.pc = "undo" /\ f.op = "update" /\ proc'[p] = e
        /\ f.fwd \in Forwards /\ life[f.fwd] = "there"
    BY <1>1, <1>10 DEF Undo, node, Place, Go
  <2>3. row'[f.fwd] = f.was
    BY <1>10, <2>2 DEF Undo, TypeOK
  <2> HIDE DEF e
  <2>4. ScriptOf(p, proc[p])' /\ Place(proc[p])'
    BY <1>1, <2>1, <2>2, <2>3 DEF ScriptOf, Place
  <2>5. Rendering(proc[p])'
    BY <2>1, <2>2 DEF Rendering
  <2> QED
    BY <2>4, <2>5
<1>11. CASE Finish(p)
  <2>1. proc'[p] = Idle
    BY <1>1, <1>11 DEF Finish, Go
  <2> QED
    BY <2>1 DEF Idle
<1>12. ASSUME NEW g \in Forwards, MarkError(p, g) PROVE There
  <2> DEFINE u == Unsynced([f EXCEPT !.todo = {}])
             e == [f EXCEPT !.todo = @ \ {g}]
  <2>1. UNCHANGED <<rows, table, script>> /\ f.pc = "mark"
    BY <1>12 DEF MarkError, node
  <2>2. /\ f.phase = "main" /\ script'[p] = NoScript
        /\ f.op = "create" => \A i \in DOMAIN table' : table'[i][f.fwd] = None
        /\ Rest(f, g, u) \in {u, e}
    BY <1>1, <2>1 DEF Place, ScriptOf, Rendering, Absent, Rest, Frames
  <2>3. proc'[p] = Rest(f, g, u)
    <3>1. [f EXCEPT !.todo = {}] \in Frames
      BY <1>1 DEF Frames
    <3>2. Rest(f, g, u) \in Frames
      BY <1>1, <3>1, FrameTypes
    <3> QED
      BY <1>3, <1>12, <3>2 DEF MarkError
  <2>4. CASE proc'[p] = u
    <3>1. {} \in SUBSET Forwards
      OBVIOUS
    <3> QED
      BY <2>1, <2>2, <2>4, <3>1, Compensates
  <2>5. CASE proc'[p] = e
    <3>1. /\ e.pc = "mark" /\ e.op = f.op /\ e.fwd = f.fwd /\ e.phase = f.phase
      BY <1>1, <2>1 DEF Frames
    <3> HIDE DEF e
    <3>2. ScriptOf(p, proc[p])' /\ Place(proc[p])'
      BY <1>1, <2>1, <2>2, <2>5, <3>1 DEF ScriptOf, Place, rows
    <3>3. Rendering(proc[p])'
      BY <2>1, <2>2, <2>5, <3>1 DEF Rendering, Absent
    <3> QED
      BY <3>2, <3>3
  <2> QED
    BY <2>2, <2>3, <2>4, <2>5
<1>13. ASSUME NEW g \in Forwards, Bind(p, g) PROVE There
  <2> DEFINE u == [f EXCEPT !.pc = "list", !.todo = {}]
             e == [f EXCEPT !.todo = @ \ {g}]
             n == Rest(f, g, u)
  <2>1. UNCHANGED <<rows, table, script>> /\ f.pc = "bind" /\ g \in f.todo
    BY <1>13 DEF Bind, node
  <2>2. /\ n \in Frames /\ n.op = f.op /\ n.fwd = f.fwd /\ n.phase = f.phase
        /\ n.was = f.was /\ n.plan = f.plan
        /\ \/ n.pc = "list" /\ f.todo = {g}
           \/ n.pc = "bind" /\ n.todo = f.todo \ {g}
    BY <1>1, <2>1 DEF Rest, Frames
  <2>3. Go(p, n) \/ GoDisturbed(p, n)
    BY <1>13 DEF Bind
  <2> HIDE DEF n
  <2>4. proc'[p] = n /\ ~GoDisturbed(p, n)
    BY <1>3, <2>2, <2>3
  <2>5. binding' = [binding EXCEPT ![g] = [ver |-> f.plan[g], ok |-> TRUE]]
    BY <1>13, <2>4 DEF Bind, n
  <2>6. /\ script'[p] = NoScript /\ f.plan = Target(f) /\ Runs(f.plan)
        /\ \A h \in Forwards : f.plan[h] # None => Holds(f, h) \/ h \in f.todo
    BY <2>1 DEF ScriptOf, Rendering
  <2>7. ScriptOf(p, proc[p])' /\ Place(proc[p])'
    BY <1>1, <2>1, <2>2, <2>4, <2>6 DEF ScriptOf, Place, rows
  <2>8. Rules' = Rules /\ Runs(proc[p].plan)'
    BY <2>1, <2>2, <2>4, <2>6 DEF Rules, Active, rows, Runs
  <2>9. ASSUME NEW h \in Forwards, f.plan[h] # None
        PROVE  Holds(proc[p], h)' \/ (proc'[p].pc = "bind" /\ h \in proc'[p].todo)
    <3>1. binding \in [Forwards -> Bindings]
      BY DEF TypeOK
    <3>2. CASE h = g
      BY <2>2, <2>4, <2>5, <3>1, <3>2 DEF Holds
    <3>3. CASE h # g
      BY <2>2, <2>4, <2>5, <2>6, <2>9, <3>1, <3>3 DEF Holds
    <3> QED
      BY <3>2, <3>3
  <2>10. Rendering(proc[p])'
    BY <1>1, <2>2, <2>4, <2>6, <2>8, <2>9 DEF Rendering, Target
  <2> QED
    BY <2>7, <2>10
<1>14. ASSUME NEW g \in Forwards, Unbind(p, g) PROVE There
  <2> DEFINE e == [f EXCEPT !.todo = @ \ {g}]
             n == Rest(f, g, Synced(f))
  <2>1. UNCHANGED <<rows, table, script>> /\ f.pc = "unbind" /\ g \in f.todo
    BY <1>14 DEF Unbind, node
  <2>2. n \in Frames
    BY <1>1, FrameTypes
  <2>3. proc'[p] = n /\ binding' = [binding EXCEPT ![g] = None]
    BY <1>2, <1>3, <1>14, <2>2 DEF Unbind
  <2>4. /\ script'[p] = NoScript /\ f.plan = Target(f) /\ Runs(f.plan)
        /\ \A h \in Forwards : f.plan[h] # None => Holds(f, h) /\ h \notin f.todo
        /\ \A h \in Forwards : f.plan[h] = None => binding[h] = None \/ h \in f.todo
    BY <2>1 DEF ScriptOf, Rendering
  <2>5. binding \in [Forwards -> Bindings] /\ (\A h \in Forwards : f.plan[h] # None => h # g)
    BY <2>1, <2>4 DEF TypeOK
  <2>6. \A h \in Forwards : f.plan[h] # None => binding'[h] = [ver |-> f.plan[h], ok |-> TRUE]
    BY <2>3, <2>4, <2>5 DEF Holds
  <2>7. CASE f.todo = {g}
    <3>1. n = Synced(f)
      BY <2>7 DEF Rest
    <3>2. \A h \in Forwards : f.plan[h] = None => binding'[h] = None
      BY <2>3, <2>4, <2>5, <2>7
    <3> HIDE DEF n
    <3> QED
      BY <2>1, <2>3, <2>4, <2>6, <3>1, <3>2, Achieves
  <2>8. CASE f.todo # {g}
    <3>1. /\ n.pc = "unbind" /\ n.op = f.op /\ n.fwd = f.fwd /\ n.phase = f.phase
          /\ n.was = f.was /\ n.plan = f.plan /\ n.todo = f.todo \ {g}
      BY <1>1, <2>1, <2>8 DEF Rest, Frames
    <3> HIDE DEF n
    <3>2. ScriptOf(p, proc[p])' /\ Place(proc[p])'
      BY <1>1, <2>1, <2>3, <2>4, <3>1 DEF ScriptOf, Place, rows
    <3>3. Rules' = Rules /\ Runs(proc[p].plan)'
      BY <2>1, <2>3, <2>4, <3>1 DEF Rules, Active, rows, Runs
    <3>4. \A h \in Forwards : f.plan[h] # None => Holds(proc[p], h)'
      BY <2>3, <2>6, <3>1 DEF Holds
    <3>5. \A h \in Forwards : IF f.plan[h] = None THEN binding'[h] = None \/ h \in n.todo
                              ELSE h \notin n.todo
      BY <2>3, <2>4, <2>5, <3>1
    <3>6. Rendering(proc[p])'
      BY <1>1, <2>3, <2>4, <3>1, <3>3, <3>4, <3>5 DEF Rendering, Target
    <3> QED
      BY <3>2, <3>6
  <2> QED
    BY <2>7, <2>8
<1>15. CASE GiveUp(p)
  BY <1>2, <1>3, <1>15 DEF GiveUp
<1> QED
  BY <1>4, <1>5, <1>6, <1>7, <1>8, <1>9, <1>10, <1>11, <1>12, <1>13, <1>14, <1>15
     DEF ProcStep


\* A step of a handler.
LEMMA ProcLone ==
    ASSUME TypeOK, LoneInv, NEW p \in Procs, ProcStep(p) \/ GiveUp(p)
    PROVE  LoneInv'
<1>1. /\ proc[p].pc # "idle" /\ table' = table
      /\ \A g \in Forwards : life'[g] = "new" => life[g] = "new"
      /\ \A q \in Procs : script'[q].plan \in {script[q].plan, proc[q].plan}
      /\ \A q \in Procs \ {p} : script'[q] = script[q]
      /\ Proceeds(p)
  BY ProcMoves
<1>2. \A g \in Forwards : Fresh(g)'
  <2>1. \A g \in Forwards : Fresh(g) /\ life[g] = "new" => Absent(g)'
    BY <1>1 DEF Fresh, Absent
  <2>2. /\ \A q \in Procs : proc'[q].plan \in {proc[q].plan, Nothing} \/ proc'[q].plan = Rules
        /\ \A q \in Procs : script'[q].plan \in {script[q].plan, proc[q].plan, Nothing}
    BY <1>1 DEF Proceeds
  <2> QED
    BY <1>1, <2>1, <2>2, FreshStep
<1>3. CASE \A q \in Procs : ~proc'[q].alone
  BY <1>2, <1>3, NobodyAlone DEF LoneInv
<1>4. CASE /\ \A q \in Procs \ {p} : proc'[q] = proc[q]
           /\ proc'[p].alone => proc[p].alone
  <2>1. ASSUME proc'[p].alone
        PROVE  (ScriptOf(p, proc[p]) /\ Place(proc[p]) /\ Rendering(proc[p]))'
    <3>1. ScriptOf(p, proc[p]) /\ Place(proc[p]) /\ Rendering(proc[p])
      BY <1>4, <2>1 DEF LoneInv, Alone
    <3> QED
      BY <1>4, <2>1, <3>1, OwnPlace
  <2>2. \A q \in Procs : Alone(q)'
    BY <1>1, <1>4, <2>1, OwnStep
  <2> QED
    BY <1>2, <2>2 DEF LoneInv
<1> QED
  BY <1>1, <1>3, <1>4 DEF Proceeds

\* A request begins, alone if all others are at rest.
LEMMA BeginLone ==
    ASSUME TypeOK, LoneInv, NEW p \in Procs, NEW frame \in Frames, Begin(p, frame),
           UNCHANGED script, frame.plan = Nothing, frame.phase = "main",
           frame.pc \notin {"idle", "wait", "done"}
    PROVE  /\ \A q \in Procs : proc'[q].plan \in {proc[q].plan, Nothing}
           /\ (Place(proc[p]) /\ Rendering(proc[p]))' => \A q \in Procs : Alone(q)'
           /\ \A x \in {"op", "pc", "phase", "fwd", "was", "plan"} : proc'[p][x] = frame[x]
<1> DEFINE rest == \A q \in Procs : script[q] = NoScript /\ proc[q].pc \in {"idle", "done"}
           e == [frame EXCEPT !.alone = rest]
<1>1. proc \in [Procs -> Frames] /\ NoScript' = NoScript
  BY DEF TypeOK, NoScript, Nothing
<1>2. Disturbed \in [Procs -> Frames]
  <2>1. Idle \in Frames
    BY PartTypes
  <2> QED
    BY <1>1, <2>1, GoTypes
<1>3. proc' = [Disturbed EXCEPT ![p] = e] /\ script[p] = NoScript
  BY DEF Begin
<1>4. /\ e.alone = rest
      /\ \A x \in {"op", "pc", "phase", "fwd", "was", "plan"} : e[x] = frame[x]
  BY DEF Frames
<1> HIDE DEF rest, e
<1>5. proc'[p] = e /\ \A q \in Procs \ {p} : proc'[q] = Disturbed[q]
  BY <1>2, <1>3
<1>6. \A q \in Procs \ {p} : /\ ~proc'[q].alone /\ proc'[q].plan \in {proc[q].plan, Nothing}
                             /\ rest => proc'[q].pc = "idle"
  BY <1>1, <1>5, DisturbedFrames DEF rest
<1>7. ASSUME (Place(proc[p]) /\ Rendering(proc[p]))' PROVE \A q \in Procs : Alone(q)'
  <2>1. proc'[p].pc # "wait"
    BY <1>4, <1>5
  <2>2. ScriptOf(p, proc[p])'
    BY <1>1, <1>3, <2>1 DEF ScriptOf
  <2>3. Alone(p)'
    BY <1>1, <1>4, <1>5, <1>6, <1>7, <2>2 DEF Alone, rest
  <2> QED
    BY <1>6, <2>3 DEF Alone
<1>8. \A q \in Procs : proc'[q].plan \in {proc[q].plan, Nothing}
  <2>1. proc'[p].plan = Nothing
    BY <1>4, <1>5
  <2> QED
    BY <1>6, <2>1
<1> QED
  BY <1>4, <1>5, <1>7, <1>8

\* And starts where it should.
LEMMA RequestLone ==
    ASSUME TypeOK, LoneInv, NEW p \in Procs, Request(p)
    PROVE  LoneInv'
<1>1. Idle \in Frames /\ Idle.plan = Nothing /\ Idle.phase = "main" /\ Nothing' = Nothing
  BY PartTypes DEF Idle, Nothing
<1>2. ASSUME NEW frame \in Frames, Begin(p, frame), UNCHANGED <<table, script>>,
             \A g \in Forwards : life'[g] = "new" => life[g] = "new",
             frame.plan = Nothing, frame.phase = "main", frame.pc \notin {"idle", "wait", "done"},
             (Place(proc[p]) /\ Rendering(proc[p]))'
      PROVE  LoneInv'
  <2>1. /\ \A q \in Procs : proc'[q].plan \in {proc[q].plan, Nothing}
        /\ \A q \in Procs : Alone(q)'
    BY <1>2, BeginLone
  <2>2. \A g \in Forwards : Fresh(g) /\ life[g] = "new" => Absent(g)'
    BY <1>2 DEF Fresh, Absent
  <2>3. \A q \in Procs : script'[q].plan \in {script[q].plan, proc[q].plan, Nothing}
    BY <1>2
  <2>4. \A g \in Forwards : Fresh(g)'
    BY <1>2, <2>1, <2>2, <2>3, FreshStep
  <2> QED
    BY <2>1, <2>4 DEF LoneInv
<1>3. ASSUME NEW frame \in Frames, Begin(p, frame), UNCHANGED script,
             frame.plan = Nothing, frame.phase = "main", frame.pc \notin {"idle", "wait", "done"}
      PROVE  /\ proc'[p].op = frame.op /\ proc'[p].pc = frame.pc /\ proc'[p].phase = "main"
             /\ proc'[p].fwd = frame.fwd /\ proc'[p].plan = Nothing
  BY <1>3, BeginLone
<1>4. ASSUME NEW f \in Forwards, Create(p, f) PROVE LoneInv'
  <2> DEFINE e == [Idle EXCEPT !.op = "create", !.pc = "plan", !.fwd = f]
  <2>1. /\ e \in Frames /\ e.plan = Nothing /\ e.phase = "main" /\ e.pc = "plan"
        /\ e.op = "create" /\ e.fwd = f
    BY <1>1 DEF Frames
  <2>2. /\ Begin(p, e) /\ UNCHANGED <<table, script>> /\ life[f] = "new"
        /\ \A g \in Forwards : life'[g] = "new" => life[g] = "new"
    BY <1>4 DEF Create, node, TypeOK
  <2> HIDE DEF e
  <2>3. Absent(f)
    BY <2>2 DEF LoneInv, Fresh
  <2>4. /\ proc'[p].op = "create" /\ proc'[p].pc = "plan" /\ proc'[p].phase = "main"
        /\ proc'[p].fwd = f
    BY <1>3, <2>1, <2>2
  <2>5. (Place(proc[p]) /\ Rendering(proc[p]))'
    BY <2>2, <2>3, <2>4 DEF Place, Rendering, Absent
  <2> QED
    BY <1>2, <2>1, <2>2, <2>5
<1>5. ASSUME NEW f \in Forwards, NEW v \in Versions, Update(p, f, v) PROVE LoneInv'
  <2> DEFINE e == [Idle EXCEPT !.op = "update", !.pc = "store", !.fwd = f, !.was = row[f],
                               !.want = v]
  <2>1. /\ e \in Frames /\ e.plan = Nothing /\ e.phase = "main" /\ e.pc = "store"
        /\ e.op = "update" /\ e.fwd = f
    BY <1>1 DEF Frames, TypeOK
  <2>2. /\ Begin(p, e) /\ UNCHANGED <<life, table, script>> /\ life[f] = "there"
    BY <1>5 DEF Update, rows, node
  <2> HIDE DEF e
  <2>3. /\ proc'[p].op = "update" /\ proc'[p].pc = "store" /\ proc'[p].phase = "main"
        /\ proc'[p].fwd = f
    BY <1>3, <2>1, <2>2
  <2>4. (Place(proc[p]) /\ Rendering(proc[p]))'
    BY <2>2, <2>3 DEF Place, Rendering
  <2> QED
    BY <1>2, <2>1, <2>2, <2>4
<1>6. ASSUME NEW f \in Forwards, NEW next \in {"plan", "unlist"}, Delete(p, f, next)
      PROVE  LoneInv'
  <2> DEFINE e == [Idle EXCEPT !.op = "delete", !.pc = next, !.fwd = f]
  <2>1. /\ e \in Frames /\ e.plan = Nothing /\ e.phase = "main" /\ e.pc \in {"plan", "unlist"}
        /\ e.op = "delete"
    BY <1>1 DEF Frames
  <2>2. /\ Begin(p, e) /\ UNCHANGED <<table, script>>
        /\ \A g \in Forwards : life'[g] = "new" => life[g] = "new"
    BY <1>6 DEF Delete, node, TypeOK
  <2> HIDE DEF e
  <2>3. proc'[p].op = "delete" /\ proc'[p].pc \in {"plan", "unlist"} /\ proc'[p].phase = "main"
    BY <1>3, <2>1, <2>2
  <2>4. (Place(proc[p]) /\ Rendering(proc[p]))'
    BY <2>3 DEF Place, Rendering
  <2> QED
    BY <1>2, <2>1, <2>2, <2>4
<1>7. CASE Reconcile(p)
  <2> DEFINE e == [Idle EXCEPT !.op = "reconcile", !.pc = "plan"]
  <2>1. /\ e \in Frames /\ e.plan = Nothing /\ e.phase = "main" /\ e.pc = "plan"
        /\ e.op = "reconcile"
    BY <1>1 DEF Frames
  <2>2. Begin(p, e) /\ UNCHANGED <<life, table, script>>
    BY <1>7 DEF Reconcile, rows, node
  <2> HIDE DEF e
  <2>3. proc'[p].op = "reconcile" /\ proc'[p].pc = "plan" /\ proc'[p].phase = "main"
    BY <1>3, <2>1, <2>2
  <2>4. (Place(proc[p]) /\ Rendering(proc[p]))'
    BY <2>3 DEF Place, Rendering
  <2> QED
    BY <1>2, <2>1, <2>2, <2>4
<1>8. CASE Clear(p)
  <2> DEFINE e == [Idle EXCEPT !.op = "clear", !.pc = "apply"]
  <2>1. /\ e \in Frames /\ e.plan = Nothing /\ e.phase = "main" /\ e.pc = "apply"
        /\ e.op = "clear"
    BY <1>1 DEF Frames
  <2>2. Begin(p, e) /\ UNCHANGED <<life, table, script>>
    BY <1>8 DEF Clear, rows, node
  <2> HIDE DEF e
  <2>3. /\ proc'[p].op = "clear" /\ proc'[p].pc = "apply" /\ proc'[p].phase = "main"
        /\ proc'[p].plan = Nothing
    BY <1>3, <2>1, <2>2
  <2>4. (Place(proc[p]) /\ Rendering(proc[p]))'
    BY <1>1, <2>3 DEF Place, Rendering, Target
  <2> QED
    BY <1>2, <2>1, <2>2, <2>4
<1> QED
  BY <1>4, <1>5, <1>6, <1>7, <1>8 DEF Request


\* A goroutine that waits for its script, and is alone, goes on where it should.
LEMMA ScriptOwn ==
    ASSUME TypeOK, NEW p \in Procs, proc[p].alone, proc'[p].alone,
           ScriptOf(p, proc[p]), Place(proc[p]), Rendering(proc[p]),
           ScriptStep(p) \/ LoadFails(p)
    PROVE  (ScriptOf(p, proc[p]) /\ Place(proc[p]) /\ Rendering(proc[p]))'
<1> DEFINE f == proc[p]
<1>1. /\ f \in Frames /\ proc \in [Procs -> Frames] /\ script \in [Procs -> Scripts]
      /\ NoScript' = NoScript /\ NoScript.pc = "none"
  BY DEF TypeOK, NoScript, Nothing
<1>2. script[p].pc # "none"
  BY DEF ScriptStep, DeleteTable, Load, LoadFails
<1>3. /\ f.pc = "wait" /\ script[p].plan = f.plan /\ f.plan = Target(f)
      /\ script[p].pc = "load" => table = <<>>
      /\ f.op = "create" => Absent(f.fwd)
  BY <1>1, <1>2 DEF ScriptOf, Rendering
<1>4. CASE DeleteTable(p)
  <2>1. table' = <<>> /\ UNCHANGED <<rows, proc, binding>>
    BY <1>4 DEF DeleteTable
  <2>2. script'[p].pc = "load" /\ script'[p].plan = f.plan
    BY <1>1, <1>3, <1>4 DEF DeleteTable, Scripts
  <2>3. ScriptOf(p, proc[p])' /\ Place(proc[p])'
    BY <1>3, <2>1, <2>2 DEF ScriptOf, Place, rows
  <2>4. Target(f)' = Target(f) /\ Absent(f.fwd)'
    BY <2>1, EmptySeq DEF Target, Rules, Nothing, Active, rows, Absent
  <2>5. Rendering(proc[p])'
    BY <1>3, <2>1, <2>4 DEF Rendering
  <2> QED
    BY <2>3, <2>5
<1>5. CASE Load(p)
  <2> DEFINE e == IF Planned(f) = {} THEN [f EXCEPT !.pc = "list"]
                  ELSE [f EXCEPT !.pc = "bind", !.todo = Planned(f)]
  <2>1. /\ UNCHANGED <<rows, binding>> /\ script' = [script EXCEPT ![p] = NoScript]
        /\ proc'[p] = e /\ table' = Append(<<>>, Rendered(f.plan))
    BY <1>1, <1>3, <1>5 DEF Load, Go
  <2>2. /\ e.op = f.op /\ e.fwd = f.fwd /\ e.phase = f.phase /\ e.was = f.was
        /\ e.plan = f.plan
        /\ \/ e.pc = "list" /\ Planned(f) = {}
           \/ e.pc = "bind" /\ e.todo = Planned(f)
    BY <1>1 DEF Frames
  <2> HIDE DEF e
  <2>3. Len(table') = 1 /\ table'[1] = Rendered(f.plan)
    <3>1. <<>> \in Seq(Loads) /\ Len(<<>>) = 0 /\ Rendered(f.plan) \in Loads
      BY <1>1, EmptySeq, RenderedType DEF Frames
    <3> QED
      BY <2>1, <3>1, AppendProperties
  <2>4. Runs(proc[p].plan)'
    <3>1. \A g \in Forwards : IF f.plan[g] = None THEN Rendered(f.plan)[g] = None
                              ELSE Rendered(f.plan)[g] = [ver |-> f.plan[g], bytes |-> 0]
      BY DEF Rendered
    <3>2. ASSUME NEW g \in Forwards, f.plan[g] # None
          PROVE  Rendered(f.plan)[g] # None /\ Rendered(f.plan)[g].ver = f.plan[g]
      <4>1. f.plan[g] \in Versions
        BY <1>1, <3>2 DEF Frames, Plans
      <4>2. [ver |-> f.plan[g], bytes |-> 0] \in [ver : Versions, bytes : 0 .. MaxBytes]
        BY <4>1, BoundAssumption
      <4>3. [ver |-> f.plan[g], bytes |-> 0] # None
        BY <4>2, NoneAssumption
      <4>4. Rendered(f.plan)[g] = [ver |-> f.plan[g], bytes |-> 0]
        BY <3>1, <3>2
      <4> QED
        BY <4>3, <4>4
    <3> QED
      BY <2>1, <2>2, <2>3, <3>1, <3>2 DEF Runs
  <2>5. ScriptOf(p, proc[p])' /\ Place(proc[p])'
    BY <1>1, <1>3, <2>1, <2>2 DEF ScriptOf, Place, rows
  <2>6. Target(f)' = Target(proc[p])' /\ proc'[p].plan = Target(proc[p])'
    BY <1>3, <2>1, <2>2 DEF Target, Rules, Nothing, Active, rows
  <2>7. Rendering(proc[p])'
    BY <2>1, <2>2, <2>4, <2>6 DEF Rendering, Planned
  <2> QED
    BY <2>5, <2>7
<1>6. CASE LoadFails(p)
  <2>1. /\ Failing(p, Marking(f)) /\ UNCHANGED <<rows, table>>
        /\ script'[p] = NoScript
    BY <1>1, <1>3, <1>6 DEF LoadFails
  <2>2. Marking(f) \in Frames
    BY <1>1, FrameTypes
  <2>3. ~GoDisturbed(p, Marking(f))
    BY <1>1, <2>2, Disturbs
  <2>4. proc'[p] = Marking(f) /\ f.phase = "main"
    BY <1>1, <2>1, <2>3 DEF Failing, Go
  <2>5. f.op = "create" => \A i \in DOMAIN table' : table'[i][f.fwd] = None
    BY <1>3, <2>1 DEF Absent
  <2> QED
    BY <1>3, <2>1, <2>4, <2>5, Marks
<1> QED
  BY <1>4, <1>5, <1>6 DEF ScriptStep

\* A step of a script.
LEMMA ScriptLone ==
    ASSUME TypeOK, LoneInv, NEW p \in Procs, ScriptStep(p) \/ LoadFails(p) \/ Abandon(p)
    PROVE  LoneInv'
<1> DEFINE f == proc[p]
<1>1. /\ f \in Frames /\ proc \in [Procs -> Frames] /\ script \in [Procs -> Scripts]
      /\ NoScript.pc = "none" /\ NoScript.plan = Nothing
  BY DEF TypeOK, NoScript
<1>2. script[p] # NoScript
  BY <1>1 DEF ScriptStep, DeleteTable, Load, LoadFails, Abandon
<1>3. /\ life' = life /\ Proceeds(p)
      /\ \A q \in Procs \ {p} : script'[q] = script[q]
      /\ script'[p].plan \in {script[p].plan, Nothing}
  <2>1. UNCHANGED proc => Proceeds(p)
    BY DEF Proceeds
  <2>2. CASE DeleteTable(p)
    BY <1>1, <2>1, <2>2 DEF DeleteTable, rows, Scripts
  <2>3. CASE Load(p)
    <3>1. /\ life' = life /\ script' = [script EXCEPT ![p] = NoScript]
          /\ \/ UNCHANGED proc
             \/ Go(p, [f EXCEPT !.pc = "list"])
             \/ Go(p, [f EXCEPT !.pc = "bind", !.todo = Planned(f)])
      BY <2>3 DEF Load, rows
    <3> DEFINE e == [f EXCEPT !.pc = "list"]
               d == [f EXCEPT !.pc = "bind", !.todo = Planned(f)]
    <3>2. /\ e \in Frames /\ e.alone = f.alone /\ e.plan = f.plan
          /\ d \in Frames /\ d.alone = f.alone /\ d.plan = f.plan
      <4>1. e \in Frames /\ d \in Frames
        <5>1. e \in Frames
          BY <1>1 DEF Frames
        <5>2. d \in Frames
          BY <1>1 DEF Frames, Planned
        <5> QED
          BY <5>1, <5>2
      <4>2. e.alone = f.alone /\ e.plan = f.plan /\ d.alone = f.alone /\ d.plan = f.plan
        BY <1>1 DEF Frames
      <4> QED
        BY <4>1, <4>2
    <3> HIDE DEF e, d
    <3>3. Proceeds(p)
      BY <1>1, <2>1, <3>1, <3>2, GoesOn DEF e, d
    <3> QED
      BY <1>1, <3>1, <3>3
  <2>4. CASE LoadFails(p)
    <3>1. /\ life' = life /\ script' = [script EXCEPT ![p] = NoScript]
          /\ UNCHANGED proc \/ Failing(p, Marking(f))
      BY <2>4 DEF LoadFails, rows
    <3>2. {} \in SUBSET Forwards
      OBVIOUS
    <3>3. /\ Marking(f) \in Frames /\ (Marking(f).alone => f.alone)
          /\ Marking(f).plan \in {f.plan, Nothing}
      BY <1>1, <3>2, FrameTypes, Onwards
    <3>4. Proceeds(p)
      BY <1>1, <2>1, <3>1, <3>3, GoesOn
    <3> QED
      BY <1>1, <3>1, <3>4
  <2>5. CASE Abandon(p)
    BY <1>1, <2>1, <2>5 DEF Abandon, rows
  <2> QED
    BY <2>2, <2>3, <2>4, <2>5 DEF ScriptStep
<1>4. \A g \in Forwards : Fresh(g)'
  <2>1. ASSUME NEW g \in Forwards, Fresh(g), life[g] = "new" PROVE Absent(g)'
    <3>1. Absent(g) /\ script[p].plan[g] = None
      BY <2>1 DEF Fresh
    <3>2. CASE DeleteTable(p)
      BY <3>2, EmptySeq DEF DeleteTable, Absent
    <3>3. CASE Load(p)
      <4>1. table' = Append(table, Rendered(script[p].plan)) /\ Rendered(script[p].plan)[g] = None
        BY <3>1, <3>3 DEF Load, Rendered
      <4>2. table \in Seq(Loads) /\ Rendered(script[p].plan) \in Loads
        BY <1>1, RenderedType DEF TypeOK, Scripts
      <4>3. /\ DOMAIN table = 1 .. Len(table) /\ DOMAIN table' = 1 .. Len(table) + 1
            /\ Len(table) \in Nat /\ table'[Len(table) + 1] = Rendered(script[p].plan)
            /\ \A i \in 1 .. Len(table) : table'[i] = table[i]
        BY <4>1, <4>2, AppendProperties, LenProperties
      <4> QED
        BY <3>1, <4>1, <4>3 DEF Absent
    <3>4. CASE LoadFails(p) \/ Abandon(p)
      BY <3>1, <3>4 DEF LoadFails, Abandon, Absent
    <3> QED
      BY <3>2, <3>3, <3>4 DEF ScriptStep
  <2>2. /\ \A q \in Procs : proc'[q].plan \in {proc[q].plan, Nothing} \/ proc'[q].plan = Rules
        /\ \A q \in Procs : script'[q].plan \in {script[q].plan, proc[q].plan, Nothing}
    BY <1>3 DEF Proceeds
  <2> QED
    BY <1>3, <2>1, <2>2, FreshStep
<1>5. CASE \A q \in Procs : ~proc'[q].alone
  BY <1>4, <1>5, NobodyAlone DEF LoneInv
<1>6. CASE /\ \A q \in Procs \ {p} : proc'[q] = proc[q]
           /\ proc'[p].alone => proc[p].alone
  <2>1. ASSUME proc'[p].alone
        PROVE  (ScriptOf(p, proc[p]) /\ Place(proc[p]) /\ Rendering(proc[p]))'
    <3>1. ScriptOf(p, proc[p]) /\ Place(proc[p]) /\ Rendering(proc[p])
      BY <1>6, <2>1 DEF LoneInv, Alone
    <3>2. ~Abandon(p)
      BY <1>2, <3>1 DEF Abandon, ScriptOf
    <3> QED
      BY <1>6, <2>1, <3>1, <3>2, ScriptOwn
  <2>2. \A q \in Procs : Alone(q)'
    BY <1>2, <1>3, <1>6, <2>1, OwnStep
  <2> QED
    BY <1>4, <2>2 DEF LoneInv
<1> QED
  BY <1>3, <1>5, <1>6 DEF Proceeds

\* Bytes change nothing of this.
LEMMA CarryLone ==
    ASSUME TypeOK, CountInv, LoneInv, NEW f \in Forwards, NEW v \in Versions, Carry(f, v)
    PROVE  LoneInv'
<1>1. /\ UNCHANGED <<life, row, binding, script, proc>>
      /\ DOMAIN table' = DOMAIN table /\ Len(table') = Len(table)
      /\ \A i \in DOMAIN table :
            \/ table'[i] = table[i]
            \/ /\ table[i][f] # None /\ table'[i][f] # None
               /\ table'[i] = [table[i] EXCEPT ![f] = [table[i][f] EXCEPT !.bytes = @ + 1]]
  <2>1. UNCHANGED <<life, row, binding, script, proc>>
    BY DEF Carry, rows
  <2> QED
    BY <2>1, CarryTypes
<1>2. table \in Seq(Loads) /\ DOMAIN table = 1 .. Len(table) /\ Len(table) \in Nat
  BY LenProperties DEF TypeOK
<1>3. ASSUME NEW i \in DOMAIN table, NEW g \in Forwards
      PROVE  /\ table'[i][g] = None <=> table[i][g] = None
             /\ table[i][g] # None => table'[i][g].ver = table[i][g].ver
  <2>1. table[i] \in Loads
    BY <1>2, ElementOfSeq
  <2>2. CASE table'[i] = table[i]
    BY <2>2
  <2>3. CASE /\ table[i][f] # None /\ table'[i][f] # None
             /\ table'[i] = [table[i] EXCEPT ![f] = [table[i][f] EXCEPT !.bytes = @ + 1]]
    <3>1. table[i][f] \in [ver : Versions, bytes : 0 .. MaxBytes]
      BY <2>1, <2>3 DEF Loads, Counts
    <3>2. CASE g = f
      BY <2>1, <2>3, <3>1, <3>2 DEF Loads
    <3>3. CASE g # f
      BY <2>1, <2>3, <3>3 DEF Loads
    <3> QED
      BY <3>2, <3>3
  <2> QED
    BY <1>1, <2>2, <2>3
<1>4. ASSUME NEW g \in Forwards PROVE Absent(g)' = Absent(g)
  BY <1>1, <1>3 DEF Absent
<1>5. \A g \in Forwards : Fresh(g)'
  BY <1>1, <1>4 DEF LoneInv, Fresh
<1>6. ASSUME NEW p \in Procs PROVE Alone(p)'
  <2> DEFINE e == proc[p]
  <2>1. SUFFICES ASSUME proc[p].alone PROVE Alone(p)'
    BY <1>1 DEF Alone
  <2>2. /\ \A q \in Procs \ {p} : proc[q].pc = "idle" /\ ~proc[q].alone /\ script[q] = NoScript
        /\ ScriptOf(p, e) /\ Place(e) /\ Rendering(e)
    BY <2>1 DEF LoneInv, Alone
  <2>3. NoScript' = NoScript /\ Nothing' = Nothing /\ Rules' = Rules
    BY <1>1 DEF NoScript, Nothing, Rules, Active
  <2>4. table = <<>> => table' = <<>>
    <3>1. table' \in Seq(Loads)
      BY CarryTypes
    <3> QED
      BY <1>1, <3>1, EmptySeq
  <2>5. ScriptOf(p, proc[p])' /\ Place(proc[p])'
    BY <1>1, <2>2, <2>3, <2>4 DEF ScriptOf, Place
  <2>6. Len(table) = 1 => 1 \in DOMAIN table
    BY <1>2
  <2>7. Runs(e.plan) => Runs(proc[p].plan)'
    BY <1>1, <1>3, <2>6 DEF Runs
  <2>8. Agrees => Agrees'
    BY <1>1, <1>3, <2>6 DEF Agrees, Active
  <2>9. Achieved(e) => Achieved(proc[p])'
    <3>1. e.op = "create" => e.fwd \in Forwards
      BY <2>2 DEF Place
    <3> QED
      BY <1>1, <1>3, <2>6, <2>8, <3>1 DEF Achieved
  <2>10. Rendering(proc[p])'
    <3>1. e.op = "create" => e.fwd \in Forwards
      BY <2>2 DEF Place
    <3>2. e.op = "create" => (Absent(e.fwd) => Absent(proc[p].fwd)')
      BY <1>1, <1>3, <3>1 DEF Absent
    <3> QED
      BY <1>1, <2>2, <2>3, <2>7, <2>9, <3>2 DEF Rendering, Target, Holds
  <2> QED
    BY <1>1, <2>2, <2>3, <2>5, <2>10 DEF Alone
<1> QED
  BY <1>5, <1>6 DEF LoneInv


\* The job, the policies, and what brings node or panel down.
LEMMA OtherLone ==
    ASSUME TypeOK, LoneInv,
           \/ \E f \in Forwards, on \in BOOLEAN : SetStatus(f, on)
           \/ JobStep \/ NodeRestarts \/ PanelRestarts \/ UNCHANGED vars
    PROVE  LoneInv'
<1>1. /\ proc \in [Procs -> Frames] /\ script \in [Procs -> Scripts]
      /\ NoScript.plan = Nothing /\ NoScript' = NoScript /\ Nothing' = Nothing
  BY DEF TypeOK, NoScript, Nothing
<1>2. ASSUME \A q \in Procs : ~proc'[q].alone /\ proc'[q].plan \in {proc[q].plan, Nothing},
             \A q \in Procs : script'[q].plan \in {script[q].plan, Nothing},
             life' = life, table' \in {table, <<>>}
      PROVE  LoneInv'
  <2>1. \A g \in Forwards : Fresh(g) /\ life[g] = "new" => Absent(g)'
    BY <1>2, EmptySeq DEF Fresh, Absent
  <2>2. /\ \A q \in Procs : proc'[q].plan \in {proc[q].plan, Nothing} \/ proc'[q].plan = Rules
        /\ \A q \in Procs : script'[q].plan \in {script[q].plan, proc[q].plan, Nothing}
    BY <1>2
  <2>3. \A g \in Forwards : Fresh(g)'
    BY <1>2, <2>1, <2>2, FreshStep
  <2> QED
    BY <1>2, <2>3, NobodyAlone DEF LoneInv
<1>3. ASSUME NEW f \in Forwards, NEW on \in BOOLEAN, SetStatus(f, on) PROVE LoneInv'
  <2>1. UNCHANGED <<life, table, script>> /\ proc' = Disturbed
    BY <1>3 DEF SetStatus, node
  <2>2. \A q \in Procs : ~proc'[q].alone /\ proc'[q].plan \in {proc[q].plan, Nothing}
    BY <1>1, <2>1, DisturbedFrames
  <2> QED
    BY <1>2, <2>1, <2>2
<1>4. CASE JobStep \/ UNCHANGED vars
  <2>1. UNCHANGED <<life, row, binding, table, script, proc>>
    BY <1>4 DEF JobStep, StartCollecting, Sample, ReadStates, ReadBindings, LoadMetas, Account,
                vars, rows, node
  <2> QED
    BY <2>1 DEF LoneInv, Fresh, Alone, Absent, ScriptOf, Place, Rendering, Target, Rules,
                Nothing, NoScript, Active, Runs, Holds, Achieved, Agrees
<1>5. CASE NodeRestarts
  <2>1. life' = life /\ table' = <<>> /\ script' = [q \in Procs |-> NoScript]
    BY <1>5 DEF NodeRestarts, rows
  <2>2. ASSUME NEW q \in Procs
        PROVE  ~proc'[q].alone /\ proc'[q].plan \in {proc[q].plan, Nothing}
    <3> DEFINE e == IF proc[q].pc = "wait" THEN Marking(proc[q]) ELSE proc[q]
    <3>1. {} \in SUBSET Forwards /\ proc[q] \in Frames
      BY <1>1
    <3>2. e \in Frames /\ e.plan \in {proc[q].plan, Nothing}
      BY <3>1, FrameTypes, Onwards
    <3>3. proc'[q] = [e EXCEPT !.alone = FALSE]
      BY <1>5 DEF NodeRestarts
    <3> HIDE DEF e
    <3> QED
      BY <3>2, <3>3 DEF Frames
  <2> QED
    BY <1>1, <1>2, <2>1, <2>2
<1>6. CASE PanelRestarts
  <2>1. /\ UNCHANGED <<life, table, script>>
        /\ \A q \in Procs : proc'[q] \in {Starting, Idle}
    BY <1>6 DEF PanelRestarts, rows, node
  <2>2. /\ ~Idle.alone /\ Idle.plan = Nothing /\ ~Starting.alone /\ Starting.plan = Nothing
    BY DEF Idle, Starting
  <2>3. \A q \in Procs : ~proc'[q].alone /\ proc'[q].plan \in {proc[q].plan, Nothing}
    BY <2>1, <2>2
  <2> QED
    BY <1>2, <2>1, <2>3
<1> QED
  BY <1>3, <1>4, <1>5, <1>6

\* Every step keeps what is said of those that are alone.
LEMMA LoneStep == IInv /\ LoneInv /\ [Next]_vars => LoneInv'
<1> SUFFICES ASSUME TypeOK, CountInv, LoneInv, [Next]_vars PROVE LoneInv'
  BY DEF IInv
<1>1. ASSUME NEW p \in Procs, Request(p) PROVE LoneInv'
  BY <1>1, RequestLone
<1>2. ASSUME NEW p \in Procs, ProcStep(p) \/ GiveUp(p) PROVE LoneInv'
  BY <1>2, ProcLone
<1>3. ASSUME NEW p \in Procs, ScriptStep(p) \/ LoadFails(p) \/ Abandon(p) PROVE LoneInv'
  BY <1>3, ScriptLone
<1>4. ASSUME NEW f \in Forwards, NEW v \in Versions, Carry(f, v) PROVE LoneInv'
  BY <1>4, CarryLone
<1>5. CASE \/ \E f \in Forwards, on \in BOOLEAN : SetStatus(f, on)
           \/ JobStep \/ NodeRestarts \/ PanelRestarts \/ UNCHANGED vars
  BY <1>5, OtherLone
<1> QED
  BY <1>1, <1>2, <1>3, <1>4, <1>5 DEF Next

\* At first nobody is alone, and nothing is known of any forward.
LEMMA LoneInit == Init => LoneInv
<1> SUFFICES ASSUME Init PROVE LoneInv
  OBVIOUS
<1>1. /\ ~Idle.alone /\ Idle.plan = Nothing /\ ~Starting.alone /\ Starting.plan = Nothing
      /\ NoScript.plan = Nothing
  BY DEF Idle, Starting, NoScript
<1>2. ASSUME NEW q \in Procs
      PROVE  ~proc[q].alone /\ proc[q].plan = Nothing /\ script[q].plan = Nothing
  BY <1>1 DEF Init
<1>3. \A g \in Forwards : Absent(g)
  BY EmptySeq DEF Init, Absent
<1> QED
  BY <1>2, <1>3 DEF LoneInv, Fresh, Alone, Nothing

\* Whatever is left on the node and in the bindings, a request that is alone
\* with them, and is answered, leaves both as the rows say, and one that fails is
\* undone on both (UndisturbedAgrees).
THEOREM Undisturbed == Spec => []UndisturbedAgrees
<1>1. Init => IInv /\ LoneInv
  BY InitInv, LoneInit
<1>2. IInv /\ LoneInv /\ [Next]_vars => (IInv /\ LoneInv)'
  BY InvStep, LoneStep
<1>3. IInv /\ LoneInv => UndisturbedAgrees
  BY DEF LoneInv, Alone, Rendering, UndisturbedAgrees
<1> QED
  BY <1>1, <1>2, <1>3, PTL DEF Spec

=============================================================================

----------------------- MODULE FederationRuntime_proofs -----------------------
(***************************************************************************)
(* What FederationRuntime promises, for any tunnels, hops, shares, ports,   *)
(* handlers, number of requests and of faults.  HopInv says of a hop that    *)
(* nothing went wrong with what each phase of its one handler, of its one    *)
(* request and of a sweep allows on the node, in the row and in the binding; *)
(* at rest this is BoundServes and NothingLeftBehind.  Joined says the same  *)
(* of what a middle dials and the next hop's port: at rest, PathJoined.      *)
(* OnwardInv says that a handler always has something to go on with, unless *)
(* it waits for a connection to the database: hence NobodyStuck.             *)
(***************************************************************************)
EXTENDS FederationRuntime, TLAPS

Setup == {"pick", "reserve", "retry", "apply", "commit"}
Waiting == {"releasing", "reserve", "retry", "apply"}

\* A request stays within the steps of its handler, and only a middle has a chain.
CallShape(c) ==
    /\ c.op = "none" => c = NoCall
    /\ c.op # "none" => c.hop \in Hops
    /\ c.op = "reserve" => c.pc \in {"start", "insert", "ok", "failed"}
    /\ c.op = "apply" => c.pc \in {"start", "rechain", "chain", "service", "undo", "write",
                                   "ok", "failed"}
    /\ c.op = "release" => c.pc \in {"start", "dropService", "dropChain", "mark", "ok",
                                     "failed"}
    /\ c.pc \in {"rechain", "chain", "undo"} => Middle(c.hop)
    /\ c.pc \in {"insert", "rechain", "chain", "service", "undo", "write"} => c.port \in Ports

\* A handler works on the hops of its tunnel, and asks what its place says.
FrameShape(f, c) ==
    /\ f.op = "none" => f = Idle
    /\ f.op # "none" => f.pc # "idle" /\ f.tunnel \in Tunnels
    /\ f.todo \subseteq HopsOf(f.tunnel) /\ f.done \subseteq HopsOf(f.tunnel)
    /\ f.pc \in Setup \cup {"local"} => /\ f.todo \cup f.done = HopsOf(f.tunnel)
                                       /\ f.todo \cap f.done = {}
    /\ f.pc \in {"commit", "local"} => f.todo = {}
    /\ f.pc = "unbind" => f.op # "create"
    /\ f.then = "unbind" => f.op # "create"
    /\ f.pc = "domain" => f.then # "unbind"
    /\ f.pc = "unbind" \/ (f.pc \in {"release", "releasing"} /\ f.then = "unbind") => f.done = {}
    /\ f.pc \in Waiting => /\ f.at \in f.todo /\ c.hop = f.at
                          /\ c.op = CASE f.pc = "releasing" -> "release"
                                      [] f.pc = "apply" -> "apply"
                                      [] OTHER -> "reserve"
    /\ f.pc \notin Waiting => c = NoCall

SweepShape(s) ==
    /\ sweep[s].todo \subseteq HopsIn(s)
    /\ sweep[s].at # NoHop => sweep[s].on /\ sweep[s].at \in sweep[s].todo
    /\ sweep[s].on \/ share[s] = "gone" => s \in cut

Shape ==
    /\ \A x \in Slots : CallShape(serve[x])
    /\ \A p \in Procs : FrameShape(proc[p], serve[p])
    /\ \A s \in Shares : SweepShape(s)

-----------------------------------------------------------------------------
(* The hop.                                                                *)

On(h, p) == proc[p].tunnel = TunnelOf[h]
Gap(h) == sweep[ShareOf[h]].at = h /\ h \in sweep[ShareOf[h]].applied
InCall(h, op, pcs) ==
    \E x \in Slots : serve[x].hop = h /\ serve[x].op = op /\ serve[x].pc \in pcs
Set(h) == Active(h) /\ rows[h].applied

\* One handler, and no request but its own.
Owned(h) ==
    /\ \A p, q \in Procs : On(h, p) /\ On(h, q) => p = q
    /\ \A x \in Strays : serve[x].hop # h

Lives(h) ==
    bound[h] # 0 \/ (\E p \in Procs : On(h, p) /\ proc[p].op # "create")
    => life[TunnelOf[h]] = "made"

\* What the node runs is in the row.
OnNode(h) ==
    /\ svc[h] # 0 => /\ Active(h) /\ rows[h].port = svc[h]
                     /\ rows[h].applied \/ InCall(h, "apply", {"write"})
    /\ chain[h] # 0 => /\ Active(h) /\ Middle(h)
                       /\ \/ svc[h] # 0
                          \/ Gap(h) /\ rows[h].applied
                          \/ InCall(h, "apply", {"service", "undo"})
                          \/ InCall(h, "release", {"dropChain"})
    /\ Set(h) => \/ svc[h] = rows[h].port \/ Gap(h)
                 \/ InCall(h, "release", {"dropChain", "mark"})
    /\ share[ShareOf[h]] = "gone" => rows[h] = NoRow \/ ~rows[h].applied

\* What a request has seen still holds.
Seen(h, c) ==
    /\ c.op = "reserve" /\ c.pc = "insert" => ~Active(h) /\ svc[h] = 0 /\ chain[h] = 0
    /\ c.op = "apply" /\ c.pc \in {"chain", "service", "undo"} =>
          Active(h) /\ ~rows[h].applied /\ rows[h].port = c.port /\ svc[h] = 0
    /\ c.op = "apply" /\ c.pc = "chain" => chain[h] = 0
    /\ c.op = "apply" /\ c.pc \in {"rechain", "chain", "service", "undo", "write"} =>
          share[ShareOf[h]] # "gone"
    /\ c.op = "apply" /\ c.pc = "rechain" => Set(h)
    /\ c.op = "apply" /\ c.pc \in {"rechain", "write"} =>
          Active(h) /\ rows[h].port = c.port /\ (svc[h] = c.port \/ Gap(h))
    /\ c.op = "apply" /\ c.pc = "ok" =>
          /\ Active(h) => rows[h].applied /\ rows[h].port = c.port
          /\ ShareOf[h] \notin cut => Active(h)
    /\ c.op = "release" /\ c.pc \in {"dropChain", "mark"} => svc[h] = 0
    /\ c.op = "release" /\ c.pc = "mark" => chain[h] = 0
    /\ c.op = "release" /\ (c.pc = "ok" \/ (c.pc = "failed" /\ h \notin missed)) => ~Set(h)

\* The provider has for the hop what the consumer noted, port.
Agrees(h, port) ==
    /\ Active(h) => rows[h].applied /\ rows[h].port = port
    /\ ShareOf[h] \notin cut => Active(h)

\* What a handler on the hop's tunnel has done about it.
Handled(h, f) ==
    /\ \/ f.pc \in Setup
       \/ f.pc \in {"domain", "release", "releasing"} /\ f.then = "idle"
       => bound[h] = 0
    /\ h \notin missed =>
          /\ f.pc \in Setup /\ h \in f.done => Agrees(h, f.port[h])
          /\ f.pc = "local" /\ bound[h] # 0 => Agrees(h, bound[h])
          /\ Set(h) => /\ f.pc = "local" => bound[h] = rows[h].port
                       /\ f.pc \in Setup => h \in f.done \/ InCall(h, "apply", {"ok"})
                       /\ f.pc = "domain" => h \in f.done
                       /\ f.pc \in {"release", "releasing"} => h \in f.todo
                       /\ f.pc \notin {"unbind", "forget", "cascade"}

AtRest(h) ==
    h \notin missed /\ ~Busy(TunnelOf[h]) =>
        /\ bound[h] # 0 => Agrees(h, bound[h])
        /\ Set(h) => bound[h] = rows[h].port

HopInv(h) ==
    /\ Owned(h) /\ Lives(h) /\ OnNode(h) /\ AtRest(h)
    /\ \A x \in Slots : serve[x].hop = h => Seen(h, serve[x])
    /\ \A p \in Procs : On(h, p) => Handled(h, proc[p])

IInv == TypeOK /\ Shape /\ \A h \in Hops \ blamed : HopInv(h)

-----------------------------------------------------------------------------
(* Types.                                                                  *)

\* The constants are what the module says, and nothing is of two kinds.
LEMMA Constants ==
    /\ \A h \in Hops : TunnelOf[h] \in Tunnels /\ ShareOf[h] \in Shares
    /\ \A s \in Shares : PortsOf[s] \subseteq Ports
    /\ 0 \notin Ports /\ Ports \subseteq Port0 /\ 0 \in Port0
    /\ NoCall \in Calls /\ Idle \in Frames /\ Resting \in Sweeps
    /\ HopsOf(NoTunnel) = {}
    /\ NoRow \notin Rows
<1>1. \A h \in Hops : TunnelOf[h] \in Tunnels /\ ShareOf[h] \in Shares
  BY HopAssumption, ShareAssumption
<1>2. \A s \in Shares : PortsOf[s] \subseteq Ports
  BY DEF Ports
<1>3. 0 \notin Ports /\ Ports \subseteq Port0 /\ 0 \in Port0 /\ Ports \subseteq Nat
  BY ShareAssumption DEF Ports, Port0
<1>4. NoCall \in Calls /\ Resting \in Sweeps
  BY <1>3 DEF NoCall, Calls, Resting, Sweeps
<1>5. NoPorts \in [Hops -> Port0]
  BY <1>3 DEF NoPorts
<1>6. Idle \in Frames
  BY <1>5 DEF Idle, Frames
<1>7. HopsOf(NoTunnel) = {}
  BY <1>1, HopAssumption DEF HopsOf
<1>8. NoRow \notin Rows
  BY <1>3, NoRowAssumption DEF Rows
<1> QED
  BY <1>1, <1>2, <1>3, <1>4, <1>6, <1>7, <1>8

\* A fault keeps the count of faults in its bound.
LEMMA FaultType ==
    ASSUME faults \in 0 .. MaxFaults, NEW kind, Fault(kind)
    PROVE  faults' \in 0 .. MaxFaults
BY BoundAssumption DEF Fault

\* A reply changes one request.
LEMMA ReplyGives ==
    ASSUME TypeOK, NEW x \in Slots, NEW d \in Calls, Reply(x, d)
    PROVE  /\ serve' \in [Slots -> Calls]
           /\ \A y \in Slots : y # x => serve'[y] = serve[y]
           /\ serve'[x] = d \/ (x \in Strays /\ serve'[x] = NoCall)
BY Constants DEF TypeOK, Reply

\* A command to a node is carried out in full or fails, and then all of its
\* effect may be there or none.
LEMMA SendsGives ==
    ASSUME TypeOK, NEW x \in Slots, serve[x].hop \in Hops,
           NEW svcDone \in [Hops -> Port0], NEW chainDone \in [Hops -> Port0],
           NEW done \in Calls, NEW failed \in Calls, Sends(x, svcDone, chainDone, done, failed)
    PROVE  /\ svc' \in [Hops -> Port0] /\ chain' \in [Hops -> Port0]
           /\ serve' \in [Slots -> Calls]
           /\ blamed' \subseteq Hops /\ faults' \in 0 .. MaxFaults
           /\ \A y \in Slots : y # x => serve'[y] = serve[y]
           /\ serve'[x] \in {done, failed} \/ (x \in Strays /\ serve'[x] = NoCall)
           /\ svc' \in {svc, svcDone} /\ chain' \in {chain, chainDone}
           /\ blamed \subseteq blamed'
           /\ \/ /\ svc' = svcDone /\ chain' = chainDone /\ blamed' = blamed
                 /\ serve'[x] = done \/ (x \in Strays /\ serve'[x] = NoCall)
              \/ serve[x].hop \in blamed'
<1>1. CASE svc' = svcDone /\ chain' = chainDone /\ Reply(x, done) /\ UNCHANGED <<blamed, faults>>
  BY <1>1, ReplyGives DEF TypeOK
<1>2. CASE /\ Fault("node")
           /\ \/ UNCHANGED <<svc, chain>>
              \/ svc' = svcDone /\ chain' = chainDone
           /\ Reply(x, failed)
           /\ blamed' = blamed \cup {serve[x].hop}
  <2>1. faults' \in 0 .. MaxFaults
    BY <1>2, FaultType DEF TypeOK
  <2> QED
    BY <1>2, <2>1, ReplyGives DEF TypeOK
<1> QED
  BY <1>1, <1>2 DEF Sends

\* The first state is of its type.
LEMMA InitType == Init => TypeOK
BY Constants, BoundAssumption DEF Init, TypeOK, NoPorts

\* A step of a request keeps the variables in their types, and its hop is a hop.
LEMMA CallStepType ==
    ASSUME TypeOK, Shape, NEW x \in Slots, CallStep(x)
    PROVE  TypeOK'
<1> DEFINE c == serve[x]
<1> USE Constants
<1>0. c \in Calls /\ CallShape(c)
  BY DEF TypeOK, Shape
<1>1. CASE ReserveReads(x)
  <2>1. c.hop \in Hops
    BY <1>0, <1>1 DEF ReserveReads, At, CallShape
  <2>2. PICK d \in Calls : Reply(x, d)
    <3>1. Free(ShareOf[c.hop]) \subseteq Ports
      BY <2>1 DEF Free
    <3>2. Active(c.hop) => rows[c.hop].port \in Ports
      BY <2>1 DEF Active, TypeOK, Rows
    <3> QED
      BY <1>0, <1>1, <3>1, <3>2 DEF ReserveReads, Calls
  <2> QED
    BY <1>1, <2>2, ReplyGives DEF ReserveReads, TypeOK, provider, consumer
<1>2. CASE ReserveInserts(x)
  <2>1. c.hop \in Hops /\ c.port \in Ports
    BY <1>0, <1>2 DEF ReserveInserts, At, CallShape
  <2>2. PICK d \in Calls : Reply(x, d)
    BY <1>0, <1>2 DEF ReserveInserts, Calls
  <2> DEFINE row == [port |-> c.port, on |-> TRUE, applied |-> FALSE]
  <2>3. row \in Rows
    BY <2>1 DEF Rows
  <2>4. rows' \in {rows, [rows EXCEPT ![c.hop] = row]}
    BY <1>2 DEF ReserveInserts
  <2>5. rows' \in [Hops -> Rows \cup {NoRow}]
    BY <2>1, <2>3, <2>4 DEF TypeOK
  <2> QED
    BY <1>2, <2>2, <2>5, ReplyGives DEF ReserveInserts, TypeOK, consumer
<1>2a. CASE CallFails(x)
  <2>1. [c EXCEPT !.pc = "failed"] \in Calls
    BY <1>0 DEF Calls
  <2>2. faults' \in 0 .. MaxFaults
    BY <1>2a, FaultType DEF CallFails, TypeOK
  <2> QED
    BY <1>2a, <2>1, <2>2, ReplyGives DEF CallFails, TypeOK, provider, consumer
<1>3. CASE ApplyReads(x)
  <2>1. c.hop \in Hops
    BY <1>0, <1>3 DEF ApplyReads, At, CallShape
  <2>2. PICK d \in Calls : Reply(x, d)
    <3>1. Active(c.hop) => rows[c.hop].port \in Ports /\ rows[c.hop].applied \in BOOLEAN
      BY <2>1 DEF Active, TypeOK, Rows
    <3> QED
      BY <1>0, <1>3, <3>1 DEF ApplyReads, Calls
  <2> QED
    BY <1>3, <2>2, ReplyGives DEF ApplyReads, TypeOK, provider, consumer
<1>4. CASE Rechain(x)
  <2>1. c.hop \in Hops
    BY <1>0, <1>4 DEF Rechain, At, CallShape
  <2>2. [chain EXCEPT ![c.hop] = c.target] \in [Hops -> Port0] /\ svc \in [Hops -> Port0]
    BY <1>0 DEF TypeOK, Calls
  <2>3. [c EXCEPT !.pc = "write"] \in Calls /\ [c EXCEPT !.pc = "failed"] \in Calls
    BY <1>0 DEF Calls
  <2> QED
    BY <1>4, <2>1, <2>2, <2>3, SendsGives DEF Rechain, TypeOK, consumer
<1>5. CASE AddChain(x)
  <2>1. c.hop \in Hops
    BY <1>0, <1>5 DEF AddChain, At, CallShape
  <2>2. (IF chain[c.hop] = 0 THEN [chain EXCEPT ![c.hop] = c.target] ELSE chain)
           \in [Hops -> Port0] /\ svc \in [Hops -> Port0]
    BY <1>0 DEF TypeOK, Calls
  <2>3. [c EXCEPT !.pc = "service"] \in Calls /\ [c EXCEPT !.pc = "failed"] \in Calls
    BY <1>0 DEF Calls
  <2> QED
    BY <1>5, <2>1, <2>2, <2>3, SendsGives DEF AddChain, TypeOK, consumer
<1>6. CASE AddService(x)
  <2>1. c.hop \in Hops
    BY <1>0, <1>6 DEF AddService, At, CallShape
  <2> DEFINE fails == [c EXCEPT !.pc = IF Middle(c.hop) THEN "undo" ELSE "failed"]
  <2>2. (IF svc[c.hop] = 0 THEN [svc EXCEPT ![c.hop] = c.port] ELSE svc)
           \in [Hops -> Port0] /\ chain \in [Hops -> Port0]
    BY <1>0 DEF TypeOK, Calls
  <2>3. [c EXCEPT !.pc = "write"] \in Calls /\ fails \in Calls
    BY <1>0 DEF Calls
  <2>4. CASE Reply(x, fails) /\ UNCHANGED <<svc, chain, blamed, faults>>
    BY <1>6, <2>3, <2>4, ReplyGives DEF AddService, TypeOK, consumer
  <2>5. CASE Sends(x, IF svc[c.hop] = 0 THEN [svc EXCEPT ![c.hop] = c.port] ELSE svc, chain,
                   [c EXCEPT !.pc = "write"], fails)
    BY <1>6, <2>1, <2>2, <2>3, <2>5, SendsGives DEF AddService, TypeOK, consumer
  <2> QED
    BY <1>6, <2>4, <2>5 DEF AddService
<1>7. CASE UndoChain(x)
  <2>1. c.hop \in Hops
    BY <1>0, <1>7 DEF UndoChain, At, CallShape
  <2>2. [chain EXCEPT ![c.hop] = 0] \in [Hops -> Port0] /\ svc \in [Hops -> Port0]
    BY <1>0 DEF TypeOK, Calls
  <2>3. [c EXCEPT !.pc = "failed"] \in Calls
    BY <1>0 DEF Calls
  <2> QED
    BY <1>7, <2>1, <2>2, <2>3, SendsGives DEF UndoChain, TypeOK, consumer
<1>8. CASE ApplyWrites(x)
  <2>1. c.hop \in Hops /\ c.port \in Ports
    BY <1>0, <1>8 DEF ApplyWrites, At, CallShape
  <2>2. [c EXCEPT !.pc = "ok"] \in Calls
    BY <1>0 DEF Calls
  <2>3. rows' \in [Hops -> Rows \cup {NoRow}]
    BY <1>8, <2>1 DEF ApplyWrites, TypeOK, Rows
  <2> QED
    BY <1>8, <2>2, <2>3, ReplyGives DEF ApplyWrites, TypeOK, consumer
<1>8a. CASE ApplyWriteFails(x)
  <2>1. [c EXCEPT !.pc = "failed"] \in Calls /\ c.hop \in Hops
    BY <1>0, <1>8a DEF ApplyWriteFails, At, CallShape, Calls
  <2>2. faults' \in 0 .. MaxFaults
    BY <1>8a, FaultType DEF ApplyWriteFails, TypeOK
  <2> QED
    BY <1>8a, <2>1, <2>2, ReplyGives DEF ApplyWriteFails, TypeOK, provider, consumer
<1>9. CASE ReleaseReads(x)
  <2>2. PICK d \in Calls : Reply(x, d)
    BY <1>0, <1>9 DEF ReleaseReads, Calls
  <2> QED
    BY <1>9, <2>2, ReplyGives DEF ReleaseReads, TypeOK, provider, consumer
<1>10. CASE DropService(x)
  <2>1. c.hop \in Hops
    BY <1>0, <1>10 DEF DropService, At, CallShape
  <2>2. [svc EXCEPT ![c.hop] = 0] \in [Hops -> Port0] /\ chain \in [Hops -> Port0]
    BY <1>0 DEF TypeOK, Calls
  <2>3. [c EXCEPT !.pc = IF Middle(c.hop) THEN "dropChain" ELSE "mark"] \in Calls
    BY <1>0 DEF Calls
  <2> QED
    BY <1>10, <2>1, <2>2, <2>3, SendsGives DEF DropService, TypeOK, consumer
<1>11. CASE DropChain(x)
  <2>1. c.hop \in Hops
    BY <1>0, <1>11 DEF DropChain, At, CallShape
  <2>2. [chain EXCEPT ![c.hop] = 0] \in [Hops -> Port0] /\ svc \in [Hops -> Port0]
    BY <1>0 DEF TypeOK, Calls
  <2>3. [c EXCEPT !.pc = "mark"] \in Calls
    BY <1>0 DEF Calls
  <2> QED
    BY <1>11, <2>1, <2>2, <2>3, SendsGives DEF DropChain, TypeOK, consumer
<1>12. CASE ReleaseMarks(x)
  <2>1. [c EXCEPT !.pc = "ok"] \in Calls
    BY <1>0 DEF Calls
  <2>2. rows' \in [Hops -> Rows \cup {NoRow}]
    BY <1>0, <1>12 DEF ReleaseMarks, Marked, At, CallShape, TypeOK, Rows
  <2> QED
    BY <1>12, <2>1, <2>2, ReplyGives DEF ReleaseMarks, TypeOK, consumer
<1>12a. CASE ReleaseMarkFails(x)
  <2>1. [c EXCEPT !.pc = "failed"] \in Calls /\ c.hop \in Hops
    BY <1>0, <1>12a DEF ReleaseMarkFails, At, CallShape, Calls
  <2>2. faults' \in 0 .. MaxFaults
    BY <1>12a, FaultType DEF ReleaseMarkFails, TypeOK
  <2> QED
    BY <1>12a, <2>1, <2>2, ReplyGives DEF ReleaseMarkFails, TypeOK, provider, consumer
<1> QED
  BY <1>1, <1>2, <1>2a, <1>3, <1>4, <1>5, <1>6, <1>7, <1>8, <1>8a, <1>9, <1>10, <1>11, <1>12,
     <1>12a DEF CallStep

\* A handler moves by itself, and so does its request.
LEMMA MovesType ==
    ASSUME TypeOK, NEW p \in Procs, NEW frame \in Frames, NEW call \in Calls,
           Moves(p, frame, call)
    PROVE  /\ proc' \in [Procs -> Frames] /\ serve' \in [Slots -> Calls]
           /\ proc'[p] = frame /\ serve'[p] = call
           /\ \A q \in Procs : q # p => proc'[q] = proc[q]
           /\ \A x \in Slots : x # p => serve'[x] = serve[x]
BY DEF Moves, TypeOK, Slots

\* A new request is of its type.
LEMMA CallingType ==
    ASSUME NEW op \in {"reserve", "apply", "release"}, NEW h \in Hops, NEW port \in Port0,
           NEW target \in Port0
    PROVE  Calling(op, h, port, target) \in Calls
BY DEF Calling, NoCall, Calls

\* So is a handler that goes back.
LEMMA GoesBackType ==
    ASSUME TypeOK, NEW p \in Procs, GoesBack(p)
    PROVE  proc' \in [Procs -> Frames] /\ serve' \in [Slots -> Calls]
<1>1. proc[p] \in Frames
  BY DEF TypeOK
<1>2. BackFrom(proc[p], "idle") \in Frames
  BY <1>1 DEF BackFrom, Frames
<1> QED
  BY <1>2, Constants, MovesType DEF GoesBack

\* A step of a handler keeps the types.
LEMMA ProcStepType ==
    ASSUME TypeOK, Shape, NEW p \in Procs, ProcStep(p)
    PROVE  TypeOK'
<1> DEFINE f == proc[p]
<1> USE Constants
<1>0. /\ f \in Frames /\ serve[p] \in Calls /\ FrameShape(f, serve[p])
      /\ f.pc \in Waiting => f.at \in Hops
  BY DEF TypeOK, Shape, Slots, FrameShape, HopsOf
<1>1. CASE Release(p)
  <2>1. PICK h \in f.todo :
          Moves(p, [f EXCEPT !.pc = "releasing", !.at = h], Calling("release", h, 0, 0))
    BY <1>1 DEF Release
  <2>2. h \in Hops /\ [f EXCEPT !.pc = "releasing", !.at = h] \in Frames
    BY <1>0, <2>1 DEF Frames
  <2>3. Calling("release", h, 0, 0) \in Calls
    BY <2>2, CallingType
  <2> QED
    BY <1>1, <2>1, <2>2, <2>3, MovesType DEF Release, TypeOK, provider
<1>2. CASE Released(p)
  <2> DEFINE left == f.todo \ {f.at}
             next == IF left = {} THEN f.then ELSE "release"
             goes == IF next = "idle" THEN Idle
                     ELSE [f EXCEPT !.pc = next, !.todo = left, !.at = NoHop]
  <2>1. goes \in Frames
    <3>1. left \subseteq Hops /\ next \in {"idle", "unbind", "forget", "cascade", "release"}
      BY <1>0 DEF Frames
    <3> HIDE DEF left, next
    <3>2. [f EXCEPT !.pc = next, !.todo = left, !.at = NoHop] \in Frames
      BY <1>0, <3>1 DEF Frames
    <3> QED
      BY <3>2
  <2>2. Moves(p, goes, NoCall)
    BY <1>2 DEF Released
  <2> QED
    BY <1>2, <2>1, <2>2, MovesType DEF Released, TypeOK, provider
<1>3. ASSUME Unbind(p) \/ UnbindFails(p) PROVE TypeOK'
  <2>1. bound' \in [Hops -> Port0]
    BY <1>3 DEF Unbind, UnbindFails, Forgotten, TypeOK
  <2>2. HopsOf(f.tunnel) \subseteq Hops
    BY DEF HopsOf
  <2>3. /\ [f EXCEPT !.pc = "pick", !.todo = HopsOf(f.tunnel)] \in Frames
        /\ [f EXCEPT !.pc = "cascade"] \in Frames
    BY <1>0, <2>2 DEF Frames
  <2>4. proc' \in {[proc EXCEPT ![p] = [f EXCEPT !.pc = "pick", !.todo = HopsOf(f.tunnel)]],
                   [proc EXCEPT ![p] = Idle], [proc EXCEPT ![p] = [f EXCEPT !.pc = "cascade"]]}
    BY <1>3 DEF Unbind, UnbindFails, CleanedUp, TypeOK
  <2>5. proc' \in [Procs -> Frames]
    BY <2>3, <2>4 DEF TypeOK
  <2>6. blamed' \subseteq Hops /\ faults' \in 0 .. MaxFaults
    <3>1. Held(f.tunnel) \subseteq Hops
      BY DEF Held, HopsOf
    <3> QED
      BY <1>3, <3>1, FaultType DEF Unbind, UnbindFails, TypeOK
  <2>7. UNCHANGED <<provider, missed, life, serve, asked>>
    BY <1>3 DEF Unbind, UnbindFails
  <2> QED
    BY <2>1, <2>5, <2>6, <2>7 DEF TypeOK, provider
<1>4. CASE Reserve(p)
  <2>1. PICK h \in f.todo : \E wanted \in PortsOf[ShareOf[h]] \cup {0} :
          Moves(p, [f EXCEPT !.pc = IF wanted = 0 THEN "retry" ELSE "reserve", !.at = h],
                Calling("reserve", h, wanted, 0))
    BY <1>4 DEF Reserve
  <2>2. PICK wanted \in PortsOf[ShareOf[h]] \cup {0} :
          Moves(p, [f EXCEPT !.pc = IF wanted = 0 THEN "retry" ELSE "reserve", !.at = h],
                Calling("reserve", h, wanted, 0))
    BY <2>1
  <2>3. h \in Hops
    BY <1>0 DEF Frames
  <2>4. wanted \in Port0
    BY <2>3 DEF Port0
  <2>5. [f EXCEPT !.pc = IF wanted = 0 THEN "retry" ELSE "reserve", !.at = h] \in Frames
    BY <1>0, <2>3 DEF Frames
  <2>6. Calling("reserve", h, wanted, 0) \in Calls
    BY <2>3, <2>4, CallingType
  <2> QED
    BY <1>4, <2>2, <2>5, <2>6, MovesType DEF Reserve, TypeOK, provider
<1>5. CASE ReserveAny(p)
  <2>1. f.at \in Hops /\ [f EXCEPT !.pc = "retry"] \in Frames
    BY <1>0, <1>5 DEF ReserveAny, Frames, Waiting
  <2>2. Calling("reserve", f.at, 0, 0) \in Calls
    BY <2>1, CallingType
  <2> QED
    BY <1>5, <2>1, <2>2, MovesType DEF ReserveAny, TypeOK, provider
<1>6. CASE Apply(p)
  <2> DEFINE goes == [f EXCEPT !.pc = "apply", !.port[f.at] = serve[p].port]
             target == IF Middle(f.at) THEN f.port[Below[f.at]] ELSE 0
  <2>1. f.at \in Hops
    BY <1>0, <1>6 DEF Apply, Waiting
  <2>2. goes \in Frames
    BY <1>0 DEF Frames, Calls
  <2>3. target \in Port0
    BY <1>0, <2>1, HopAssumption DEF Middle, Frames
  <2>4. Calling("apply", f.at, 0, target) \in Calls
    BY <2>1, <2>3, CallingType
  <2>5. CASE Moves(p, goes, Calling("apply", f.at, 0, target)) /\ UNCHANGED faults
    BY <1>6, <2>2, <2>4, <2>5, MovesType DEF Apply, TypeOK, provider
  <2>6. CASE Fault("host") /\ GoesBack(p)
    <3>1. faults' \in 0 .. MaxFaults
      BY <2>6, FaultType DEF TypeOK
    <3> QED
      BY <1>6, <2>6, <3>1, GoesBackType DEF Apply, TypeOK, provider
  <2> QED
    BY <1>6, <2>5, <2>6 DEF Apply
<1>7. CASE Applied(p)
  <2> DEFINE left == f.todo \ {f.at}
             goes == [f EXCEPT !.pc = IF left = {} THEN "commit" ELSE "pick", !.todo = left,
                               !.done = @ \cup {f.at}, !.at = NoHop,
                               !.port[f.at] = serve[p].port]
  <2>1. goes \in Frames
    <3>1. /\ f.at \in Hops /\ serve[p].port \in Port0 /\ left \subseteq Hops
          /\ f.done \cup {f.at} \subseteq Hops
      BY <1>0, <1>7 DEF Applied, Frames, Calls, Waiting
    <3>2. [f.port EXCEPT ![f.at] = serve[p].port] \in [Hops -> Port0]
      BY <1>0, <3>1 DEF Frames
    <3> HIDE DEF left
    <3> QED
      BY <1>0, <3>1, <3>2 DEF Frames
  <2>2. Moves(p, goes, NoCall)
    BY <1>7 DEF Applied
  <2> QED
    BY <1>7, <2>1, <2>2, MovesType DEF Applied, TypeOK, provider
<1>8. CASE SetupFails(p)
  BY <1>8, GoesBackType DEF SetupFails, TypeOK, provider
<1>9. CASE Domain(p)
  BY <1>0, <1>9 DEF Domain, TypeOK, Frames, provider
<1>10. CASE Commit(p)
  <2>1. bound' \in [Hops -> Port0] /\ life' \in [Tunnels -> {"new", "made", "gone"}]
    BY <1>0, <1>10 DEF Commit, TypeOK, Frames
  <2>2. proc' \in [Procs -> Frames]
    BY <1>0, <1>10 DEF Commit, TypeOK, Frames
  <2> QED
    BY <1>10, <2>1, <2>2 DEF Commit, TypeOK, provider
<1>11. CASE CommitFails(p)
  <2>1. PICK tx \in BOOLEAN : proc' = [proc EXCEPT ![p] = [BackFrom(@, "idle") EXCEPT !.tx = tx]]
    BY <1>11 DEF CommitFails
  <2>2. [BackFrom(f, "idle") EXCEPT !.tx = tx] \in Frames
    BY <1>0, <2>1 DEF BackFrom, Frames
  <2>3. proc' \in [Procs -> Frames]
    BY <2>1, <2>2 DEF TypeOK
  <2>4. faults' \in 0 .. MaxFaults
    BY <1>11, FaultType DEF CommitFails, TypeOK
  <2> QED
    BY <1>11, <2>3, <2>4 DEF CommitFails, TypeOK, provider
<1>12. CASE UpdateRefused(p)
  <2>1. faults' \in 0 .. MaxFaults
    BY <1>12, FaultType DEF UpdateRefused, TypeOK
  <2>2. proc' \in [Procs -> Frames] /\ blamed' \subseteq Hops
    BY <1>0, <1>12 DEF UpdateRefused, TypeOK, Frames
  <2> QED
    BY <1>12, <2>1, <2>2 DEF UpdateRefused, TypeOK, provider
<1>13. CASE Local(p)
  <2> DEFINE then == IF f.op = "create" THEN "cascade" ELSE "forget"
  <2>1. BackFrom(f, then) \in Frames
    BY <1>0 DEF BackFrom, Frames
  <2>2. proc' \in {[proc EXCEPT ![p] = Idle], [proc EXCEPT ![p] = BackFrom(f, then)]}
    BY <1>13 DEF Local, TypeOK
  <2>3. proc' \in [Procs -> Frames]
    BY <2>1, <2>2 DEF TypeOK
  <2>4. faults' \in 0 .. MaxFaults
    BY <1>13, FaultType DEF Local, TypeOK
  <2> QED
    BY <1>13, <2>3, <2>4 DEF Local, TypeOK, provider
<1>14. CASE Forget(p)
  BY <1>14 DEF Forget, Forgotten, TypeOK, provider
<1>15. CASE Cascade(p)
  BY <1>15 DEF Cascade, Forgotten, TypeOK, provider
<1>16. CASE LastFails(p)
  <2>1. faults' \in 0 .. MaxFaults
    BY <1>16, FaultType DEF LastFails, TypeOK
  <2>2. Held(f.tunnel) \subseteq Hops
    BY DEF Held, HopsOf
  <2> QED
    BY <1>16, <2>1, <2>2 DEF LastFails, TypeOK, provider
<1> QED
  BY <1>1, <1>2, <1>3, <1>4, <1>5, <1>6, <1>7, <1>8, <1>9, <1>10, <1>11, <1>12, <1>13, <1>14,
     <1>15, <1>16 DEF ProcStep

\* So does a request to the consumer, or what befalls one to the provider.
LEMMA AsksType ==
    ASSUME TypeOK, Shape, NEW p \in Procs, NEW t \in Tunnels,
           Create(p, t) \/ Update(p, t) \/ Delete(p, t)
    PROVE  TypeOK'
<1> USE Constants
<1>1. Asks(p) => asked' \in 0 .. MaxRequests
  BY BoundAssumption DEF Asks, TypeOK
<1>2. HopsOf(t) \subseteq Hops
  BY DEF HopsOf
<1>3. CASE Create(p, t)
  <2>1. [Idle EXCEPT !.op = "create", !.pc = "pick", !.tunnel = t, !.todo = HopsOf(t),
                     !.tx = TRUE] \in Frames
    BY <1>2 DEF Idle, Frames
  <2> QED
    BY <1>1, <1>3, <2>1 DEF Create, TypeOK, provider
<1>4. ASSUME NEW op \in {"update", "delete"}, NEW next \in {"pick", "cascade"},
             Cleans(p, op, t, next)
      PROVE  TypeOK'
  <2> DEFINE held == Held(t)
             goes == [Idle EXCEPT !.op = op, !.tunnel = t, !.then = "unbind",
                               !.pc = IF held = {} THEN next ELSE "release",
                               !.todo = IF held = {} THEN HopsOf(t) ELSE held]
  <2>1. goes \in Frames
    BY <1>2 DEF Held, Idle, Frames
  <2>2. blamed' \subseteq Hops
    BY <1>2, <1>4 DEF Cleans, Meets, TypeOK
  <2>3. proc' = [proc EXCEPT ![p] = goes]
    BY <1>4 DEF Cleans
  <2> QED
    BY <1>1, <1>4, <2>1, <2>2, <2>3 DEF Cleans, TypeOK, provider
<1>5. ASSUME NEW op \in {"update", "delete"}, NEW next \in {"pick", "cascade"},
             CleansNot(p, op, t, next)
      PROVE  TypeOK'
  <2> DEFINE goes == [Idle EXCEPT !.op = op, !.tunnel = t, !.then = "unbind",
                                  !.pc = next, !.todo = HopsOf(t)]
  <2>1. goes \in Frames
    BY <1>2 DEF Idle, Frames
  <2>2. blamed' \subseteq Hops /\ faults' \in 0 .. MaxFaults
    BY <1>2, <1>5, FaultType DEF CleansNot, Held, TypeOK
  <2>3. proc' = [proc EXCEPT ![p] = goes]
    BY <1>5 DEF CleansNot
  <2> QED
    BY <1>1, <1>5, <2>1, <2>2, <2>3 DEF CleansNot, TypeOK, provider
<1> QED
  BY <1>3, <1>4, <1>5 DEF Update, Delete

\* What befalls a request keeps the types.
LEMMA MishapType ==
    ASSUME TypeOK, Shape, NEW p \in Procs, Lost(p) \/ Timeout(p)
    PROVE  TypeOK'
<1> USE Constants
<1>1. serve[p] \in Calls /\ CallShape(serve[p]) /\ [serve[p] EXCEPT !.pc = "failed"] \in Calls
  BY DEF TypeOK, Shape, Slots, Calls
<1>2. CASE Lost(p)
  <2>1. serve[p].op = "release" => serve[p].hop \in Hops
    BY <1>1 DEF CallShape
  <2>2. faults' \in 0 .. MaxFaults
    BY <1>2, FaultType DEF Lost, TypeOK
  <2>3. serve' \in [Slots -> Calls]
    BY <1>1, <1>2 DEF Lost, TypeOK
  <2> QED
    BY <1>2, <2>1, <2>2, <2>3 DEF Lost, TypeOK, provider
<1>3. CASE Timeout(p)
  <2>1. serve[p].hop \in Hops
    BY <1>1, <1>3 DEF Timeout, CallShape
  <2>2. faults' \in 0 .. MaxFaults
    BY <1>3, FaultType DEF Timeout, TypeOK
  <2>3. PICK x \in Strays : serve' = [serve EXCEPT ![x] = serve[p], ![p].pc = "failed"]
    BY <1>3 DEF Timeout
  <2>4. serve' = [serve EXCEPT ![x] = serve[p], ![p] = [serve[p] EXCEPT !.pc = "failed"]]
    BY <2>3, ProcAssumption DEF TypeOK, Slots
  <2>5. serve' \in [Slots -> Calls]
    BY <1>1, <2>4 DEF TypeOK, Slots
  <2> QED
    BY <1>3, <2>1, <2>2, <2>5 DEF Timeout, TypeOK, provider, consumer
<1> QED
  BY <1>2, <1>3

\* So does the provider when it withdraws a share.
LEMMA ShareStepType ==
    ASSUME TypeOK, Shape, NEW s \in Shares,
           Upload(s) \/ DeleteShare(s) \/ ResetFlow(s) \/ SweepStep(s)
    PROVE  TypeOK'
<1> USE Constants
<1>1. ASSUME NEW final \in BOOLEAN, BeginSweep(s, final)
      PROVE  sweep' \in [Shares -> Sweeps] /\ cut' \subseteq Shares /\ faults' \in 0 .. MaxFaults
  <2>1. PICK listed \in {{h \in HopsIn(s) : Active(h)}, {}} :
          /\ sweep' = [sweep EXCEPT ![s] =
                         [on |-> TRUE, final |-> final, at |-> NoHop, todo |-> listed,
                          applied |-> {h \in listed : rows[h].applied}]]
          /\ \/ listed = {h \in HopsIn(s) : Active(h)} /\ UNCHANGED faults
             \/ listed = {} /\ Fault("storage")
    BY <1>1 DEF BeginSweep
  <2> DEFINE new == [on |-> TRUE, final |-> final, at |-> NoHop, todo |-> listed,
                     applied |-> {h \in listed : rows[h].applied}]
  <2>2. new \in Sweeps
    BY <2>1 DEF Sweeps, HopsIn
  <2>3. faults' \in 0 .. MaxFaults
    BY <2>1, FaultType DEF TypeOK
  <2> HIDE DEF new
  <2>4. sweep' = [sweep EXCEPT ![s] = new]
    BY <2>1 DEF new
  <2> QED
    BY <1>1, <2>2, <2>3, <2>4 DEF BeginSweep, TypeOK
<1>2. CASE Upload(s)
  BY <1>1, <1>2 DEF Upload, TypeOK, consumer
<1>3. CASE DeleteShare(s)
  BY <1>1, <1>3 DEF DeleteShare, TypeOK, consumer
<1>4. CASE ResetFlow(s)
  BY <1>4 DEF ResetFlow, TypeOK, consumer
<1>5. ASSUME NEW h \in Hops, SweepDrops(s, h) PROVE TypeOK'
  <2>1. sweep' \in [Shares -> Sweeps]
    BY <1>5 DEF SweepDrops, TypeOK, Sweeps
  <2>2. faults' \in 0 .. MaxFaults
    BY <1>5, FaultType DEF SweepDrops, TypeOK
  <2> QED
    BY <1>5, <2>1, <2>2 DEF SweepDrops, TypeOK, consumer
<1>6. CASE SweepMarks(s)
  <2>1. sweep' \in [Shares -> Sweeps]
    BY <1>6 DEF SweepMarks, TypeOK, Sweeps
  <2>2. sweep[s].at \in Hops
    BY <1>6 DEF SweepMarks, TypeOK, Sweeps
  <2>3. rows' \in [Hops -> Rows \cup {NoRow}]
    BY <1>6, <2>2 DEF SweepMarks, Marked, TypeOK, Rows
  <2> QED
    BY <1>6, <2>1, <2>2, <2>3 DEF SweepMarks, TypeOK, consumer
<1>7. CASE SweepEnds(s)
  BY <1>7 DEF SweepEnds, HopsIn, TypeOK, consumer
<1>8. CASE SweepMarkFails(s)
  <2>1. sweep' \in [Shares -> Sweeps]
    BY <1>8 DEF SweepMarkFails, TypeOK, Sweeps
  <2>2. sweep[s].at \in Hops /\ faults' \in 0 .. MaxFaults
    BY <1>8, FaultType DEF SweepMarkFails, TypeOK, Sweeps
  <2> QED
    BY <1>8, <2>1, <2>2 DEF SweepMarkFails, TypeOK, consumer
<1>9. CASE SweepEndFails(s)
  <2>1. faults' \in 0 .. MaxFaults
    BY <1>9, FaultType DEF SweepEndFails, TypeOK
  <2> QED
    BY <1>9, <2>1 DEF SweepEndFails, HopsIn, TypeOK, consumer
<1> QED
  BY <1>2, <1>3, <1>4, <1>5, <1>6, <1>7, <1>8, <1>9 DEF SweepStep

\* Every step keeps the variables in their types.
LEMMA TypeStep == TypeOK /\ Shape /\ [Next]_vars => TypeOK'
<1> SUFFICES ASSUME TypeOK, Shape, [Next]_vars PROVE TypeOK'
  OBVIOUS
<1>1. CASE UNCHANGED vars
  BY <1>1 DEF TypeOK, vars, provider, consumer
<1>2. CASE Next
  BY <1>2, CallStepType, ProcStepType, AsksType, MishapType, ShareStepType DEF Next
<1> QED
  BY <1>1, <1>2

-----------------------------------------------------------------------------
(* Shapes.                                                                 *)

\* A step of a request takes it to a step of the same handler, and is the only
\* thing that changes outside the node and the hop's row.
LEMMA CallStepShape ==
    ASSUME TypeOK, Shape, NEW x \in Slots, CallStep(x)
    PROVE  /\ serve[x].op # "none" /\ serve[x].hop \in Hops
           /\ \A y \in Slots : y # x => serve'[y] = serve[y]
           /\ \/ /\ serve'[x].op = serve[x].op /\ serve'[x].hop = serve[x].hop
                 /\ CallShape(serve'[x])
              \/ x \in Strays /\ serve'[x] = NoCall
           /\ UNCHANGED <<share, sweep, cut, consumer, asked>>
<1> DEFINE c == serve[x]
           Keeps(d) == d \in Calls /\ d.op = c.op /\ d.hop = c.hop /\ CallShape(d)
           Goal == /\ \A y \in Slots : y # x => serve'[y] = serve[y]
                   /\ \/ Keeps(serve'[x])
                      \/ x \in Strays /\ serve'[x] = NoCall
<1> USE Constants
<1>0. c \in Calls /\ CallShape(c)
  BY DEF TypeOK, Shape
<1>1. c.op # "none" /\ c.hop \in Hops
  <2>0. c.pc # "none"
    BY DEF CallStep, At, ReserveReads, ReserveInserts, CallFails, ApplyReads, Rechain, AddChain,
       AddService, UndoChain, ApplyWrites, ApplyWriteFails, ReleaseReads, DropService, DropChain,
       ReleaseMarks, ReleaseMarkFails
  <2>1. c.op # "none"
    BY <1>0, <2>0 DEF CallShape, NoCall
  <2> QED
    BY <1>0, <2>1 DEF CallShape
<1>2. UNCHANGED <<share, sweep, cut, consumer, asked>>
  BY DEF CallStep, ReserveReads, ReserveInserts, CallFails, ApplyReads, Rechain, AddChain,
     AddService, UndoChain, ApplyWrites, ApplyWriteFails, ReleaseReads, DropService, DropChain,
     ReleaseMarks, ReleaseMarkFails, provider
<1>3. ASSUME NEW d, Keeps(d), Reply(x, d) PROVE Goal
  BY <1>3, ReplyGives
<1>4. ASSUME NEW svcDone, NEW chainDone, NEW done, NEW failed, Keeps(done), Keeps(failed),
             Sends(x, svcDone, chainDone, done, failed)
      PROVE  Goal
  BY <1>3, <1>4 DEF Sends
<1> SUFFICES Goal
  BY <1>1, <1>2
<1> HIDE DEF Goal, Keeps
<1>5. CASE ReserveReads(x)
  <2>1. Free(ShareOf[c.hop]) \subseteq Ports
    BY <1>1 DEF Free
  <2>2. Active(c.hop) => rows[c.hop].port \in Ports
    BY <1>1 DEF Active, TypeOK, Rows
  <2>3. PICK d : Keeps(d) /\ Reply(x, d)
    BY <1>0, <1>1, <1>5, <2>1, <2>2 DEF ReserveReads, At, Calls, CallShape, Keeps
  <2> QED
    BY <1>3, <2>3
<1>6. CASE ReserveInserts(x)
  <2>1. \A pc \in {"ok", "failed"} : Keeps([c EXCEPT !.pc = pc])
    BY <1>0, <1>1, <1>6 DEF ReserveInserts, At, Calls, CallShape, Keeps
  <2> QED
    BY <1>3, <1>6, <2>1 DEF ReserveInserts
<1>7. CASE ApplyReads(x)
  <2>1. Active(c.hop) => rows[c.hop].port \in Ports
    BY <1>1 DEF Active, TypeOK, Rows
  <2>2. PICK d : Keeps(d) /\ Reply(x, d)
    BY <1>0, <1>1, <1>7, <2>1 DEF ApplyReads, At, Calls, CallShape, Keeps
  <2> QED
    BY <1>3, <2>2
<1>8. CASE Rechain(x)
  <2>1. \A pc \in {"write", "failed"} : Keeps([c EXCEPT !.pc = pc])
    BY <1>0, <1>1, <1>8 DEF Rechain, At, Calls, CallShape, Keeps
  <2> QED
    BY <1>4, <1>8, <2>1 DEF Rechain
<1>9. CASE AddChain(x)
  <2>1. \A pc \in {"service", "failed"} : Keeps([c EXCEPT !.pc = pc])
    BY <1>0, <1>1, <1>9 DEF AddChain, At, Calls, CallShape, Keeps
  <2> QED
    BY <1>4, <1>9, <2>1 DEF AddChain
<1>10. CASE AddService(x)
  <2>1. /\ Keeps([c EXCEPT !.pc = "write"])
        /\ Keeps([c EXCEPT !.pc = IF Middle(c.hop) THEN "undo" ELSE "failed"])
    BY <1>0, <1>1, <1>10 DEF AddService, At, Calls, CallShape, Keeps
  <2> QED
    BY <1>3, <1>4, <1>10, <2>1 DEF AddService
<1>11. CASE UndoChain(x)
  <2>1. \A pc \in {"failed"} : Keeps([c EXCEPT !.pc = pc])
    BY <1>0, <1>1, <1>11 DEF UndoChain, At, Calls, CallShape, Keeps
  <2> QED
    BY <1>4, <1>11, <2>1 DEF UndoChain
<1>12. CASE ApplyWrites(x)
  <2>1. \A pc \in {"ok"} : Keeps([c EXCEPT !.pc = pc])
    BY <1>0, <1>1, <1>12 DEF ApplyWrites, At, Calls, CallShape, Keeps
  <2> QED
    BY <1>3, <1>12, <2>1 DEF ApplyWrites
<1>13. CASE ReleaseReads(x)
  <2>1. \A pc \in {"failed", "dropService", "ok"} : Keeps([c EXCEPT !.pc = pc])
    BY <1>0, <1>1, <1>13 DEF ReleaseReads, At, Calls, CallShape, Keeps
  <2> QED
    BY <1>3, <1>13, <2>1 DEF ReleaseReads
<1>14. CASE DropService(x)
  <2>1. Keeps([c EXCEPT !.pc = IF Middle(c.hop) THEN "dropChain" ELSE "mark"])
    BY <1>0, <1>1, <1>14 DEF DropService, At, Calls, CallShape, Keeps
  <2> QED
    BY <1>4, <1>14, <2>1 DEF DropService
<1>15. CASE DropChain(x)
  <2>1. \A pc \in {"mark"} : Keeps([c EXCEPT !.pc = pc])
    BY <1>0, <1>1, <1>15 DEF DropChain, At, Calls, CallShape, Keeps
  <2> QED
    BY <1>4, <1>15, <2>1 DEF DropChain
<1>16. CASE ReleaseMarks(x)
  <2>1. \A pc \in {"ok"} : Keeps([c EXCEPT !.pc = pc])
    BY <1>0, <1>1, <1>16 DEF ReleaseMarks, At, Calls, CallShape, Keeps
  <2> QED
    BY <1>3, <1>16, <2>1 DEF ReleaseMarks
<1>17. ASSUME CallFails(x) \/ ApplyWriteFails(x) \/ ReleaseMarkFails(x) PROVE Goal
  <2>1. Keeps([c EXCEPT !.pc = "failed"])
    BY <1>0, <1>1, <1>17 DEF CallFails, ApplyWriteFails, ReleaseMarkFails, At, Calls, CallShape,
       Keeps
  <2> QED
    BY <1>3, <1>17, <2>1 DEF CallFails, ApplyWriteFails, ReleaseMarkFails
<1> QED
  BY <1>5, <1>6, <1>7, <1>8, <1>9, <1>10, <1>11, <1>12, <1>13, <1>14, <1>15, <1>16, <1>17
  DEF CallStep

\* No request, no handler.
LEMMA AtRestShape == CallShape(NoCall) /\ FrameShape(Idle, NoCall)
BY Constants DEF CallShape, FrameShape, NoCall, Idle, Setup, Waiting

\* A new request has the shape of one.
LEMMA CallingShape ==
    ASSUME NEW op \in {"reserve", "apply", "release"}, NEW h \in Hops, NEW port, NEW target
    PROVE  CallShape(Calling(op, h, port, target))
BY DEF CallShape, Calling, NoCall

\* A handler that goes back releases hops of its tunnel.
LEMMA GoesBackShape ==
    ASSUME TypeOK, Shape, NEW p \in Procs, GoesBack(p), proc[p].op # "none"
    PROVE  CallShape(serve'[p]) /\ FrameShape(proc'[p], serve'[p])
<1>0. proc[p] \in Frames /\ FrameShape(proc[p], serve[p])
  BY DEF TypeOK, Shape
<1>1. BackFrom(proc[p], "idle") \in Frames
  BY <1>0 DEF BackFrom, Frames
<1>2. FrameShape(BackFrom(proc[p], "idle"), NoCall)
  BY <1>0 DEF FrameShape, BackFrom, Frames, Setup, Waiting, HopsOf
<1> QED
  BY <1>1, <1>2, AtRestShape, MovesType, Constants DEF GoesBack

\* A step of a handler changes nothing at the provider, and of the handlers and
\* requests its own.
LEMMA ProcStepShape ==
    ASSUME TypeOK, Shape, NEW p \in Procs, ProcStep(p)
    PROVE  /\ CallShape(serve'[p]) /\ FrameShape(proc'[p], serve'[p])
           /\ \A q \in Procs : q # p => proc'[q] = proc[q]
           /\ \A x \in Slots : x # p => serve'[x] = serve[x]
           /\ proc[p].op # "none"
           /\ UNCHANGED provider
<1> DEFINE f == proc[p]
           Own == /\ CallShape(serve'[p]) /\ FrameShape(proc'[p], serve'[p])
                  /\ \A q \in Procs : q # p => proc'[q] = proc[q]
                  /\ \A x \in Slots : x # p => serve'[x] = serve[x]
<1> USE Constants
<1>0. /\ f \in Frames /\ serve[p] \in Calls /\ FrameShape(f, serve[p])
      /\ p \in Slots /\ proc \in [Procs -> Frames]
  BY DEF TypeOK, Shape, Slots
<1>1. UNCHANGED provider
  BY DEF ProcStep, Release, Released, Unbind, UnbindFails, Reserve, ReserveAny, Apply, Applied,
     SetupFails, Domain, Commit, CommitFails, UpdateRefused, Local, Forget, Cascade, LastFails
<1>2. f.op # "none"
  <2>1. f.pc # "idle"
    BY DEF ProcStep, Release, Released, Unbind, UnbindFails, Reserve, ReserveAny, Apply, Applied,
       SetupFails, Domain, Commit, CommitFails, UpdateRefused, Local, Forget, Cascade, LastFails
  <2> QED
    BY <1>0, <2>1 DEF FrameShape, Idle
<1> SUFFICES Own
  BY <1>1, <1>2
<1>3. ASSUME NEW g \in Frames, NEW d \in Calls, Moves(p, g, d), FrameShape(g, d), CallShape(d)
      PROVE  Own
  BY <1>3, MovesType
<1>4. ASSUME NEW g \in Frames, proc' = [proc EXCEPT ![p] = g], FrameShape(g, NoCall),
             UNCHANGED serve, f.pc \notin Waiting
      PROVE  Own
  BY <1>0, <1>4, AtRestShape DEF FrameShape
<1>5. GoesBack(p) => Own
  <2>1. ASSUME GoesBack(p)
        PROVE  /\ \A q \in Procs : q # p => proc'[q] = proc[q]
               /\ \A x \in Slots : x # p => serve'[x] = serve[x]
    BY <1>0, <2>1 DEF GoesBack, Moves, TypeOK
  <2> QED
    BY <1>2, <2>1, GoesBackShape
<1>6. \A then \in {"idle", "cascade", "forget"} :
         BackFrom(f, then) \in Frames /\ FrameShape(BackFrom(f, then), NoCall)
  BY <1>0, <1>2 DEF BackFrom, FrameShape, Frames, Setup, Waiting, HopsOf
<1> HIDE DEF Own
<1>7. CASE Release(p)
  <2>1. PICK h \in f.todo :
          Moves(p, [f EXCEPT !.pc = "releasing", !.at = h], Calling("release", h, 0, 0))
    BY <1>7 DEF Release
  <2> DEFINE g == [f EXCEPT !.pc = "releasing", !.at = h]
             d == Calling("release", h, 0, 0)
  <2>2. h \in Hops
    BY <1>0 DEF Frames
  <2>3. g \in Frames
    BY <1>0, <2>2 DEF Frames
  <2>4. d \in Calls /\ CallShape(d)
    BY <2>2, CallingType, CallingShape
  <2>5. FrameShape(g, d)
    BY <1>0, <1>2, <1>7 DEF Release, FrameShape, Frames, Setup, Waiting, Calling, NoCall, Calls
  <2> QED
    BY <1>3, <2>1, <2>3, <2>4, <2>5
<1>8. CASE Released(p)
  <2> DEFINE left == f.todo \ {f.at}
             next == IF left = {} THEN f.then ELSE "release"
             g == [f EXCEPT !.pc = next, !.todo = left, !.at = NoHop]
  <2>1. Moves(p, IF next = "idle" THEN Idle ELSE g, NoCall)
    BY <1>8 DEF Released
  <2>2. f.pc = "releasing" /\ left \subseteq HopsOf(f.tunnel) /\ left \subseteq Hops
    BY <1>0, <1>8 DEF Released, FrameShape, Frames
  <2>3. next \in {"idle", "unbind", "forget", "cascade", "release"}
    BY <1>0 DEF Frames
  <2>4. next \in {"release", "unbind"} => f.then = "unbind" \/ next = "release"
    OBVIOUS
  <2> HIDE DEF left, next
  <2>5. g \in Frames
    BY <1>0, <2>2, <2>3 DEF Frames
  <2>6. ASSUME next # "idle" PROVE FrameShape(g, NoCall)
    BY <1>0, <1>2, <2>2, <2>3, <2>4, <2>6 DEF FrameShape, Frames, Setup, Waiting
  <2> QED
    BY <1>3, <2>1, <2>5, <2>6, AtRestShape
<1>9. ASSUME Unbind(p) \/ UnbindFails(p) PROVE Own
  <2> DEFINE g == [f EXCEPT !.pc = "pick", !.todo = HopsOf(f.tunnel)]
             e == [f EXCEPT !.pc = "cascade"]
  <2>1. f.pc = "unbind" /\ HopsOf(f.tunnel) \subseteq Hops
    BY <1>9 DEF Unbind, UnbindFails, HopsOf
  <2>2. g \in Frames /\ e \in Frames
    BY <1>0, <2>1 DEF Frames
  <2>3. FrameShape(g, NoCall) /\ FrameShape(e, NoCall)
    BY <1>0, <1>2, <2>1 DEF FrameShape, Frames, Setup, Waiting
  <2>4. /\ proc' \in {[proc EXCEPT ![p] = g], [proc EXCEPT ![p] = e], [proc EXCEPT ![p] = Idle]}
        /\ UNCHANGED serve
    BY <1>0, <1>9 DEF Unbind, UnbindFails, CleanedUp
  <2> QED
    BY <1>4, <2>1, <2>2, <2>3, <2>4, AtRestShape DEF Waiting
<1>10. CASE Reserve(p)
  <2>1. PICK h \in f.todo : \E wanted \in PortsOf[ShareOf[h]] \cup {0} :
          Moves(p, [f EXCEPT !.pc = IF wanted = 0 THEN "retry" ELSE "reserve", !.at = h],
                Calling("reserve", h, wanted, 0))
    BY <1>10 DEF Reserve
  <2>2. PICK wanted \in PortsOf[ShareOf[h]] \cup {0} :
          Moves(p, [f EXCEPT !.pc = IF wanted = 0 THEN "retry" ELSE "reserve", !.at = h],
                Calling("reserve", h, wanted, 0))
    BY <2>1
  <2> DEFINE g == [f EXCEPT !.pc = IF wanted = 0 THEN "retry" ELSE "reserve", !.at = h]
             d == Calling("reserve", h, wanted, 0)
  <2>3. h \in Hops /\ wanted \in Port0
    <3>1. h \in Hops
      BY <1>0 DEF Frames
    <3> QED
      BY <3>1 DEF Port0
  <2>4. g \in Frames
    BY <1>0, <2>3 DEF Frames
  <2>5. d \in Calls /\ CallShape(d)
    BY <2>3, CallingType, CallingShape
  <2>6. FrameShape(g, d)
    BY <1>0, <1>2, <1>10 DEF Reserve, FrameShape, Frames, Setup, Waiting, Calling, NoCall, Calls
  <2> QED
    BY <1>3, <2>2, <2>4, <2>5, <2>6
<1>11. CASE ReserveAny(p)
  <2> DEFINE g == [f EXCEPT !.pc = "retry"]
             d == Calling("reserve", f.at, 0, 0)
  <2>1. f.at \in Hops /\ f.at \in f.todo
    BY <1>0, <1>11 DEF ReserveAny, FrameShape, Frames, Waiting
  <2>2. g \in Frames
    BY <1>0 DEF Frames
  <2>3. d \in Calls /\ CallShape(d)
    BY <2>1, CallingType, CallingShape
  <2>4. FrameShape(g, d)
    BY <1>0, <1>2, <1>11, <2>1 DEF ReserveAny, FrameShape, Frames, Setup, Waiting, Calling, NoCall,
       Calls
  <2> QED
    BY <1>3, <1>11, <2>2, <2>3, <2>4 DEF ReserveAny
<1>12. CASE Apply(p)
  <2> DEFINE g == [f EXCEPT !.pc = "apply", !.port[f.at] = serve[p].port]
             target == IF Middle(f.at) THEN f.port[Below[f.at]] ELSE 0
             d == Calling("apply", f.at, 0, target)
  <2>1. f.at \in Hops /\ f.at \in f.todo
    BY <1>0, <1>12 DEF Apply, FrameShape, Frames, Waiting
  <2>2. g \in Frames
    BY <1>0 DEF Frames, Calls
  <2>3. target \in Port0
    BY <1>0, <2>1, HopAssumption DEF Middle, Frames
  <2>4. d \in Calls /\ CallShape(d)
    BY <2>1, <2>3, CallingType, CallingShape
  <2>5. FrameShape(g, d)
    <3>1. f.pc \in {"reserve", "retry"}
      BY <1>12 DEF Apply
    <3>2. d.hop = f.at /\ d.op = "apply" /\ d # NoCall
      BY <2>4 DEF Calling, NoCall
    <3> HIDE DEF d
    <3> QED
      BY <1>0, <1>2, <2>1, <3>1, <3>2 DEF FrameShape, Frames, Setup, Waiting
  <2> QED
    BY <1>3, <1>5, <1>12, <2>2, <2>4, <2>5 DEF Apply
<1>13. CASE Applied(p)
  <2> DEFINE left == f.todo \ {f.at}
             g == [f EXCEPT !.pc = IF left = {} THEN "commit" ELSE "pick", !.todo = left,
                            !.done = @ \cup {f.at}, !.at = NoHop, !.port[f.at] = serve[p].port]
  <2>1. /\ f.pc = "apply" /\ f.at \in f.todo /\ f.todo \subseteq HopsOf(f.tunnel)
        /\ HopsOf(f.tunnel) \subseteq Hops
    BY <1>0, <1>13 DEF Applied, FrameShape, Waiting, HopsOf
  <2>2. [f.port EXCEPT ![f.at] = serve[p].port] \in [Hops -> Port0]
    BY <1>0, <2>1 DEF Frames, Calls
  <2>3. g \in Frames
    <3>1. left \subseteq Hops /\ f.done \cup {f.at} \subseteq Hops
      BY <1>0, <2>1 DEF Frames
    <3> HIDE DEF left
    <3> QED
      BY <1>0, <2>2, <3>1 DEF Frames
  <2>4. FrameShape(g, NoCall)
    <3>1. /\ left \subseteq HopsOf(f.tunnel) /\ f.done \cup {f.at} \subseteq HopsOf(f.tunnel)
          /\ left \cup (f.done \cup {f.at}) = HopsOf(f.tunnel)
          /\ left \cap (f.done \cup {f.at}) = {}
      BY <1>0, <2>1 DEF FrameShape, Setup
    <3> HIDE DEF left
    <3> QED
      BY <1>0, <1>2, <2>1, <2>2, <3>1 DEF FrameShape, Frames, Setup, Waiting
  <2> QED
    BY <1>3, <1>13, <2>3, <2>4, AtRestShape DEF Applied
<1>14. CASE SetupFails(p)
  BY <1>5, <1>14 DEF SetupFails
<1>15. CASE Domain(p)
  <2> DEFINE g == [f EXCEPT !.pc = "release", !.todo = f.done]
  <2>1. g \in Frames
    BY <1>0 DEF Frames
  <2>2. FrameShape(g, NoCall)
    BY <1>0, <1>2, <1>15 DEF Domain, FrameShape, Frames, Setup, Waiting
  <2> QED
    BY <1>0, <1>4, <1>15, <2>1, <2>2 DEF Domain, Waiting
<1>16. CASE Commit(p)
  <2> DEFINE g == [f EXCEPT !.pc = "local", !.tx = FALSE]
  <2>1. g \in Frames
    BY <1>0 DEF Frames
  <2>2. FrameShape(g, NoCall)
    BY <1>0, <1>2, <1>16 DEF Commit, FrameShape, Frames, Setup, Waiting
  <2> QED
    BY <1>0, <1>4, <1>16, <2>1, <2>2 DEF Commit, Waiting
<1>17. CASE CommitFails(p)
  <2>1. PICK tx \in BOOLEAN : proc' = [proc EXCEPT ![p] = [BackFrom(f, "idle") EXCEPT !.tx = tx]]
    BY <1>0, <1>17 DEF CommitFails
  <2> DEFINE b == BackFrom(f, "idle")
             g == [b EXCEPT !.tx = tx]
  <2>2. g \in Frames /\ FrameShape(g, NoCall)
    <3>1. b.op # "none" /\ b \in Frames /\ FrameShape(b, NoCall)
      BY <1>2, <1>6 DEF BackFrom
    <3> HIDE DEF b
    <3> QED
      BY <3>1 DEF FrameShape, Frames
  <2> QED
    BY <1>4, <1>17, <2>1, <2>2 DEF CommitFails, Waiting
<1>18. CASE UpdateRefused(p)
  BY <1>4, <1>18, AtRestShape DEF UpdateRefused, Waiting
<1>19. CASE Local(p)
  <2> DEFINE then == IF f.op = "create" THEN "cascade" ELSE "forget"
  <2>1. proc' \in {[proc EXCEPT ![p] = Idle], [proc EXCEPT ![p] = BackFrom(f, then)]}
    BY <1>0, <1>19 DEF Local
  <2> QED
    BY <1>4, <1>6, <1>19, <2>1, AtRestShape DEF Local, Waiting
<1>20. CASE Forget(p)
  BY <1>4, <1>20, AtRestShape DEF Forget, Waiting
<1>21. CASE Cascade(p)
  BY <1>4, <1>21, AtRestShape DEF Cascade, Waiting
<1>22. CASE LastFails(p)
  BY <1>4, <1>22, AtRestShape DEF LastFails, Waiting
<1> QED
  BY <1>7, <1>8, <1>9, <1>10, <1>11, <1>12, <1>13, <1>14, <1>15, <1>16, <1>17, <1>18, <1>19,
     <1>20, <1>21, <1>22 DEF ProcStep

\* A request to the consumer starts a handler, and nothing else.
LEMMA AsksShape ==
    ASSUME TypeOK, Shape, NEW p \in Procs, NEW t \in Tunnels,
           Create(p, t) \/ Update(p, t) \/ Delete(p, t)
    PROVE  /\ proc[p] = Idle /\ FrameShape(proc'[p], serve[p])
           /\ proc'[p].tunnel = t
           /\ \A q \in Procs : q # p => proc'[q] = proc[q]
           /\ UNCHANGED <<provider, serve>>
<1> USE Constants
<1>1. proc \in [Procs -> Frames] /\ FrameShape(proc[p], serve[p])
  BY DEF TypeOK, Shape
<1>2. proc[p] = Idle /\ serve[p] = NoCall /\ UNCHANGED <<provider, serve>>
  <2>1. proc[p] = Idle /\ UNCHANGED <<provider, serve>>
    BY DEF Create, Update, Delete, Cleans, CleansNot, Asks
  <2> QED
    BY <1>1, <2>1 DEF FrameShape, Idle, Waiting
<1>3. CASE Create(p, t)
  <2> DEFINE g == [Idle EXCEPT !.op = "create", !.pc = "pick", !.tunnel = t,
                               !.todo = HopsOf(t), !.tx = TRUE]
  <2>1. FrameShape(g, NoCall) /\ g.tunnel = t
    BY DEF FrameShape, Idle, Setup, Waiting
  <2>2. proc' = [proc EXCEPT ![p] = g]
    BY <1>3 DEF Create
  <2> HIDE DEF g
  <2> QED
    BY <1>1, <1>2, <2>1, <2>2
<1>4. ASSUME NEW op \in {"update", "delete"}, NEW next \in {"pick", "cascade"},
             Cleans(p, op, t, next)
      PROVE  /\ FrameShape(proc'[p], NoCall) /\ proc'[p].tunnel = t
             /\ \A q \in Procs : q # p => proc'[q] = proc[q]
  <2> DEFINE held == Held(t)
             g == [Idle EXCEPT !.op = op, !.tunnel = t, !.then = "unbind",
                               !.pc = IF held = {} THEN next ELSE "release",
                               !.todo = IF held = {} THEN HopsOf(t) ELSE held]
  <2>1. held \subseteq HopsOf(t)
    BY DEF Held
  <2> HIDE DEF held
  <2>2. FrameShape(g, NoCall) /\ g.tunnel = t
    BY <2>1 DEF FrameShape, Idle, Setup, Waiting
  <2>3. proc' = [proc EXCEPT ![p] = g]
    BY <1>4 DEF Cleans, held
  <2> HIDE DEF g
  <2> QED
    BY <1>1, <2>2, <2>3
<1>5. ASSUME NEW op \in {"update", "delete"}, NEW next \in {"pick", "cascade"},
             CleansNot(p, op, t, next)
      PROVE  /\ FrameShape(proc'[p], NoCall) /\ proc'[p].tunnel = t
             /\ \A q \in Procs : q # p => proc'[q] = proc[q]
  <2> DEFINE g == [Idle EXCEPT !.op = op, !.tunnel = t, !.then = "unbind",
                               !.pc = next, !.todo = HopsOf(t)]
  <2>1. FrameShape(g, NoCall) /\ g.tunnel = t
    BY DEF FrameShape, Idle, Setup, Waiting
  <2>2. proc' = [proc EXCEPT ![p] = g]
    BY <1>5 DEF CleansNot
  <2> HIDE DEF g
  <2> QED
    BY <1>1, <2>1, <2>2
<1> QED
  BY <1>2, <1>3, <1>4, <1>5 DEF Update, Delete

\* A request that is lost or given up ends for its handler.
LEMMA MishapShape ==
    ASSUME TypeOK, Shape, NEW p \in Procs, Lost(p) \/ Timeout(p)
    PROVE  /\ serve'[p] = [serve[p] EXCEPT !.pc = "failed"] /\ CallShape(serve'[p])
           /\ \A x \in Slots : x # p => serve'[x] \in {serve[x], serve[p]}
           /\ serve[p].op # "none" /\ serve[p].hop \in Hops
           /\ UNCHANGED <<provider, proc>>
<1> USE Constants
<1>1. /\ serve \in [Slots -> Calls] /\ CallShape(serve[p]) /\ p \in Slots
  BY DEF TypeOK, Shape, Slots
<1>2. serve[p].op # "none"
  BY <1>1 DEF Lost, Timeout, CallShape, NoCall
<1>3. serve[p].hop \in Hops /\ CallShape([serve[p] EXCEPT !.pc = "failed"])
  BY <1>1, <1>2 DEF CallShape, Calls
<1>4. UNCHANGED <<provider, proc>>
  BY DEF Lost, Timeout, consumer
<1>5. /\ serve'[p] = [serve[p] EXCEPT !.pc = "failed"]
      /\ \A x \in Slots : x # p => serve'[x] \in {serve[x], serve[p]}
  <2>1. CASE Lost(p)
    BY <1>1, <2>1 DEF Lost
  <2>2. CASE Timeout(p)
    <3>1. PICK x \in Strays : serve' = [serve EXCEPT ![x] = serve[p], ![p].pc = "failed"]
      BY <2>2 DEF Timeout
    <3>2. x # p /\ x \in Slots
      BY ProcAssumption DEF Slots
    <3> QED
      BY <1>1, <3>1, <3>2
  <2> QED
    BY <2>1, <2>2
<1> QED
  BY <1>2, <1>3, <1>4, <1>5

\* A withdrawal stays with its share, and leaves the consumer alone.
LEMMA ShareStepShape ==
    ASSUME TypeOK, Shape, NEW s \in Shares,
           Upload(s) \/ DeleteShare(s) \/ ResetFlow(s) \/ SweepStep(s)
    PROVE  /\ \A r \in Shares : SweepShape(r)'
           /\ \A r \in Shares : r # s => sweep'[r] = sweep[r] /\ share'[r] = share[r]
           /\ cut \subseteq cut'
           /\ UNCHANGED <<consumer, serve>>
<1> USE Constants
<1>1. /\ sweep \in [Shares -> Sweeps] /\ share \in [Shares -> {"open", "over", "gone"}]
      /\ \A r \in Shares : SweepShape(r)
  BY DEF TypeOK, Shape
<1>2. UNCHANGED <<consumer, serve>>
  BY DEF Upload, DeleteShare, ResetFlow, SweepStep, SweepDrops, SweepMarks, SweepMarkFails,
     SweepEnds, SweepEndFails
<1>3. ASSUME NEW final \in BOOLEAN, BeginSweep(s, final),
             share' \in {share, [share EXCEPT ![s] = "over"]}
      PROVE  /\ \A r \in Shares : SweepShape(r)'
             /\ \A r \in Shares : r # s => sweep'[r] = sweep[r] /\ share'[r] = share[r]
             /\ cut \subseteq cut'
  <2>0. PICK listed \in {{h \in HopsIn(s) : Active(h)}, {}} :
          sweep' = [sweep EXCEPT ![s] =
                      [on |-> TRUE, final |-> final, at |-> NoHop, todo |-> listed,
                       applied |-> {h \in listed : rows[h].applied}]]
    BY <1>3 DEF BeginSweep
  <2> DEFINE new == [on |-> TRUE, final |-> final, at |-> NoHop, todo |-> listed,
                     applied |-> {h \in listed : rows[h].applied}]
  <2>1. sweep' = [sweep EXCEPT ![s] = new] /\ cut' = cut \cup {s}
    BY <1>3, <2>0 DEF BeginSweep
  <2>2. new.todo \subseteq HopsIn(s) /\ new.at = NoHop
    BY <2>0
  <2> HIDE DEF new
  <2> QED
    BY <1>1, <1>3, <2>1, <2>2 DEF SweepShape, HopsIn
<1>4. CASE Upload(s)
  BY <1>2, <1>3, <1>4 DEF Upload
<1>5. CASE DeleteShare(s)
  BY <1>2, <1>3, <1>5 DEF DeleteShare
<1>6. CASE ResetFlow(s)
  BY <1>1, <1>2, <1>6 DEF ResetFlow, SweepShape, HopsIn
<1>7. ASSUME NEW h \in Hops, SweepDrops(s, h)
      PROVE  /\ \A r \in Shares : SweepShape(r)'
             /\ \A r \in Shares : r # s => sweep'[r] = sweep[r] /\ share'[r] = share[r]
             /\ cut \subseteq cut'
  BY <1>1, <1>7 DEF SweepDrops, SweepShape, HopsIn, Sweeps
<1>8. CASE SweepMarks(s)
  BY <1>1, <1>2, <1>8 DEF SweepMarks, SweepShape, HopsIn, Sweeps
<1>9. CASE SweepEnds(s)
  BY <1>1, <1>2, <1>9 DEF SweepEnds, SweepShape, HopsIn, Resting
<1>10. CASE SweepMarkFails(s)
  BY <1>1, <1>2, <1>10 DEF SweepMarkFails, SweepShape, HopsIn, Sweeps
<1>11. CASE SweepEndFails(s)
  BY <1>1, <1>2, <1>11 DEF SweepEndFails, SweepShape, HopsIn, Resting
<1> QED
  BY <1>2, <1>4, <1>5, <1>6, <1>7, <1>8, <1>9, <1>10, <1>11 DEF SweepStep

\* Every step keeps the shape.
LEMMA ShapeStep == TypeOK /\ Shape /\ [Next]_vars => Shape'
<1> SUFFICES ASSUME TypeOK, Shape, [Next]_vars PROVE Shape'
  OBVIOUS
<1> USE Constants
<1>0. /\ Procs \subseteq Slots /\ Procs \cap Strays = {}
      /\ \A x \in Slots : CallShape(serve[x])
      /\ \A p \in Procs : FrameShape(proc[p], serve[p])
  BY ProcAssumption DEF Slots, Shape
<1>1. UNCHANGED <<sweep, share, cut>> => \A s \in Shares : SweepShape(s)'
  BY DEF Shape, SweepShape
<1>2. CASE UNCHANGED vars
  BY <1>2 DEF Shape, SweepShape, vars, provider, consumer
<1>3. ASSUME NEW x \in Slots, CallStep(x) PROVE Shape'
  <2>1. UNCHANGED <<sweep, share, cut, proc>>
    BY <1>3, CallStepShape DEF consumer
  <2>2. \A y \in Slots : CallShape(serve'[y])
    BY <1>0, <1>3, CallStepShape, AtRestShape
  <2>3. ASSUME NEW p \in Procs PROVE FrameShape(proc[p], serve'[p])
    <3>1. CASE p = x
      <4>1. p \notin Strays
        BY <1>0
      <4>2. serve'[p].op = serve[p].op /\ serve'[p].hop = serve[p].hop /\ serve[p].op # "none"
        BY <1>3, <3>1, <4>1, CallStepShape
      <4>3. proc[p].pc \in Waiting
        BY <1>0, <4>2 DEF FrameShape, NoCall
      <4> QED
        BY <1>0, <4>2, <4>3 DEF FrameShape, Waiting, Idle
    <3>2. CASE p # x
      BY <1>0, <1>3, <3>2, CallStepShape
    <3> QED
      BY <3>1, <3>2
  <2> QED
    BY <1>1, <2>1, <2>2, <2>3 DEF Shape
<1>4. ASSUME NEW p \in Procs, ProcStep(p) PROVE Shape'
  <2>1. UNCHANGED <<sweep, share, cut>>
    BY <1>4, ProcStepShape DEF provider
  <2>2. \A x \in Slots : CallShape(serve'[x])
    BY <1>0, <1>4, ProcStepShape
  <2>3. \A q \in Procs : FrameShape(proc'[q], serve'[q])
    BY <1>0, <1>4, ProcStepShape
  <2> QED
    BY <1>1, <2>1, <2>2, <2>3 DEF Shape
<1>5. ASSUME NEW p \in Procs, NEW t \in Tunnels, Create(p, t) \/ Update(p, t) \/ Delete(p, t)
      PROVE  Shape'
  <2>1. UNCHANGED <<sweep, share, cut, serve>>
    BY <1>5, AsksShape DEF provider
  <2>2. \A q \in Procs : FrameShape(proc'[q], serve[q])
    BY <1>0, <1>5, AsksShape
  <2> QED
    BY <1>0, <1>1, <2>1, <2>2 DEF Shape
<1>6. ASSUME NEW p \in Procs, Lost(p) \/ Timeout(p) PROVE Shape'
  <2>1. UNCHANGED <<sweep, share, cut, proc>>
    BY <1>6, MishapShape DEF provider
  <2>2. \A x \in Slots : CallShape(serve'[x])
    BY <1>0, <1>6, MishapShape
  <2>3. ASSUME NEW q \in Procs PROVE FrameShape(proc[q], serve'[q])
    <3>1. CASE q = p
      <4>1. proc[p].pc \in Waiting
        <5>1. serve[p].op # "none" /\ FrameShape(proc[p], serve[p])
          BY <1>0, <1>6, MishapShape
        <5> QED
          BY <5>1 DEF FrameShape, NoCall
      <4>2. serve[p] \in Calls
        BY <1>0 DEF TypeOK
      <4>3. serve'[p].op = serve[p].op /\ serve'[p].hop = serve[p].hop
        BY <1>6, <4>2, MishapShape DEF Calls
      <4> QED
        BY <1>0, <3>1, <4>1, <4>3 DEF FrameShape, Waiting
    <3>2. CASE q # p
      <4>1. serve'[q] = serve[q]
        <5>1. CASE Lost(p)
          BY <1>0, <3>2, <5>1 DEF Lost, TypeOK
        <5>2. CASE Timeout(p)
          <6>1. PICK x \in Strays : serve' = [serve EXCEPT ![x] = serve[p], ![p].pc = "failed"]
            BY <5>2 DEF Timeout
          <6> QED
            BY <1>0, <3>2, <6>1 DEF TypeOK
        <5> QED
          BY <1>6, <5>1, <5>2
      <4> QED
        BY <1>0, <4>1
    <3> QED
      BY <3>1, <3>2
  <2> QED
    BY <1>1, <2>1, <2>2, <2>3 DEF Shape
<1>7. ASSUME NEW s \in Shares, Upload(s) \/ DeleteShare(s) \/ ResetFlow(s) \/ SweepStep(s)
      PROVE  Shape'
  BY <1>7, ShareStepShape DEF Shape, consumer
<1> QED
  BY <1>2, <1>3, <1>4, <1>5, <1>6, <1>7 DEF Next

\* Every variable stays in its type, whatever fails.
THEOREM TypeCorrect == Spec => []TypeOK
<1>1. Init => TypeOK /\ Shape
  <2>1. ASSUME Init PROVE Shape
    BY <2>1, AtRestShape DEF Init, Shape, SweepShape, Slots, Resting
  <2> QED
    BY <2>1, InitType
<1>2. TypeOK /\ Shape /\ [Next]_vars => (TypeOK /\ Shape)'
  BY TypeStep, ShapeStep
<1> QED
  BY <1>1, <1>2, PTL DEF Spec

-----------------------------------------------------------------------------
(* The hop's inductive invariant.                                          *)

\* A hop nothing went wrong with has one request at most: its handler's.
LEMMA OneCall ==
    ASSUME TypeOK, Shape, NEW h \in Hops, Owned(h), NEW x \in Slots, serve[x].hop = h
    PROVE  /\ x \in Procs /\ x \notin Strays /\ On(h, x)
           /\ proc[x].pc \in Waiting /\ proc[x].at = h
           /\ h \in proc[x].todo /\ h \in HopsOf(proc[x].tunnel)
           /\ \A y \in Slots : serve[y].hop = h => y = x
<1>1. ASSUME NEW y \in Slots, serve[y].hop = h
      PROVE  /\ y \in Procs /\ y \notin Strays /\ On(h, y)
             /\ proc[y].pc \in Waiting /\ proc[y].at = h
             /\ h \in proc[y].todo /\ h \in HopsOf(proc[y].tunnel)
  <2>1. y \in Procs /\ y \notin Strays
    BY <1>1 DEF Owned, Slots
  <2>2. FrameShape(proc[y], serve[y])
    BY <2>1 DEF Shape
  <2>3. serve[y] # NoCall
    BY <1>1, HopAssumption DEF NoCall
  <2> QED
    BY <1>1, <2>1, <2>2, <2>3 DEF FrameShape, On, HopsOf
<1>2. ASSUME NEW y \in Slots, serve[y].hop = h PROVE y = x
  BY <1>1, <1>2 DEF Owned
<1> QED
  BY <1>1, <1>2

\* What a step leaves alone stays as it was.
LEMMA Untouched ==
    ASSUME NEW h \in Hops, HopInv(h),
           rows'[h] = rows[h], svc'[h] = svc[h], chain'[h] = chain[h], bound'[h] = bound[h],
           life'[TunnelOf[h]] = life[TunnelOf[h]], Gap(h)' <=> Gap(h),
           share'[ShareOf[h]] = "gone" <=> share[ShareOf[h]] = "gone",
           cut \subseteq cut', h \in missed' <=> h \in missed,
           \A p \in Procs : On(h, p)' \/ On(h, p) => proc'[p] = proc[p],
           \A x \in Slots : serve'[x].hop = h \/ serve[x].hop = h => serve'[x] = serve[x]
    PROVE  HopInv(h)'
<1>1. /\ Active(h)' <=> Active(h)
      /\ Set(h)' <=> Set(h)
  BY DEF Active, Set
<1>2. \A p \in Procs : On(h, p)' <=> On(h, p)
  BY DEF On
<1>3. ASSUME NEW op, NEW pcs PROVE InCall(h, op, pcs)' <=> InCall(h, op, pcs)
  BY DEF InCall
<1>4. Owned(h)'
  BY <1>2 DEF HopInv, Owned, Slots
<1>5. Lives(h)'
  BY <1>2 DEF HopInv, Lives
<1>6. OnNode(h)'
  BY <1>1, <1>3 DEF HopInv, OnNode
<1>7. ASSUME NEW port, Agrees(h, port) PROVE Agrees(h, port)'
  BY <1>1, <1>7 DEF Agrees
<1>8. Busy(TunnelOf[h])' <=> Busy(TunnelOf[h])
  BY <1>2 DEF Busy, On
<1>9. AtRest(h)'
  BY <1>1, <1>7, <1>8 DEF HopInv, AtRest
<1>10. ASSUME NEW x \in Slots, serve'[x].hop = h PROVE Seen(h, serve[x])'
  <2>1. serve'[x] = serve[x] /\ Seen(h, serve[x])
    BY <1>10 DEF HopInv
  <2> QED
    BY <1>1, <2>1 DEF Seen
<1>11. ASSUME NEW p \in Procs, On(h, p)' PROVE Handled(h, proc[p])'
  <2>1. proc'[p] = proc[p] /\ Handled(h, proc[p])
    BY <1>2, <1>11 DEF HopInv
  <2>2. InCall(h, "apply", {"ok"})' <=> InCall(h, "apply", {"ok"})
    BY <1>3
  <2> QED
    BY <1>1, <1>7, <2>1, <2>2 DEF Handled
<1> QED
  BY <1>4, <1>5, <1>6, <1>9, <1>10, <1>11 DEF HopInv

\* OnNode with the one request on the hop.
OnNodeBy(h, c) ==
    /\ svc[h] # 0 => /\ Active(h) /\ rows[h].port = svc[h]
                     /\ rows[h].applied \/ (c.op = "apply" /\ c.pc = "write")
    /\ chain[h] # 0 => /\ Active(h) /\ Middle(h)
                       /\ \/ svc[h] # 0
                          \/ Gap(h) /\ rows[h].applied
                          \/ c.op = "apply" /\ c.pc \in {"service", "undo"}
                          \/ c.op = "release" /\ c.pc = "dropChain"
    /\ Set(h) => \/ svc[h] = rows[h].port \/ Gap(h)
                 \/ c.op = "release" /\ c.pc \in {"dropChain", "mark"}
    /\ share[ShareOf[h]] = "gone" => rows[h] = NoRow \/ ~rows[h].applied

\* With one request on the hop the two say the same.
LEMMA OnNodeIs ==
    ASSUME NEW h \in Hops, NEW x \in Slots, serve[x].hop = h,
           \A y \in Slots : serve[y].hop = h => y = x
    PROVE  OnNode(h) <=> OnNodeBy(h, serve[x])
<1>1. \A op, pcs : InCall(h, op, pcs) <=> serve[x].op = op /\ serve[x].pc \in pcs
  BY DEF InCall
<1>2. /\ InCall(h, "apply", {"write"}) <=> serve[x].op = "apply" /\ serve[x].pc = "write"
      /\ InCall(h, "apply", {"service", "undo"}) <=>
            serve[x].op = "apply" /\ serve[x].pc \in {"service", "undo"}
      /\ InCall(h, "release", {"dropChain"}) <=>
            serve[x].op = "release" /\ serve[x].pc = "dropChain"
      /\ InCall(h, "release", {"dropChain", "mark"}) <=>
            serve[x].op = "release" /\ serve[x].pc \in {"dropChain", "mark"}
  BY <1>1
<1> QED
  BY <1>2 DEF OnNode, OnNodeBy

\* What a step of a request must keep.
LEMMA CallKeeps ==
    ASSUME TypeOK, Shape, NEW x \in Slots, CallStep(x), NEW h \in Hops, serve[x].hop = h,
           HopInv(h), OnNodeBy(h, serve[x])', Seen(h, serve[x])',
           serve[x].op # "release" /\ Set(h)' /\ h \notin missed =>
               serve'[x].op = "apply" /\ serve'[x].pc = "ok"
    PROVE  HopInv(h)'
<1> USE Constants
<1>1. /\ x \in Procs /\ x \notin Strays /\ On(h, x)
      /\ proc[x].pc \in Waiting /\ proc[x].at = h /\ h \in proc[x].todo
      /\ \A y \in Slots : serve[y].hop = h => y = x
  BY OneCall DEF HopInv
<1>2. /\ serve'[x].op = serve[x].op /\ serve'[x].hop = h
      /\ \A y \in Slots : y # x => serve'[y] = serve[y]
      /\ UNCHANGED <<share, sweep, cut, life, bound, proc, missed>>
  BY <1>1, CallStepShape DEF consumer
<1>3. \A y \in Slots : serve'[y].hop = h => y = x
  BY <1>1, <1>2
<1>4. OnNode(h)'
  <2>1. /\ x \in Slots /\ serve'[x].hop = h
        /\ \A op, pcs : InCall(h, op, pcs)' <=> serve'[x].op = op /\ serve'[x].pc \in pcs
    BY <1>2, <1>3 DEF InCall
  <2>2. /\ InCall(h, "apply", {"write"})' <=> serve'[x].op = "apply" /\ serve'[x].pc = "write"
        /\ InCall(h, "apply", {"service", "undo"})' <=>
              serve'[x].op = "apply" /\ serve'[x].pc \in {"service", "undo"}
        /\ InCall(h, "release", {"dropChain"})' <=>
              serve'[x].op = "release" /\ serve'[x].pc = "dropChain"
        /\ InCall(h, "release", {"dropChain", "mark"})' <=>
              serve'[x].op = "release" /\ serve'[x].pc \in {"dropChain", "mark"}
    BY <2>1
  <2> QED
    BY <2>2 DEF OnNode, OnNodeBy
<1>5. Owned(h)' /\ Lives(h)'
  BY <1>1, <1>2, ProcAssumption DEF HopInv, Owned, Lives, On, Slots
<1>6. AtRest(h)'
  BY <1>1, <1>2 DEF AtRest, Busy, On
<1>7. \A y \in Slots : serve'[y].hop = h => Seen(h, serve[y])'
  BY <1>3
<1>8. ASSUME NEW p \in Procs, On(h, p)' PROVE Handled(h, proc[p])'
  <2>1. p = x /\ Handled(h, proc[x])
    BY <1>1, <1>2, <1>8 DEF HopInv, Owned, On
  <2>2. FrameShape(proc[x], serve[x])
    BY <1>1 DEF Shape
  <2>3. proc[x].pc # "releasing" => serve[x].op # "release"
    BY <1>1, <2>2 DEF FrameShape, Waiting
  <2>4. proc[x].pc \in Setup => h \notin proc[x].done
    BY <1>1, <2>2 DEF FrameShape
  <2>5. serve'[x].op = "apply" /\ serve'[x].pc = "ok" => InCall(h, "apply", {"ok"})'
    BY <1>2 DEF InCall
  <2> QED
    BY <1>1, <1>2, <2>1, <2>3, <2>4, <2>5 DEF Handled, Setup, Waiting
<1> QED
  BY <1>4, <1>5, <1>6, <1>7, <1>8 DEF HopInv

\* A command to the node of a hop nothing goes wrong with is carried out.
LEMMA SendsDone ==
    ASSUME TypeOK, NEW x \in Procs, x \notin Strays, serve[x].hop \notin blamed',
           NEW svcDone, NEW chainDone, NEW done, NEW failed,
           Sends(x, svcDone, chainDone, done, failed)
    PROVE  svc' = svcDone /\ chain' = chainDone /\ serve'[x] = done
BY DEF Sends, Reply, TypeOK, Slots

\* A step of a request keeps its hop in order.
LEMMA CallHop ==
    ASSUME TypeOK, Shape, NEW x \in Slots, CallStep(x), NEW h \in Hops, serve[x].hop = h,
           HopInv(h), h \notin blamed'
    PROVE  HopInv(h)'
<1> DEFINE c == serve[x]
           d == serve'[x]
           Kept == /\ OnNodeBy(h, serve[x])' /\ Seen(h, serve[x])'
                   /\ c.op # "release" /\ Set(h)' /\ h \notin missed =>
                         d.op = "apply" /\ d.pc = "ok"
<1> USE Constants
<1>1. /\ x \in Procs /\ x \notin Strays /\ On(h, x)
      /\ proc[x].pc \in Waiting /\ proc[x].at = h /\ h \in proc[x].todo
      /\ \A y \in Slots : serve[y].hop = h => y = x
  BY OneCall DEF HopInv
<1>2. /\ UNCHANGED <<share, sweep, cut, missed>>
      /\ Gap(h)' <=> Gap(h)
  BY <1>1, CallStepShape DEF consumer, Gap
<1>3. /\ c \in Calls /\ CallShape(c) /\ rows \in [Hops -> Rows \cup {NoRow}]
      /\ svc \in [Hops -> Port0] /\ chain \in [Hops -> Port0]
      /\ c.pc \in {"insert", "rechain", "chain", "service", "undo", "write"} => c.port # 0
  BY DEF TypeOK, Shape, CallShape
<1>4. OnNodeBy(h, c) /\ Seen(h, c)
  BY <1>1, OnNodeIs DEF HopInv
<1>5. c.op # "release" /\ Set(h) /\ h \notin missed => c.op = "apply" /\ c.pc = "ok"
  <2>1. Handled(h, proc[x]) /\ FrameShape(proc[x], serve[x])
    BY <1>1 DEF HopInv, Shape
  <2>2. c.op # "release" => proc[x].pc \in {"reserve", "retry", "apply"}
    BY <1>1, <2>1 DEF FrameShape, Waiting
  <2>3. InCall(h, "apply", {"ok"}) => c.op = "apply" /\ c.pc = "ok"
    BY <1>1 DEF InCall
  <2> QED
    BY <1>1, <2>1, <2>2, <2>3 DEF Handled, FrameShape, Setup
<1>6. \A e : Reply(x, e) => d = e
  BY <1>1 DEF Reply, TypeOK
<1> SUFFICES Kept
  BY CallKeeps
<1>7. CASE ReserveReads(x)
  <2>1. /\ c.op = "reserve" /\ rows' = rows /\ svc' = svc /\ chain' = chain
        /\ Set(h)' <=> Set(h)
    BY <1>1, <1>7 DEF ReserveReads, At, provider, Set, Active
  <2>2. d.op = c.op /\ d.pc \in {"insert", "ok", "failed"} /\ (d.pc = "insert" => ~Active(h))
    <3>1. \/ d = [c EXCEPT !.pc = "ok", !.port = rows[h].port]
          \/ /\ ~Active(h)
             /\ \E port : d = [c EXCEPT !.pc = "insert", !.port = port,
                                        !.fresh = rows[h] = NoRow]
          \/ d = [c EXCEPT !.pc = "failed"]
      BY <1>6, <1>7 DEF ReserveReads
    <3> QED
      BY <1>3, <3>1 DEF Calls
  <2>3. ~Active(h) => svc[h] = 0 /\ chain[h] = 0
    BY <1>4 DEF OnNodeBy
  <2> QED
    BY <1>2, <1>4, <1>5, <2>1, <2>2, <2>3 DEF OnNodeBy, Seen, Active, Set
<1>8. CASE ReserveInserts(x)
  <2>1. /\ c.op = "reserve" /\ c.pc = "insert" /\ svc' = svc /\ chain' = chain
        /\ ~Active(h) /\ svc[h] = 0 /\ chain[h] = 0
    BY <1>4, <1>8 DEF ReserveInserts, At, Seen
  <2>2. \/ rows'[h] = rows[h]
        \/ rows'[h] = [port |-> c.port, on |-> TRUE, applied |-> FALSE]
    BY <1>1, <1>3, <1>8 DEF ReserveInserts
  <2>3. d.op = c.op /\ d.pc \in {"ok", "failed"}
    BY <1>1, <1>3, <1>6, <1>8 DEF ReserveInserts, At, Calls
  <2>4. ~Set(h)'
    BY <2>1, <2>2 DEF Set, Active
  <2> QED
    BY <1>2, <1>4, <2>1, <2>2, <2>3, <2>4 DEF OnNodeBy, Seen
<1>9. CASE ApplyReads(x)
  <2>1. /\ c.op = "apply" /\ c.pc = "start" /\ rows' = rows /\ svc' = svc /\ chain' = chain
        /\ Set(h)' <=> Set(h)
    BY <1>1, <1>9 DEF ApplyReads, At, provider, Set, Active
  <2>2. /\ d.op = c.op
        /\ \/ d.pc = "failed"
           \/ /\ share[ShareOf[h]] # "gone" /\ Active(h) /\ d.port = rows[h].port
              /\ \/ d.pc \in {"rechain", "ok"} /\ rows[h].applied
                 \/ d.pc \in {"chain", "service"} /\ ~rows[h].applied
    <3>1. rows[h] # NoRow => rows[h].applied \in BOOLEAN /\ rows[h].port \in Port0
      BY <1>3 DEF Rows
    <3>2. \/ d = [c EXCEPT !.pc = "failed"]
          \/ /\ share[ShareOf[h]] # "gone" /\ Active(h)
             /\ \/ /\ rows[h].applied
                   /\ \E pc \in {"rechain", "ok"} :
                         d = [c EXCEPT !.pc = pc, !.port = rows[h].port]
                \/ /\ ~rows[h].applied
                   /\ \E pc \in {"chain", "service"} :
                         d = [c EXCEPT !.pc = pc, !.port = rows[h].port]
      BY <1>6, <1>9, <3>1 DEF ApplyReads, Active
    <3> QED
      BY <1>3, <3>2 DEF Calls
  <2>3. Active(h) /\ ~rows[h].applied => svc[h] = 0 /\ chain[h] = 0
    BY <1>4, <2>1 DEF OnNodeBy
  <2>4. Set(h) => svc[h] = rows[h].port \/ Gap(h)
    BY <1>4, <2>1 DEF OnNodeBy
  <2> QED
    BY <1>2, <1>4, <1>5, <2>1, <2>2, <2>3, <2>4 DEF OnNodeBy, Seen, Active, Set, Agrees
<1>10. CASE Rechain(x)
  <2>1. /\ c.op = "apply" /\ c.pc = "rechain" /\ rows' = rows
        /\ Set(h)' <=> Set(h)
    BY <1>10 DEF Rechain, At, Set, Active
  <2>2. /\ svc' = svc /\ chain' = [chain EXCEPT ![h] = c.target]
        /\ d = [c EXCEPT !.pc = "write"]
    BY <1>1, <1>10, SendsDone DEF Rechain
  <2>3. d.op = c.op /\ d.pc = "write" /\ d.port = c.port
    BY <1>3, <2>2 DEF Calls
  <2>4. Middle(h)
    BY <1>3, <2>1 DEF CallShape
  <2> QED
    BY <1>2, <1>3, <1>4, <1>5, <2>1, <2>2, <2>3, <2>4 DEF OnNodeBy, Seen, Active, Set
<1>11. CASE AddChain(x)
  <2>1. /\ c.op = "apply" /\ c.pc = "chain" /\ rows' = rows
        /\ Set(h)' <=> Set(h)
    BY <1>11 DEF AddChain, At, Set, Active
  <2>2. /\ svc' = svc /\ d = [c EXCEPT !.pc = "service"]
        /\ chain'[h] # 0 => Middle(h)
    BY <1>1, <1>3, <1>11, SendsDone DEF AddChain, At, CallShape
  <2>3. d.op = c.op /\ d.pc = "service" /\ d.port = c.port
    BY <1>3, <2>2 DEF Calls
  <2> QED
    BY <1>2, <1>3, <1>4, <1>5, <2>1, <2>2, <2>3 DEF OnNodeBy, Seen, Active, Set
<1>12. CASE AddService(x)
  <2>1. /\ c.op = "apply" /\ c.pc = "service" /\ rows' = rows
        /\ Set(h)' <=> Set(h)
    BY <1>12 DEF AddService, At, Set, Active
  <2>2. /\ Active(h) /\ ~rows[h].applied /\ rows[h].port = c.port /\ svc[h] = 0
        /\ share[ShareOf[h]] # "gone"
    BY <1>4, <2>1 DEF Seen
  <2> DEFINE fails == [c EXCEPT !.pc = IF Middle(h) THEN "undo" ELSE "failed"]
             writes == [c EXCEPT !.pc = "write"]
  <2>3. \/ svc' = svc /\ chain' = chain /\ d = fails
        \/ svc' = [svc EXCEPT ![h] = c.port] /\ chain' = chain /\ d = writes
    <3>1. CASE Reply(x, fails) /\ UNCHANGED <<svc, chain, blamed, faults>>
      BY <1>6, <3>1
    <3>2. CASE Sends(x, [svc EXCEPT ![h] = c.port], chain, writes, fails)
      BY <1>1, <3>2, SendsDone
    <3> QED
      BY <1>12, <2>2, <3>1, <3>2 DEF AddService
  <2>4. /\ fails.op = c.op /\ fails.pc = (IF Middle(h) THEN "undo" ELSE "failed")
        /\ fails.port = c.port
        /\ writes.op = c.op /\ writes.pc = "write" /\ writes.port = c.port
    BY <1>3 DEF Calls
  <2>5. ~Set(h)
    BY <2>2 DEF Set
  <2> HIDE DEF fails, writes
  <2>6. CASE svc' = svc /\ chain' = chain /\ d = fails
    BY <1>2, <1>4, <2>1, <2>2, <2>4, <2>5, <2>6 DEF OnNodeBy, Seen, Active
  <2>7. CASE svc' = [svc EXCEPT ![h] = c.port] /\ chain' = chain /\ d = writes
    <3>1. svc'[h] = c.port /\ chain'[h] = chain[h] /\ c.port # 0
      BY <1>3, <2>1, <2>7
    <3> QED
      BY <1>2, <1>4, <2>1, <2>2, <2>4, <2>5, <2>7, <3>1 DEF OnNodeBy, Seen, Active
  <2> QED
    BY <2>3, <2>6, <2>7
<1>13. CASE UndoChain(x)
  <2>1. /\ c.op = "apply" /\ c.pc = "undo" /\ rows' = rows
        /\ Set(h)' <=> Set(h)
    BY <1>13 DEF UndoChain, At, Set, Active
  <2>2. /\ svc' = svc /\ chain' = [chain EXCEPT ![h] = 0]
        /\ d = [c EXCEPT !.pc = "failed"]
    BY <1>1, <1>13, SendsDone DEF UndoChain
  <2>3. d.op = c.op /\ d.pc = "failed"
    BY <1>3, <2>2 DEF Calls
  <2> QED
    BY <1>2, <1>3, <1>4, <1>5, <2>1, <2>2, <2>3 DEF OnNodeBy, Seen, Active, Set
<1>14. CASE ApplyWrites(x)
  <2>1. c.op = "apply" /\ c.pc = "write" /\ svc' = svc /\ chain' = chain
    BY <1>14 DEF ApplyWrites, At
  <2>2. /\ Active(h) /\ rows[h].port = c.port /\ (svc[h] = c.port \/ Gap(h))
        /\ share[ShareOf[h]] # "gone"
    BY <1>4, <2>1 DEF Seen
  <2>3. rows'[h] = [port |-> c.port, on |-> TRUE, applied |-> TRUE]
    BY <1>1, <1>3, <1>14, <2>2 DEF ApplyWrites, Active
  <2>4. Active(h)' /\ rows'[h].port = c.port /\ rows'[h].applied
    <3>1. rows'[h] # NoRow
      <4>1. rows'[h] \in Rows
        BY <1>3, <2>1, <2>3 DEF Rows, CallShape
      <4> QED
        BY <4>1
    <3> QED
      BY <2>3, <3>1 DEF Active
  <2>5. d = [c EXCEPT !.pc = "ok"]
    BY <1>6, <1>14 DEF ApplyWrites
  <2>6. d.op = c.op /\ d.pc = "ok" /\ d.port = c.port
    BY <1>3, <2>5 DEF Calls
  <2> QED
    BY <1>2, <1>4, <2>1, <2>2, <2>4, <2>6 DEF OnNodeBy, Seen, Set
<1>15. CASE ReleaseReads(x)
  <2>1. /\ c.op = "release" /\ rows' = rows /\ svc' = svc /\ chain' = chain /\ c.pc = "start"
        /\ Set(h)' <=> Set(h)
    BY <1>1, <1>15 DEF ReleaseReads, At, provider, Set, Active
  <2>2. d = [c EXCEPT !.pc = IF share[ShareOf[h]] = "gone" THEN "failed"
                             ELSE IF rows[h] # NoRow /\ rows[h].applied
                                  THEN "dropService" ELSE "ok"]
    BY <1>6, <1>15 DEF ReleaseReads
  <2>3. /\ d.op = c.op /\ d.pc \in {"failed", "ok", "dropService"}
        /\ d.pc \in {"failed", "ok"} => ~Set(h)
    <3>1. d.op = c.op /\ d.pc = (IF share[ShareOf[h]] = "gone" THEN "failed"
                                 ELSE IF rows[h] # NoRow /\ rows[h].applied
                                      THEN "dropService" ELSE "ok")
      BY <1>3, <2>2 DEF Calls
    <3> QED
      BY <1>4, <3>1 DEF OnNodeBy, Set, Active
  <2> QED
    BY <1>2, <1>4, <2>1, <2>3 DEF OnNodeBy, Seen, Active, Set
<1>16. CASE DropService(x)
  <2>1. /\ c.op = "release" /\ rows' = rows /\ c.pc = "dropService"
        /\ Set(h)' <=> Set(h)
    BY <1>16 DEF DropService, At, Set, Active
  <2>2. /\ svc' = [svc EXCEPT ![h] = 0] /\ chain' = chain
        /\ d = [c EXCEPT !.pc = IF Middle(h) THEN "dropChain" ELSE "mark"]
    BY <1>1, <1>16, SendsDone DEF DropService
  <2>3. d.op = c.op /\ d.pc = (IF Middle(h) THEN "dropChain" ELSE "mark")
    BY <1>3, <2>2 DEF Calls
  <2> QED
    BY <1>2, <1>3, <1>4, <2>1, <2>2, <2>3 DEF OnNodeBy, Seen, Active, Set
<1>17. CASE DropChain(x)
  <2>1. /\ c.op = "release" /\ rows' = rows /\ c.pc = "dropChain"
        /\ Set(h)' <=> Set(h)
    BY <1>17 DEF DropChain, At, Set, Active
  <2>2. /\ svc' = svc /\ chain' = [chain EXCEPT ![h] = 0]
        /\ d = [c EXCEPT !.pc = "mark"]
    BY <1>1, <1>17, SendsDone DEF DropChain
  <2>3. d.op = c.op /\ d.pc = "mark"
    BY <1>3, <2>2 DEF Calls
  <2> QED
    BY <1>2, <1>3, <1>4, <2>1, <2>2, <2>3 DEF OnNodeBy, Seen, Active, Set
<1>18. CASE ReleaseMarks(x)
  <2>1. /\ c.op = "release" /\ c.pc = "mark" /\ svc' = svc /\ chain' = chain
        /\ svc[h] = 0 /\ chain[h] = 0
    BY <1>4, <1>18 DEF ReleaseMarks, At, Seen
  <2>2. ~Active(h)' /\ (rows[h] = NoRow => rows'[h] = NoRow)
        /\ (rows[h] # NoRow => rows'[h].applied = rows[h].applied)
    BY <1>1, <1>3, <1>18 DEF ReleaseMarks, Marked, Active, Rows
  <2>3. d = [c EXCEPT !.pc = "ok"]
    BY <1>6, <1>18 DEF ReleaseMarks
  <2>4. d.op = c.op /\ d.pc = "ok"
    BY <1>3, <2>3 DEF Calls
  <2> QED
    BY <1>2, <1>4, <2>1, <2>2, <2>4 DEF OnNodeBy, Seen, Set
<1>19. CASE CallFails(x)
  <2>1. /\ c.pc \in {"start", "insert"} /\ rows' = rows /\ svc' = svc /\ chain' = chain
        /\ c.op = "reserve"
        /\ Set(h)' <=> Set(h)
    BY <1>1, <1>19 DEF CallFails, At, provider, Set, Active
  <2>2. d.op = c.op /\ d.pc = "failed"
    <3>1. d = [c EXCEPT !.pc = "failed"]
      BY <1>6, <1>19 DEF CallFails
    <3> QED
      BY <1>3, <3>1 DEF Calls
  <2> QED
    BY <1>2, <1>4, <1>5, <2>1, <2>2 DEF OnNodeBy, Seen, Active, Set
<1>20. ~ApplyWriteFails(x) /\ ~ReleaseMarkFails(x)
  BY DEF ApplyWriteFails, ReleaseMarkFails
<1> QED
  BY <1>7, <1>8, <1>9, <1>10, <1>11, <1>12, <1>13, <1>14, <1>15, <1>16, <1>17, <1>18, <1>19, <1>20
  DEF CallStep

\* Handled and AtRest for the hop's binding, b, and whether no release was missed.
HandledBy(h, f, b, known) ==
    /\ \/ f.pc \in Setup
       \/ f.pc \in {"domain", "release", "releasing"} /\ f.then = "idle"
       => b = 0
    /\ known =>
          /\ f.pc \in Setup /\ h \in f.done => Agrees(h, f.port[h])
          /\ f.pc = "local" /\ b # 0 => Agrees(h, b)
          /\ Set(h) => /\ f.pc = "local" => b = rows[h].port
                       /\ f.pc \in Setup => h \in f.done
                       /\ f.pc = "domain" => h \in f.done
                       /\ f.pc \in {"release", "releasing"} => h \in f.todo
                       /\ f.pc \notin {"unbind", "forget", "cascade"}

RestBy(h, b, known) ==
    known => /\ b # 0 => Agrees(h, b)
             /\ Set(h) => b = rows[h].port

\* A step of a handler starts a request or takes note of one that has ended, and
\* knows the hops of its tunnel only.
LEMMA ProcStepOwn ==
    ASSUME TypeOK, Shape, NEW p \in Procs, ProcStep(p)
    PROVE  /\ \/ UNCHANGED <<serve, missed>> /\ serve[p] = NoCall
              \/ /\ serve[p].pc \in {"none", "ok", "failed"}
                 /\ serve'[p] = NoCall \/ serve'[p].pc = "start"
           /\ missed' \subseteq missed
           /\ proc'[p] = Idle \/ proc'[p].tunnel = proc[p].tunnel
           /\ \A h \in Hops : TunnelOf[h] # proc[p].tunnel =>
                 /\ bound'[h] = bound[h] /\ life'[TunnelOf[h]] = life[TunnelOf[h]]
                 /\ h \in missed' <=> h \in missed
<1> DEFINE f == proc[p]
           Ends == /\ serve[p].pc \in {"none", "ok", "failed"}
                   /\ serve'[p] = NoCall \/ serve'[p].pc = "start"
           Stays == UNCHANGED <<serve, missed>> /\ serve[p] = NoCall
           Tunnel == proc'[p] = Idle \/ proc'[p].tunnel = f.tunnel
           Others == \A h \in Hops : TunnelOf[h] # f.tunnel =>
                        /\ bound'[h] = bound[h] /\ life'[TunnelOf[h]] = life[TunnelOf[h]]
                        /\ h \in missed' <=> h \in missed
<1> USE Constants
<1>0. /\ f \in Frames /\ FrameShape(f, serve[p]) /\ serve[p] \in Calls
      /\ proc \in [Procs -> Frames] /\ serve \in [Slots -> Calls] /\ p \in Slots
      /\ bound \in [Hops -> Port0] /\ life \in [Tunnels -> {"new", "made", "gone"}]
  BY DEF TypeOK, Shape, Slots
<1>1. f.pc \notin Waiting => serve[p] = NoCall /\ serve[p].pc = "none"
  BY <1>0 DEF FrameShape, NoCall
<1>2. ASSUME NEW op, NEW h, NEW port, NEW target PROVE Calling(op, h, port, target).pc = "start"
  BY DEF Calling, NoCall
<1>3. \A then : BackFrom(f, then).tunnel = f.tunnel
  BY <1>0 DEF BackFrom, Frames
<1>4. GoesBack(p) => Tunnel /\ serve'[p] = NoCall
  BY <1>0, <1>3 DEF GoesBack, Moves
<1> SUFFICES (Ends \/ Stays) /\ missed' \subseteq missed /\ Tunnel /\ Others
  OBVIOUS
<1>5. CASE Release(p)
  <2>1. PICK h \in f.todo :
          Moves(p, [f EXCEPT !.pc = "releasing", !.at = h], Calling("release", h, 0, 0))
    BY <1>5 DEF Release
  <2>2. Ends
    BY <1>0, <1>1, <1>2, <1>5, <2>1 DEF Release, Moves, Waiting
  <2>3. Tunnel
    BY <1>0, <2>1 DEF Moves, Frames
  <2> QED
    BY <1>5, <2>2, <2>3 DEF Release
<1>6. CASE Released(p)
  BY <1>0, <1>6 DEF Released, Ended, Moves, Frames
<1>7. ASSUME Unbind(p) \/ UnbindFails(p)
      PROVE  Stays /\ missed' \subseteq missed /\ Tunnel /\ Others
  <2>1. Stays
    BY <1>1, <1>7 DEF Unbind, UnbindFails, Waiting
  <2>2. Tunnel
    BY <1>0, <1>7 DEF Unbind, UnbindFails, CleanedUp, Frames
  <2>3. Others
    BY <1>7 DEF Unbind, UnbindFails, Forgotten
  <2> QED
    BY <2>1, <2>2, <2>3
<1>8. CASE Reserve(p)
  <2>1. PICK h \in f.todo : \E wanted \in PortsOf[ShareOf[h]] \cup {0} :
          Moves(p, [f EXCEPT !.pc = IF wanted = 0 THEN "retry" ELSE "reserve", !.at = h],
                Calling("reserve", h, wanted, 0))
    BY <1>8 DEF Reserve
  <2>2. PICK wanted \in PortsOf[ShareOf[h]] \cup {0} :
          Moves(p, [f EXCEPT !.pc = IF wanted = 0 THEN "retry" ELSE "reserve", !.at = h],
                Calling("reserve", h, wanted, 0))
    BY <2>1
  <2>3. Ends
    BY <1>0, <1>1, <1>2, <1>8, <2>2 DEF Reserve, Moves, Waiting
  <2>4. Tunnel
    BY <1>0, <2>2 DEF Moves, Frames
  <2> QED
    BY <1>8, <2>3, <2>4 DEF Reserve
<1>9. CASE ReserveAny(p)
  <2>1. Ends
    BY <1>0, <1>2, <1>9 DEF ReserveAny, Moves
  <2>2. Tunnel
    BY <1>0, <1>9 DEF ReserveAny, Moves, Frames
  <2> QED
    BY <1>9, <2>1, <2>2 DEF ReserveAny
<1>10. CASE Apply(p)
  <2>1. serve[p].pc \in {"none", "ok", "failed"}
    BY <1>10 DEF Apply
  <2>2. Tunnel /\ (serve'[p] = NoCall \/ serve'[p].pc = "start")
    <3>1. CASE GoesBack(p)
      BY <1>4, <3>1
    <3>2. CASE Moves(p, [f EXCEPT !.pc = "apply", !.port[f.at] = serve[p].port],
                     Calling("apply", f.at, 0,
                             IF Middle(f.at) THEN f.port[Below[f.at]] ELSE 0))
      <4>1. serve'[p].pc = "start"
        BY <1>0, <1>2, <3>2 DEF Moves
      <4>2. Tunnel
        BY <1>0, <3>2 DEF Moves, Frames
      <4> QED
        BY <4>1, <4>2
    <3> QED
      BY <1>10, <3>1, <3>2 DEF Apply
  <2> QED
    BY <1>10, <2>1, <2>2 DEF Apply
<1>11. CASE Applied(p)
  <2>1. Ends
    BY <1>0, <1>11 DEF Applied, Moves
  <2>2. Tunnel
    BY <1>0, <1>11 DEF Applied, Moves, Frames
  <2>3. TunnelOf[f.at] = f.tunnel
    BY <1>0, <1>11 DEF Applied, FrameShape, Waiting, HopsOf
  <2>4. missed' = missed \ {f.at} /\ UNCHANGED <<life, bound>>
    BY <1>11 DEF Applied
  <2>5. Others
    BY <2>3, <2>4
  <2> QED
    BY <2>1, <2>2, <2>4, <2>5
<1>12. CASE SetupFails(p)
  BY <1>4, <1>12 DEF SetupFails
<1>13. CASE Domain(p)
  <2>1. Stays
    BY <1>1, <1>13 DEF Domain, Waiting
  <2>2. Tunnel
    BY <1>0, <1>13 DEF Domain, Frames
  <2> QED
    BY <1>13, <2>1, <2>2 DEF Domain
<1>14. CASE Commit(p)
  <2>1. Stays
    BY <1>1, <1>14 DEF Commit, Waiting
  <2>2. Tunnel
    BY <1>0, <1>14 DEF Commit, Frames
  <2>3. Others
    BY <1>0, <1>14 DEF Commit
  <2> QED
    BY <1>14, <2>1, <2>2, <2>3 DEF Commit
<1>15. CASE CommitFails(p)
  <2>1. Stays
    BY <1>1, <1>15 DEF CommitFails, Waiting
  <2>2. PICK tx \in BOOLEAN : proc' = [proc EXCEPT ![p] = [BackFrom(f, "idle") EXCEPT !.tx = tx]]
    BY <1>0, <1>15 DEF CommitFails
  <2>3. Tunnel
    BY <1>0, <2>2 DEF BackFrom, Frames
  <2> QED
    BY <1>15, <2>1, <2>3 DEF CommitFails
<1>16. CASE UpdateRefused(p)
  <2>1. Stays
    BY <1>1, <1>16 DEF UpdateRefused, Waiting
  <2> QED
    BY <1>0, <1>16, <2>1 DEF UpdateRefused
<1>17. CASE Local(p)
  <2>1. Stays
    BY <1>1, <1>17 DEF Local, Waiting
  <2>2. Tunnel
    <3>1. PICK then : proc'[p] = Idle \/ proc'[p] = BackFrom(f, then)
      BY <1>0, <1>17 DEF Local
    <3> QED
      BY <1>3, <3>1
  <2> QED
    BY <1>17, <2>1, <2>2 DEF Local
<1>18. CASE Forget(p)
  <2>1. Stays
    BY <1>1, <1>18 DEF Forget, Waiting
  <2>2. Others
    BY <1>18 DEF Forget, Forgotten
  <2> QED
    BY <1>0, <1>18, <2>1, <2>2 DEF Forget
<1>19. CASE Cascade(p)
  <2>1. Stays
    BY <1>1, <1>19 DEF Cascade, Waiting
  <2>2. Others
    BY <1>0, <1>19 DEF Cascade, Forgotten
  <2> QED
    BY <1>0, <1>19, <2>1, <2>2 DEF Cascade
<1>20. CASE LastFails(p)
  <2>1. Stays
    BY <1>1, <1>20 DEF LastFails, Waiting
  <2> QED
    BY <1>0, <1>20, <2>1 DEF LastFails
<1> QED
  BY <1>5, <1>6, <1>7, <1>8, <1>9, <1>10, <1>11, <1>12, <1>13, <1>14, <1>15, <1>16, <1>17,
     <1>18, <1>19, <1>20 DEF ProcStep

\* A hop of another tunnel is left alone.
LEMMA ProcElse ==
    ASSUME TypeOK, Shape, NEW p \in Procs, ProcStep(p), NEW h \in Hops, ~On(h, p), HopInv(h)
    PROVE  HopInv(h)'
<1> USE Constants
<1>1. TunnelOf[h] # proc[p].tunnel /\ ~On(h, p)'
  <2>1. TunnelOf[h] # Idle.tunnel
    BY HopAssumption DEF Idle
  <2> QED
    BY <2>1, ProcStepOwn DEF On
<1>2. \A q \in Procs : On(h, q)' \/ On(h, q) => proc'[q] = proc[q]
  BY <1>1, ProcStepShape
<1>3. serve[p].hop # h
  BY <1>1, OneCall DEF HopInv, Slots
<1>4. serve'[p].hop # h
  <2>1. FrameShape(proc'[p], serve'[p])
    BY ProcStepShape
  <2>2. serve'[p].hop = h => serve'[p] # NoCall
    BY HopAssumption DEF NoCall
  <2>3. proc'[p].pc \in Waiting /\ serve'[p].hop = h => h \in HopsOf(proc'[p].tunnel)
    BY <2>1 DEF FrameShape
  <2> QED
    BY <1>1, <2>1, <2>2, <2>3 DEF FrameShape, HopsOf, On
<1>5. /\ bound'[h] = bound[h] /\ life'[TunnelOf[h]] = life[TunnelOf[h]]
      /\ h \in missed' <=> h \in missed
  BY <1>1, ProcStepOwn
<1>6. UNCHANGED <<share, rows, svc, chain, sweep, cut>>
  BY ProcStepShape DEF provider
<1> QED
  BY <1>2, <1>3, <1>4, <1>5, <1>6, ProcStepShape, Untouched DEF Gap

\* What a step of a handler must keep, of a hop of its tunnel.
LEMMA ProcKeeps ==
    ASSUME TypeOK, Shape, NEW p \in Procs, ProcStep(p), NEW h \in Hops, On(h, p), HopInv(h),
           \/ proc'[p] = Idle /\ RestBy(h, bound'[h], h \notin missed')
           \/ /\ proc'[p].tunnel = proc[p].tunnel
              /\ HandledBy(h, proc'[p], bound'[h], h \notin missed'),
           bound'[h] # 0 \/ (proc'[p] # Idle /\ proc'[p].op # "create")
               => life'[TunnelOf[h]] = "made"
    PROVE  HopInv(h)'
<1> USE Constants
<1>0. /\ Idle.tunnel = NoTunnel /\ TunnelOf[h] # NoTunnel
      /\ proc[p].tunnel = TunnelOf[h] /\ p \in Slots /\ p \notin Strays
  BY HopAssumption, ProcAssumption DEF Idle, On, Slots
<1>1. /\ \A q \in Procs : q # p => proc'[q] = proc[q] /\ ~On(h, q) /\ ~On(h, q)'
      /\ \A x \in Slots : x # p => serve'[x] = serve[x] /\ serve[x].hop # h
  <2>1. \A q \in Procs : q # p => proc'[q] = proc[q] /\ ~On(h, q)
    BY ProcStepShape DEF HopInv, Owned
  <2>2. ASSUME NEW x \in Slots, x # p PROVE serve'[x] = serve[x] /\ serve[x].hop # h
    <3>1. serve[x].hop = h => x \in Procs /\ On(h, x)
      BY OneCall DEF HopInv
    <3> QED
      BY <2>1, <2>2, <3>1, ProcStepShape
  <2> QED
    BY <2>1, <2>2 DEF On
<1>2. UNCHANGED <<share, rows, svc, chain, sweep, cut>>
  BY ProcStepShape DEF provider
<1>3. /\ Active(h)' <=> Active(h)
      /\ Set(h)' <=> Set(h)
      /\ Gap(h)' <=> Gap(h)
      /\ \A port : Agrees(h, port) => Agrees(h, port)'
  BY <1>2 DEF Active, Set, Gap, Agrees
<1>4. serve'[p].hop = h => serve'[p].pc = "start"
  <2>1. NoCall.hop # h
    BY HopAssumption DEF NoCall
  <2> QED
    BY <2>1, ProcStepOwn
<1>5. serve[p].hop = h => serve[p].pc \in {"none", "ok", "failed"}
  <2>1. NoCall.hop # h
    BY HopAssumption DEF NoCall
  <2> QED
    BY <2>1, ProcStepOwn
<1>6. ASSUME NEW op, NEW pcs, pcs \cap {"none", "ok", "failed", "start"} = {}
      PROVE  InCall(h, op, pcs)' <=> InCall(h, op, pcs)
  BY <1>1, <1>4, <1>5, <1>6 DEF InCall
<1>7. Owned(h)'
  BY <1>0, <1>1 DEF HopInv, Owned, Slots
<1>8. Lives(h)'
  BY <1>0, <1>1 DEF Lives, On
<1>9. OnNode(h)'
  <2>1. /\ InCall(h, "apply", {"write"})' <=> InCall(h, "apply", {"write"})
        /\ InCall(h, "apply", {"service", "undo"})' <=> InCall(h, "apply", {"service", "undo"})
        /\ InCall(h, "release", {"dropChain"})' <=> InCall(h, "release", {"dropChain"})
        /\ InCall(h, "release", {"dropChain", "mark"})' <=>
              InCall(h, "release", {"dropChain", "mark"})
    BY <1>6
  <2> QED
    BY <1>2, <1>3, <2>1 DEF HopInv, OnNode
<1>10. \A x \in Slots : serve'[x].hop = h => Seen(h, serve[x])'
  BY <1>1, <1>4 DEF Seen
<1>11. ASSUME NEW q \in Procs, On(h, q)' PROVE Handled(h, proc[q])'
  <2>1. q = p /\ proc'[p] # Idle
    BY <1>0, <1>1, <1>11 DEF On
  <2> QED
    BY <1>2, <1>3, <2>1 DEF HandledBy, Handled
<1>12. AtRest(h)'
  <2>1. ~Busy(TunnelOf[h])' => proc'[p] = Idle
    BY <1>0 DEF Busy
  <2> QED
    BY <1>0, <1>2, <2>1 DEF AtRest, RestBy, Agrees, Set, Active
<1> QED
  BY <1>7, <1>8, <1>9, <1>10, <1>11, <1>12 DEF HopInv

\* A step of a handler keeps the hops of its tunnel in order.
LEMMA ProcHop ==
    ASSUME TypeOK, Shape, NEW p \in Procs, ProcStep(p), NEW h \in Hops, On(h, p), HopInv(h),
           h \notin blamed'
    PROVE  HopInv(h)'
<1> DEFINE f == proc[p]
           known == h \notin missed
           Alive == life[TunnelOf[h]] = "made"
           Kept == /\ \/ proc'[p] = Idle /\ RestBy(h, bound'[h], h \notin missed')
                      \/ /\ proc'[p].tunnel = proc[p].tunnel
                         /\ HandledBy(h, proc'[p], bound'[h], h \notin missed')
                   /\ bound'[h] # 0 \/ (proc'[p] # Idle /\ proc'[p].op # "create")
                         => life'[TunnelOf[h]] = "made"
           \* What the handler goes on as, when binding, tunnel and note stay.
           Goes(g) == /\ proc'[p] = g /\ g.tunnel = f.tunnel /\ g.op = f.op
                      /\ HandledBy(h, g, bound[h], known)
                      /\ UNCHANGED <<bound, missed, life>>
           Rests == /\ proc'[p] = Idle /\ RestBy(h, bound[h], known)
                    /\ UNCHANGED <<bound, missed, life>>
<1> USE Constants
<1>0. /\ f \in Frames /\ FrameShape(f, serve[p]) /\ serve[p] \in Calls
      /\ proc \in [Procs -> Frames] /\ serve \in [Slots -> Calls] /\ p \in Slots
      /\ rows \in [Hops -> Rows \cup {NoRow}]
      /\ f.op # "none" /\ f.tunnel = TunnelOf[h] /\ h \in HopsOf(f.tunnel)
  BY ProcStepShape DEF TypeOK, Shape, Slots, On, HopsOf
<1>1. /\ Handled(h, f) /\ (bound[h] # 0 \/ f.op # "create" => Alive)
      /\ serve[p].hop = h => Seen(h, serve[p])
  BY <1>0 DEF HopInv, Lives
<1>2. InCall(h, "apply", {"ok"}) => serve[p].hop = h /\ serve[p].op = "apply" /\ serve[p].pc = "ok"
  BY OneCall DEF HopInv, InCall, Owned
<1>3. known /\ Set(h) /\ f.pc \in Setup =>
         h \in f.done \/ (f.pc = "apply" /\ f.at = h /\ serve[p].pc = "ok")
  <2>1. serve[p].op = "apply" => f.pc = "apply" /\ serve[p].hop = f.at
    BY <1>0 DEF FrameShape, Waiting, NoCall
  <2> QED
    BY <1>1, <1>2, <2>1 DEF Handled
<1>4. f.pc \in Setup \cup {"local"} => /\ f.todo \cup f.done = HopsOf(f.tunnel)
                                    /\ f.todo \cap f.done = {}
  BY <1>0 DEF FrameShape
<1> SUFFICES Kept
  BY ProcKeeps
<1>5. ASSUME NEW g, Goes(g) PROVE Kept
  BY <1>1, <1>5
<1>6. Rests => Kept
  BY <1>1
<1>7. ASSUME GoesBack(p), f.pc \in {"reserve", "retry"} \/ (f.pc = "apply" /\ serve[p].pc = "failed"),
             UNCHANGED <<bound, missed, life>>
      PROVE  Kept
  <2>1. known /\ Set(h) => h \in f.done
    BY <1>3, <1>7 DEF Setup
  <2>2. bound[h] = 0
    BY <1>1, <1>7 DEF Handled, Setup
  <2>3. CASE f.done = {}
    <3>1. Rests
      BY <1>0, <1>7, <2>1, <2>2, <2>3 DEF GoesBack, Moves, RestBy
    <3> QED
      BY <1>6, <3>1
  <2>4. CASE f.done # {}
    <3> DEFINE g == BackFrom(f, "idle")
    <3>1. /\ g.pc = "domain" /\ g.tunnel = f.tunnel /\ g.op = f.op /\ g.done = f.done
      BY <1>0 DEF BackFrom, Frames
    <3>2. proc'[p] = g
      BY <1>0, <1>7, <2>4 DEF GoesBack, Moves
    <3> HIDE DEF g
    <3>3. Goes(g)
      BY <1>7, <2>1, <2>2, <3>1, <3>2 DEF HandledBy, Setup
    <3> QED
      BY <1>5, <3>3
  <2> QED
    BY <2>3, <2>4
<1> HIDE DEF Goes, Rests
<1>8. CASE Release(p)
  <2>1. PICK g0 \in f.todo :
          Moves(p, [f EXCEPT !.pc = "releasing", !.at = g0], Calling("release", g0, 0, 0))
    BY <1>8 DEF Release
  <2> DEFINE g == [f EXCEPT !.pc = "releasing", !.at = g0]
  <2>2. proc'[p] = g
    BY <1>0, <2>1 DEF Moves
  <2>3. /\ g.pc = "releasing" /\ g.tunnel = f.tunnel /\ g.op = f.op /\ g.todo = f.todo
        /\ g.then = f.then
    BY <1>0 DEF Frames
  <2> HIDE DEF g
  <2>4. Goes(g)
    BY <1>1, <1>8, <2>2, <2>3 DEF Goes, Release, Handled, HandledBy, Setup
  <2> QED
    BY <1>5, <2>4
<1>9. CASE Released(p)
  <2> DEFINE left == f.todo \ {f.at}
             next == IF left = {} THEN f.then ELSE "release"
             g == [f EXCEPT !.pc = next, !.todo = left, !.at = NoHop]
  <2>1. proc'[p] = IF next = "idle" THEN Idle ELSE g
    BY <1>0, <1>9 DEF Released, Moves
  <2>2. /\ f.pc = "releasing" /\ serve[p].op = "release" /\ serve[p].hop = f.at
        /\ serve[p].pc \in {"ok", "failed"} /\ UNCHANGED <<bound, missed, life>>
    BY <1>0, <1>9 DEF Released, FrameShape, Waiting, Ended
  <2>3. known /\ h = f.at => ~Set(h)
    BY <1>1, <2>2 DEF Seen
  <2>4. known /\ Set(h) => h \in left
    BY <1>1, <2>2, <2>3 DEF Handled
  <2>5. f.then = "idle" => bound[h] = 0
    BY <1>1, <2>2 DEF Handled
  <2>6. next \in {"idle", "unbind", "forget", "cascade", "release"}
    BY <1>0 DEF Frames
  <2>7. next # "release" => next = f.then /\ left = {}
    OBVIOUS
  <2>8. CASE next = "idle"
    <3>1. Rests
      BY <2>1, <2>2, <2>4, <2>5, <2>7, <2>8 DEF Rests, RestBy
    <3> QED
      BY <1>6, <3>1
  <2>9. CASE next # "idle"
    <3>1. /\ g.pc = next /\ g.tunnel = f.tunnel /\ g.op = f.op /\ g.todo = left
          /\ g.then = f.then
      BY <1>0 DEF Frames
    <3> HIDE DEF g, left, next
    <3>2. Goes(g)
      BY <2>1, <2>2, <2>4, <2>5, <2>6, <2>7, <2>9, <3>1 DEF Goes, HandledBy, Setup
    <3> QED
      BY <1>5, <3>2
  <2> QED
    BY <2>8, <2>9
<1>10. ASSUME Unbind(p) \/ UnbindFails(p) PROVE Kept
  <2>1. f.pc = "unbind" /\ bound'[h] = 0 /\ UNCHANGED <<missed, life>>
    BY <1>0, <1>10 DEF Unbind, UnbindFails, Forgotten, Held
  <2>2. known => ~Set(h)
    BY <1>1, <2>1 DEF Handled
  <2>3. /\ f.op # "create"
    BY <1>0, <2>1 DEF FrameShape
  <2>4. \/ proc'[p] = Idle
        \/ /\ proc'[p].tunnel = f.tunnel /\ proc'[p].op = f.op
           /\ proc'[p].pc = "pick" /\ f.op = "update" /\ proc'[p].done = f.done
        \/ proc'[p].tunnel = f.tunnel /\ proc'[p].op = f.op /\ proc'[p].pc = "cascade"
    <3>1. \/ /\ proc'[p] = [f EXCEPT !.pc = "pick", !.todo = HopsOf(f.tunnel)]
             /\ f.op = "update"
          \/ proc'[p] = Idle
          \/ proc'[p] = [f EXCEPT !.pc = "cascade"]
      BY <1>0, <1>10 DEF Unbind, UnbindFails, CleanedUp
    <3> QED
      BY <1>0, <3>1 DEF Frames
  <2>5. f.done = {}
    BY <1>0, <2>1 DEF FrameShape
  <2>6. CASE proc'[p] = Idle
    BY <2>1, <2>2, <2>6 DEF RestBy
  <2>7. CASE proc'[p] # Idle
    BY <1>1, <2>1, <2>2, <2>3, <2>4, <2>5, <2>7 DEF HandledBy, Setup
  <2> QED
    BY <2>6, <2>7
<1>11. CASE Reserve(p)
  <2>1. PICK g0 \in f.todo : \E wanted \in PortsOf[ShareOf[g0]] \cup {0} :
          Moves(p, [f EXCEPT !.pc = IF wanted = 0 THEN "retry" ELSE "reserve", !.at = g0],
                Calling("reserve", g0, wanted, 0))
    BY <1>11 DEF Reserve
  <2>2. PICK wanted \in PortsOf[ShareOf[g0]] \cup {0} :
          Moves(p, [f EXCEPT !.pc = IF wanted = 0 THEN "retry" ELSE "reserve", !.at = g0],
                Calling("reserve", g0, wanted, 0))
    BY <2>1
  <2> DEFINE g == [f EXCEPT !.pc = IF wanted = 0 THEN "retry" ELSE "reserve", !.at = g0]
  <2>3. proc'[p] = g
    BY <1>0, <2>2 DEF Moves
  <2>4. /\ g.pc \in {"retry", "reserve"} /\ g.tunnel = f.tunnel /\ g.op = f.op
        /\ g.done = f.done /\ g.port = f.port
    BY <1>0 DEF Frames
  <2> HIDE DEF g
  <2>5. Goes(g)
    BY <1>1, <1>3, <1>11, <2>3, <2>4 DEF Goes, Reserve, Handled, HandledBy, Setup
  <2> QED
    BY <1>5, <2>5
<1>12. CASE ReserveAny(p)
  <2> DEFINE g == [f EXCEPT !.pc = "retry"]
  <2>1. proc'[p] = g
    BY <1>0, <1>12 DEF ReserveAny, Moves
  <2>2. /\ g.pc = "retry" /\ g.tunnel = f.tunnel /\ g.op = f.op
        /\ g.done = f.done /\ g.port = f.port
    BY <1>0 DEF Frames
  <2> HIDE DEF g
  <2>3. Goes(g)
    BY <1>1, <1>3, <1>12, <2>1, <2>2 DEF Goes, ReserveAny, Handled, HandledBy, Setup
  <2> QED
    BY <1>5, <2>3
<1>13. CASE Apply(p)
  <2>1. CASE GoesBack(p)
    BY <1>7, <1>13, <2>1 DEF Apply
  <2>2. CASE Moves(p, [f EXCEPT !.pc = "apply", !.port[f.at] = serve[p].port],
                   Calling("apply", f.at, 0, IF Middle(f.at) THEN f.port[Below[f.at]] ELSE 0))
    <3> DEFINE g == [f EXCEPT !.pc = "apply", !.port[f.at] = serve[p].port]
    <3>1. f.at \notin f.done
      BY <1>0, <1>4, <1>13 DEF Apply, FrameShape, Waiting, Setup
    <3>2. proc'[p] = g
      BY <1>0, <2>2 DEF Moves
    <3>3. /\ g.pc = "apply" /\ g.tunnel = f.tunnel /\ g.op = f.op
          /\ g.done = f.done /\ (h # f.at => g.port[h] = f.port[h])
      BY <1>0 DEF Frames
    <3> HIDE DEF g
    <3>4. Goes(g)
      BY <1>1, <1>3, <1>13, <3>1, <3>2, <3>3 DEF Goes, Apply, Handled, HandledBy, Setup
    <3> QED
      BY <1>5, <3>4
  <2> QED
    BY <1>13, <2>1, <2>2 DEF Apply
<1>14. CASE Applied(p)
  <2> DEFINE left == f.todo \ {f.at}
             g == [f EXCEPT !.pc = IF left = {} THEN "commit" ELSE "pick", !.todo = left,
                            !.done = @ \cup {f.at}, !.at = NoHop, !.port[f.at] = serve[p].port]
  <2>1. /\ f.pc = "apply" /\ serve[p].op = "apply" /\ serve[p].hop = f.at /\ serve[p].pc = "ok"
        /\ missed' = missed \ {f.at} /\ UNCHANGED <<bound, life>> /\ f.at \notin f.done
        /\ f.at \in Hops
    BY <1>0, <1>4, <1>14 DEF Applied, FrameShape, Waiting, Setup, HopsOf
  <2>2. h = f.at => Agrees(h, serve[p].port)
    BY <1>1, <2>1 DEF Seen, Agrees
  <2>3. proc'[p] = g
    BY <1>0, <1>14 DEF Applied, Moves
  <2>4. /\ g.pc \in {"commit", "pick"} /\ g.tunnel = f.tunnel /\ g.op = f.op
        /\ g.done = f.done \cup {f.at}
        /\ g.port = [f.port EXCEPT ![f.at] = serve[p].port]
    BY <1>0 DEF Frames
  <2>5. g.port[f.at] = serve[p].port /\ (h # f.at => g.port[h] = f.port[h])
    BY <1>0, <2>1, <2>4 DEF Frames
  <2> HIDE DEF g
  <2>6. bound[h] = 0
    BY <1>1, <2>1 DEF Handled, Setup
  <2>7. h \in g.done /\ h \notin missed' => Agrees(h, g.port[h])
    BY <1>1, <2>1, <2>2, <2>4, <2>5 DEF Handled, Setup
  <2>8. h \notin missed' /\ Set(h) => h \in g.done
    BY <1>3, <2>1, <2>4 DEF Setup
  <2>9. HandledBy(h, g, bound'[h], h \notin missed')
    BY <2>1, <2>4, <2>6, <2>7, <2>8 DEF HandledBy, Setup
  <2> QED
    BY <1>1, <2>1, <2>3, <2>4, <2>9
<1>15. CASE SetupFails(p)
  BY <1>7, <1>15 DEF SetupFails
<1>16. CASE Domain(p)
  <2> DEFINE g == [f EXCEPT !.pc = "release", !.todo = f.done]
  <2>1. proc'[p] = g
    BY <1>0, <1>16 DEF Domain
  <2>2. /\ g.pc = "release" /\ g.tunnel = f.tunnel /\ g.op = f.op
        /\ g.todo = f.done /\ g.then = f.then
    BY <1>0 DEF Frames
  <2> HIDE DEF g
  <2>3. Goes(g)
    BY <1>1, <1>16, <2>1, <2>2 DEF Goes, Domain, Handled, HandledBy, Setup
  <2> QED
    BY <1>5, <2>3
<1>17. CASE Commit(p)
  <2> DEFINE g == [f EXCEPT !.pc = "local", !.tx = FALSE]
  <2>1. /\ proc'[p] = g /\ bound'[h] = f.port[h] /\ UNCHANGED missed
        /\ life'[TunnelOf[h]] = IF f.op = "create" THEN "made" ELSE life[TunnelOf[h]]
    BY <1>0, <1>17 DEF Commit, TypeOK
  <2>2. g.pc = "local" /\ g.tunnel = f.tunnel /\ g.op = f.op
    BY <1>0 DEF Frames
  <2>3. f.pc = "commit" /\ h \in f.done
    BY <1>0, <1>4, <1>17 DEF Commit, FrameShape, Setup
  <2>4. known => Agrees(h, f.port[h])
    BY <1>1, <2>3 DEF Handled, Setup
  <2>5. known /\ Set(h) => f.port[h] = rows[h].port
    BY <2>4 DEF Agrees, Set
  <2> HIDE DEF g
  <2>6. HandledBy(h, g, bound'[h], h \notin missed')
    BY <2>1, <2>2, <2>4, <2>5 DEF HandledBy, Setup
  <2> QED
    BY <1>1, <2>1, <2>2, <2>6
<1>18. CASE CommitFails(p)
  <2>1. PICK tx \in BOOLEAN : proc' = [proc EXCEPT ![p] = [BackFrom(f, "idle") EXCEPT !.tx = tx]]
    BY <1>0, <1>18 DEF CommitFails
  <2> DEFINE g == [BackFrom(f, "idle") EXCEPT !.tx = tx]
  <2>2. /\ g.pc = "domain" /\ g.tunnel = f.tunnel /\ g.op = f.op /\ g.done = f.done
    BY <1>0 DEF BackFrom, Frames
  <2>3. proc'[p] = g
    BY <1>0, <2>1
  <2> HIDE DEF g
  <2>4. f.pc = "commit" /\ UNCHANGED <<bound, missed, life>>
    BY <1>18 DEF CommitFails
  <2>5. bound[h] = 0 /\ (known /\ Set(h) => h \in f.done)
    BY <1>1, <1>3, <2>4 DEF Handled, Setup
  <2>6. Goes(g)
    BY <2>2, <2>3, <2>4, <2>5 DEF Goes, HandledBy, Setup
  <2> QED
    BY <1>5, <2>6
<1>19. CASE UpdateRefused(p)
  <2>1. h \in f.done
    BY <1>0, <1>4, <1>19 DEF UpdateRefused, FrameShape, Setup
  <2> QED
    BY <1>19, <2>1 DEF UpdateRefused
<1>20. CASE Local(p)
  <2>1. f.pc = "local" /\ h \in f.done /\ UNCHANGED <<bound, missed, life>>
    BY <1>0, <1>4, <1>20 DEF Local, FrameShape
  <2>2. CASE proc' = [proc EXCEPT ![p] = Idle]
    <3>1. Rests
      BY <1>0, <1>1, <2>1, <2>2 DEF Rests, RestBy, Handled
    <3> QED
      BY <1>6, <3>1
  <2>3. CASE proc' = [proc EXCEPT ![p] =
                        BackFrom(@, IF @.op = "create" THEN "cascade" ELSE "forget")]
    <3> DEFINE then == IF f.op = "create" THEN "cascade" ELSE "forget"
               g == BackFrom(f, then)
    <3>1. proc'[p] = g
      BY <1>0, <2>3
    <3>2. /\ g.pc = "domain" /\ g.tunnel = f.tunnel /\ g.op = f.op /\ g.done = f.done
          /\ g.then # "idle"
      BY <1>0 DEF BackFrom, Frames
    <3> HIDE DEF g
    <3>3. Goes(g)
      BY <2>1, <3>1, <3>2 DEF Goes, HandledBy, Setup
    <3> QED
      BY <1>5, <3>3
  <2> QED
    BY <1>20, <2>2, <2>3 DEF Local
<1>21. CASE Forget(p)
  <2>1. f.pc = "forget" /\ bound'[h] = 0 /\ proc'[p] = Idle /\ UNCHANGED missed
    BY <1>0, <1>21 DEF Forget, Forgotten
  <2>2. RestBy(h, bound'[h], h \notin missed')
    BY <1>1, <2>1 DEF Handled, RestBy
  <2> QED
    BY <2>1, <2>2
<1>22. CASE Cascade(p)
  <2>1. f.pc = "cascade" /\ bound'[h] = 0 /\ proc'[p] = Idle /\ UNCHANGED missed
    BY <1>0, <1>22 DEF Cascade, Forgotten
  <2>2. RestBy(h, bound'[h], h \notin missed')
    BY <1>1, <2>1 DEF Handled, RestBy
  <2> QED
    BY <2>1, <2>2
<1>23. CASE LastFails(p)
  <2>1. /\ f.pc \in {"forget", "cascade"} /\ bound[h] = 0 /\ proc'[p] = Idle
        /\ UNCHANGED <<bound, missed>>
    BY <1>0, <1>23 DEF LastFails, Held
  <2>2. RestBy(h, bound'[h], h \notin missed')
    BY <1>1, <2>1 DEF Handled, RestBy
  <2> QED
    BY <2>1, <2>2
<1> QED
  BY <1>8, <1>9, <1>10, <1>11, <1>12, <1>13, <1>14, <1>15, <1>16, <1>17, <1>18, <1>19, <1>20,
     <1>21, <1>22, <1>23 DEF ProcStep

\* A new request meets no other at a hop that stays in order, and the binding tells
\* it what is set up there.
LEMMA AsksHop ==
    ASSUME TypeOK, Shape, NEW p \in Procs, NEW t \in Tunnels,
           Create(p, t) \/ Update(p, t) \/ Delete(p, t),
           NEW h \in Hops, HopInv(h), h \notin blamed'
    PROVE  HopInv(h)'
<1> USE Constants
<1>1. /\ proc[p] = Idle /\ proc'[p].tunnel = t
      /\ \A q \in Procs : q # p => proc'[q] = proc[q]
      /\ UNCHANGED <<share, rows, svc, chain, sweep, cut, serve>>
      /\ UNCHANGED <<missed, life, bound>>
  <2>1. UNCHANGED <<missed, life, bound>>
    BY DEF Create, Update, Delete, Cleans, CleansNot
  <2> QED
    BY <2>1, AsksShape DEF provider
<1>2. ~On(h, p)
  BY <1>1, HopAssumption DEF On, Idle
<1>3. CASE TunnelOf[h] # t
  <2>1. ~On(h, p)'
    BY <1>1, <1>3 DEF On
  <2>2. \A q \in Procs : On(h, q)' \/ On(h, q) => proc'[q] = proc[q]
    BY <1>1, <1>2, <2>1
  <2> QED
    BY <1>1, <2>2, Untouched DEF Gap
<1>4. CASE TunnelOf[h] = t
  <2>1. ~Busy(t)
    <3>1. h \in HopsOf(t)
      BY <1>4 DEF HopsOf
    <3> QED
      BY <3>1 DEF Create, Update, Delete, Cleans, CleansNot, Meets
  <2>2. \A q \in Procs : q # p => ~On(h, q) /\ ~On(h, q)'
    BY <1>1, <1>4, <2>1 DEF Busy, On
  <2>3. \A x \in Slots : serve[x].hop # h
    <3>1. ASSUME NEW x \in Slots, serve[x].hop = h PROVE FALSE
      <4>1. x \in Procs /\ On(h, x)
        BY <3>1, OneCall DEF HopInv
      <4> QED
        BY <1>4, <2>1, <4>1 DEF Busy, On
    <3> QED
      BY <3>1
  <2>4. /\ bound \in [Hops -> Port0] /\ proc \in [Procs -> Frames]
        /\ Set(h) => rows[h].port # 0
    <3>1. Set(h) => rows[h] \in Rows
      BY DEF TypeOK, Set, Active
    <3> QED
      BY <3>1 DEF TypeOK, Rows
  <2>5. h \notin missed => /\ bound[h] # 0 => Agrees(h, bound[h])
                           /\ Set(h) => bound[h] = rows[h].port
    BY <1>4, <2>1 DEF HopInv, AtRest
  <2>6. /\ HandledBy(h, proc'[p], bound[h], h \notin missed)
        /\ bound[h] # 0 \/ proc'[p].op # "create" => life[t] = "made"
    <3>1. CASE Create(p, t)
      <4> DEFINE g == [Idle EXCEPT !.op = "create", !.pc = "pick", !.tunnel = t,
                                   !.todo = HopsOf(t), !.tx = TRUE]
      <4>1. proc'[p] = g
        BY <2>4, <3>1 DEF Create
      <4>2. g.op = "create" /\ g.pc = "pick" /\ g.done = {}
        BY DEF Idle
      <4>3. bound[h] = 0
        BY <1>4, <3>1 DEF Create, HopInv, Lives
      <4>4. h \notin missed => ~Set(h)
        BY <2>4, <2>5, <4>3
      <4> HIDE DEF g
      <4> QED
        BY <4>1, <4>2, <4>3, <4>4 DEF HandledBy, Setup
    <3>2. ASSUME NEW op \in {"update", "delete"}, NEW next \in {"pick", "cascade"},
                 Cleans(p, op, t, next)
          PROVE  /\ HandledBy(h, proc'[p], bound[h], h \notin missed)
                 /\ life[t] = "made"
      <4> DEFINE held == Held(t)
                 g == [Idle EXCEPT !.op = op, !.tunnel = t, !.then = "unbind",
                                   !.pc = IF held = {} THEN next ELSE "release",
                                   !.todo = IF held = {} THEN HopsOf(t) ELSE held]
      <4>1. proc'[p] = g /\ life[t] = "made"
        BY <2>4, <3>2 DEF Cleans
      <4>2. h \in HopsOf(t)
        BY <1>4 DEF HopsOf
      <4>3. bound[h] # 0 <=> h \in held
        BY <4>2 DEF Held
      <4> HIDE DEF held
      <4>4. /\ g.pc = (IF held = {} THEN next ELSE "release") /\ g.then = "unbind"
            /\ g.todo = (IF held = {} THEN HopsOf(t) ELSE held) /\ g.done = {}
        BY DEF Idle
      <4>5. h \notin missed /\ Set(h) => h \in held
        BY <2>4, <2>5, <4>3
      <4> HIDE DEF g
      <4> QED
        BY <4>1, <4>3, <4>4, <4>5 DEF HandledBy, Setup
    <3>3. ASSUME NEW op \in {"update", "delete"}, NEW next \in {"pick", "cascade"},
                 CleansNot(p, op, t, next)
          PROVE  /\ HandledBy(h, proc'[p], bound[h], h \notin missed)
                 /\ life[t] = "made"
      <4> DEFINE g == [Idle EXCEPT !.op = op, !.tunnel = t, !.then = "unbind",
                                   !.pc = next, !.todo = HopsOf(t)]
      <4>1. proc'[p] = g /\ life[t] = "made"
        BY <2>4, <3>3 DEF CleansNot
      <4>2. bound[h] = 0
        <5>1. h \in HopsOf(t) /\ h \notin Held(t)
          BY <1>4, <2>1, <3>3 DEF CleansNot, HopsOf
        <5> QED
          BY <5>1 DEF Held
      <4>3. g.pc = next /\ g.done = {}
        BY DEF Idle
      <4>4. h \notin missed => ~Set(h)
        BY <2>4, <2>5, <4>2
      <4> HIDE DEF g
      <4> QED
        BY <4>1, <4>2, <4>3, <4>4 DEF HandledBy, Setup
    <3> QED
      BY <3>1, <3>2, <3>3 DEF Update, Delete
  <2>7. /\ Set(h)' <=> Set(h)
        /\ Gap(h)' <=> Gap(h)
        /\ Active(h)' <=> Active(h)
    BY <1>1 DEF Set, Active, Gap
  <2>8. Owned(h)' /\ Lives(h)'
    BY <1>1, <1>4, <2>2, <2>6 DEF HopInv, Owned, Lives, On
  <2>9. OnNode(h)'
    BY <1>1, <2>7 DEF HopInv, OnNode, InCall
  <2>10. On(h, p)' /\ Busy(TunnelOf[h])'
    BY <1>1, <1>4 DEF On, Busy
  <2>11. \A q \in Procs : On(h, q)' => Handled(h, proc[q])'
    <3>1. Handled(h, proc[p])'
      BY <1>1, <2>6, <2>7 DEF Handled, HandledBy, Agrees
    <3> QED
      BY <2>2, <3>1
  <2> QED
    BY <1>1, <2>3, <2>8, <2>9, <2>10, <2>11 DEF HopInv, AtRest
<1> QED
  BY <1>3, <1>4

\* A release that is lost is noted, and a request that is given up is blamed.
LEMMA MishapHop ==
    ASSUME TypeOK, Shape, NEW p \in Procs, Lost(p) \/ Timeout(p),
           NEW h \in Hops, HopInv(h), h \notin blamed'
    PROVE  HopInv(h)'
<1> USE Constants
<1>0. /\ serve \in [Slots -> Calls] /\ p \in Slots /\ p \notin Strays
      /\ UNCHANGED <<share, rows, svc, chain, sweep, cut, proc>>
      /\ UNCHANGED <<life, bound>>
      /\ serve'[p] = [serve[p] EXCEPT !.pc = "failed"]
  <2>1. UNCHANGED <<life, bound>>
    BY DEF Lost, Timeout, consumer
  <2> QED
    BY <2>1, MishapShape, ProcAssumption DEF TypeOK, provider, Slots
<1>1. /\ serve'[p].hop = serve[p].hop /\ serve'[p].op = serve[p].op /\ serve'[p].pc = "failed"
      /\ serve[p].op # "none"
  BY <1>0, MishapShape DEF Calls
<1>2. CASE serve[p].hop # h
  <2>1. \A x \in Slots : serve'[x].hop = h \/ serve[x].hop = h => serve'[x] = serve[x]
    <3>1. CASE Lost(p)
      BY <1>0, <1>1, <1>2, <3>1 DEF Lost
    <3>2. CASE Timeout(p)
      <4>1. PICK x \in Strays : /\ serve[x] = NoCall
                               /\ serve' = [serve EXCEPT ![x] = serve[p], ![p].pc = "failed"]
        BY <3>2 DEF Timeout
      <4>2. serve[x].hop # h /\ serve'[x].hop # h
        BY <1>0, <1>2, <4>1, HopAssumption DEF NoCall, Slots
      <4> QED
        BY <1>0, <1>1, <1>2, <4>1, <4>2
    <3> QED
      BY <3>1, <3>2
  <2>2. h \in missed' <=> h \in missed
    BY <1>2 DEF Lost, Timeout, consumer
  <2> QED
    BY <1>0, <2>1, <2>2, Untouched DEF Gap, On
<1>3. CASE serve[p].hop = h
  <2>1. Lost(p)
    BY <1>3 DEF Timeout
  <2>2. /\ serve[p].pc = "start" /\ missed \subseteq missed'
        /\ h \notin missed' => serve[p].op # "release"
        /\ serve' = [serve EXCEPT ![p].pc = "failed"]
    BY <1>3, <2>1 DEF Lost
  <2>3. /\ \A x \in Slots : x # p => serve'[x] = serve[x]
        /\ \A x \in Slots : serve[x].hop = h => x = p
        /\ On(h, p)
    BY <1>0, <1>3, <2>2, OneCall DEF HopInv
  <2>4. ASSUME NEW op, NEW pcs, "start" \notin pcs, "failed" \notin pcs
        PROVE  InCall(h, op, pcs)' <=> InCall(h, op, pcs)
    BY <1>1, <2>2, <2>3, <2>4 DEF InCall
  <2>5. /\ InCall(h, "apply", {"write"})' <=> InCall(h, "apply", {"write"})
        /\ InCall(h, "apply", {"service", "undo"})' <=> InCall(h, "apply", {"service", "undo"})
        /\ InCall(h, "apply", {"ok"})' <=> InCall(h, "apply", {"ok"})
        /\ InCall(h, "release", {"dropChain"})' <=> InCall(h, "release", {"dropChain"})
        /\ InCall(h, "release", {"dropChain", "mark"})' <=>
              InCall(h, "release", {"dropChain", "mark"})
    BY <2>4
  <2>6. /\ Set(h)' <=> Set(h)
        /\ Gap(h)' <=> Gap(h)
        /\ Active(h)' <=> Active(h)
    BY <1>0 DEF Set, Active, Gap
  <2>7. Owned(h)' /\ Lives(h)'
    BY <1>0, <2>3 DEF HopInv, Owned, Lives, On, Slots
  <2>8. OnNode(h)'
    BY <1>0, <2>5, <2>6 DEF HopInv, OnNode
  <2>9. \A x \in Slots : serve'[x].hop = h => Seen(h, serve[x])'
    BY <1>1, <2>2, <2>3 DEF Seen
  <2>10. \A q \in Procs : On(h, q)' => Handled(h, proc[q])'
    BY <1>0, <2>2, <2>5, <2>6 DEF HopInv, Handled, On, Agrees
  <2>11. AtRest(h)'
    BY <1>0, <2>3 DEF AtRest, Busy, On
  <2> QED
    BY <2>7, <2>8, <2>9, <2>10, <2>11 DEF HopInv
<1> QED
  BY <1>2, <1>3

\* What a step of the provider's withdrawals must keep of a hop of the share.
LEMMA ShareKeeps ==
    ASSUME NEW h \in Hops, HopInv(h), UNCHANGED <<consumer, serve>>, OnNode(h)',
           \A x \in Slots : serve[x].hop = h /\ Seen(h, serve[x]) => Seen(h, serve[x])',
           Set(h)' => Set(h) /\ rows'[h].port = rows[h].port,
           \A port \in Nat : Agrees(h, port) => Agrees(h, port)',
           bound[h] \in Nat, \A p \in Procs : proc[p].port[h] \in Nat
    PROVE  HopInv(h)'
<1>1. /\ UNCHANGED <<life, bound, proc, missed, serve>>
      /\ \A p \in Procs : On(h, p)' <=> On(h, p)
      /\ InCall(h, "apply", {"ok"})' <=> InCall(h, "apply", {"ok"})
  BY DEF consumer, On, InCall
<1>2. Owned(h)' /\ Lives(h)'
  BY <1>1 DEF HopInv, Owned, Lives
<1>3. bound[h] \in Nat /\ Agrees(h, bound[h]) => Agrees(h, bound[h])'
  BY <1>1 DEF Agrees
<1>4. AtRest(h)'
  BY <1>1, <1>3 DEF HopInv, AtRest, Busy, On
<1>5. ASSUME NEW p \in Procs, On(h, p)' PROVE Handled(h, proc[p])'
  <2>1. Handled(h, proc[p])
    BY <1>1, <1>5 DEF HopInv
  <2>2. Agrees(h, proc[p].port[h]) => Agrees(h, proc[p].port[h])'
    BY <1>1 DEF Agrees
  <2> QED
    BY <1>1, <1>3, <2>1, <2>2 DEF Handled
<1>6. \A x \in Slots : serve'[x].hop = h => Seen(h, serve[x])'
  BY <1>1 DEF HopInv
<1> QED
  BY <1>1, <1>2, <1>4, <1>5, <1>6 DEF HopInv

\* A withdrawal that does not cross an apply keeps every hop in order.
LEMMA ShareHop ==
    ASSUME TypeOK, Shape, NEW s \in Shares,
           Upload(s) \/ DeleteShare(s) \/ ResetFlow(s) \/ SweepStep(s),
           NEW h \in Hops, HopInv(h), h \notin blamed'
    PROVE  HopInv(h)'
<1> USE Constants
<1>0. /\ UNCHANGED <<consumer, serve>> /\ UNCHANGED <<life, bound, proc, missed, serve>>
      /\ \A p \in Procs : On(h, p)' <=> On(h, p)
      /\ cut \subseteq cut'
      /\ \A r \in Shares : r # s => sweep'[r] = sweep[r] /\ share'[r] = share[r]
      /\ sweep \in [Shares -> Sweeps] /\ share \in [Shares -> {"open", "over", "gone"}]
      /\ rows \in [Hops -> Rows \cup {NoRow}] /\ SweepShape(s)
      /\ svc \in [Hops -> Port0] /\ chain \in [Hops -> Port0]
  BY ShareStepShape DEF consumer, On, TypeOK, Shape
<1>1. ASSUME rows'[h] = rows[h], svc'[h] = svc[h], chain'[h] = chain[h], Gap(h)' <=> Gap(h),
             share'[ShareOf[h]] = "gone" <=> share[ShareOf[h]] = "gone"
      PROVE  HopInv(h)'
  BY <1>0, <1>1, Untouched
<1>2. ASSUME NEW final \in BOOLEAN, BeginSweep(s, final), UNCHANGED <<rows, svc, chain>>,
             share' \in {share, [share EXCEPT ![s] = "over"]}
      PROVE  HopInv(h)'
  <2>1. Gap(h)' <=> Gap(h)
    BY <1>0, <1>2, HopAssumption DEF BeginSweep, SweepShape, Gap
  <2>2. share'[ShareOf[h]] = "gone" <=> share[ShareOf[h]] = "gone"
    BY <1>0, <1>2 DEF BeginSweep
  <2> QED
    BY <1>1, <1>2, <2>1, <2>2
<1>3. ASSUME ~Crossed(h), ShareOf[h] \in cut', svc' = svc, chain' = chain, ~Active(h)', ~Gap(h)',
             rows'[h] = NoRow \/ (/\ share'[ShareOf[h]] = "gone" => share[ShareOf[h]] = "gone"
                                 /\ rows[h] # NoRow /\ rows'[h].applied = rows[h].applied)
      PROVE  HopInv(h)'
  <2>1. /\ svc[h] = 0 /\ chain[h] = 0 /\ ~Set(h)'
        /\ \A x \in Slots : serve[x].hop = h /\ serve[x].op = "apply" =>
              serve[x].pc \notin {"rechain", "chain", "service", "undo", "write"}
    BY <1>3 DEF Crossed, Set
  <2>2. OnNode(h)'
    BY <1>3, <2>1 DEF HopInv, OnNode
  <2>3. ASSUME NEW x \in Slots, serve[x].hop = h, Seen(h, serve[x]) PROVE Seen(h, serve[x])'
    BY <1>0, <1>3, <2>1, <2>3 DEF Seen
  <2>4. \A port \in Nat : Agrees(h, port)'
    BY <1>3 DEF Agrees
  <2>5. bound[h] \in Nat /\ \A p \in Procs : proc[p].port[h] \in Nat
    BY ShareAssumption DEF TypeOK, Frames, Port0, Ports
  <2> QED
    BY <1>0, <2>1, <2>2, <2>3, <2>4, <2>5, ShareKeeps
<1>4. CASE Upload(s)
  BY <1>2, <1>4 DEF Upload
<1>5. CASE DeleteShare(s)
  BY <1>2, <1>5 DEF DeleteShare
<1>6. CASE ResetFlow(s)
  <2>1. share'[ShareOf[h]] = "gone" <=> share[ShareOf[h]] = "gone"
    BY <1>0, <1>6 DEF ResetFlow
  <2> QED
    BY <1>1, <1>6, <2>1 DEF ResetFlow, Gap
<1>7. ASSUME NEW g \in Hops, SweepDrops(s, g) PROVE HopInv(h)'
  <2>1. ShareOf[g] = s /\ sweep[s].at = NoHop /\ UNCHANGED <<share, rows, cut>>
    BY <1>0, <1>7 DEF SweepDrops, SweepShape, HopsIn
  <2>2. sweep'[s].at = g /\ sweep'[s].applied = sweep[s].applied
    BY <1>0, <1>7 DEF SweepDrops, Sweeps
  <2>3. ~Gap(h) \/ ShareOf[h] # s
    BY <2>1, HopAssumption DEF Gap
  <2>4. CASE h # g
    <3>1. Gap(h)' <=> Gap(h)
      BY <1>0, <2>1, <2>2, <2>3, <2>4 DEF Gap
    <3>2. svc'[h] = svc[h] /\ chain'[h] = chain[h]
      BY <1>0, <1>7, <2>4 DEF SweepDrops
    <3> QED
      BY <1>1, <2>1, <3>1, <3>2
  <2>4a. CASE h = g /\ h \notin sweep[s].applied
    <3>1. ~Gap(h)' /\ ~Gap(h)
      BY <2>1, <2>2, <2>4a DEF Gap
    <3>2. svc'[h] = svc[h] /\ chain'[h] = chain[h]
      BY <1>7, <2>4a DEF SweepDrops
    <3> QED
      BY <1>1, <2>1, <3>1, <3>2
  <2>5. CASE h = g /\ h \in sweep[s].applied
    <3>1. Gap(h)' /\ ~Gap(h)
      BY <2>1, <2>2, <2>3, <2>5 DEF Gap
    <3>2. \/ svc'[h] = svc[h] /\ chain'[h] = chain[h]
          \/ svc'[h] = 0 /\ chain'[h] = 0
      BY <1>0, <1>7, <2>5 DEF SweepDrops
    <3>3. /\ Set(h)' <=> Set(h)
          /\ Active(h)' <=> Active(h)
          /\ \A op, pcs : InCall(h, op, pcs)' <=> InCall(h, op, pcs)
      BY <1>0, <2>1 DEF Set, Active, InCall
    <3>4. OnNode(h)'
      <4>1. /\ InCall(h, "apply", {"write"})' <=> InCall(h, "apply", {"write"})
            /\ InCall(h, "apply", {"service", "undo"})' <=> InCall(h, "apply", {"service", "undo"})
            /\ InCall(h, "release", {"dropChain"})' <=> InCall(h, "release", {"dropChain"})
        BY <3>3
      <4> QED
        BY <2>1, <3>1, <3>2, <3>3, <4>1 DEF HopInv, OnNode
    <3>5. ASSUME NEW x \in Slots, serve[x].hop = h, Seen(h, serve[x]) PROVE Seen(h, serve[x])'
      BY <1>0, <2>1, <3>1, <3>2, <3>3, <3>5 DEF Seen
    <3>6. \A port \in Nat : Agrees(h, port) => Agrees(h, port)'
      BY <2>1 DEF Agrees, Active
    <3>7. bound[h] \in Nat /\ \A p \in Procs : proc[p].port[h] \in Nat
      BY ShareAssumption DEF TypeOK, Frames, Port0, Ports
    <3> QED
      BY <1>0, <2>1, <3>3, <3>4, <3>5, <3>6, <3>7, ShareKeeps
  <2> QED
    BY <2>4, <2>4a, <2>5
<1>8. CASE SweepMarks(s)
  <2> DEFINE g == sweep[s].at
  <2>1. /\ g # NoHop /\ g \in Hops /\ ShareOf[g] = s /\ s \in cut
        /\ UNCHANGED <<share, svc, chain, cut>> /\ rows' = Marked(g)
        /\ Crossed(g) => g \in blamed'
    BY <1>0, <1>8 DEF SweepMarks, SweepShape, HopsIn
  <2>2. sweep'[s].at = NoHop
    BY <1>0, <1>8 DEF SweepMarks, Sweeps
  <2>3. CASE h # g
    <3>1. Gap(h)' <=> Gap(h)
      BY <1>0, <2>2, <2>3, HopAssumption DEF Gap
    <3>2. rows'[h] = rows[h]
      BY <1>0, <2>1, <2>3 DEF Marked
    <3> QED
      BY <1>1, <2>1, <3>1, <3>2
  <2>4. CASE h = g
    <3>1. ~Gap(h)'
      BY <2>1, <2>2, <2>4 DEF Gap
    <3>2. /\ ~Active(h)'
          /\ rows'[h] = NoRow \/ (rows[h] # NoRow /\ rows'[h].applied = rows[h].applied)
      <4>1. rows[h] # NoRow => rows[h] \in Rows
        BY <1>0
      <4> QED
        BY <1>0, <2>1, <2>4, <4>1 DEF Marked, Active, Rows
    <3> QED
      BY <1>3, <2>1, <2>4, <3>1, <3>2
  <2> QED
    BY <2>3, <2>4
<1>9. CASE SweepEnds(s)
  <2>1. /\ sweep[s].on /\ sweep[s].at = NoHop /\ s \in cut
        /\ sweep'[s].at = NoHop /\ UNCHANGED <<svc, chain, cut>>
    BY <1>0, <1>9 DEF SweepEnds, SweepShape, Resting
  <2>2. Gap(h)' <=> Gap(h)
    BY <1>0, <2>1, HopAssumption DEF Gap
  <2>3. CASE sweep[s].final /\ ShareOf[h] = s
    <3>1. ~Crossed(h) /\ rows'[h] = NoRow
      BY <1>9, <2>3 DEF SweepEnds, HopsIn
    <3>2. ~Active(h)' /\ ~Gap(h)'
      BY <2>1, <2>3, <3>1, HopAssumption DEF Active, Gap
    <3> QED
      BY <1>3, <2>1, <2>3, <3>1, <3>2
  <2>4. CASE ~(sweep[s].final /\ ShareOf[h] = s)
    <3>1. rows'[h] = rows[h] /\ share'[ShareOf[h]] = share[ShareOf[h]]
      BY <1>0, <1>9, <2>4 DEF SweepEnds, HopsIn
    <3> QED
      BY <1>1, <2>1, <2>2, <3>1
  <2> QED
    BY <2>3, <2>4
<1>10. CASE SweepMarkFails(s)
  <2> DEFINE g == sweep[s].at
  <2>1. /\ g # NoHop /\ g \in Hops /\ ShareOf[g] = s
        /\ UNCHANGED <<share, rows, svc, chain, cut>>
        /\ h = g => h \notin sweep[s].applied
    BY <1>0, <1>10 DEF SweepMarkFails, SweepShape, HopsIn
  <2>2. sweep'[s].at = NoHop
    BY <1>0, <1>10 DEF SweepMarkFails, Sweeps
  <2>3. Gap(h)' <=> Gap(h)
    BY <1>0, <2>1, <2>2, HopAssumption DEF Gap
  <2> QED
    BY <1>1, <2>1, <2>3
<1>11. CASE SweepEndFails(s)
  <2>1. /\ sweep[s].on /\ sweep[s].at = NoHop /\ s \in cut
        /\ sweep'[s].at = NoHop /\ UNCHANGED <<rows, svc, chain, cut>>
    BY <1>0, <1>11 DEF SweepEndFails, SweepShape, Resting
  <2>2. Gap(h)' <=> Gap(h)
    BY <1>0, <2>1, HopAssumption DEF Gap
  <2>3. CASE share'[ShareOf[h]] = share[ShareOf[h]]
    BY <1>1, <2>1, <2>2, <2>3
  <2>4. CASE share'[ShareOf[h]] # share[ShareOf[h]]
    <3>1. ShareOf[h] = s /\ rows[h] = NoRow /\ ~Crossed(h)
      BY <1>0, <1>11, <2>4 DEF SweepEndFails, HopsIn
    <3>2. ~Active(h)' /\ ~Gap(h)'
      BY <2>1, <3>1, HopAssumption DEF Active, Gap
    <3> QED
      BY <1>3, <2>1, <3>1, <3>2
  <2> QED
    BY <2>3, <2>4
<1> QED
  BY <1>4, <1>5, <1>6, <1>7, <1>8, <1>9, <1>10, <1>11 DEF SweepStep

\* A request leaves the other hops alone.
LEMMA CallElse ==
    ASSUME TypeOK, Shape, NEW x \in Slots, CallStep(x), NEW h \in Hops, serve[x].hop # h,
           HopInv(h)
    PROVE  HopInv(h)'
<1> USE Constants
<1>1. /\ \A y \in Slots : y # x => serve'[y] = serve[y]
      /\ UNCHANGED <<share, sweep, cut, life, bound, proc, missed>>
      /\ serve'[x].hop # h /\ serve[x].hop \in Hops
  <2>1. NoCall.hop # h
    BY HopAssumption DEF NoCall
  <2> QED
    BY <2>1, CallStepShape DEF consumer
<1>2. rows'[h] = rows[h] /\ svc'[h] = svc[h] /\ chain'[h] = chain[h]
  <2>1. /\ rows \in [Hops -> Rows \cup {NoRow}] /\ svc \in [Hops -> Port0]
        /\ chain \in [Hops -> Port0]
    BY DEF TypeOK
  <2>3. CASE ReserveReads(x)
    BY <2>3 DEF ReserveReads, provider
  <2>4. CASE ApplyReads(x)
    BY <2>4 DEF ApplyReads, provider
  <2>5. CASE ReleaseReads(x)
    BY <2>5 DEF ReleaseReads, provider
  <2>6. CASE ReserveInserts(x)
    BY <1>1, <2>1, <2>6 DEF ReserveInserts
  <2>7. CASE ApplyWrites(x)
    BY <1>1, <2>1, <2>7 DEF ApplyWrites
  <2>8. CASE ReleaseMarks(x)
    BY <1>1, <2>1, <2>8 DEF ReleaseMarks, Marked
  <2>9. CASE Rechain(x)
    BY <1>1, <2>1, <2>9 DEF Rechain, Sends
  <2>10. CASE AddChain(x)
    BY <1>1, <2>1, <2>10 DEF AddChain, Sends
  <2>11. CASE AddService(x)
    BY <1>1, <2>1, <2>11 DEF AddService, Sends
  <2>12. CASE UndoChain(x)
    BY <1>1, <2>1, <2>12 DEF UndoChain, Sends
  <2>13. CASE DropService(x)
    BY <1>1, <2>1, <2>13 DEF DropService, Sends
  <2>14. CASE DropChain(x)
    BY <1>1, <2>1, <2>14 DEF DropChain, Sends
  <2>15. CASE CallFails(x) \/ ApplyWriteFails(x) \/ ReleaseMarkFails(x)
    BY <2>15 DEF CallFails, ApplyWriteFails, ReleaseMarkFails, provider
  <2> QED
    BY <2>3, <2>4, <2>5, <2>6, <2>7, <2>8, <2>9, <2>10, <2>11, <2>12, <2>13, <2>14, <2>15
    DEF CallStep
<1>3. \A y \in Slots : serve'[y].hop = h \/ serve[y].hop = h => serve'[y] = serve[y]
  BY <1>1
<1> QED
  BY <1>1, <1>2, <1>3, Untouched DEF Gap, On

\* Blame is never taken back.
LEMMA BlameStays == [Next]_vars => blamed \subseteq blamed'
<1> SUFFICES ASSUME [Next]_vars PROVE blamed \subseteq blamed'
  OBVIOUS
<1>1. CASE UNCHANGED vars
  BY <1>1 DEF vars
<1>2. ASSUME NEW x, CallStep(x) PROVE blamed \subseteq blamed'
  <2>1. \A svcDone, chainDone, done, failed :
          Sends(x, svcDone, chainDone, done, failed) => blamed \subseteq blamed'
    BY DEF Sends
  <2>2. CASE ReserveReads(x) \/ ReserveInserts(x) \/ ApplyReads(x)
    BY <2>2 DEF ReserveReads, ReserveInserts, ApplyReads
  <2>3. CASE ApplyWrites(x) \/ ReleaseReads(x) \/ ReleaseMarks(x)
    BY <2>3 DEF ApplyWrites, ReleaseReads, ReleaseMarks
  <2>4. CASE Rechain(x) \/ AddChain(x) \/ UndoChain(x)
    BY <2>1, <2>4 DEF Rechain, AddChain, UndoChain
  <2>5. CASE AddService(x)
    BY <2>1, <2>5 DEF AddService
  <2>6. CASE DropService(x) \/ DropChain(x)
    BY <2>1, <2>6 DEF DropService, DropChain
  <2>7. CASE CallFails(x) \/ ApplyWriteFails(x) \/ ReleaseMarkFails(x)
    BY <2>7 DEF CallFails, ApplyWriteFails, ReleaseMarkFails
  <2> QED
    BY <1>2, <2>2, <2>3, <2>4, <2>5, <2>6, <2>7 DEF CallStep
<1>3. ASSUME NEW p, ProcStep(p) PROVE blamed \subseteq blamed'
  <2>1. CASE Release(p) \/ Released(p) \/ Unbind(p) \/ Reserve(p) \/ ReserveAny(p)
    BY <2>1 DEF Release, Released, Unbind, Reserve, ReserveAny
  <2>2. CASE Apply(p) \/ Applied(p) \/ SetupFails(p) \/ Domain(p) \/ Commit(p)
    BY <2>2 DEF Apply, Applied, SetupFails, Domain, Commit
  <2>3. CASE CommitFails(p) \/ UpdateRefused(p) \/ Local(p) \/ Forget(p) \/ Cascade(p)
    BY <2>3 DEF CommitFails, UpdateRefused, Local, Forget, Cascade
  <2>4. CASE UnbindFails(p) \/ LastFails(p)
    BY <2>4 DEF UnbindFails, LastFails
  <2> QED
    BY <1>3, <2>1, <2>2, <2>3, <2>4 DEF ProcStep
<1>4. ASSUME NEW p, NEW t, Create(p, t) \/ Update(p, t) \/ Delete(p, t)
      PROVE  blamed \subseteq blamed'
  BY <1>4 DEF Create, Update, Delete, Cleans, CleansNot, Meets
<1>5. ASSUME NEW p, Lost(p) \/ Timeout(p) PROVE blamed \subseteq blamed'
  BY <1>5 DEF Lost, Timeout
<1>6. ASSUME NEW s, Upload(s) \/ DeleteShare(s) \/ ResetFlow(s) \/ SweepStep(s)
      PROVE  blamed \subseteq blamed'
  BY <1>6 DEF Upload, DeleteShare, ResetFlow, SweepStep, SweepDrops, SweepMarks, SweepMarkFails,
     SweepEnds, SweepEndFails
<1> QED
  BY <1>1, <1>2, <1>3, <1>4, <1>5, <1>6 DEF Next

\* Every step keeps the invariant.
LEMMA InvStep == IInv /\ [Next]_vars => IInv'
<1> SUFFICES ASSUME TypeOK, Shape, \A h \in Hops \ blamed : HopInv(h), [Next]_vars
             PROVE  IInv'
  BY DEF IInv
<1>1. TypeOK' /\ Shape'
  BY TypeStep, ShapeStep
<1>2. ASSUME NEW h \in Hops, h \notin blamed' PROVE HopInv(h)'
  <2>1. HopInv(h)
    BY <1>2, BlameStays
  <2>2. CASE UNCHANGED vars
    <3>1. UNCHANGED <<share, rows, svc, chain, sweep, cut, life, bound, proc, missed, serve>>
      BY <2>2 DEF vars, provider, consumer
    <3> QED
      BY <2>1, <3>1, Untouched DEF Gap, On
  <2>3. ASSUME NEW x \in Slots, CallStep(x) PROVE HopInv(h)'
    BY <1>2, <2>1, <2>3, CallHop, CallElse
  <2>4. ASSUME NEW p \in Procs, ProcStep(p) PROVE HopInv(h)'
    BY <1>2, <2>1, <2>4, ProcHop, ProcElse
  <2>5. ASSUME NEW p \in Procs, NEW t \in Tunnels,
               Create(p, t) \/ Update(p, t) \/ Delete(p, t)
        PROVE  HopInv(h)'
    BY <1>2, <2>1, <2>5, AsksHop
  <2>6. ASSUME NEW p \in Procs, Lost(p) \/ Timeout(p) PROVE HopInv(h)'
    BY <1>2, <2>1, <2>6, MishapHop
  <2>7. ASSUME NEW s \in Shares, Upload(s) \/ DeleteShare(s) \/ ResetFlow(s) \/ SweepStep(s)
        PROVE  HopInv(h)'
    BY <1>2, <2>1, <2>7, ShareHop
  <2> QED
    BY <2>2, <2>3, <2>4, <2>5, <2>6, <2>7 DEF Next
<1> QED
  BY <1>1, <1>2 DEF IInv

\* The first state is in order.
LEMMA InitInv == Init => IInv
<1> SUFFICES ASSUME Init PROVE IInv
  OBVIOUS
<1> USE Constants
<1>1. TypeOK /\ Shape
  BY InitType, AtRestShape DEF Init, Shape, SweepShape, Slots, Resting
<1>2. ASSUME NEW h \in Hops PROVE HopInv(h)
  <2>1. \A p \in Procs : ~On(h, p)
    BY HopAssumption DEF Init, On, Idle
  <2>2. \A x \in Slots : serve[x].hop # h
    BY HopAssumption DEF Init, NoCall
  <2>3. /\ rows[h] = NoRow /\ svc[h] = 0 /\ chain[h] = 0 /\ bound[h] = 0
        /\ cut = {} /\ share[ShareOf[h]] = "open" /\ ~Active(h) /\ ~Set(h)
    BY DEF Init, NoPorts, Active, Set
  <2> QED
    BY <2>1, <2>2, <2>3 DEF HopInv, Owned, Lives, OnNode, AtRest, Slots
<1> QED
  BY <1>1, <1>2 DEF IInv

\* For every hop that no failed command, request or write of its own has touched, its
\* row, service, chain and binding are as the handlers' places say.
LEMMA Invariant == Spec => []IInv
BY InitInv, InvStep, PTL DEF Spec

\* A hop the consumer is bound to is served on the port in its binding, whatever
\* requests, rollbacks and withdrawals came before, and whatever failed at other
\* hops (BoundServes: applyFederationRuntime, cleanupFederationRuntime).
THEOREM BoundServesHolds == Spec => []BoundServes
<1>1. IInv => BoundServes
  <2> SUFFICES ASSUME IInv, NEW h \in Hops, Settled(h), bound[h] # 0,
                      Active(h) \/ ShareOf[h] \notin cut
               PROVE  /\ life[TunnelOf[h]] = "made"
                      /\ Active(h) /\ rows[h].applied
                      /\ rows[h].port = bound[h] /\ svc[h] = bound[h]
    BY DEF BoundServes
  <2>1. HopInv(h) /\ SweepShape(ShareOf[h])
    BY Constants DEF IInv, Settled, Shape
  <2>2. ~Gap(h) /\ \A op, pcs : ~InCall(h, op, pcs)
    BY <2>1, HopAssumption DEF Settled, Quiet, Gap, InCall, SweepShape
  <2>3. Agrees(h, bound[h]) /\ life[TunnelOf[h]] = "made"
    BY <2>1 DEF HopInv, AtRest, Lives, Settled, Quiet
  <2> QED
    BY <2>1, <2>2, <2>3 DEF Agrees, HopInv, OnNode, Set
<1> QED
  BY <1>1, Invariant, PTL

\* What the invariant says of a hop nobody is busy with.
LEMMA NothingLeft == IInv => NothingLeftBehind
<1> SUFFICES ASSUME IInv, NEW h \in Hops, Settled(h)
             PROVE  /\ svc[h] # 0 => Active(h) /\ rows[h].applied /\ bound[h] = svc[h]
                    /\ chain[h] # 0 => svc[h] # 0
  BY DEF NothingLeftBehind
<1>1. HopInv(h) /\ SweepShape(ShareOf[h])
  BY Constants DEF IInv, Settled, Shape
<1>2. ~Gap(h) /\ \A op, pcs : ~InCall(h, op, pcs)
  BY <1>1, HopAssumption DEF Settled, Quiet, Gap, InCall, SweepShape
<1>3. Set(h) => bound[h] = rows[h].port
  BY <1>1 DEF HopInv, AtRest, Settled, Quiet
<1> QED
  BY <1>1, <1>2, <1>3 DEF HopInv, OnNode, Set

\* A hop that is at rest, and of which no command, request or write failed, has
\* nothing on its node that no row and no binding accounts for, whatever failed at
\* the others (NothingLeftBehind: releaseFederationRuntimeRefs).
THEOREM NothingLeftBehindHolds == Spec => []NothingLeftBehind
BY NothingLeft, Invariant, PTL

-----------------------------------------------------------------------------
(* The path: what a middle dials.                                          *)

\* A hop is set up after the one it dials.
Ordered(f) == f.pc \in Setup => \A h \in Hops :
    Middle(h) /\ (h \in f.done \/ (f.pc \in Waiting /\ h = f.at)) => Below[h] \notin f.todo

\* A sweep that is at the hop has taken its chain, and will be blamed for a service
\* that came since.
Joins(m, port) == svc[m] # 0 => chain[m] = port \/ Gap(m)

CallDials(m, c) ==
    /\ c.pc = "service" => chain[m] = c.target \/ Gap(m)
    /\ c.pc \in {"write", "ok"} => Joins(m, c.target)

\* A handler's request names the port it reserved below, its bindings the same one.
Dials(m, f, c) ==
    /\ f.pc = "apply" /\ f.at = m => c.target = f.port[Below[m]] /\ CallDials(m, c)
    /\ m \notin missed => /\ f.pc \in Setup /\ m \in f.done => Joins(m, f.port[Below[m]])
                          /\ f.pc = "local" => Joins(m, bound[Below[m]])

HopDials(m) ==
    /\ m \notin missed /\ ~Busy(TunnelOf[m]) => Joins(m, bound[Below[m]])
    /\ \A p \in Procs : On(m, p) => Dials(m, proc[p], serve[p])

Joined ==
    /\ \A p \in Procs : Ordered(proc[p])
    /\ \A m \in Hops \ blamed : Middle(m) => HopDials(m)

\* A step of a handler keeps to the order.
LEMMA ProcOrdered ==
    ASSUME TypeOK, Shape, NEW p \in Procs, ProcStep(p), Ordered(proc[p])
    PROVE  Ordered(proc'[p])
<1> DEFINE f == proc[p]
<1>0. f \in Frames /\ FrameShape(f, serve[p]) /\ proc \in [Procs -> Frames]
  BY DEF TypeOK, Shape
<1>1. ASSUME proc'[p].pc \notin Setup PROVE Ordered(proc'[p])
  BY <1>1 DEF Ordered
<1>2. Idle.pc \notin Setup /\ \A then : BackFrom(f, then).pc = "domain"
  BY <1>0 DEF Idle, Setup, BackFrom, Frames
<1>3. GoesBack(p) => Ordered(proc'[p])
  <2>1. GoesBack(p) => proc'[p] = Idle \/ proc'[p] = BackFrom(f, "idle")
    BY <1>0 DEF GoesBack, Moves
  <2> QED
    BY <1>1, <1>2, <2>1 DEF Setup
<1>4. CASE Release(p)
  <2>1. proc'[p].pc = "releasing"
    BY <1>0, <1>4 DEF Release, Moves, Frames
  <2> QED
    BY <1>1, <2>1 DEF Setup
<1>5. CASE Released(p)
  <2>1. proc'[p].pc \in {"idle", "unbind", "forget", "cascade", "release"}
    BY <1>0, <1>5 DEF Released, Moves, Frames, Idle
  <2> QED
    BY <1>1, <2>1 DEF Setup
<1>6. ASSUME Unbind(p) \/ UnbindFails(p) PROVE Ordered(proc'[p])
  <2>1. f.pc = "unbind" /\ f.done = {}
    BY <1>0, <1>6 DEF Unbind, UnbindFails, FrameShape
  <2>2. \/ proc'[p].pc = "pick" /\ proc'[p].done = {}
        \/ proc'[p].pc = "cascade"
        \/ proc'[p] = Idle
    BY <1>0, <1>6, <2>1 DEF Unbind, UnbindFails, CleanedUp, Frames
  <2> QED
    BY <1>1, <1>2, <2>2 DEF Ordered, Setup, Waiting
<1>7. CASE Reserve(p)
  <2>1. PICK g0 \in f.todo : \E wanted \in PortsOf[ShareOf[g0]] \cup {0} :
          /\ Below[g0] \notin f.todo
          /\ Moves(p, [f EXCEPT !.pc = IF wanted = 0 THEN "retry" ELSE "reserve", !.at = g0],
                   Calling("reserve", g0, wanted, 0))
    BY <1>7, ZenonT(30) DEF Reserve
  <2>2. proc'[p].done = f.done /\ proc'[p].todo = f.todo /\ proc'[p].at = g0
    BY <1>0, <2>1 DEF Moves, Frames
  <2> QED
    BY <1>7, <2>1, <2>2 DEF Ordered, Reserve, Setup, Waiting
<1>8. CASE ReserveAny(p)
  <2>1. proc'[p].done = f.done /\ proc'[p].todo = f.todo /\ proc'[p].at = f.at
    BY <1>0, <1>8 DEF ReserveAny, Moves, Frames
  <2> QED
    BY <1>8, <2>1 DEF Ordered, ReserveAny, Setup, Waiting
<1>9. CASE Apply(p)
  <2>1. CASE Moves(p, [f EXCEPT !.pc = "apply", !.port[f.at] = serve[p].port],
                   Calling("apply", f.at, 0, IF Middle(f.at) THEN f.port[Below[f.at]] ELSE 0))
    <3>1. proc'[p].done = f.done /\ proc'[p].todo = f.todo /\ proc'[p].at = f.at
      BY <1>0, <2>1 DEF Moves, Frames
    <3> QED
      BY <1>9, <3>1 DEF Ordered, Apply, Setup, Waiting
  <2> QED
    BY <1>3, <1>9, <2>1 DEF Apply
<1>10. CASE Applied(p)
  <2>1. /\ proc'[p].done = f.done \cup {f.at} /\ proc'[p].todo = f.todo \ {f.at}
        /\ proc'[p].pc \in {"commit", "pick"} /\ f.pc = "apply"
    BY <1>0, <1>10 DEF Applied, Moves, Frames
  <2> QED
    BY <2>1 DEF Ordered, Setup, Waiting
<1>11. CASE SetupFails(p)
  BY <1>3, <1>11 DEF SetupFails
<1>12. CASE Domain(p)
  <2>1. proc'[p].pc = "release"
    BY <1>0, <1>12 DEF Domain, Frames
  <2> QED
    BY <1>1, <2>1 DEF Setup
<1>13. CASE Commit(p)
  <2>1. proc'[p].pc = "local"
    BY <1>0, <1>13 DEF Commit, Frames
  <2> QED
    BY <1>1, <2>1 DEF Setup
<1>14. CASE CommitFails(p)
  <2>1. PICK tx \in BOOLEAN : proc' = [proc EXCEPT ![p] = [BackFrom(f, "idle") EXCEPT !.tx = tx]]
    BY <1>0, <1>14 DEF CommitFails
  <2>2. proc'[p].pc = "domain"
    BY <1>0, <2>1 DEF BackFrom, Frames
  <2> QED
    BY <1>1, <2>2 DEF Setup
<1>15. CASE Local(p)
  <2>1. proc'[p] = Idle \/ \E then : proc'[p] = BackFrom(f, then)
    BY <1>0, <1>15 DEF Local
  <2> QED
    BY <1>1, <1>2, <2>1 DEF Setup
<1>16. CASE UpdateRefused(p) \/ Forget(p) \/ Cascade(p) \/ LastFails(p)
  <2>1. proc'[p] = Idle
    BY <1>0, <1>16 DEF UpdateRefused, Forget, Cascade, LastFails
  <2> QED
    BY <1>1, <1>2, <2>1
<1> QED
  BY <1>4, <1>5, <1>6, <1>7, <1>8, <1>9, <1>10, <1>11, <1>12, <1>13, <1>14, <1>15, <1>16
  DEF ProcStep

\* What a step leaves alone stays joined.
LEMMA JoinUntouched ==
    ASSUME NEW m \in Hops, HopDials(m),
           svc'[m] = svc[m], chain'[m] = chain[m], Gap(m)' <=> Gap(m),
           bound'[Below[m]] = bound[Below[m]], m \in missed' <=> m \in missed,
           \A p \in Procs : On(m, p)' \/ On(m, p) =>
               proc'[p] = proc[p] /\ (serve'[p] = serve[p] \/ proc[p].at # m)
    PROVE  HopDials(m)'
<1>1. \A p \in Procs : On(m, p)' <=> On(m, p)
  BY DEF On
<1>2. Busy(TunnelOf[m])' <=> Busy(TunnelOf[m])
  BY <1>1 DEF Busy, On
<1>3. \A port : Joins(m, port)' <=> Joins(m, port)
  BY DEF Joins
<1>4. ASSUME NEW p \in Procs, On(m, p)' PROVE Dials(m, proc[p], serve[p])'
  <2>1. Dials(m, proc[p], serve[p]) /\ proc'[p] = proc[p]
    BY <1>1, <1>4 DEF HopDials
  <2>2. serve'[p] = serve[p] \/ proc[p].at # m
    BY <1>4
  <2> QED
    BY <1>3, <2>1, <2>2 DEF Dials, CallDials
<1> QED
  BY <1>2, <1>3, <1>4 DEF HopDials, Joins

\* A hop at rest that is bound to nothing runs nothing.
LEMMA RestsEmpty ==
    ASSUME TypeOK', Shape', NEW m \in Hops, HopInv(m)', ~Busy(TunnelOf[m])', m \notin missed',
           bound'[m] = 0
    PROVE  svc'[m] = 0
<1>1. ~Set(m)'
  <2>1. Set(m)' => rows'[m] \in Rows
    BY DEF TypeOK, Set, Active
  <2> QED
    BY <2>1, Constants DEF HopInv, AtRest, Rows
<1>2. ~InCall(m, "apply", {"write"})'
  <2>1. ASSUME NEW x \in Slots, serve'[x].hop = m PROVE FALSE
    <3>1. x \in Procs
      BY <2>1 DEF HopInv, Owned, Slots
    <3>2. FrameShape(proc'[x], serve'[x])
      BY <3>1 DEF Shape
    <3>3. serve'[x] # NoCall
      BY <2>1, HopAssumption DEF NoCall
    <3>4. m \in HopsOf(proc'[x].tunnel)
      BY <2>1, <3>2, <3>3 DEF FrameShape
    <3> QED
      BY <3>1, <3>4 DEF HopsOf, Busy
  <2> QED
    BY <2>1 DEF InCall
<1> QED
  BY <1>1, <1>2 DEF HopInv, OnNode, Set

\* A step of a handler keeps the middles of its tunnel joined.
LEMMA ProcDials ==
    ASSUME TypeOK, Shape, TypeOK', Shape', NEW p \in Procs, ProcStep(p), Ordered(proc[p]),
           NEW m \in Hops, Middle(m), On(m, p), HopInv(m), HopInv(m)', m \notin blamed',
           HopDials(m)
    PROVE  HopDials(m)'
<1> DEFINE f == proc[p]
           b == Below[m]
           c == serve[p]
<1> USE Constants
<1>0. /\ f \in Frames /\ FrameShape(f, c) /\ c \in Calls
      /\ proc \in [Procs -> Frames] /\ serve \in [Slots -> Calls] /\ p \in Slots
      /\ f.op # "none" /\ f.tunnel = TunnelOf[m] /\ m \in HopsOf(f.tunnel)
      /\ b \in Hops /\ TunnelOf[b] = f.tunnel /\ b \in HopsOf(f.tunnel)
      /\ bound \in [Hops -> Port0]
  BY ProcStepShape, HopAssumption DEF TypeOK, Shape, Slots, On, HopsOf, Middle
<1>1. /\ Dials(m, f, c) /\ Handled(m, f)
      /\ \A q \in Procs : q # p => proc'[q] = proc[q] /\ ~On(m, q) /\ ~On(m, q)'
  BY <1>0, ProcStepShape DEF HopDials, HopInv, Owned, On
<1>2. /\ \A port : Joins(m, port)' <=> Joins(m, port)
      /\ Gap(m)' <=> Gap(m)
      /\ UNCHANGED <<svc, chain>>
  <2>1. UNCHANGED <<svc, chain, sweep>>
    BY ProcStepShape DEF provider
  <2> QED
    BY <2>1 DEF Joins, Gap
<1>3. f.pc \in Setup \cup {"local"} => /\ f.todo \cup f.done = HopsOf(f.tunnel)
                                    /\ f.todo \cap f.done = {}
  BY <1>0 DEF FrameShape
<1>4. Idle.tunnel = NoTunnel /\ TunnelOf[m] # NoTunnel /\ Idle.pc = "idle"
  BY <1>0, HopAssumption DEF Idle
<1>5. ASSUME proc'[p] = Idle, m \notin missed' => bound'[m] = 0 \/ Joins(m, bound'[b])
      PROVE  HopDials(m)'
  <2>1. \A q \in Procs : ~On(m, q)'
    BY <1>1, <1>4, <1>5 DEF On
  <2>2. ~Busy(TunnelOf[m])'
    BY <2>1 DEF Busy, On
  <2>3. m \notin missed' => svc'[m] = 0 \/ Joins(m, bound'[b])
    BY <1>5, <2>2, RestsEmpty
  <2> QED
    BY <1>2, <2>1, <2>3 DEF HopDials, Joins
<1>6. ASSUME proc'[p].tunnel = f.tunnel,
             proc'[p].pc = "apply" /\ proc'[p].at = m =>
                 serve'[p].target = proc'[p].port[b] /\ serve'[p].pc = "start",
             m \notin missed' =>
                 /\ proc'[p].pc \in Setup /\ m \in proc'[p].done => Joins(m, proc'[p].port[b])
                 /\ proc'[p].pc = "local" => Joins(m, bound'[b])
      PROVE  HopDials(m)'
  <2>1. Busy(TunnelOf[m])'
    BY <1>0, <1>6 DEF Busy
  <2>2. Dials(m, proc[p], serve[p])'
    BY <1>2, <1>6 DEF Dials, CallDials
  <2> QED
    BY <1>1, <2>1, <2>2 DEF HopDials
<1>7. ASSUME proc'[p].tunnel = f.tunnel, proc'[p].pc \notin Setup \cup {"local"}
      PROVE  HopDials(m)'
  BY <1>6, <1>7 DEF Setup
<1>8. GoesBack(p) /\ f.pc \in Setup /\ UNCHANGED bound => HopDials(m)'
  <2>1. GoesBack(p) => proc'[p] = Idle \/ proc'[p] = BackFrom(f, "idle")
    BY <1>0 DEF GoesBack, Moves
  <2>2. BackFrom(f, "idle").tunnel = f.tunnel /\ BackFrom(f, "idle").pc = "domain"
    BY <1>0 DEF BackFrom, Frames
  <2>3. f.pc \in Setup => bound[m] = 0
    BY <1>1 DEF Handled
  <2> QED
    BY <1>5, <1>7, <2>1, <2>2, <2>3 DEF Setup
<1>9. ASSUME f.pc \in Setup, m \in f.done PROVE b \notin f.todo
  BY <1>9 DEF Ordered
<1>10. ASSUME f.pc \in Setup, m \in f.done, m \notin missed PROVE Joins(m, f.port[b])
  BY <1>1, <1>10 DEF Dials
<1>11. CASE Release(p)
  <2>1. proc'[p].pc = "releasing" /\ proc'[p].tunnel = f.tunnel
    BY <1>0, <1>11 DEF Release, Moves, Frames
  <2> QED
    BY <1>7, <2>1 DEF Setup
<1>12. CASE Released(p)
  <2> DEFINE left == f.todo \ {f.at}
             next == IF left = {} THEN f.then ELSE "release"
  <2>1. /\ proc'[p] = IF next = "idle" THEN Idle
                      ELSE [f EXCEPT !.pc = next, !.todo = left, !.at = NoHop]
        /\ f.pc = "releasing" /\ UNCHANGED bound
    BY <1>0, <1>12 DEF Released, Moves
  <2>2. next \in {"idle", "unbind", "forget", "cascade", "release"}
    BY <1>0 DEF Frames
  <2>3. next = "idle" => bound[m] = 0
    BY <1>1, <2>1 DEF Handled
  <2>4. next # "idle" => proc'[p].pc = next /\ proc'[p].tunnel = f.tunnel
    BY <1>0, <2>1 DEF Frames
  <2> HIDE DEF next
  <2> QED
    BY <1>5, <1>7, <2>1, <2>2, <2>3, <2>4 DEF Setup
<1>13. ASSUME Unbind(p) \/ UnbindFails(p) PROVE HopDials(m)'
  <2>1. f.pc = "unbind" /\ f.done = {} /\ bound'[m] = 0
    BY <1>0, <1>13 DEF Unbind, UnbindFails, FrameShape, Forgotten, Held
  <2>2. \/ proc'[p] = Idle
        \/ proc'[p].tunnel = f.tunnel /\ proc'[p].pc = "pick" /\ proc'[p].done = {}
        \/ proc'[p].tunnel = f.tunnel /\ proc'[p].pc = "cascade"
    BY <1>0, <1>13, <2>1 DEF Unbind, UnbindFails, CleanedUp, Frames
  <2> QED
    BY <1>5, <1>6, <1>7, <2>1, <2>2 DEF Setup
<1>14. CASE Reserve(p)
  <2>1. PICK g0 \in f.todo : \E wanted \in PortsOf[ShareOf[g0]] \cup {0} :
          Moves(p, [f EXCEPT !.pc = IF wanted = 0 THEN "retry" ELSE "reserve", !.at = g0],
                Calling("reserve", g0, wanted, 0))
    BY <1>14, ZenonT(30) DEF Reserve
  <2>2. /\ proc'[p].pc \in {"retry", "reserve"} /\ proc'[p].tunnel = f.tunnel
        /\ proc'[p].done = f.done /\ proc'[p].port = f.port
    BY <1>0, <2>1 DEF Moves, Frames
  <2>3. f.pc = "pick" /\ UNCHANGED missed
    BY <1>14 DEF Reserve
  <2> QED
    BY <1>6, <1>10, <2>2, <2>3 DEF Setup
<1>15. CASE ReserveAny(p)
  <2>1. /\ proc'[p].pc = "retry" /\ proc'[p].tunnel = f.tunnel
        /\ proc'[p].done = f.done /\ proc'[p].port = f.port
    BY <1>0, <1>15 DEF ReserveAny, Moves, Frames
  <2>2. f.pc = "reserve" /\ UNCHANGED missed
    BY <1>15 DEF ReserveAny
  <2> QED
    BY <1>6, <1>10, <2>1, <2>2 DEF Setup
<1>16. CASE Apply(p)
  <2>0. f.pc \in {"reserve", "retry"} /\ UNCHANGED <<bound, missed>>
    BY <1>16 DEF Apply
  <2>1. CASE GoesBack(p)
    BY <1>8, <2>0, <2>1 DEF Setup
  <2>2. CASE Moves(p, [f EXCEPT !.pc = "apply", !.port[f.at] = c.port],
                   Calling("apply", f.at, 0, IF Middle(f.at) THEN f.port[Below[f.at]] ELSE 0))
    <3>1. f.at \in f.todo
      BY <1>0, <2>0 DEF FrameShape, Waiting
    <3>2. /\ proc'[p].pc = "apply" /\ proc'[p].tunnel = f.tunnel /\ proc'[p].at = f.at
          /\ proc'[p].done = f.done /\ (b # f.at => proc'[p].port[b] = f.port[b])
      BY <1>0, <2>2 DEF Moves, Frames
    <3>3. f.at = m => b # f.at /\ serve'[p].target = f.port[b]
      <4>1. f.at = m => b \notin f.todo
        BY <2>0 DEF Ordered, Setup, Waiting
      <4>2. f.at = m => serve'[p] = Calling("apply", m, 0, f.port[b])
        BY <1>0, <2>2 DEF Moves
      <4> QED
        BY <3>1, <4>1, <4>2 DEF Calling, NoCall
    <3>4. serve'[p].pc = "start"
      BY <1>0, <2>2 DEF Moves, Calling, NoCall
    <3>5. m \in f.done => b # f.at
      BY <1>9, <2>0, <3>1 DEF Setup
    <3> QED
      BY <1>6, <1>10, <2>0, <3>2, <3>3, <3>4, <3>5 DEF Setup
  <2> QED
    BY <1>16, <2>1, <2>2 DEF Apply
<1>17. CASE Applied(p)
  <2>1. /\ f.pc = "apply" /\ c.pc = "ok" /\ missed' = missed \ {f.at}
        /\ f.at \in f.todo
    BY <1>0, <1>17 DEF Applied, FrameShape, Waiting
  <2>2. /\ proc'[p].pc \in {"commit", "pick"} /\ proc'[p].tunnel = f.tunnel
        /\ proc'[p].done = f.done \cup {f.at}
        /\ b # f.at => proc'[p].port[b] = f.port[b]
    BY <1>0, <1>17 DEF Applied, Moves, Frames
  <2>3. m \in f.done \/ m = f.at => b # f.at
    BY <2>1 DEF Ordered, Setup, Waiting
  <2>4. m = f.at => Joins(m, f.port[b])
    BY <1>1, <2>1 DEF Dials, CallDials
  <2> QED
    BY <1>6, <1>10, <2>1, <2>2, <2>3, <2>4 DEF Setup
<1>18. CASE SetupFails(p)
  BY <1>8, <1>18 DEF SetupFails, Setup
<1>19. CASE Domain(p)
  <2>1. proc'[p].pc = "release" /\ proc'[p].tunnel = f.tunnel
    BY <1>0, <1>19 DEF Domain, Frames
  <2> QED
    BY <1>7, <2>1 DEF Setup
<1>20. CASE Commit(p)
  <2>1. /\ proc'[p].pc = "local" /\ proc'[p].tunnel = f.tunnel
        /\ bound'[b] = f.port[b] /\ UNCHANGED missed
    BY <1>0, <1>20 DEF Commit, Frames
  <2>2. f.pc = "commit" /\ m \in f.done
    BY <1>0, <1>3, <1>20 DEF Commit, FrameShape, Setup
  <2> QED
    BY <1>6, <1>10, <2>1, <2>2 DEF Setup
<1>21. CASE CommitFails(p)
  <2>1. PICK tx \in BOOLEAN : proc' = [proc EXCEPT ![p] = [BackFrom(f, "idle") EXCEPT !.tx = tx]]
    BY <1>0, <1>21 DEF CommitFails
  <2>2. proc'[p].pc = "domain" /\ proc'[p].tunnel = f.tunnel
    BY <1>0, <2>1 DEF BackFrom, Frames
  <2> QED
    BY <1>7, <2>2 DEF Setup
<1>22. CASE UpdateRefused(p)
  <2>1. m \in f.done
    BY <1>0, <1>3, <1>22 DEF UpdateRefused, FrameShape, Setup
  <2> QED
    BY <1>22, <2>1 DEF UpdateRefused
<1>23. CASE Local(p)
  <2>1. f.pc = "local" /\ UNCHANGED <<bound, missed>>
    BY <1>23 DEF Local
  <2>2. m \notin missed => Joins(m, bound[b])
    BY <1>1, <2>1 DEF Dials
  <2>3. proc'[p] = Idle \/ \E then : proc'[p] = BackFrom(f, then)
    BY <1>0, <1>23 DEF Local
  <2>4. \A then : BackFrom(f, then).tunnel = f.tunnel /\ BackFrom(f, then).pc = "domain"
    BY <1>0 DEF BackFrom, Frames
  <2> QED
    BY <1>5, <1>7, <2>1, <2>2, <2>3, <2>4 DEF Setup
<1>24. CASE Forget(p) \/ Cascade(p) \/ LastFails(p)
  <2>1. proc'[p] = Idle /\ bound'[m] = 0
    BY <1>0, <1>24 DEF Forget, Cascade, LastFails, Forgotten, Held
  <2> QED
    BY <1>5, <2>1
<1> QED
  BY <1>11, <1>12, <1>13, <1>14, <1>15, <1>16, <1>17, <1>18, <1>19, <1>20, <1>21, <1>22, <1>23,
     <1>24 DEF ProcStep

\* A step of a handler of another tunnel leaves a middle as it is.
LEMMA ProcDialsElse ==
    ASSUME TypeOK, Shape, NEW p \in Procs, ProcStep(p), NEW m \in Hops, Middle(m), ~On(m, p),
           HopDials(m)
    PROVE  HopDials(m)'
<1>1. /\ Below[m] \in Hops /\ TunnelOf[Below[m]] = TunnelOf[m]
      /\ TunnelOf[m] # proc[p].tunnel /\ TunnelOf[m] # Idle.tunnel
  BY HopAssumption DEF Middle, On, Idle
<1>2. /\ proc'[p] = Idle \/ proc'[p].tunnel = proc[p].tunnel
      /\ bound'[Below[m]] = bound[Below[m]]
      /\ m \in missed' <=> m \in missed
  BY <1>1, ProcStepOwn
<1>3. \A q \in Procs : On(m, q)' \/ On(m, q) => proc'[q] = proc[q] /\ serve'[q] = serve[q]
  <2>1. ~On(m, p)'
    BY <1>1, <1>2 DEF On
  <2> QED
    BY <2>1, ProcStepShape DEF Slots
<1>4. UNCHANGED <<svc, chain, sweep>>
  BY ProcStepShape DEF provider
<1> QED
  BY <1>2, <1>3, <1>4, JoinUntouched DEF Gap

\* A step of a request keeps a middle joined: its chain is there before its service.
LEMMA CallDialsHop ==
    ASSUME TypeOK, Shape, NEW x \in Slots, CallStep(x), NEW m \in Hops, Middle(m),
           HopInv(m), m \notin blamed', HopDials(m)
    PROVE  HopDials(m)'
<1> DEFINE c == serve[x]
           d == serve'[x]
<1> USE Constants
<1>0. /\ c \in Calls /\ CallShape(c) /\ c.hop \in Hops
      /\ svc \in [Hops -> Port0] /\ chain \in [Hops -> Port0]
      /\ \A y \in Slots : y # x => serve'[y] = serve[y]
      /\ UNCHANGED <<sweep, bound, proc, missed>>
  BY CallStepShape DEF TypeOK, Shape, consumer
<1>1. Gap(m)' <=> Gap(m)
  BY <1>0 DEF Gap
<1>2. CASE c.hop # m
  <2>1. svc'[m] = svc[m] /\ chain'[m] = chain[m]
    <3>0. UNCHANGED provider => UNCHANGED <<svc, chain>>
      BY DEF provider
    <3>1. CASE ReserveReads(x) \/ ApplyReads(x) \/ ReleaseReads(x)
      <4>1. CASE ReserveReads(x)
        <5>1. UNCHANGED provider
          BY <4>1, ZenonT(30) DEF ReserveReads
        <5> QED
          BY <3>0, <5>1
      <4>2. CASE ApplyReads(x)
        BY <3>0, <4>2 DEF ApplyReads
      <4>3. CASE ReleaseReads(x)
        BY <3>0, <4>3 DEF ReleaseReads
      <4> QED
        BY <3>1, <4>1, <4>2, <4>3
    <3>2. CASE ReserveInserts(x) \/ ApplyWrites(x) \/ ReleaseMarks(x)
      BY <3>2 DEF ReserveInserts, ApplyWrites, ReleaseMarks
    <3>3. CASE Rechain(x)
      BY <1>0, <1>2, <3>3 DEF Rechain, Sends
    <3>4. CASE AddChain(x)
      BY <1>0, <1>2, <3>4 DEF AddChain, Sends
    <3>5. CASE AddService(x)
      BY <1>0, <1>2, <3>5 DEF AddService, Sends
    <3>6. CASE UndoChain(x)
      BY <1>0, <1>2, <3>6 DEF UndoChain, Sends
    <3>7. CASE DropService(x)
      BY <1>0, <1>2, <3>7 DEF DropService, Sends
    <3>8. CASE DropChain(x)
      BY <1>0, <1>2, <3>8 DEF DropChain, Sends
    <3>9. CASE CallFails(x) \/ ApplyWriteFails(x) \/ ReleaseMarkFails(x)
      BY <3>0, <3>9 DEF CallFails, ApplyWriteFails, ReleaseMarkFails
    <3> QED
      BY <3>1, <3>2, <3>3, <3>4, <3>5, <3>6, <3>7, <3>8, <3>9 DEF CallStep
  <2>2. ASSUME NEW q \in Procs PROVE serve'[q] = serve[q] \/ proc[q].at # m
    <3>1. CASE q # x
      BY <1>0, <3>1 DEF Slots
    <3>2. CASE q = x
      <4>1. FrameShape(proc[x], c) /\ c # NoCall
        BY <1>0, <3>2, HopAssumption DEF Shape, NoCall
      <4> QED
        BY <1>2, <3>2, <4>1 DEF FrameShape
    <3> QED
      BY <3>1, <3>2
  <2> QED
    BY <1>0, <1>1, <2>1, <2>2, JoinUntouched
<1>3. CASE c.hop = m
  <2>1. /\ x \in Procs /\ x \notin Strays /\ On(m, x) /\ proc[x].pc \in Waiting
        /\ proc[x].at = m /\ m \in proc[x].todo
    BY <1>3, OneCall DEF HopInv
  <2>2. /\ FrameShape(proc[x], c)
        /\ \A q \in Procs : On(m, q) => q = x
        /\ Dials(m, proc[x], c)
    BY <2>1 DEF Shape, HopInv, Owned, HopDials
  <2>3. /\ proc[x].pc \in Setup => m \notin proc[x].done
        /\ proc[x].pc # "local"
        /\ proc[x].pc = "apply" => c.op = "apply"
    BY <2>1, <2>2 DEF FrameShape, Waiting
  <2>4. c.op = "apply" /\ CallDials(m, c) => d.target = c.target /\ CallDials(m, serve[x])'
    <3> SUFFICES ASSUME c.op = "apply", CallDials(m, c)
                 PROVE  d.target = c.target /\ CallDials(m, serve[x])'
      OBVIOUS
    <3>1. Seen(m, c) /\ \A e : Reply(x, e) => d = e
      BY <1>3, <2>1 DEF HopInv, Reply, TypeOK
    <3>2. ASSUME NEW e, d = [c EXCEPT !.pc = e]
          PROVE  d.target = c.target /\ d.pc = e
      BY <1>0, <3>2 DEF Calls
    <3>3. ASSUME NEW e, NEW port, d = [c EXCEPT !.pc = e, !.port = port]
          PROVE  d.target = c.target /\ d.pc = e
      BY <1>0, <3>3 DEF Calls
    <3>4. CASE ApplyReads(x)
      <4>1. PICK e \in {"failed", "rechain", "chain"} :
               d = [c EXCEPT !.pc = e] \/ d = [c EXCEPT !.pc = e, !.port = rows[m].port]
        BY <1>3, <3>1, <3>4 DEF ApplyReads
      <4>2. d.target = c.target /\ d.pc \in {"failed", "rechain", "chain"}
        BY <1>0, <4>1 DEF Calls
      <4> QED
        BY <4>2 DEF CallDials
    <3>5. CASE Rechain(x)
      <4>1. chain' = [chain EXCEPT ![m] = c.target] /\ d = [c EXCEPT !.pc = "write"]
        BY <1>3, <2>1, <3>5, SendsDone DEF Rechain
      <4>2. chain'[m] = c.target
        BY <1>0, <4>1
      <4> QED
        BY <3>2, <4>1, <4>2 DEF CallDials, Joins
    <3>6. CASE AddChain(x)
      <4>1. c.pc = "chain" /\ chain[m] = 0
        BY <3>1, <3>6 DEF AddChain, At, Seen
      <4>2. chain' = [chain EXCEPT ![m] = c.target] /\ d = [c EXCEPT !.pc = "service"]
        BY <1>3, <2>1, <3>6, <4>1, SendsDone DEF AddChain
      <4>3. chain'[m] = c.target
        BY <1>0, <4>2
      <4> QED
        BY <3>2, <4>2, <4>3 DEF CallDials
    <3>7. CASE AddService(x)
      <4> DEFINE fails == [c EXCEPT !.pc = IF Middle(c.hop) THEN "undo" ELSE "failed"]
      <4>0. c.pc = "service"
        BY <3>7 DEF AddService, At
      <4>1. chain[m] = c.target \/ Gap(m)
        BY <4>0 DEF CallDials
      <4>2. chain' = chain /\ (d = fails \/ d = [c EXCEPT !.pc = "write"])
        <5>1. CASE Reply(x, fails) /\ UNCHANGED <<svc, chain, blamed, faults>>
          BY <3>1, <5>1
        <5>2. CASE Sends(x, IF svc[c.hop] = 0 THEN [svc EXCEPT ![c.hop] = c.port] ELSE svc, chain,
                         [c EXCEPT !.pc = "write"], fails)
          BY <1>3, <2>1, <5>2, SendsDone
        <5> QED
          BY <3>7, <5>1, <5>2 DEF AddService
      <4>3. d.target = c.target /\ d.pc \in {"undo", "failed", "write"}
        BY <3>2, <4>2
      <4> QED
        BY <1>1, <4>1, <4>2, <4>3 DEF CallDials, Joins
    <3>8. CASE UndoChain(x)
      <4>1. d = [c EXCEPT !.pc = "failed"]
        BY <1>3, <2>1, <3>8, SendsDone DEF UndoChain
      <4> QED
        BY <3>2, <4>1 DEF CallDials
    <3>9. CASE ApplyWrites(x)
      <4>1. c.pc = "write" /\ d = [c EXCEPT !.pc = "ok"] /\ UNCHANGED <<svc, chain>>
        BY <3>1, <3>9 DEF ApplyWrites, At
      <4> QED
        BY <1>1, <3>2, <4>1 DEF CallDials, Joins
    <3>10. ~CallFails(x)
      BY <2>1 DEF CallFails, At
    <3>11. ~ApplyWriteFails(x) /\ ~ReleaseMarkFails(x)
      BY <1>3 DEF ApplyWriteFails, ReleaseMarkFails
    <3> QED
      BY <3>4, <3>5, <3>6, <3>7, <3>8, <3>9, <3>10, <3>11 DEF CallStep, At, ReserveReads,
         ReserveInserts, ReleaseReads, DropService, DropChain, ReleaseMarks
  <2>5. Dials(m, proc[x], serve[x])'
    BY <1>0, <2>2, <2>3, <2>4 DEF Dials
  <2>6. Busy(TunnelOf[m])'
    BY <1>0, <2>1 DEF Busy, On
  <2> QED
    BY <1>0, <2>2, <2>5, <2>6 DEF HopDials, On
<1> QED
  BY <1>2, <1>3

\* A new request finds a middle as it should be, and claims nothing about it.
LEMMA AsksDials ==
    ASSUME TypeOK, Shape, NEW p \in Procs, NEW t \in Tunnels,
           Create(p, t) \/ Update(p, t) \/ Delete(p, t),
           NEW m \in Hops, Middle(m), m \notin blamed', HopDials(m)
    PROVE  HopDials(m)'
<1>1. /\ proc[p] = Idle /\ proc'[p].tunnel = t
      /\ \A q \in Procs : q # p => proc'[q] = proc[q]
      /\ UNCHANGED <<svc, chain, sweep, serve, missed, bound>>
  <2>1. UNCHANGED <<missed, bound>>
    BY DEF Create, Update, Delete, Cleans, CleansNot
  <2> QED
    BY <2>1, AsksShape DEF provider
<1>2. ~On(m, p)
  BY <1>1, HopAssumption DEF On, Idle
<1>3. CASE TunnelOf[m] # t
  <2>1. ~On(m, p)'
    BY <1>1, <1>3 DEF On
  <2>2. \A q \in Procs : On(m, q)' \/ On(m, q) => proc'[q] = proc[q]
    BY <1>1, <1>2, <2>1
  <2> QED
    BY <1>1, <2>2, JoinUntouched DEF Gap
<1>4. CASE TunnelOf[m] = t
  <2>1. ~Busy(t)
    <3>1. m \in HopsOf(t)
      BY <1>4 DEF HopsOf
    <3> QED
      BY <3>1 DEF Create, Update, Delete, Cleans, CleansNot, Meets
  <2>2. \A q \in Procs : On(m, q)' => q = p
    BY <1>1, <1>4, <2>1 DEF Busy, On
  <2>3. proc'[p].done = {} /\ proc'[p].pc \in {"pick", "release", "cascade"}
    <3>1. proc \in [Procs -> Frames]
      BY DEF TypeOK
    <3>2. CASE Create(p, t)
      BY <3>1, <3>2 DEF Create, Idle
    <3>3. ASSUME NEW op, NEW next \in {"pick", "cascade"},
                 Cleans(p, op, t, next) \/ CleansNot(p, op, t, next)
          PROVE  proc'[p].done = {} /\ proc'[p].pc \in {"pick", "release", "cascade"}
      BY <3>1, <3>3 DEF Cleans, CleansNot, Idle
    <3> QED
      BY <3>2, <3>3 DEF Update, Delete
  <2>4. Dials(m, proc[p], serve[p])'
    BY <2>3 DEF Dials
  <2>5. Busy(TunnelOf[m])'
    BY <1>1, <1>4 DEF Busy
  <2> QED
    BY <2>2, <2>4, <2>5 DEF HopDials
<1> QED
  BY <1>3, <1>4

\* A request that is lost or given up claims nothing any more.
LEMMA MishapDials ==
    ASSUME TypeOK, Shape, NEW p \in Procs, Lost(p) \/ Timeout(p), NEW m \in Hops, HopDials(m)
    PROVE  HopDials(m)'
<1>1. UNCHANGED <<svc, chain, sweep, proc, bound>> /\ missed \subseteq missed'
  BY DEF Lost, Timeout, provider, consumer
<1>2. /\ serve'[p].pc = "failed" /\ serve'[p].target = serve[p].target
      /\ \A q \in Procs : q # p => serve'[q] = serve[q]
  <2>1. serve \in [Slots -> Calls] /\ p \in Slots
    BY DEF TypeOK, Slots
  <2>0. serve'[p] = [serve[p] EXCEPT !.pc = "failed"]
    BY MishapShape
  <2>2. serve'[p].pc = "failed" /\ serve'[p].target = serve[p].target
    BY <2>0, <2>1 DEF Calls
  <2>3. ASSUME NEW q \in Procs, q # p PROVE serve'[q] = serve[q]
    BY <2>1, <2>3, ProcAssumption DEF Lost, Timeout, Slots
  <2> QED
    BY <2>2, <2>3
<1>3. /\ \A port : Joins(m, port)' <=> Joins(m, port)
      /\ Gap(m)' <=> Gap(m)
      /\ \A q \in Procs : On(m, q)' <=> On(m, q)
      /\ Busy(TunnelOf[m])' <=> Busy(TunnelOf[m])
  BY <1>1 DEF Joins, Gap, On, Busy
<1>4. ASSUME NEW q \in Procs, On(m, q)' PROVE Dials(m, proc[q], serve[q])'
  <2>1. Dials(m, proc[q], serve[q])
    BY <1>3, <1>4 DEF HopDials
  <2>2. CallDials(m, serve[q]) => CallDials(m, serve[q])'
    BY <1>1, <1>2, <1>3 DEF CallDials
  <2> QED
    BY <1>1, <1>2, <1>3, <2>1, <2>2 DEF Dials
<1> QED
  BY <1>1, <1>3, <1>4 DEF HopDials

\* A withdrawal takes a chain with its service, and is blamed where it meets an apply.
LEMMA ShareDials ==
    ASSUME TypeOK, Shape, NEW s \in Shares,
           Upload(s) \/ DeleteShare(s) \/ ResetFlow(s) \/ SweepStep(s),
           NEW m \in Hops, m \notin blamed', HopDials(m)
    PROVE  HopDials(m)'
<1> DEFINE Kept == /\ \A port : Joins(m, port) => Joins(m, port)'
                   /\ \A q \in Procs : proc[q].pc = "apply" /\ proc[q].at = m
                          /\ CallDials(m, serve[q]) => CallDials(m, serve[q])'
<1> USE Constants
<1>0. /\ UNCHANGED <<bound, proc, missed, serve>>
      /\ \A r \in Shares : r # s => sweep'[r] = sweep[r]
      /\ sweep \in [Shares -> Sweeps] /\ SweepShape(s)
      /\ svc \in [Hops -> Port0] /\ chain \in [Hops -> Port0]
  BY ShareStepShape DEF consumer, TypeOK, Shape
<1>1. Kept => HopDials(m)'
  <2>1. /\ \A q \in Procs : On(m, q)' <=> On(m, q)
        /\ Busy(TunnelOf[m])' <=> Busy(TunnelOf[m])
    BY <1>0 DEF On, Busy
  <2>2. ASSUME Kept, NEW q \in Procs, On(m, q)' PROVE Dials(m, proc[q], serve[q])'
    <3>1. Dials(m, proc[q], serve[q])
      BY <2>1, <2>2 DEF HopDials
    <3>2. /\ Joins(m, proc[q].port[Below[m]]) => Joins(m, proc[q].port[Below[m]])'
          /\ Joins(m, bound[Below[m]]) => Joins(m, bound[Below[m]])'
      BY <1>0, <2>2 DEF Joins
    <3>3. proc[q].pc = "apply" /\ proc[q].at = m /\ CallDials(m, serve[q])
             => CallDials(m, serve[q])'
      BY <2>2
    <3> QED
      BY <1>0, <3>1, <3>2, <3>3 DEF Dials
  <2>3. Kept => (Joins(m, bound[Below[m]]) => Joins(m, bound[Below[m]])')
    BY <1>0 DEF Joins
  <2> QED
    BY <1>0, <2>1, <2>2, <2>3 DEF HopDials
<1>2. ASSUME svc'[m] = svc[m], chain'[m] = chain[m], Gap(m)' <=> Gap(m) PROVE Kept
  BY <1>0, <1>2 DEF Joins, CallDials
<1>3. ASSUME Gap(m)', svc'[m] = svc[m] \/ svc'[m] = 0 PROVE Kept
  BY <1>0, <1>3 DEF Joins, CallDials
<1>4. ASSUME NEW final \in BOOLEAN, BeginSweep(s, final), UNCHANGED <<svc, chain>> PROVE Kept
  <2>1. Gap(m)' <=> Gap(m)
    BY <1>0, <1>4, HopAssumption DEF BeginSweep, SweepShape, Gap
  <2> QED
    BY <1>2, <1>4, <2>1
<1>5. CASE Upload(s) \/ DeleteShare(s)
  BY <1>1, <1>4, <1>5 DEF Upload, DeleteShare
<1>6. CASE ResetFlow(s)
  BY <1>1, <1>2, <1>6 DEF ResetFlow, Gap
<1>7. ASSUME NEW g \in Hops, SweepDrops(s, g) PROVE Kept
  <2>1. /\ ShareOf[g] = s /\ sweep[s].at = NoHop /\ sweep'[s].at = g
        /\ sweep'[s].applied = sweep[s].applied
    BY <1>0, <1>7 DEF SweepDrops, SweepShape, HopsIn, Sweeps
  <2>2. CASE m # g
    <3>1. Gap(m)' <=> Gap(m)
      BY <1>0, <2>1, <2>2, HopAssumption DEF Gap
    <3>2. svc'[m] = svc[m] /\ chain'[m] = chain[m]
      BY <1>0, <1>7, <2>2 DEF SweepDrops
    <3> QED
      BY <1>2, <3>1, <3>2
  <2>2a. CASE m = g /\ m \notin sweep[s].applied
    <3>1. Gap(m)' <=> Gap(m)
      BY <2>1, <2>2a, HopAssumption DEF Gap
    <3>2. svc'[m] = svc[m] /\ chain'[m] = chain[m]
      BY <1>7, <2>2a DEF SweepDrops
    <3> QED
      BY <1>2, <3>1, <3>2
  <2>3. CASE m = g /\ m \in sweep[s].applied
    <3>1. svc'[m] = svc[m] \/ svc'[m] = 0
      BY <1>0, <1>7, <2>3 DEF SweepDrops
    <3> QED
      BY <1>3, <2>1, <2>3, <3>1 DEF Gap
  <2> QED
    BY <2>2, <2>2a, <2>3
<1>8. CASE SweepMarks(s)
  <2> DEFINE g == sweep[s].at
  <2>1. /\ g # NoHop /\ UNCHANGED <<svc, chain>> /\ (Crossed(g) => g \in blamed')
        /\ sweep'[s].at = NoHop
    BY <1>0, <1>8 DEF SweepMarks, Sweeps
  <2>2. CASE m # g
    <3>1. Gap(m)' <=> Gap(m)
      BY <1>0, <2>1, <2>2, HopAssumption DEF Gap
    <3> QED
      BY <1>1, <1>2, <2>1, <3>1
  <2>3. CASE m = g
    <3>1. svc[m] = 0 /\ ~Crossed(m)
      BY <2>1, <2>3 DEF Crossed
    <3>2. ASSUME NEW q \in Procs, proc[q].pc = "apply", proc[q].at = m
          PROVE  serve[q].pc # "service"
      <4>1. serve[q].op = "apply" /\ serve[q].hop = m /\ q \in Slots
        BY <3>2 DEF Shape, FrameShape, Waiting, Slots
      <4> QED
        BY <3>1, <4>1 DEF Crossed
    <3>3. Kept
      BY <1>0, <2>1, <3>1, <3>2 DEF Joins, CallDials
    <3> QED
      BY <1>1, <3>3
  <2> QED
    BY <2>2, <2>3
<1>9. CASE SweepEnds(s)
  <2>1. sweep[s].at = NoHop /\ sweep'[s].at = NoHop /\ UNCHANGED <<svc, chain>>
    BY <1>0, <1>9 DEF SweepEnds, Resting
  <2>2. Gap(m)' <=> Gap(m)
    BY <1>0, <2>1, HopAssumption DEF Gap
  <2> QED
    BY <1>1, <1>2, <2>1, <2>2
<1>10. CASE SweepMarkFails(s)
  <2> DEFINE g == sweep[s].at
  <2>1. /\ g # NoHop /\ ShareOf[g] = s /\ UNCHANGED <<svc, chain>>
        /\ m = g => m \notin sweep[s].applied
    BY <1>0, <1>10 DEF SweepMarkFails, SweepShape, HopsIn
  <2>2. sweep'[s].at = NoHop
    BY <1>0, <1>10 DEF SweepMarkFails, Sweeps
  <2>3. Gap(m)' <=> Gap(m)
    BY <1>0, <2>1, <2>2, HopAssumption DEF Gap
  <2> QED
    BY <1>1, <1>2, <2>1, <2>3
<1>11. CASE SweepEndFails(s)
  <2>1. sweep[s].at = NoHop /\ sweep'[s].at = NoHop /\ UNCHANGED <<svc, chain>>
    BY <1>0, <1>11 DEF SweepEndFails, Resting
  <2>2. Gap(m)' <=> Gap(m)
    BY <1>0, <2>1, HopAssumption DEF Gap
  <2> QED
    BY <1>1, <1>2, <2>1, <2>2
<1> QED
  BY <1>1, <1>5, <1>6, <1>7, <1>8, <1>9, <1>10, <1>11 DEF SweepStep

\* Every step keeps to the order and keeps the middles joined.
LEMMA JoinedStep == IInv /\ Joined /\ IInv' /\ [Next]_vars => Joined'
<1> SUFFICES ASSUME IInv, Joined, IInv', [Next]_vars PROVE Joined'
  OBVIOUS
<1>1. TypeOK /\ Shape /\ TypeOK' /\ Shape' /\ \A p \in Procs : Ordered(proc[p])
  BY DEF IInv, Joined
<1>2. ASSUME NEW q \in Procs PROVE Ordered(proc'[q])
  <2>1. CASE UNCHANGED proc
    BY <1>1, <2>1
  <2>2. CASE UNCHANGED vars
    BY <2>1, <2>2 DEF vars, consumer
  <2>3. ASSUME NEW x \in Slots, CallStep(x) PROVE Ordered(proc'[q])
    BY <1>1, <2>1, <2>3, CallStepShape DEF consumer
  <2>4. ASSUME NEW p \in Procs, ProcStep(p) PROVE Ordered(proc'[q])
    BY <1>1, <2>4, ProcOrdered, ProcStepShape
  <2>5. ASSUME NEW p \in Procs, NEW t \in Tunnels, Create(p, t) \/ Update(p, t) \/ Delete(p, t)
        PROVE  Ordered(proc'[q])
    <3>1. q # p => proc'[q] = proc[q]
      BY <1>1, <2>5, AsksShape
    <3>2. proc'[p].done = {} /\ proc'[p].pc \notin Waiting
      <4>1. proc \in [Procs -> Frames]
        BY <1>1 DEF TypeOK
      <4>2. CASE Create(p, t)
        BY <4>1, <4>2 DEF Create, Idle, Waiting
      <4>3. ASSUME NEW op, NEW next \in {"pick", "cascade"},
                   Cleans(p, op, t, next) \/ CleansNot(p, op, t, next)
            PROVE  proc'[p].done = {} /\ proc'[p].pc \notin Waiting
        BY <4>1, <4>3 DEF Cleans, CleansNot, Idle, Waiting
      <4> QED
        BY <2>5, <4>2, <4>3 DEF Update, Delete
    <3> QED
      BY <1>1, <3>1, <3>2 DEF Ordered
  <2>6. ASSUME NEW p \in Procs, Lost(p) \/ Timeout(p) PROVE Ordered(proc'[q])
    BY <1>1, <2>1, <2>6, MishapShape
  <2>7. ASSUME NEW s \in Shares, Upload(s) \/ DeleteShare(s) \/ ResetFlow(s) \/ SweepStep(s)
        PROVE  Ordered(proc'[q])
    BY <1>1, <2>1, <2>7, ShareStepShape DEF consumer
  <2> QED
    BY <2>2, <2>3, <2>4, <2>5, <2>6, <2>7 DEF Next
<1>3. ASSUME NEW m \in Hops, m \notin blamed', Middle(m) PROVE HopDials(m)'
  <2>1. HopInv(m) /\ HopInv(m)' /\ HopDials(m)
    BY <1>3, BlameStays DEF IInv, Joined
  <2>2. CASE UNCHANGED vars
    <3>1. UNCHANGED <<svc, chain, sweep, bound, proc, missed, serve>>
      BY <2>2 DEF vars, provider, consumer
    <3> QED
      BY <2>1, <3>1, JoinUntouched DEF Gap
  <2>3. ASSUME NEW x \in Slots, CallStep(x) PROVE HopDials(m)'
    BY <1>1, <1>3, <2>1, <2>3, CallDialsHop
  <2>4. ASSUME NEW p \in Procs, ProcStep(p) PROVE HopDials(m)'
    BY <1>1, <1>3, <2>1, <2>4, ProcDials, ProcDialsElse
  <2>5. ASSUME NEW p \in Procs, NEW t \in Tunnels, Create(p, t) \/ Update(p, t) \/ Delete(p, t)
        PROVE  HopDials(m)'
    BY <1>1, <1>3, <2>1, <2>5, AsksDials
  <2>6. ASSUME NEW p \in Procs, Lost(p) \/ Timeout(p) PROVE HopDials(m)'
    BY <1>1, <2>1, <2>6, MishapDials
  <2>7. ASSUME NEW s \in Shares, Upload(s) \/ DeleteShare(s) \/ ResetFlow(s) \/ SweepStep(s)
        PROVE  HopDials(m)'
    BY <1>1, <1>3, <2>1, <2>7, ShareDials
  <2> QED
    BY <2>2, <2>3, <2>4, <2>5, <2>6, <2>7 DEF Next
<1> QED
  BY <1>2, <1>3 DEF Joined

\* A middle hop dials the port the next hop listens on, whatever was rolled back,
\* redone or withdrawn before, unless something went wrong with one of the two
\* (PathJoined: the targets of applyFederationRuntime).
THEOREM PathJoinedHolds == Spec => []PathJoined
<1>1. Init => Joined
  <2> SUFFICES ASSUME Init PROVE Joined
    OBVIOUS
  <2>1. \A p \in Procs : Ordered(proc[p])
    BY DEF Init, Ordered, Idle, Setup
  <2>2. \A m \in Hops : HopDials(m)
    BY DEF Init, HopDials, Dials, Joins, Idle, NoPorts, Setup
  <2> QED
    BY <2>1, <2>2 DEF Joined
<1>2. IInv /\ Joined => PathJoined
  <2> SUFFICES ASSUME IInv, Joined, NEW m \in Hops, Middle(m), Settled(m), Settled(Below[m]),
                      svc[m] # 0, svc[Below[m]] # 0
               PROVE  chain[m] = svc[Below[m]]
    BY DEF PathJoined
  <2>1. Below[m] \in Hops
    BY HopAssumption DEF Middle
  <2>2. SweepShape(ShareOf[m]) /\ SweepShape(ShareOf[Below[m]])
    BY <2>1, Constants DEF IInv, Shape
  <2>3. ~Gap(m)
    BY <2>2, HopAssumption DEF Settled, Quiet, Gap, SweepShape
  <2>4. chain[m] = bound[Below[m]]
    BY <2>3 DEF Joined, HopDials, Joins, Settled, Quiet
  <2>5. NothingLeftBehind
    BY NothingLeft
  <2> QED
    BY <2>1, <2>4, <2>5 DEF NothingLeftBehind
<1> QED
  BY <1>1, <1>2, JoinedStep, InitInv, InvStep, PTL DEF Spec


-----------------------------------------------------------------------------
(* Nobody waits for good but for himself.                                  *)

\* A loop has something left, and with one connection a transaction is open while
\* its handler sets up hops, or in the deadlock.
Onward(f) ==
    /\ f.pc \in {"pick", "release"} => f.todo # {}
    /\ f.pc = "domain" => f.done # {}
    /\ SingleConnection /\ f.tx => f.pc \in Setup \cup {"domain"}

OneTransaction == SingleConnection => \A p, q \in Procs : proc[p].tx /\ proc[q].tx => p = q

OnwardInv == OneTransaction /\ \A p \in Procs : Onward(proc[p])

\* A handler at rest is not in a transaction.
LEMMA OnwardIdle == Onward(Idle)
BY DEF Onward, Idle

\* A rollback has hops to release, and keeps the transaction as it was.
LEMMA GoesBackOnward ==
    ASSUME TypeOK, NEW p \in Procs, GoesBack(p)
    PROVE  Onward(proc'[p]) /\ (proc'[p].tx => proc[p].tx)
<1>1. proc' = [proc EXCEPT ![p] = IF proc[p].done = {} THEN Idle ELSE BackFrom(proc[p], "idle")]
  BY DEF GoesBack, Moves
<1>2. proc'[p] = IF proc[p].done = {} THEN Idle ELSE BackFrom(proc[p], "idle")
  BY <1>1 DEF TypeOK
<1>3. CASE proc[p].done = {}
  BY <1>2, <1>3, OnwardIdle DEF Idle
<1>4. CASE proc[p].done # {}
  <2>1. /\ proc'[p].pc = "domain" /\ proc'[p].done = proc[p].done /\ proc'[p].tx = proc[p].tx
    BY <1>2, <1>4 DEF BackFrom, TypeOK, Frames
  <2> QED
    BY <1>4, <2>1 DEF Onward
<1> QED
  BY <1>3, <1>4

\* A handler that goes on has something left to do, and opens no transaction.
LEMMA ProcStepOnward ==
    ASSUME TypeOK, Shape, OnwardInv, NEW p \in Procs, ProcStep(p)
    PROVE  /\ Onward(proc'[p])
           /\ SingleConnection /\ proc'[p].tx => proc[p].tx \/ \A q \in Procs : ~proc[q].tx
           /\ \A q \in Procs \ {p} : proc'[q] = proc[q]
<1> DEFINE f == proc[p]
           Goal == /\ Onward(proc'[p])
                   /\ SingleConnection /\ proc'[p].tx => f.tx \/ \A q \in Procs : ~proc[q].tx
                   /\ \A q \in Procs \ {p} : proc'[q] = proc[q]
<1>0. f \in Frames /\ FrameShape(f, serve[p]) /\ Onward(f) /\ proc \in [Procs -> Frames]
  BY DEF TypeOK, Shape, OnwardInv
<1>1. ASSUME NEW frame, proc' = [proc EXCEPT ![p] = frame], Onward(frame),
             SingleConnection /\ frame.tx => f.tx \/ \A q \in Procs : ~proc[q].tx
      PROVE  Goal
  BY <1>0, <1>1
<1>2. CASE Release(p)
  <2>1. PICK h \in f.todo : proc' = [proc EXCEPT ![p] = [f EXCEPT !.pc = "releasing", !.at = h]]
    BY <1>2 DEF Release, Moves
  <2> DEFINE frame == [f EXCEPT !.pc = "releasing", !.at = h]
  <2>2. frame.pc = "releasing" /\ frame.tx = f.tx /\ f.pc = "release"
    BY <1>0, <1>2 DEF Frames, Release
  <2>3. Onward(frame)
    BY <1>0, <2>2 DEF Onward, Setup
  <2>4. proc' = [proc EXCEPT ![p] = frame]
    BY <2>1
  <2> HIDE DEF frame
  <2> QED
    BY <1>1, <2>2, <2>3, <2>4
<1>3. CASE Released(p)
  <2> DEFINE left  == f.todo \ {f.at}
             next  == IF left = {} THEN f.then ELSE "release"
             frame == IF next = "idle" THEN Idle
                      ELSE [f EXCEPT !.pc = next, !.todo = left, !.at = NoHop]
  <2>1. proc' = [proc EXCEPT ![p] = frame] /\ f.pc = "releasing"
    BY <1>3 DEF Released, Moves
  <2>2. CASE next = "idle"
    <3>1. proc' = [proc EXCEPT ![p] = Idle]
      BY <2>1, <2>2
    <3> QED
      BY <1>1, <3>1, OnwardIdle DEF Idle
  <2>3. CASE next # "idle"
    <3>1. frame.pc = next /\ frame.todo = left /\ frame.tx = f.tx
      BY <1>0, <2>3 DEF Frames
    <3>2. \/ next = "release" /\ left # {}
          \/ next \in {"unbind", "forget", "cascade"}
      BY <1>0, <2>3 DEF Frames
    <3>3. ~(SingleConnection /\ f.tx)
      BY <1>0, <2>1 DEF Onward, Setup
    <3>4. Onward(frame)
      BY <3>1, <3>2, <3>3 DEF Onward
    <3> HIDE DEF frame
    <3> QED
      BY <1>1, <2>1, <3>1, <3>4
  <2> QED
    BY <2>2, <2>3
<1>4. ASSUME Unbind(p) \/ UnbindFails(p) PROVE Goal
  <2>1. f.pc = "unbind" /\ HopsOf(f.tunnel) # {}
    BY <1>0, <1>4, HopAssumption DEF Unbind, UnbindFails, FrameShape, Idle, HopsOf
  <2>2. ~(SingleConnection /\ f.tx)
    BY <1>0, <2>1 DEF Onward, Setup
  <2>3. CASE proc' = [proc EXCEPT ![p].pc = "pick", ![p].todo = HopsOf(f.tunnel)]
    <3> DEFINE frame == [f EXCEPT !.pc = "pick", !.todo = HopsOf(f.tunnel)]
    <3>1. proc' = [proc EXCEPT ![p] = frame]
      BY <1>0, <2>3 DEF Frames
    <3>2. frame.pc = "pick" /\ frame.todo = HopsOf(f.tunnel) /\ frame.tx = f.tx
      BY <1>0 DEF Frames
    <3>3. Onward(frame)
      BY <2>1, <2>2, <3>2 DEF Onward
    <3> HIDE DEF frame
    <3> QED
      BY <1>1, <2>2, <3>1, <3>2, <3>3
  <2>4. CASE proc' = [proc EXCEPT ![p] = Idle]
    BY <1>1, <2>4, OnwardIdle DEF Idle
  <2>5. CASE proc' = [proc EXCEPT ![p].pc = "cascade"]
    <3> DEFINE frame == [f EXCEPT !.pc = "cascade"]
    <3>1. proc' = [proc EXCEPT ![p] = frame]
      BY <2>5
    <3>2. frame.pc = "cascade" /\ frame.tx = f.tx
      BY <1>0 DEF Frames
    <3>3. Onward(frame)
      BY <2>2, <3>2 DEF Onward
    <3> HIDE DEF frame
    <3> QED
      BY <1>1, <2>2, <3>1, <3>2, <3>3
  <2> QED
    BY <1>4, <2>3, <2>4, <2>5 DEF Unbind, UnbindFails, CleanedUp
<1>5. CASE Reserve(p)
  <2>1. PICK h \in f.todo, pc \in {"reserve", "retry"} :
          proc' = [proc EXCEPT ![p] = [f EXCEPT !.pc = pc, !.at = h]]
    BY <1>5 DEF Reserve, Moves
  <2> DEFINE frame == [f EXCEPT !.pc = pc, !.at = h]
  <2>2. frame.pc = pc /\ frame.tx = f.tx
    BY <1>0 DEF Frames
  <2>3. Onward(frame)
    BY <2>2 DEF Onward, Setup
  <2>4. proc' = [proc EXCEPT ![p] = frame]
    BY <2>1
  <2> HIDE DEF frame
  <2> QED
    BY <1>1, <2>2, <2>3, <2>4
<1>6. CASE ReserveAny(p)
  <2> DEFINE frame == [f EXCEPT !.pc = "retry"]
  <2>1. proc' = [proc EXCEPT ![p] = frame]
    BY <1>6 DEF ReserveAny, Moves
  <2>2. frame.pc = "retry" /\ frame.tx = f.tx
    BY <1>0 DEF Frames
  <2>3. Onward(frame)
    BY <2>2 DEF Onward, Setup
  <2> HIDE DEF frame
  <2> QED
    BY <1>1, <2>1, <2>2, <2>3
<1>7. CASE Apply(p)
  <2>1. CASE GoesBack(p)
    <3>1. \A q \in Procs \ {p} : proc'[q] = proc[q]
      BY <1>0, <2>1 DEF GoesBack, Moves
    <3> QED
      BY <2>1, <3>1, GoesBackOnward
  <2>2. CASE proc' = [proc EXCEPT ![p] = [f EXCEPT !.pc = "apply", !.port[f.at] = serve[p].port]]
    <3> DEFINE frame == [f EXCEPT !.pc = "apply", !.port[f.at] = serve[p].port]
    <3>1. frame.pc = "apply" /\ frame.tx = f.tx
      BY <1>0 DEF Frames
    <3>2. Onward(frame)
      BY <3>1 DEF Onward, Setup
    <3> QED
      BY <1>1, <2>2, <3>1, <3>2
  <2> QED
    BY <1>7, <2>1, <2>2 DEF Apply, Moves
<1>8. CASE Applied(p)
  <2> DEFINE left  == f.todo \ {f.at}
             pc    == IF left = {} THEN "commit" ELSE "pick"
             frame == [f EXCEPT !.pc = pc, !.todo = left, !.done = @ \cup {f.at}, !.at = NoHop,
                                !.port[f.at] = serve[p].port]
  <2>1. proc' = [proc EXCEPT ![p] = frame]
    BY <1>8 DEF Applied, Moves
  <2>2. frame.pc = pc /\ frame.todo = left /\ frame.tx = f.tx
    BY <1>0 DEF Frames
  <2>3. Onward(frame)
    BY <2>2 DEF Onward, Setup
  <2> HIDE DEF frame
  <2> QED
    BY <1>1, <2>1, <2>2, <2>3
<1>9. CASE SetupFails(p)
  <2>1. GoesBack(p) /\ \A q \in Procs \ {p} : proc'[q] = proc[q]
    BY <1>0, <1>9 DEF SetupFails, GoesBack, Moves
  <2> QED
    BY <2>1, GoesBackOnward
<1>10. CASE Domain(p)
  <2> DEFINE frame == [f EXCEPT !.pc = "release", !.todo = f.done]
  <2>1. proc' = [proc EXCEPT ![p].pc = "release", ![p].todo = f.done] /\ DbFree /\ f.pc = "domain"
    BY <1>10 DEF Domain
  <2>2. proc' = [proc EXCEPT ![p] = frame]
    BY <1>0, <2>1 DEF Frames
  <2>3. frame.pc = "release" /\ frame.todo = f.done /\ frame.tx = f.tx
    BY <1>0 DEF Frames
  <2>4. ~(SingleConnection /\ f.tx)
    BY <2>1 DEF DbFree
  <2>5. Onward(frame)
    BY <1>0, <2>1, <2>3, <2>4 DEF Onward
  <2> HIDE DEF frame
  <2> QED
    BY <1>1, <2>2, <2>3, <2>5
<1>11. CASE Commit(p)
  <2> DEFINE frame == [f EXCEPT !.pc = "local", !.tx = FALSE]
  <2>1. proc' = [proc EXCEPT ![p].pc = "local", ![p].tx = FALSE]
    BY <1>11 DEF Commit
  <2>2. proc' = [proc EXCEPT ![p] = frame]
    BY <1>0, <2>1 DEF Frames
  <2>3. frame.pc = "local" /\ frame.tx = FALSE
    BY <1>0 DEF Frames
  <2>4. Onward(frame)
    BY <2>3 DEF Onward
  <2> HIDE DEF frame
  <2> QED
    BY <1>1, <2>2, <2>3, <2>4
<1>12. CASE CommitFails(p)
  <2>1. PICK tx \in BOOLEAN : proc' = [proc EXCEPT ![p] = [BackFrom(@, "idle") EXCEPT !.tx = tx]]
    BY <1>12 DEF CommitFails
  <2> DEFINE frame == [BackFrom(f, "idle") EXCEPT !.tx = tx]
  <2>2. proc' = [proc EXCEPT ![p] = frame] /\ f.pc = "commit" /\ (f.tx \/ DbFree)
    BY <1>12, <2>1 DEF CommitFails
  <2>3. frame.pc = "domain" /\ frame.done = f.done /\ frame.tx = tx
    BY <1>0 DEF Frames, BackFrom
  <2>4. f.done # {}
    BY <1>0, <2>2, HopAssumption DEF FrameShape, Setup, Idle, HopsOf
  <2>5. Onward(frame)
    BY <2>3, <2>4 DEF Onward
  <2> HIDE DEF frame
  <2> QED
    BY <1>1, <2>2, <2>5 DEF DbFree
<1>13. CASE UpdateRefused(p) \/ Forget(p) \/ Cascade(p) \/ LastFails(p)
  <2>1. proc' = [proc EXCEPT ![p] = Idle]
    BY <1>13 DEF UpdateRefused, Forget, Cascade, LastFails
  <2> QED
    BY <1>1, <2>1, OnwardIdle DEF Idle
<1>14. CASE Local(p)
  <2>1. CASE proc' = [proc EXCEPT ![p] = Idle]
    BY <1>1, <2>1, OnwardIdle DEF Idle
  <2>2. CASE proc' = [proc EXCEPT ![p] = BackFrom(@, IF @.op = "create" THEN "cascade" ELSE "forget")]
    <3> DEFINE frame == BackFrom(f, IF f.op = "create" THEN "cascade" ELSE "forget")
    <3>1. proc' = [proc EXCEPT ![p] = frame] /\ f.pc = "local"
      BY <1>14, <2>2 DEF Local
    <3>2. frame.pc = "domain" /\ frame.done = f.done /\ frame.tx = f.tx
      BY <1>0 DEF Frames, BackFrom
    <3>3. f.done # {}
      BY <1>0, <3>1, HopAssumption DEF FrameShape, Setup, Idle, HopsOf
    <3>4. Onward(frame)
      BY <3>2, <3>3 DEF Onward
    <3> HIDE DEF frame
    <3> QED
      BY <1>1, <3>1, <3>2, <3>4
  <2> QED
    BY <1>14, <2>1, <2>2 DEF Local
<1> QED
  BY <1>2, <1>3, <1>4, <1>5, <1>6, <1>7, <1>8, <1>9, <1>10, <1>11, <1>12, <1>13, <1>14
     DEF ProcStep

\* A request to the consumer begins with something to do, and a create only opens
\* its transaction when no other is open.
LEMMA AsksOnward ==
    ASSUME TypeOK, OnwardInv, NEW p \in Procs, NEW t \in Tunnels,
           Create(p, t) \/ Update(p, t) \/ Delete(p, t)
    PROVE  OnwardInv'
<1>0. HopsOf(t) # {} /\ proc \in [Procs -> Frames]
  BY HopAssumption DEF HopsOf, TypeOK
<1>1. CASE Create(p, t)
  <2> DEFINE frame == [Idle EXCEPT !.op = "create", !.pc = "pick", !.tunnel = t,
                                   !.todo = HopsOf(t), !.tx = TRUE]
  <2>1. proc' = [proc EXCEPT ![p] = frame] /\ DbFree
    BY <1>1 DEF Create
  <2>2. frame.pc = "pick" /\ frame.todo = HopsOf(t)
    BY DEF Idle
  <2>3. Onward(frame)
    BY <1>0, <2>2 DEF Onward, Setup
  <2> HIDE DEF frame
  <2> QED
    BY <1>0, <2>1, <2>3 DEF OnwardInv, OneTransaction, DbFree
<1>2. ASSUME NEW op, NEW next \in {"pick", "cascade"}, Cleans(p, op, t, next) PROVE OnwardInv'
  <2> DEFINE held  == Held(t)
             frame == [Idle EXCEPT !.op = op, !.tunnel = t, !.then = "unbind",
                               !.pc = IF held = {} THEN next ELSE "release",
                               !.todo = IF held = {} THEN HopsOf(t) ELSE held]
  <2>1. proc' = [proc EXCEPT ![p] = frame]
    BY <1>2 DEF Cleans
  <2>2. /\ frame.pc = IF held = {} THEN next ELSE "release"
        /\ frame.todo = IF held = {} THEN HopsOf(t) ELSE held
        /\ frame.tx = FALSE
    BY DEF Idle
  <2>3. Onward(frame)
    BY <1>0, <2>2 DEF Onward, Setup
  <2>4. frame.tx = FALSE
    BY <2>2
  <2> HIDE DEF frame
  <2> QED
    BY <1>0, <2>1, <2>3, <2>4 DEF OnwardInv, OneTransaction
<1>3. ASSUME NEW op, NEW next \in {"pick", "cascade"}, CleansNot(p, op, t, next)
      PROVE  OnwardInv'
  <2> DEFINE frame == [Idle EXCEPT !.op = op, !.tunnel = t, !.then = "unbind",
                                   !.pc = next, !.todo = HopsOf(t)]
  <2>1. proc' = [proc EXCEPT ![p] = frame]
    BY <1>3 DEF CleansNot
  <2>2. frame.pc = next /\ frame.todo = HopsOf(t) /\ frame.tx = FALSE
    BY DEF Idle
  <2>3. Onward(frame)
    BY <1>0, <2>2 DEF Onward, Setup
  <2> HIDE DEF frame
  <2> QED
    BY <1>0, <2>1, <2>2, <2>3 DEF OnwardInv, OneTransaction
<1> QED
  BY <1>1, <1>2, <1>3 DEF Update, Delete

\* Every step keeps it.
LEMMA OnwardStep == TypeOK /\ Shape /\ OnwardInv /\ [Next]_vars => OnwardInv'
<1> SUFFICES ASSUME TypeOK, Shape, OnwardInv, [Next]_vars PROVE OnwardInv'
  OBVIOUS
<1>1. CASE UNCHANGED proc
  BY <1>1 DEF OnwardInv, OneTransaction
<1>2. ASSUME NEW p \in Procs, ProcStep(p) PROVE OnwardInv'
  BY <1>2, ProcStepOnward DEF OnwardInv, OneTransaction
<1>3. ASSUME NEW p \in Procs, NEW t \in Tunnels, Create(p, t) \/ Update(p, t) \/ Delete(p, t)
      PROVE  OnwardInv'
  BY <1>3, AsksOnward
<1>4. ASSUME NEW p \in Procs, Lost(p) \/ Timeout(p) PROVE UNCHANGED proc
  BY <1>4 DEF Lost, Timeout, consumer
<1>5. ASSUME NEW x \in Slots, CallStep(x) PROVE UNCHANGED proc
  BY <1>5, CallStepShape DEF consumer
<1>6. ASSUME NEW s \in Shares, Upload(s) \/ DeleteShare(s) \/ ResetFlow(s) \/ SweepStep(s)
      PROVE  UNCHANGED proc
  BY <1>6, ShareStepShape DEF consumer
<1> QED
  BY <1>1, <1>2, <1>3, <1>4, <1>5, <1>6 DEF Next, vars, consumer

\* A handler that cannot go on waits for a connection to the database, and who has
\* it can go on or waits for himself.
LEMMA OnwardMeans ==
    ASSUME TypeOK, Shape, OnwardInv
    PROVE  NobodyStuck
<1>1. ASSUME NEW p \in Procs, proc[p].op # "none", ~CanGo(p)
      PROVE  proc[p].pc \in {"commit", "unbind", "domain", "forget", "cascade"} /\ ~DbFree
  <2>1. /\ proc[p] \in Frames /\ serve[p] \in Calls
        /\ FrameShape(proc[p], serve[p]) /\ CallShape(serve[p]) /\ Onward(proc[p])
    BY DEF TypeOK, Shape, OnwardInv, Slots
  <2>2. proc[p].pc # "idle"
    BY <1>1, <2>1 DEF FrameShape
  <2>3. proc[p].pc = "pick" => \E h \in proc[p].todo : Below[h] \notin proc[p].todo
    BY <2>1, ChainAssumption DEF Onward, Frames
  <2>4. proc[p].pc = "release" => proc[p].todo # {}
    BY <2>1 DEF Onward
  <2>5. CASE proc[p].pc \in {"reserve", "retry"}
    BY <1>1, <2>1, <2>5 DEF CanGo, FrameShape, CallShape, Waiting
  <2>6. CASE proc[p].pc = "apply"
    BY <1>1, <2>1, <2>6 DEF CanGo, FrameShape, CallShape, Waiting
  <2>7. CASE proc[p].pc = "releasing"
    BY <1>1, <2>1, <2>7 DEF CanGo, FrameShape, CallShape, Waiting
  <2>8. CASE proc[p].pc \in {"release", "pick", "local"}
    BY <1>1, <2>3, <2>4, <2>8 DEF CanGo
  <2>9. CASE proc[p].pc \in {"commit", "unbind", "domain", "forget", "cascade"}
    BY <1>1, <2>9 DEF CanGo
  <2> QED
    BY <2>1, <2>2, <2>5, <2>6, <2>7, <2>8, <2>9 DEF Frames
<1>2. ASSUME NEW q \in Procs, SingleConnection, proc[q].tx PROVE CanGo(q) \/ OwnDeadlock(q)
  <2>1. proc[q].pc \in Setup \cup {"domain"} /\ proc[q] \in Frames
    BY <1>2 DEF OnwardInv, Onward, TypeOK
  <2>2. CASE proc[q].pc = "domain"
    BY <1>2, <2>2 DEF OwnDeadlock
  <2>3. CASE proc[q].pc = "commit"
    BY <1>2, <2>3 DEF CanGo
  <2>4. CASE proc[q].pc \in {"pick", "reserve", "retry", "apply"}
    <3>1. proc[q].op # "none"
      BY <2>4 DEF Shape, FrameShape, Idle
    <3> QED
      BY <1>1, <2>4, <3>1
  <2> QED
    BY <2>1, <2>2, <2>3, <2>4 DEF Setup
<1>3. ~DbFree => SingleConnection /\ \E q \in Procs : proc[q].tx
  BY DEF DbFree
<1> QED
  BY <1>1, <1>2, <1>3 DEF NobodyStuck, OnwardInv, OneTransaction

\* No handlers wait for one another: who cannot go on waits for one who can, or
\* for one in the deadlock of a create with itself (NobodyStuck).
THEOREM NobodyStuckHolds == Spec => []NobodyStuck
<1>1. ASSUME Init PROVE OnwardInv
  <2>1. \A p \in Procs : proc[p] = Idle
    BY <1>1 DEF Init
  <2>2. Idle.tx = FALSE
    BY DEF Idle
  <2> QED
    BY <2>1, <2>2, OnwardIdle DEF OnwardInv, OneTransaction
<1>2. IInv => TypeOK /\ Shape
  BY DEF IInv
<1> QED
  BY <1>1, <1>2, OnwardStep, OnwardMeans, Invariant, PTL DEF Spec

=============================================================================

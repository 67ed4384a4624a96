--------------------------- MODULE NodeHub_proofs ---------------------------
(***************************************************************************)
(* Proofs about NodeHub, for every set of nodes, connections and calls.    *)
(* The argument is ownership: the channel of a call inside SendCommand has *)
(* exactly one owner, s.pending or one handler, until it is closed.        *)
(***************************************************************************)
EXTENDS NodeHub, TLAPS

(* The results the hub makes up itself are results. *)
LEMMA ResultTypes ==
  /\ None \in Results
  /\ \A f \in Kinds : Failed(f) \in Results
  /\ \A n \in Nodes, r \in {"ok", "refused"} : [kind |-> r, by |-> n] \in Results
BY DEF None, Results, Kinds, Failed

(* TypeOK is inductive. *)
THEOREM TypeCorrect == Spec => []TypeOK
<1>1. Init => TypeOK
  <2> SUFFICES ASSUME Init PROVE TypeOK
    OBVIOUS
  <2>1. /\ nodes \in [Nodes -> Conns \cup {NoConn}]
        /\ online \in [Nodes -> {0, 1}]
        /\ sock \in [Conns -> {"new", "open", "dead", "closed"}]
        /\ hpc \in [Conns -> HandlerPCs]
        /\ held \in [Conns -> SUBSET Calls]
    BY DEF Init, HandlerPCs
  <2>2. replies \in [Conns -> SUBSET (Calls \X BOOLEAN)]
    BY Zenon DEF Init
  <2>3. /\ verdict \in [Conns -> Results]
        /\ buf \in [Calls -> Results]
        /\ outcome \in [Calls -> Results]
    BY ResultTypes DEF Init
  <2>4. /\ agent \in [Calls -> {"none", "queued", "executed", "replied"}]
        /\ cpc \in [Calls -> CallPCs]
        /\ sess \in [Calls -> Conns \cup {NoConn}]
        /\ closed \in [Calls -> BOOLEAN]
        /\ pending \subseteq Calls
        /\ panicked \in BOOLEAN
    BY DEF Init, CallPCs
  <2> QED
    BY <2>1, <2>2, <2>3, <2>4 DEF TypeOK
<1>2. TypeOK /\ [Next]_vars => TypeOK'
  <2> SUFFICES ASSUME TypeOK, [Next]_vars PROVE TypeOK'
    OBVIOUS
  <2> USE OwnerAssumption, HubTargetAssumption
  <2> USE DEF TypeOK, HandlerPCs, CallPCs,
              handlerVars, callerVars, chanVars, agentVars, SendAndClose, CloseOnly
  <2>1. ASSUME NEW c \in Conns, Connect(c) PROVE TypeOK'
    BY <2>1 DEF Connect
  <2>2. ASSUME NEW c \in Conns, Register(c) PROVE TypeOK'
    BY <2>2 DEF Register
  <2>3. ASSUME NEW c \in Conns, MarkOnline(c) PROVE TypeOK'
    BY <2>3 DEF MarkOnline
  <2>4. ASSUME NEW c \in Conns, NEW k \in Calls, NEW ok \in BOOLEAN, Claim(c, k, ok)
        PROVE TypeOK'
    <3>1. verdict' \in [Conns -> Results]
      <4>1. /\ Failed("mismatch") \in Results
            /\ [kind |-> IF ok THEN "ok" ELSE "refused", by |-> Owner[c]] \in Results
        BY ResultTypes DEF Kinds
      <4> QED
        BY <2>4, <4>1 DEF Claim
    <3>2. /\ held' \in [Conns -> SUBSET Calls]
          /\ hpc' \in [Conns -> HandlerPCs]
          /\ pending' \subseteq Calls
      BY <2>4 DEF Claim
    <3>3. replies' \in [Conns -> SUBSET (Calls \X BOOLEAN)]
      BY <2>4 DEF Claim
    <3> QED
      BY <2>4, <3>1, <3>2, <3>3 DEF Claim
  <2>5. ASSUME NEW c \in Conns, NEW k \in Calls, Resolve(c, k) PROVE TypeOK'
    BY <2>5 DEF Resolve
  <2>6. ASSUME NEW c \in Conns, ReadError(c) PROVE TypeOK'
    BY <2>6 DEF ReadError
  <2>7. ASSUME NEW c \in Conns, Leave(c) PROVE TypeOK'
    BY <2>7 DEF Leave
  <2>8. ASSUME NEW c \in Conns, TakePending(c) PROVE TypeOK'
    BY <2>8, ResultTypes DEF TakePending, Kinds
  <2>9. ASSUME NEW c \in Conns, NEW k \in Calls, FailOne(c, k) PROVE TypeOK'
    BY <2>9 DEF FailOne
  <2>10. ASSUME NEW c \in Conns, MarkOffline(c) PROVE TypeOK'
    BY <2>10 DEF MarkOffline
  <2>11. ASSUME NEW k \in Calls, CallStep(k) PROVE TypeOK'
    <3>1. CASE Find(k)
      BY <3>1, ResultTypes DEF Find, Kinds
    <3>2. CASE Enter(k)
      BY <3>2 DEF Enter
    <3>3. CASE Write(k)
      BY <3>3 DEF Write
    <3>4. CASE WriteFails(k)
      BY <3>4, ResultTypes DEF WriteFails, Kinds
    <3>5. CASE GetResult(k)
      BY <3>5 DEF GetResult
    <3>6. CASE TimeOut(k)
      BY <3>6, ResultTypes DEF TimeOut, Kinds
    <3>7. CASE CleanUp(k)
      BY <3>7 DEF CleanUp
    <3> QED
      BY <2>11, <3>1, <3>2, <3>3, <3>4, <3>5, <3>6, <3>7 DEF CallStep
  <2>12. ASSUME AgentStep PROVE TypeOK'
    <3>1. ASSUME NEW c \in Conns, PeerLost(c) PROVE TypeOK'
      BY <3>1 DEF PeerLost
    <3>2. ASSUME NEW k \in Calls, AgentExecutes(k) PROVE TypeOK'
      BY <3>2 DEF AgentExecutes
    <3>3. ASSUME NEW c \in Conns, NEW k \in Calls, AgentMisaddresses(c, k) PROVE TypeOK'
      <4>1. <<k, TRUE>> \in Calls \X BOOLEAN
        OBVIOUS
      <4> QED
        BY <3>3, <4>1 DEF AgentMisaddresses
    <3>4. ASSUME NEW c \in Conns, NEW k \in Calls, NEW ok \in BOOLEAN,
                 AgentReplies(c, k, ok)
          PROVE TypeOK'
      <4>1. <<k, ok>> \in Calls \X BOOLEAN
        OBVIOUS
      <4> QED
        BY <3>4, <4>1 DEF AgentReplies
    <3> QED
      BY <2>1, <2>12, <3>1, <3>2, <3>3, <3>4 DEF AgentStep
  <2>13. CASE UNCHANGED vars
    BY <2>13 DEF vars
  <2> QED
    BY <2>1, <2>2, <2>3, <2>4, <2>5, <2>6, <2>7, <2>8, <2>9, <2>10, <2>11, <2>12,
       <2>13 DEF Next, HandlerStep
<1> QED
  BY <1>1, <1>2, PTL DEF Spec
-----------------------------------------------------------------------------
(* Until it is closed, the channel of a call has exactly one owner: with      *)
(* TypeOK, Ownership is inductive.                                          *)
THEOREM OwnershipHolds == Spec => []Ownership
<1>1. Init => Ownership
  BY DEF Init, Ownership, NoForgottenCaller, ChannelSafe, InCall
<1>2. TypeOK /\ Ownership /\ [Next]_vars => Ownership'
  <2> SUFFICES ASSUME TypeOK, Ownership, [Next]_vars PROVE Ownership'
    OBVIOUS
  <2> USE DEF TypeOK, Ownership, NoForgottenCaller, ChannelSafe, InCall,
              handlerVars, callerVars, chanVars, agentVars, SendAndClose, CloseOnly
  <2>1. ASSUME NEW c \in Conns, Connect(c) PROVE Ownership'
    BY <2>1 DEF Connect
  <2>2. ASSUME NEW c \in Conns, Register(c) PROVE Ownership'
    BY <2>2 DEF Register
  <2>3. ASSUME NEW c \in Conns, MarkOnline(c) PROVE Ownership'
    BY <2>3 DEF MarkOnline
  <2>4. ASSUME NEW c \in Conns, NEW k \in Calls, NEW ok \in BOOLEAN, Claim(c, k, ok)
        PROVE Ownership'
    <3>1. CASE k \in pending
      <4>1. /\ pending' = pending \ {k}
            /\ held' = [held EXCEPT ![c] = {k}]
            /\ hpc[c] = "reading"
            /\ hpc' = [hpc EXCEPT ![c] = "resolving"]
            /\ UNCHANGED <<closed, cpc, panicked>>
        BY <2>4, <3>1 DEF Claim
      <4>2. held[c] = {}
        BY <4>1
      <4> QED
        BY <3>1, <4>1, <4>2
    <3>2. CASE k \notin pending
      <4>1. UNCHANGED <<pending, held, hpc, closed, cpc, panicked>>
        BY <2>4, <3>2 DEF Claim
      <4> QED
        BY <4>1
    <3> QED
      BY <3>1, <3>2
  <2>5. ASSUME NEW c \in Conns, NEW k \in Calls, Resolve(c, k) PROVE Ownership'
    BY <2>5 DEF Resolve
  <2>6. ASSUME NEW c \in Conns, ReadError(c) PROVE Ownership'
    BY <2>6 DEF ReadError
  <2>7. ASSUME NEW c \in Conns, Leave(c) PROVE Ownership'
    BY <2>7 DEF Leave
  <2>8. ASSUME NEW c \in Conns, TakePending(c) PROVE Ownership'
    BY <2>8 DEF TakePending
  <2>9. ASSUME NEW c \in Conns, NEW k \in Calls, FailOne(c, k) PROVE Ownership'
    BY <2>9 DEF FailOne
  <2>10. ASSUME NEW c \in Conns, MarkOffline(c) PROVE Ownership'
    BY <2>10 DEF MarkOffline
  <2>11. ASSUME NEW k \in Calls, CallStep(k) PROVE Ownership'
    <3>1. CASE Find(k)
      <4>1. /\ cpc[k] = "idle"
            /\ \E pc \in {"found", "returned"} : cpc' = [cpc EXCEPT ![k] = pc]
            /\ UNCHANGED <<pending, held, hpc, closed, panicked>>
        BY <3>1 DEF Find
      <4> QED
        BY <4>1
    <3>2. CASE Enter(k)
      BY <3>2 DEF Enter
    <3>3. CASE Write(k)
      BY <3>3 DEF Write
    <3>4. CASE WriteFails(k)
      BY <3>4 DEF WriteFails
    <3>5. CASE GetResult(k)
      BY <3>5 DEF GetResult
    <3>6. CASE TimeOut(k)
      BY <3>6 DEF TimeOut
    <3>7. CASE CleanUp(k)
      BY <3>7 DEF CleanUp
    <3> QED
      BY <2>11, <3>1, <3>2, <3>3, <3>4, <3>5, <3>6, <3>7 DEF CallStep
  <2>12. ASSUME AgentStep PROVE Ownership'
    <3>1. CASE \E c \in Conns : Connect(c)
      BY <2>1, <3>1
    <3>2. CASE UNCHANGED <<hpc, held, pending, callerVars, chanVars>>
      BY <3>2
    <3> QED
      BY <2>12, <3>1, <3>2 DEF AgentStep, PeerLost, AgentExecutes, AgentMisaddresses,
         AgentReplies
  <2>13. CASE UNCHANGED vars
    BY <2>13 DEF vars
  <2> QED
    BY <2>1, <2>2, <2>3, <2>4, <2>5, <2>6, <2>7, <2>8, <2>9, <2>10, <2>11, <2>12,
       <2>13 DEF Next, HandlerStep
<1> QED
  BY <1>1, <1>2, TypeCorrect, PTL DEF Spec

(* The panel never panics on a closed channel. *)
THEOREM ChannelsSafe == Spec => []ChannelSafe
BY OwnershipHolds, PTL DEF Ownership

(* s.pending holds only requests whose SendCommand is still running. *)
THEOREM PendingAlwaysOwned == Spec => []PendingOwned
<1>1. TypeOK /\ Ownership => PendingOwned
  BY DEF Ownership, PendingOwned, TypeOK
<1> QED
  BY <1>1, TypeCorrect, OwnershipHolds, PTL

(* No caller inside SendCommand is forgotten. *)
THEOREM NobodyForgotten == Spec => []NoForgottenCaller
BY OwnershipHolds, PTL DEF Ownership
-----------------------------------------------------------------------------
(* The session of a node is served by a handler that will remove it. *)
THEOREM SessionsServed == Spec => []SessionServed
<1>1. Init => SessionServed
  BY DEF Init, SessionServed
<1>2. TypeOK /\ SessionServed /\ [Next]_vars => SessionServed'
  <2> SUFFICES ASSUME TypeOK, SessionServed, [Next]_vars PROVE SessionServed'
    OBVIOUS
  <2> USE OwnerAssumption, AbsentAssumption
  <2> USE DEF TypeOK, SessionServed, handlerVars, callerVars, chanVars, agentVars
  <2>1. ASSUME NEW c \in Conns, HandlerStep(c) PROVE SessionServed'
    <3>1. CASE Register(c)
      BY <3>1 DEF Register
    <3>2. CASE MarkOnline(c)
      BY <3>2 DEF MarkOnline
    <3>3. CASE ReadError(c)
      BY <3>3 DEF ReadError
    <3>4. CASE Leave(c)
      BY <3>4 DEF Leave
    <3>5. CASE TakePending(c)
      BY <3>5 DEF TakePending
    <3>6. CASE MarkOffline(c)
      BY <3>6 DEF MarkOffline
    <3>7. ASSUME NEW k \in Calls, Resolve(c, k) \/ FailOne(c, k) PROVE SessionServed'
      BY <3>7 DEF Resolve, FailOne
    <3>8. ASSUME NEW k \in Calls, NEW ok \in BOOLEAN, Claim(c, k, ok)
          PROVE SessionServed'
      <4>1. /\ hpc[c] = "reading"
            /\ \/ hpc' = [hpc EXCEPT ![c] = "resolving"]
               \/ UNCHANGED hpc
            /\ UNCHANGED nodes
        BY <3>8 DEF Claim
      <4> QED
        BY <4>1
    <3> QED
      BY <2>1, <3>1, <3>2, <3>3, <3>4, <3>5, <3>6, <3>7, <3>8 DEF HandlerStep
  <2>2. ASSUME NEW c \in Conns, Connect(c) PROVE SessionServed'
    BY <2>2 DEF Connect
  <2>3. CASE UNCHANGED <<nodes, hpc>>
    BY <2>3
  <2>4. ASSUME NEW k \in Calls, CallStep(k) PROVE UNCHANGED <<nodes, hpc>>
    BY <2>4 DEF CallStep, Find, Enter, Write, WriteFails, GetResult, TimeOut, CleanUp
  <2>5. CASE AgentStep
    BY <2>2, <2>3, <2>5 DEF AgentStep, PeerLost, AgentExecutes, AgentMisaddresses,
       AgentReplies
  <2> QED
    BY <2>1, <2>3, <2>4, <2>5 DEF Next, vars
<1> QED
  BY <1>1, <1>2, TypeCorrect, PTL DEF Spec
-----------------------------------------------------------------------------
(* Every result a caller can be given is a failure or the genuine answer of *)
(* the node it addressed.                                                   *)
THEOREM ProvenanceHolds == Spec => []Provenance
<1>1. Init => Provenance
  BY DEF Init, Provenance, None
<1>2. TypeOK /\ Ownership /\ Provenance /\ [Next]_vars => Provenance'
  <2> SUFFICES ASSUME TypeOK, Ownership, Provenance, [Next]_vars PROVE Provenance'
    OBVIOUS
  <2> USE DEF TypeOK, Ownership, InCall, Provenance,
              handlerVars, callerVars, chanVars, agentVars, SendAndClose, CloseOnly
  <2>1. ASSUME NEW c \in Conns, NEW k \in Calls, NEW ok \in BOOLEAN, Claim(c, k, ok)
        PROVE Provenance'
    <3>1. CASE k \in pending
      <4>1. /\ held' = [held EXCEPT ![c] = {k}]
            /\ verdict'[c] = IF Target[k] # Owner[c] THEN Failed("mismatch")
                 ELSE [kind |-> IF ok THEN "ok" ELSE "refused", by |-> Owner[c]]
            /\ \A d \in Conns \ {c} : verdict'[d] = verdict[d]
            /\ \A d \in Conns : replies'[d] \subseteq replies[d]
            /\ UNCHANGED <<agent, closed, buf, cpc, outcome>>
        BY <2>1, <3>1 DEF Claim
      <4>2. Genuine(k, verdict'[c])
        BY <2>1, <4>1 DEF Claim, Genuine
      <4>3. \A l \in Calls : \A r : Genuine(l, r) => Genuine(l, r)'
        BY <4>1 DEF Genuine, Failed
      <4> QED
        BY <4>1, <4>2, <4>3
    <3>2. CASE k \notin pending
      <4>1. /\ UNCHANGED <<held, verdict, agent, closed, buf, cpc, outcome>>
            /\ \A d \in Conns : replies'[d] \subseteq replies[d]
        BY <2>1, <3>2 DEF Claim
      <4> QED
        BY <4>1 DEF Genuine, Failed, None
    <3> QED
      BY <3>1, <3>2
  <2>2. ASSUME NEW c \in Conns, NEW k \in Calls, Resolve(c, k) \/ FailOne(c, k)
        PROVE Provenance'
    <3>0. /\ k \in held[c]
          /\ \E h \in {{}, held[c] \ {k}} : held' = [held EXCEPT ![c] = h]
          /\ SendAndClose(k, verdict[c])
          /\ UNCHANGED <<agent, replies, cpc, outcome, verdict>>
      BY <2>2 DEF Resolve, FailOne
    <3>1. /\ k \in held[c]
          /\ \A d \in Conns : held'[d] \subseteq held[d]
          /\ UNCHANGED <<agent, replies, cpc, outcome, verdict>>
      BY <3>0
    <3>4. /\ buf[k] = None
          /\ buf'[k] = verdict[c]
          /\ closed'[k]
          /\ \A l \in Calls \ {k} : buf'[l] = buf[l] /\ closed'[l] = closed[l]
      BY <3>0
    <3>2. Genuine(k, buf'[k])
      BY <3>1, <3>4
    <3>3. \A l \in Calls : \A r : Genuine(l, r) => Genuine(l, r)'
      BY <3>1 DEF Genuine, Failed
    <3>5. \A l \in Calls : ~closed'[l] => buf'[l] = None
      BY <3>4
    <3>6. \A l \in Calls : cpc'[l] \in {"registered", "waiting"} /\ closed'[l] => Genuine(l, buf[l])'
      <4> SUFFICES ASSUME NEW l \in Calls, cpc'[l] \in {"registered", "waiting"}, closed'[l]
                   PROVE  Genuine(l, buf'[l])
        BY <3>3
      <4> QED
        BY <3>1, <3>2, <3>4
    <3>7. \A d \in Conns, l \in Calls : l \in held'[d] => Genuine(l, verdict[d])'
      BY <3>1, <3>3
    <3> QED
      BY <3>1, <3>5, <3>6, <3>7 DEF None
  <2>3. ASSUME NEW c \in Conns, TakePending(c) PROVE Provenance'
    <3>1. /\ held'[c] \subseteq pending
          /\ verdict'[c] = Failed("disconnected")
          /\ \A d \in Conns \ {c} : held'[d] = held[d] /\ verdict'[d] = verdict[d]
          /\ UNCHANGED <<agent, replies, closed, buf, cpc, outcome>>
      BY <2>3 DEF TakePending
    <3>2. \A l \in Calls : \A r : Genuine(l, r) => Genuine(l, r)'
      BY <3>1 DEF Genuine, Failed
    <3>3. \A l \in Calls : Genuine(l, Failed("disconnected"))
      BY DEF Genuine
    <3> QED
      BY <3>1, <3>2, <3>3 DEF None
  <2>4. ASSUME NEW k \in Calls, CallStep(k) PROVE Provenance'
    <3> USE DEF Genuine, Failed, None
    <3>1. CASE Find(k)
      <4>1. /\ cpc[k] = "idle"
            /\ \E pc \in {"found", "returned"} : cpc' = [cpc EXCEPT ![k] = pc]
            /\ \A l \in Calls \ {k} : outcome'[l] = outcome[l]
            /\ UNCHANGED <<agent, replies, closed, buf, held, verdict>>
        BY <3>1 DEF Find
      <4> QED
        BY <4>1
    <3>2. CASE Enter(k)
      BY <3>2 DEF Enter
    <3>3. CASE Write(k)
      <4>1. /\ cpc[k] = "registered"
            /\ agent[k] = "none"
            /\ cpc' = [cpc EXCEPT ![k] = "waiting"]
            /\ \A l \in Calls \ {k} : agent'[l] = agent[l]
            /\ UNCHANGED <<outcome, replies, closed, buf, held, verdict>>
        BY <3>3 DEF Write
      <4>2. \A l \in Calls : \A r : Genuine(l, r) => Genuine(l, r)'
        BY <4>1
      <4>3. \A c \in Conns, ok \in BOOLEAN :
              <<k, ok>> \in replies[c] => Owner[c] # Target[k]
        BY <4>1
      <4>4. closed[k] => Genuine(k, buf[k])'
        BY <4>1
      <4> QED
        BY <4>1, <4>2, <4>3, <4>4
    <3>4. CASE WriteFails(k)
      BY <3>4 DEF WriteFails
    <3>5. CASE GetResult(k)
      BY <3>5 DEF GetResult
    <3>6. CASE TimeOut(k)
      BY <3>6 DEF TimeOut
    <3>7. CASE CleanUp(k)
      BY <3>7 DEF CleanUp
    <3> QED
      BY <2>4, <3>1, <3>2, <3>3, <3>4, <3>5, <3>6, <3>7 DEF CallStep
  <2>5. ASSUME NEW c \in Conns, NEW k \in Calls, NEW ok \in BOOLEAN,
               AgentReplies(c, k, ok)
        PROVE Provenance'
    BY <2>5 DEF AgentReplies, Genuine, Failed, None
  <2>6. ASSUME NEW c \in Conns, NEW k \in Calls, AgentMisaddresses(c, k)
        PROVE Provenance'
    <3>1. Owner[c] # Target[k]
      BY <2>6, MisaddressedAssumption DEF AgentMisaddresses
    <3> QED
      <4>1. /\ replies' = [replies EXCEPT ![c] = @ \cup {<<k, TRUE>>}]
            /\ UNCHANGED <<agent, cpc, outcome, closed, buf, held, verdict>>
        BY <2>6 DEF AgentMisaddresses
      <4>2. \A d \in Conns, l \in Calls, ok \in BOOLEAN :
              <<l, ok>> \in replies'[d] /\ Owner[d] = Target[l] => <<l, ok>> \in replies[d]
        BY <3>1, <4>1
      <4> QED
        BY <4>1, <4>2 DEF Genuine, Failed, None
  <2>7. ASSUME NEW k \in Calls, AgentExecutes(k) PROVE Provenance'
    BY <2>7 DEF AgentExecutes, Genuine, Failed, None
  <2>8. CASE UNCHANGED <<held, verdict, callerVars, chanVars, agentVars>>
    BY <2>8 DEF Genuine, Failed, None
  <2>9. ASSUME NEW c \in Conns, HandlerStep(c) PROVE Provenance'
    BY <2>1, <2>2, <2>3, <2>8, <2>9 DEF HandlerStep, Register, MarkOnline, ReadError,
       Leave, MarkOffline
  <2>10. CASE AgentStep
    BY <2>5, <2>6, <2>7, <2>8, <2>10 DEF AgentStep, Connect, PeerLost
  <2> QED
    BY <2>4, <2>8, <2>9, <2>10 DEF Next, vars
<1> QED
  BY <1>1, <1>2, TypeCorrect, OwnershipHolds, PTL DEF Spec
-----------------------------------------------------------------------------
(* The hub implements what SendCommand promises its callers. *)
THEOREM HubImplementsCommandService == Spec => ImplementsCommandService
<1> DEFINE phase == [k \in Calls |-> CASE cpc[k] = "idle" -> "new"
                                      [] cpc[k] = "returned" -> "returned"
                                      [] OTHER -> "asked"]
           executed == {k \in Calls : agent[k] \in {"executed", "replied"}}
           answer == [k \in Calls |-> IF cpc[k] = "returned"
                                        THEN outcome[k]
                                        ELSE [kind |-> "none", by |-> NoNode]]
<1>1. Init => CS!CSInit
  BY DEF Init, CS!CSInit, CS!None
<1>2. TypeOK /\ Ownership /\ Provenance /\ [Next]_vars => [CS!CSNext]_(CS!csvars)
  <2> SUFFICES ASSUME TypeOK, Ownership, Provenance, [Next]_vars
               PROVE  CS!CSNext \/ UNCHANGED <<phase, executed, answer>>
    BY DEF CS!csvars
  <2> USE DEF TypeOK, handlerVars, callerVars, chanVars, agentVars
  <2>1. CASE UNCHANGED <<cpc, outcome, agent>>
    BY <2>1
  <2>2. ASSUME NEW c \in Conns, HandlerStep(c) PROVE UNCHANGED <<cpc, outcome, agent>>
    BY <2>2 DEF HandlerStep, Register, MarkOnline, Claim, Resolve, ReadError, Leave,
       TakePending, FailOne, MarkOffline
  <2>3. ASSUME NEW k \in Calls, CallStep(k)
        PROVE  CS!CSNext \/ UNCHANGED <<phase, executed, answer>>
    <3>1. ASSUME cpc' = [cpc EXCEPT ![k] = "returned"], cpc[k] # "returned",
                 NEW f \in CS!Failures, outcome'[k] = Failed(f),
                 \A l \in Calls \ {k} : outcome'[l] = outcome[l],
                 UNCHANGED agent
          PROVE  CS!Fail(k)
      <4>1. phase[k] # "returned"
        BY <3>1
      <4>2. answer' = [answer EXCEPT ![k] = CS!Failed(f)]
        BY <3>1 DEF Failed, CS!Failed
      <4>3. phase' = [phase EXCEPT ![k] = "returned"]
        BY <3>1
      <4>4. UNCHANGED executed
        BY <3>1
      <4> QED
        BY <4>1, <4>2, <4>3, <4>4 DEF CS!Fail
    <3>2. ASSUME cpc[k] \notin {"idle", "returned"},
                 NEW pc \in {"found", "registered", "waiting", "cleanup"},
                 cpc' = [cpc EXCEPT ![k] = pc],
                 \A l \in Calls \ {k} : outcome'[l] = outcome[l],
                 UNCHANGED executed
          PROVE  UNCHANGED <<phase, executed, answer>>
      BY <3>2
    <3>3. CASE Find(k)
      <4>1. CASE nodes[Target[k]] = NoConn
        BY <3>1, <3>3, <4>1 DEF Find, CS!Failures, CS!CSNext
      <4>2. CASE nodes[Target[k]] # NoConn
        <5>1. /\ cpc[k] = "idle"
              /\ cpc' = [cpc EXCEPT ![k] = "found"]
              /\ UNCHANGED <<outcome, agent>>
          BY <3>3, <4>2 DEF Find
        <5>2. CS!Ask(k)
          BY <5>1 DEF CS!Ask
        <5> QED
          BY <5>2 DEF CS!CSNext
      <4> QED
        BY <4>1, <4>2
    <3>4. CASE Enter(k)
      BY <3>2, <3>4 DEF Enter
    <3>5. CASE Write(k)
      <4>1. /\ cpc[k] = "registered"
            /\ cpc' = [cpc EXCEPT ![k] = "waiting"]
            /\ UNCHANGED outcome
            /\ agent[k] = "none"
            /\ agent'[k] \in {"none", "queued"}
            /\ \A l \in Calls \ {k} : agent'[l] = agent[l]
        BY <3>5 DEF Write, Provenance
      <4>2. UNCHANGED executed
        BY <4>1
      <4> QED
        BY <3>2, <4>1, <4>2
    <3>6. CASE WriteFails(k)
      BY <3>2, <3>6 DEF WriteFails
    <3>7. CASE GetResult(k)
      <4>1. /\ cpc[k] = "waiting"
            /\ cpc' = [cpc EXCEPT ![k] = "returned"]
            /\ outcome' = [outcome EXCEPT ![k] = buf[k]]
            /\ UNCHANGED agent
            /\ Genuine(k, buf[k])
        BY <3>7 DEF GetResult, Provenance
      <4>2. CASE buf[k] \in {Failed("disconnected"), Failed("mismatch")}
        BY <3>1, <4>1, <4>2 DEF CS!Failures, CS!CSNext
      <4>3. CASE /\ buf[k] \in [kind : {"ok", "refused"}, by : {Target[k]}]
                 /\ agent[k] = "replied"
        <5>1. PICK r \in {"ok", "refused"} : buf[k] = [kind |-> r, by |-> Target[k]]
          BY <4>3
        <5>2. answer' = [answer EXCEPT ![k] = [kind |-> r, by |-> Target[k]]]
          BY <4>1, <5>1
        <5>3. phase[k] = "asked" /\ phase' = [phase EXCEPT ![k] = "returned"]
          BY <4>1
        <5>4. k \in executed /\ UNCHANGED executed
          BY <4>1, <4>3
        <5>5. CS!Answer(k)
          BY <5>2, <5>3, <5>4 DEF CS!Answer, CS!Replies
        <5> QED
          BY <5>5 DEF CS!CSNext
      <4> QED
        BY <4>1, <4>2, <4>3 DEF Genuine
    <3>8. CASE TimeOut(k)
      BY <3>2, <3>8 DEF TimeOut
    <3>9. CASE CleanUp(k)
      <4>1. /\ cpc[k] = "cleanup"
            /\ cpc' = [cpc EXCEPT ![k] = "returned"]
            /\ UNCHANGED <<outcome, agent>>
            /\ outcome[k] \in {Failed("writeError"), Failed("timeout")}
        BY <3>9 DEF CleanUp, Provenance
      <4> QED
        BY <3>1, <4>1 DEF CS!Failures, CS!CSNext
    <3> QED
      BY <2>3, <3>3, <3>4, <3>5, <3>6, <3>7, <3>8, <3>9 DEF CallStep
  <2>4. ASSUME NEW k \in Calls, AgentExecutes(k) PROVE CS!CSNext
    <3>1. /\ agent[k] = "queued"
          /\ agent' = [agent EXCEPT ![k] = "executed"]
          /\ UNCHANGED <<cpc, outcome>>
          /\ cpc[k] # "idle"
      BY <2>4 DEF AgentExecutes, Provenance
    <3>2. k \notin executed /\ executed' = executed \cup {k}
      BY <3>1
    <3>3. phase[k] # "new" /\ UNCHANGED <<phase, answer>>
      BY <3>1
    <3> QED
      BY <3>2, <3>3 DEF CS!Execute, CS!CSNext
  <2>5. ASSUME NEW c \in Conns, NEW k \in Calls, NEW ok \in BOOLEAN,
               AgentReplies(c, k, ok)
        PROVE  UNCHANGED <<phase, executed, answer>>
    BY <2>5 DEF AgentReplies
  <2>6. CASE AgentStep
    BY <2>1, <2>4, <2>5, <2>6 DEF AgentStep, Connect, PeerLost, AgentMisaddresses
  <2> QED
    BY <2>1, <2>2, <2>3, <2>6 DEF Next, vars
<1> QED
  BY <1>1, <1>2, TypeCorrect, OwnershipHolds, ProvenanceHolds, PTL
  DEF Spec, ImplementsCommandService, CS!CSSpec
=============================================================================

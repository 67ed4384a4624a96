------------------------- MODULE NodeRedeploy_proofs -------------------------
(***************************************************************************)
(* What NodeRedeploy promises, for every number of items, pass goroutines,  *)
(* retries, waiting requests and failures and for every cooldown.  OnePass  *)
(* is inductive; PassCovers is inductive given OnePass, for a pass that      *)
(* begins clears the history every other running pass would rely on.        *)
(***************************************************************************)
EXTENDS NodeRedeploy, TLAPS

Frame == [pc : PassPCs, todo : SUBSET Items, failed : SUBSET Items,
          dropped : SUBSET Items, attempt : 0 .. MaxRetries]

\* The ends of the intervals lie in them.
LEMMA BoundsFacts ==
    /\ 0 \in 0 .. Cooldown /\ Cooldown \in 0 .. Cooldown
    /\ 0 \in 0 .. MaxFaults /\ 0 \in 0 .. MaxRetries
    /\ \A a \in 0 .. MaxRetries : a # MaxRetries => a + 1 \in 0 .. MaxRetries
BY BoundsAssumption

\* A pass that is idle, and one that begins, is well formed.
LEMMA IdleType ==
    Idle \in Frame /\ [Idle EXCEPT !.pc = "listing"] \in Frame
BY BoundsAssumption DEF Idle, Frame, PassPCs

\* A pass moves to a well-formed frame.
LEMMA GoType ==
    ASSUME TypeOK, NEW s \in Passes, NEW frame \in Frame, Go(s, frame)
    PROVE  pass' \in [Passes -> Frame]
BY DEF TypeOK, Go, Frame

\* Every variable keeps its type.
THEOREM TypeCorrect == Spec => []TypeOK
<1>1. Init => TypeOK
  <2> SUFFICES ASSUME Init PROVE TypeOK
    OBVIOUS
  <2>1. pass \in [Passes -> Frame]
    BY IdleType DEF Init
  <2>2. runtime \subseteq Items /\ arrivals \in Nat /\ faults \in 0 .. MaxFaults
    BY BoundsFacts DEF Init
  <2>3. age \in 0 .. Cooldown /\ wait \in 0 .. Cooldown
    BY BoundsFacts DEF Init
  <2> QED
    BY <2>1, <2>2, <2>3 DEF Init, TypeOK, Frame
<1>2. TypeOK /\ [Next]_vars => TypeOK'
  <2> SUFFICES ASSUME TypeOK, [Next]_vars PROVE TypeOK'
    OBVIOUS
  <2> USE BoundsAssumption
  <2>1. CASE Connect
    BY <2>1 DEF Connect, TypeOK, gate
  <2>2. CASE Drop
    BY <2>2 DEF Drop, TypeOK, gate
  <2>3. CASE MarkUpgrade
    BY <2>3 DEF MarkUpgrade, TypeOK
  <2>4. CASE Queue
    <3>1. wait' \in 0 .. Cooldown
      BY <2>4 DEF Queue, TypeOK
    <3> QED
      BY <2>4, <3>1 DEF Queue, TypeOK
  <2>5. ASSUME NEW s \in Passes, Start(s) PROVE TypeOK'
    <3>1. pass' \in [Passes -> Frame]
      BY <2>5, IdleType DEF Start, TypeOK, Frame
    <3>2. arrivals' \in Nat
      BY <2>5 DEF Start, TypeOK
    <3>3. age' \in 0 .. Cooldown
      BY <2>5, BoundsFacts DEF Start
    <3>4. UNCHANGED <<link, runtime, queued, wait, faults>>
      BY <2>5 DEF Start
    <3>5. pending' = FALSE /\ inFlight' = TRUE /\ owed' = FALSE /\ excused' = FALSE
      BY <2>5 DEF Start
    <3> QED
      BY <3>1, <3>2, <3>3, <3>4, <3>5 DEF TypeOK, Frame
  <2>6. CASE Fire
    <3>1. arrivals' \in Nat
      BY <2>6 DEF Fire, TypeOK
    <3>2. queued' = FALSE
      BY <2>6 DEF Fire
    <3>3. UNCHANGED <<link, runtime, pending, age, wait, inFlight, pass, faults, owed,
                      excused>>
      BY <2>6 DEF Fire
    <3> QED
      BY <3>1, <3>2, <3>3 DEF TypeOK
  <2>7. ASSUME NEW s \in Passes, List(s) PROVE TypeOK'
    <3>0. pass[s] \in Frame
      BY DEF TypeOK, Frame
    <3>1. [pass[s] EXCEPT !.pc = "applying", !.todo = Items] \in Frame
      BY <3>0 DEF Frame, PassPCs
    <3>2. [pass[s] EXCEPT !.pc = "marking"] \in Frame
      BY <3>0 DEF Frame, PassPCs
    <3>3. pass' \in [Passes -> Frame]
      BY <2>7, <3>1, <3>2, GoType DEF List
    <3>4. faults' \in 0 .. MaxFaults
      BY <2>7 DEF List, Fault, TypeOK
    <3> QED
      BY <2>7, <3>3, <3>4 DEF List, TypeOK, Frame, gate
  <2>8. ASSUME NEW s \in Passes, NEW i \in Items,
               Apply(s, i) \/ Defer(s, i) \/ FailRetryable(s, i) \/ FailPermanent(s, i)
        PROVE  TypeOK'
    <3>0. pass[s] \in Frame
      BY DEF TypeOK, Frame
    <3>1. /\ [pass[s] EXCEPT !.todo = @ \ {i}] \in Frame
          /\ [pass[s] EXCEPT !.todo = @ \ {i}, !.dropped = @ \cup {i}] \in Frame
          /\ [pass[s] EXCEPT !.todo = @ \ {i}, !.failed = @ \cup {i}] \in Frame
      BY <3>0 DEF Frame
    <3>2. pass' \in [Passes -> Frame]
      BY <2>8, <3>1, GoType DEF Apply, Defer, FailRetryable, FailPermanent
    <3>3. faults' \in 0 .. MaxFaults
      BY <2>8 DEF Apply, Defer, FailRetryable, FailPermanent, Fault, TypeOK
    <3>4. runtime' \subseteq Items
      BY <2>8 DEF Apply, Defer, FailRetryable, FailPermanent, TypeOK
    <3> QED
      BY <2>8, <3>2, <3>3, <3>4
      DEF Apply, Defer, FailRetryable, FailPermanent, TypeOK, Frame, gate
  <2>9. ASSUME NEW s \in Passes, EndRound(s) PROVE TypeOK'
    <3>0. pass[s] \in Frame
      BY DEF TypeOK, Frame
    <3>1. /\ [pass[s] EXCEPT !.pc = "finishing"] \in Frame
          /\ [pass[s] EXCEPT !.pc = "marking"] \in Frame
      BY <3>0 DEF Frame, PassPCs
    <3>2. pass[s].attempt # MaxRetries =>
            [pass[s] EXCEPT !.todo = pass[s].failed, !.failed = {}, !.attempt = @ + 1]
              \in Frame
      <4> SUFFICES ASSUME pass[s].attempt # MaxRetries
                   PROVE  [pass[s] EXCEPT !.todo = pass[s].failed, !.failed = {},
                                          !.attempt = @ + 1] \in Frame
        OBVIOUS
      <4>1. pass[s].attempt + 1 \in 0 .. MaxRetries
        BY <3>0, BoundsFacts DEF Frame
      <4> QED
        BY <3>0, <4>1 DEF Frame
    <3>3. pass' \in [Passes -> Frame]
      BY <2>9, <3>1, <3>2, GoType DEF EndRound
    <3> QED
      BY <2>9, <3>3 DEF EndRound, TypeOK, Frame, gate
  <2>10. ASSUME NEW s \in Passes, Mark(s) PROVE TypeOK'
    <3>1. [pass[s] EXCEPT !.pc = "finishing"] \in Frame
      BY DEF TypeOK, Frame, PassPCs
    <3>2. pass' \in [Passes -> Frame]
      BY <2>10, <3>1, GoType DEF Mark
    <3> QED
      BY <2>10, <3>2 DEF Mark, TypeOK, Frame
  <2>11. ASSUME NEW s \in Passes, Finish(s) PROVE TypeOK'
    <3>1. pass' \in [Passes -> Frame]
      BY <2>11, IdleType, GoType DEF Finish
    <3> QED
      BY <2>11, <3>1 DEF Finish, TypeOK, Frame
  <2>12. CASE Tick
    BY <2>12 DEF Tick, TypeOK
  <2>13. CASE Restart
    <3>1. pass' \in [Passes -> Frame]
      BY <2>13, IdleType DEF Restart
    <3>2. age' \in 0 .. Cooldown /\ wait' \in 0 .. Cooldown /\ arrivals' \in Nat
      BY <2>13, BoundsFacts DEF Restart
    <3>3. /\ link' = FALSE /\ pending' = FALSE /\ queued' = FALSE /\ inFlight' = FALSE
          /\ owed' = FALSE /\ excused' = FALSE
          /\ UNCHANGED <<runtime, faults>>
      BY <2>13 DEF Restart
    <3> QED
      BY <3>1, <3>2, <3>3 DEF TypeOK, Frame
  <2>14. CASE UNCHANGED vars
    BY <2>14 DEF vars, gate, TypeOK
  <2> QED
    BY <2>1, <2>2, <2>3, <2>4, <2>5, <2>6, <2>7, <2>8, <2>9, <2>10, <2>11, <2>12,
       <2>13, <2>14 DEF Next, Hook, PassStep
<1> QED
  BY <1>1, <1>2, PTL DEF Spec
-----------------------------------------------------------------------------
\* A step of a running pass moves that pass only, keeps it running until it
\* finishes, and leaves the gate to Mark and Finish.
LEMMA RunningPass ==
    ASSUME TypeOK, NEW s \in Passes, PassStep(s)
    PROVE  /\ pass[s].pc # "idle"
           /\ \A t \in Passes : t # s => pass'[t] = pass[t]
           /\ Finish(s) \/ inFlight' = inFlight
           /\ Finish(s) => inFlight' = FALSE /\ pass'[s].pc = "idle"
<1>1. pass[s].pc # "idle"
  BY DEF PassStep, List, EndRound, Mark, Finish, Apply, Defer, FailRetryable,
         FailPermanent
<1>2. \E frame : Go(s, frame)
  <2>1. CASE List(s) \/ EndRound(s) \/ Mark(s) \/ Finish(s)
    BY <2>1 DEF List, EndRound, Mark, Finish
  <2>2. ASSUME NEW i \in Items,
               Apply(s, i) \/ Defer(s, i) \/ FailRetryable(s, i) \/ FailPermanent(s, i)
        PROVE  \E frame : Go(s, frame)
    BY <2>2 DEF Apply, Defer, FailRetryable, FailPermanent
  <2> QED
    BY <2>1, <2>2 DEF PassStep
<1>3. \A t \in Passes : t # s => pass'[t] = pass[t]
  BY <1>2 DEF Go, TypeOK
<1>4. Finish(s) \/ inFlight' = inFlight
  BY DEF PassStep, List, EndRound, Mark, Apply, Defer, FailRetryable,
         FailPermanent, gate
<1>5. Finish(s) => inFlight' = FALSE /\ pass'[s].pc = "idle"
  BY DEF Finish, Go, Idle, TypeOK
<1> QED
  BY <1>1, <1>3, <1>4, <1>5

\* Whatever asks for a redeploy and whenever, one pass runs at a time: OnePass
\* is inductive.
THEOREM OnePassHolds == Spec => []OnePass
<1>1. Init => OnePass
  BY DEF Init, OnePass, Idle
<1>2. TypeOK /\ OnePass /\ [Next]_vars => OnePass'
  <2> SUFFICES ASSUME TypeOK, OnePass, [Next]_vars PROVE OnePass'
    OBVIOUS
  <2>1. CASE Connect \/ Drop \/ MarkUpgrade \/ Queue \/ Fire \/ Tick
    <3>1. UNCHANGED <<pass, inFlight>>
      BY <2>1 DEF Connect, Drop, MarkUpgrade, Queue, Fire, Tick, gate
    <3> QED
      BY <3>1 DEF OnePass
  <2>2. ASSUME NEW s \in Passes, Start(s) PROVE OnePass'
    <3>1. \A t \in Passes : pass[t].pc = "idle"
      BY <2>2 DEF Start, MayStart, OnePass
    <3>2. \A t \in Passes : t # s => pass'[t].pc = "idle"
      BY <2>2, <3>1 DEF Start, TypeOK
    <3> QED
      BY <2>2, <3>2 DEF Start, OnePass
  <2>3. ASSUME NEW s \in Passes, PassStep(s) PROVE OnePass'
    <3>1. \A t \in Passes : t # s => pass[t].pc = "idle" /\ pass'[t] = pass[t]
      BY <2>3, RunningPass DEF OnePass
    <3>2. inFlight
      BY <2>3, RunningPass DEF OnePass
    <3>3. CASE Finish(s)
      BY <2>3, <3>1, <3>3, RunningPass DEF OnePass
    <3>4. CASE inFlight' = inFlight
      BY <3>1, <3>2, <3>4 DEF OnePass
    <3> QED
      BY <2>3, <3>3, <3>4, RunningPass
  <2>4. CASE Restart
    BY <2>4 DEF Restart, OnePass, Idle
  <2>5. CASE UNCHANGED vars
    BY <2>5 DEF vars, gate, OnePass
  <2> QED
    BY <2>1, <2>2, <2>3, <2>4, <2>5 DEF Next, Hook
<1> QED
  BY <1>1, <1>2, TypeCorrect, PTL DEF Spec

\* No reconnect is swallowed, by a pass that began before it or by the
\* cooldown.
THEOREM ReconnectsKept == Spec => []NoReconnectLost
<1>1. Init => NoReconnectLost
  BY DEF Init, NoReconnectLost
<1>2. TypeOK /\ NoReconnectLost /\ [Next]_vars => NoReconnectLost'
  <2> SUFFICES ASSUME TypeOK, NoReconnectLost, [Next]_vars PROVE NoReconnectLost'
    OBVIOUS
  <2>1. CASE Connect
    BY <2>1 DEF Connect, NoReconnectLost, TypeOK
  <2>2. CASE Queue
    BY <2>2 DEF Queue, NoReconnectLost
  <2>3. ASSUME NEW s \in Passes, Start(s) PROVE NoReconnectLost'
    BY <2>3 DEF Start, NoReconnectLost
  <2>4. CASE Fire
    BY <2>4 DEF Fire, NoReconnectLost, TypeOK
  <2>5. CASE Restart
    BY <2>5 DEF Restart, NoReconnectLost
  <2>6. CASE Drop \/ MarkUpgrade \/ Tick \/ UNCHANGED vars
    BY <2>6 DEF Drop, MarkUpgrade, Tick, vars, gate, NoReconnectLost
  <2>7. ASSUME NEW s \in Passes, PassStep(s) PROVE NoReconnectLost'
    BY <2>7 DEF PassStep, List, EndRound, Mark, Finish, Apply, Defer, FailRetryable,
                FailPermanent, gate, NoReconnectLost
  <2> QED
    BY <2>1, <2>2, <2>3, <2>4, <2>5, <2>6, <2>7 DEF Next, Hook
<1> QED
  BY <1>1, <1>2, TypeCorrect, PTL DEF Spec
-----------------------------------------------------------------------------
\* What PassCovers says of one pass.
Covered(s) ==
    ~owed /\ (pass[s].pc = "applying" \/ (pass[s].pc = "finishing" /\ ~excused)) =>
       Items \ (pass[s].todo \cup pass[s].failed \cup pass[s].dropped) \subseteq runtime

\* A step of a pass keeps what it has covered.
LEMMA StepCovers ==
    ASSUME TypeOK, NEW s \in Passes, Covered(s), PassStep(s)
    PROVE  Covered(s)'
<1>1. CASE List(s)
  BY <1>1 DEF List, Go, Covered, TypeOK
<1>2. CASE EndRound(s)
  BY <1>2 DEF EndRound, Go, Covered, TypeOK
<1>3. CASE Mark(s)
  BY <1>3 DEF Mark, Go, Covered, TypeOK
<1>4. CASE Finish(s)
  BY <1>4 DEF Finish, Go, Covered, TypeOK, Idle
<1>5. ASSUME NEW i \in Items, Apply(s, i) PROVE Covered(s)'
  BY <1>5 DEF Apply, Go, Covered, TypeOK, gate
<1>6. ASSUME NEW i \in Items, Defer(s, i) PROVE Covered(s)'
  BY <1>6 DEF Defer, Go, Covered, TypeOK, gate
<1>7. ASSUME NEW i \in Items, FailRetryable(s, i) PROVE Covered(s)'
  BY <1>7 DEF FailRetryable, Go, Covered, TypeOK, gate
<1>8. ASSUME NEW i \in Items, FailPermanent(s, i) PROVE Covered(s)'
  BY <1>8 DEF FailPermanent, Go, Covered, TypeOK, gate
<1> QED
  BY <1>1, <1>2, <1>3, <1>4, <1>5, <1>6, <1>7, <1>8 DEF PassStep

\* A pass that ends without marking the node has put right everything it did
\* not report as dropped, unless the agent has connected again.
THEOREM PassesCover == Spec => []PassCovers
<1>1. Init => PassCovers
  BY DEF Init, PassCovers, Idle
<1>2. TypeOK /\ OnePass /\ PassCovers /\ [Next]_vars => PassCovers'
  <2> SUFFICES ASSUME TypeOK, OnePass, PassCovers, [Next]_vars PROVE PassCovers'
    OBVIOUS
  <2>1. CASE Connect
    BY <2>1 DEF Connect, PassCovers
  <2>2. CASE Drop \/ Queue \/ Fire \/ Tick \/ UNCHANGED vars
    BY <2>2 DEF Drop, Queue, Fire, Tick, vars, gate, PassCovers
  <2>3. CASE MarkUpgrade
    BY <2>3 DEF MarkUpgrade, PassCovers
  <2>4. CASE Restart
    BY <2>4 DEF Restart, PassCovers, Idle
  <2>5. ASSUME NEW s \in Passes, Start(s) PROVE PassCovers'
    <3>1. \A t \in Passes : pass[t].pc = "idle"
      BY <2>5 DEF Start, MayStart, OnePass
    <3>2. \A t \in Passes : pass'[t].pc \in {"idle", "listing"}
      BY <2>5, <3>1 DEF Start, Idle, TypeOK
    <3> QED
      BY <3>2 DEF PassCovers
  <2>6. ASSUME NEW s \in Passes, PassStep(s) PROVE PassCovers'
    <3>1. Covered(s)
      BY DEF PassCovers, Covered
    <3>2. Covered(s)'
      BY <2>6, <3>1, StepCovers
    <3>3. \A t \in Passes : t # s => pass'[t].pc = "idle"
      BY <2>6, RunningPass DEF OnePass
    <3> QED
      BY <3>2, <3>3 DEF PassCovers, Covered
  <2> QED
    BY <2>1, <2>2, <2>3, <2>4, <2>5, <2>6 DEF Next, Hook
<1> QED
  BY <1>1, <1>2, TypeCorrect, OnePassHolds, PTL DEF Spec
-----------------------------------------------------------------------------
\* The mark that lets a request through early stands for an upgrade or a
\* failed pass since a pass last began.
MarkExcused == pending => excused

\* Flapping starts no second pass within the cooldown of the one before it.
THEOREM FlappingSuppressed == Spec => NoRedeployStorm
<1>1. Init => MarkExcused
  BY DEF Init, MarkExcused
<1>2. MarkExcused /\ [Next]_vars => MarkExcused'
  <2> SUFFICES ASSUME MarkExcused, [Next]_vars PROVE MarkExcused'
    OBVIOUS
  <2>1. CASE Connect \/ Drop \/ MarkUpgrade \/ Queue \/ Fire \/ Tick \/ Restart
             \/ UNCHANGED vars
    BY <2>1 DEF Connect, Drop, MarkUpgrade, Queue, Fire, Tick, Restart, vars, gate,
                MarkExcused
  <2>2. ASSUME NEW s \in Passes, Start(s) PROVE MarkExcused'
    BY <2>2 DEF Start, MarkExcused
  <2>3. ASSUME NEW s \in Passes, PassStep(s) PROVE MarkExcused'
    BY <2>3 DEF PassStep, List, EndRound, Mark, Finish, Apply, Defer, FailRetryable,
                FailPermanent, gate, MarkExcused
  <2> QED
    BY <2>1, <2>2, <2>3 DEF Next, Hook
<1>3. TypeOK /\ MarkExcused /\ [Next]_vars =>
        [(\E s \in Passes : pass[s].pc = "idle" /\ pass'[s].pc # "idle")
            => age = Cooldown \/ excused]_vars
  <2> SUFFICES ASSUME TypeOK, MarkExcused, Next,
                      NEW s \in Passes, pass[s].pc = "idle", pass'[s].pc # "idle"
               PROVE  age = Cooldown \/ excused
    BY DEF vars, gate
  <2>1. ASSUME NEW t \in Passes, Start(t) PROVE age = Cooldown \/ excused
    BY <2>1 DEF Start, MayStart, MarkExcused
  <2>2. ASSUME NEW t \in Passes, PassStep(t) PROVE FALSE
    BY <2>2, RunningPass
  <2>3. CASE Connect \/ Drop \/ MarkUpgrade \/ Queue \/ Fire \/ Tick
    BY <2>3 DEF Connect, Drop, MarkUpgrade, Queue, Fire, Tick
  <2>4. CASE Restart
    BY <2>4 DEF Restart, Idle
  <2> QED
    BY <2>1, <2>2, <2>3, <2>4 DEF Next, Hook
<1> QED
  BY <1>1, <1>2, <1>3, TypeCorrect, PTL DEF Spec, NoRedeployStorm
=============================================================================

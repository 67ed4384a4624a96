------------------------ MODULE TrafficReport_proofs ------------------------
(***************************************************************************)
(* What TrafficReport promises, for any services, chunks, handlers, number  *)
(* of addresses and of faults.  A chunk that has not left its counter is     *)
(* nowhere else, one in the cache is in no report, one that is about to be  *)
(* posted is with no handler unless an answer was lost, and a handler that   *)
(* has not come to a ledger has not charged it there: together these say    *)
(* that each ledger gets a chunk once.  The tries a report has left bound    *)
(* how often a ledger gets one whose answer was lost; and whatever waits is  *)
(* waited for by somebody who is still there.                               *)
(***************************************************************************)
EXTENDS TrafficReport, FiniteSetTheorems, TLAPS

\* The chunk is in the counter and the observer has not handed it on.
Early(c) ==
    \E s \in Services :
       IF obs[s].pc \in {"get", "store"} THEN c \in bytes[s] \ obs[s].seen ELSE c \in bytes[s]

WithHandler(c, h) == upload[h].pc # "idle" /\ c \in upload[h].items

\* The chunk is beyond the cache.
Beyond(c) ==
    \/ report.pc # "idle" /\ c \in report.items
    \/ \E h \in Handlers : WithHandler(c, h)
    \/ flow[c] # 0 \/ quota[c] # 0

ObserverInv == \A s \in Services :
    /\ \A c \in bytes[s] : Of[c] = s /\ c \in moved
    /\ obs[s].pc \in {"check", "add"} => obs[s].seen \subseteq bytes[s]
    /\ obs[s].pc = "store" => obs[s].rest \subseteq bytes[s] \ obs[s].seen

\* What was not moved is nowhere.
MovedInv == \A c \in Chunks : c \notin moved => c \notin cache /\ ~Beyond(c)

EarlyInv == \A c \in Chunks : Early(c) => c \notin cache /\ ~Beyond(c)

CacheInv == \A c \in cache : ~Beyond(c)

SendInv == report.pc = "send" =>
    \A c \in report.items \ unanswered :
        flow[c] = 0 /\ quota[c] = 0 /\ \A h \in Handlers : ~WithHandler(c, h)

HandlerInv == \A c \in Chunks \ unanswered : \A h \in Handlers : WithHandler(c, h) =>
    /\ upload[h].pc \in {"look", "flow"} => flow[c] = 0
    /\ upload[h].pc \in {"look", "flow", "quota"} => quota[c] = 0
    /\ \A g \in Handlers \ {h} : ~WithHandler(c, g)

ChargedOnce == \A c \in Chunks :
    c \notin unanswered => flow[c] <= 1 /\ quota[c] <= 1

IInv ==
    /\ TypeOK
    /\ ObserverInv /\ MovedInv /\ EarlyInv /\ CacheInv
    /\ SendInv /\ HandlerInv /\ ChargedOnce

-----------------------------------------------------------------------------
(* Types.                                                                  *)

\* A fault keeps the count of faults in its bound.
LEMMA FaultType ==
    ASSUME faults \in 0 .. MaxFaults, NEW kind, Fault(kind)
    PROVE  faults' \in 0 .. MaxFaults /\ faults' > faults
BY BoundAssumption DEF Fault

\* What the reporter turns to is of its type.
LEMMA ReportTypes ==
    ASSUME TypeOK
    PROVE  /\ Silent \in Reports /\ AnotherTry \in Reports
           /\ \A items \in SUBSET Chunks : Sending(items) \in Reports
<1>1. Addresses - 1 \in 0 .. Addresses - 1 /\ 0 \in 0 .. Addresses - 1
  BY BoundAssumption
<1>2. Silent \in Reports
  BY <1>1 DEF Silent, Reports
<1>3. ASSUME report.left # 0 PROVE report.left - 1 \in 0 .. Addresses - 1
  BY <1>3, BoundAssumption DEF TypeOK, Reports
<1>4. AnotherTry \in Reports
  BY <1>2, <1>3 DEF AnotherTry, TypeOK, Reports
<1>5. \A items \in SUBSET Chunks : Sending(items) \in Reports
  BY <1>1 DEF Sending, TypeOK, Reports
<1> QED
  BY <1>2, <1>4, <1>5

\* What a ledger becomes is of its type.
LEMMA LedgerType ==
    ASSUME NEW ledger \in [Chunks -> Nat], NEW items
    PROVE  Add(ledger, items) \in [Chunks -> Nat]
BY DEF Add

\* The first state is of its type.
LEMMA InitType == Init => TypeOK
BY BoundAssumption
   DEF Init, TypeOK, Watching, Silent, Free, Views, Reports, Uploads

\* Every step keeps the variables in their types.
LEMMA TypeStep == TypeOK /\ [Next]_vars => TypeOK'
<1> SUFFICES ASSUME TypeOK, [Next]_vars PROVE TypeOK'
  OBVIOUS
<1> USE DEF TypeOK
<1>1. ASSUME NEW s \in Services, Register(s) PROVE TypeOK'
  BY <1>1 DEF Register, panel
<1>2. ASSUME NEW s \in Services, Unregister(s) PROVE TypeOK'
  BY <1>2 DEF Unregister, panel
<1>3. ASSUME NEW n \in Names, Delete(n) PROVE TypeOK'
  BY <1>3 DEF Delete, Closing, panel
<1>4. ASSUME NEW s \in Services, End(s) PROVE TypeOK'
  BY <1>4 DEF End, panel
<1>5. ASSUME NEW c \in Chunks, Move(c) PROVE TypeOK'
  BY <1>5, NamesAssumption DEF Move, panel
<1>6. ASSUME NEW c \in Chunks, Raise(c) PROVE TypeOK'
  BY <1>6, NamesAssumption DEF Raise, panel
<1>7. ASSUME NEW s \in Services, Tick(s) PROVE TypeOK'
  BY <1>7 DEF Tick, Views, panel
<1>8. ASSUME NEW s \in Services, Check(s) PROVE TypeOK'
  BY <1>8 DEF Check, Views, panel
<1>9. ASSUME NEW s \in Services, AddTraffic(s) PROVE TypeOK'
  BY <1>9, NamesAssumption DEF AddTraffic, Views, panel
<1>10. ASSUME NEW s \in Services, GetRest(s) PROVE TypeOK'
  BY <1>10 DEF GetRest, Views, panel
<1>11. ASSUME NEW s \in Services, ResetTraffic(s) PROVE TypeOK'
  BY <1>11 DEF ResetTraffic, Watching, Views, panel
<1>12. ASSUME NEW s \in Services, Exit(s) PROVE TypeOK'
  BY <1>12 DEF Exit, Views, panel
<1>13. CASE Collect
  BY <1>13, ReportTypes DEF Collect, svcs, panel
<1>14. ASSUME NEW h \in Handlers, Post(h) PROVE TypeOK'
  BY <1>14 DEF Post, Reports, Uploads, svcs
<1>15. CASE PostFails
  BY <1>15, ReportTypes, FaultType DEF PostFails, svcs, panel
<1>16. CASE AnswerLost
  BY <1>16, ReportTypes, FaultType DEF AnswerLost, Reports, svcs, panel
<1>17. ASSUME NEW h \in Handlers, Look(h) PROVE TypeOK'
  BY <1>17, FaultType DEF Look, Uploads, svcs
<1>18. ASSUME NEW h \in Handlers, AddFlow(h) PROVE TypeOK'
  BY <1>18, FaultType, LedgerType DEF AddFlow, Stored, Uploads, svcs
<1>19. ASSUME NEW h \in Handlers, AddQuota(h) PROVE TypeOK'
  BY <1>19, FaultType, LedgerType DEF AddQuota, Stored, Uploads, svcs
<1>20. ASSUME NEW h \in Handlers, Answer(h) PROVE TypeOK'
  BY <1>20, ReportTypes DEF Answer, Free, Uploads, svcs
<1>21. ASSUME NEW n \in Names, Forget(n) PROVE TypeOK'
  BY <1>21 DEF Forget, svcs
<1>22. CASE AgentCrash
  BY <1>22, ReportTypes, FaultType DEF AgentCrash, Watching, Views, panel
<1>23. CASE PanelCrash
  BY <1>23, ReportTypes, FaultType DEF PanelCrash, Free, Uploads, Reports, svcs
<1>24. CASE UNCHANGED vars
  BY <1>24 DEF vars, svcs, panel
<1> QED
  BY <1>1, <1>2, <1>3, <1>4, <1>5, <1>6, <1>7, <1>8, <1>9, <1>10, <1>11, <1>12, <1>13, <1>14, <1>15, <1>16, <1>17, <1>18, <1>19, <1>20, <1>21, <1>22, <1>23, <1>24
     DEF Next, Observe, Serve

\* Every variable stays of its type (TypeOK).
THEOREM TypeCorrect == Spec => []TypeOK
BY InitType, TypeStep, PTL DEF Spec

-----------------------------------------------------------------------------
(* Each ledger gets a chunk once.                                          *)

core == <<moved, bytes, obs, cache, report, upload, flow, quota, unanswered>>

\* The steps that touch neither a counter, a cache nor a report.
LEMMA QuietSteps ==
    /\ \A s \in Services : Register(s) \/ Unregister(s) \/ End(s) => UNCHANGED core
    /\ \A n \in Names : Delete(n) \/ Forget(n) => UNCHANGED core
    /\ \A c \in Chunks : Raise(c) => UNCHANGED core
    /\ UNCHANGED vars => UNCHANGED core
BY DEF core, Register, Unregister, End, Delete, Forget, Raise, vars, svcs, panel

\* The first state satisfies the invariant.
LEMMA InitInv == Init => IInv
<1> SUFFICES ASSUME Init PROVE IInv
  OBVIOUS
<1>1. TypeOK
  BY InitType
<1>2. \A c \in Chunks : ~Early(c) /\ ~Beyond(c) /\ \A h \in Handlers : ~WithHandler(c, h)
  BY DEF Init, Early, Beyond, WithHandler, Watching, Silent, Free
<1>3. ObserverInv /\ SendInv /\ ChargedOnce
  BY DEF Init, ObserverInv, SendInv, ChargedOnce, Watching, Silent
<1>4. MovedInv /\ EarlyInv /\ CacheInv /\ HandlerInv
  BY <1>2 DEF Init, MovedInv, EarlyInv, CacheInv, HandlerInv
<1> QED
  BY <1>1, <1>3, <1>4 DEF IInv

\* A step of the services or their observers that puts nothing into the cache
\* and makes no chunk early again.
LEMMA ServiceStep ==
    ASSUME IInv, TypeOK', ObserverInv',
           UNCHANGED <<moved, cache, report, upload, flow, quota, unanswered>>,
           \A c \in Chunks : Early(c)' => Early(c)
    PROVE  IInv'
<1>1. \A c : /\ Beyond(c)' <=> Beyond(c)
             /\ \A h : WithHandler(c, h)' <=> WithHandler(c, h)
  BY DEF Beyond, WithHandler
<1>2. MovedInv' /\ EarlyInv' /\ CacheInv'
  BY <1>1 DEF IInv, MovedInv, EarlyInv, CacheInv
<1>3. SendInv' /\ HandlerInv' /\ ChargedOnce'
  BY <1>1 DEF IInv, SendInv, HandlerInv, ChargedOnce
<1> QED
  BY <1>2, <1>3 DEF IInv

\* A step that leaves the services and the cache alone keeps what is said of
\* them, as long as nothing gets beyond the cache but by it.
LEMMA LaterStep ==
    ASSUME IInv, TypeOK', UNCHANGED <<moved, bytes, obs, cache>>,
           \A c \in Chunks : Beyond(c)' => Beyond(c),
           SendInv', HandlerInv', ChargedOnce'
    PROVE  IInv'
<1>1. ObserverInv' /\ \A c \in Chunks : Early(c)' <=> Early(c)
  BY DEF IInv, ObserverInv, Early
<1>2. cache \subseteq Chunks
  BY DEF IInv, TypeOK
<1>3. MovedInv' /\ EarlyInv' /\ CacheInv'
  BY <1>1, <1>2 DEF IInv, MovedInv, EarlyInv, CacheInv
<1> QED
  BY <1>1, <1>3 DEF IInv

\* A step of a service or of its observer keeps the invariant.
LEMMA AgentStep ==
    ASSUME IInv, TypeOK',
           \/ \E c \in Chunks : Move(c)
           \/ \E s \in Services : Tick(s) \/ Check(s) \/ AddTraffic(s) \/ GetRest(s)
                                  \/ ResetTraffic(s) \/ Exit(s)
    PROVE  IInv'
<1> USE DEF IInv
<1>1. ASSUME NEW m \in Chunks, Move(m) PROVE IInv'
  <2>1. UNCHANGED <<obs, cache, report, upload, flow, quota, unanswered>>
    BY <1>1 DEF Move, panel
  <2>2. moved' = moved \cup {m} /\ m \notin moved
    BY <1>1 DEF Move
  <2>3. bytes' = [bytes EXCEPT ![Of[m]] = @ \cup {m}] /\ Of[m] \in Services
    BY <1>1, NamesAssumption DEF Move
  <2>4. ObserverInv'
    BY <2>1, <2>2, <2>3 DEF ObserverInv, TypeOK
  <2>5. \A c : /\ Beyond(c)' <=> Beyond(c)
               /\ \A h : WithHandler(c, h)' <=> WithHandler(c, h)
    BY <2>1 DEF Beyond, WithHandler
  <2>6. \A c \in Chunks \ {m} : Early(c)' => Early(c)
    BY <2>1, <2>3 DEF Early, TypeOK
  <2>7. m \notin cache /\ ~Beyond(m)
    BY <2>2 DEF MovedInv
  <2>8. MovedInv' /\ EarlyInv' /\ CacheInv'
    BY <2>1, <2>2, <2>5, <2>6, <2>7 DEF MovedInv, EarlyInv, CacheInv
  <2>9. SendInv' /\ HandlerInv' /\ ChargedOnce'
    BY <2>1, <2>5 DEF SendInv, HandlerInv, ChargedOnce
  <2> QED
    BY <2>4, <2>8, <2>9
<1>2. ASSUME NEW s \in Services, Tick(s) PROVE IInv'
  <2>1. UNCHANGED <<moved, bytes, cache, report, upload, flow, quota, unanswered>>
    BY <1>2 DEF Tick, panel
  <2>2. obs' = obs \/ obs' = [obs EXCEPT ![s] = [pc |-> "check", seen |-> bytes[s], rest |-> {}]]
    BY <1>2 DEF Tick
  <2>3. obs[s].pc = "idle"
    BY <1>2 DEF Tick
  <2>4. ObserverInv'
    BY <2>1, <2>2, <2>3 DEF ObserverInv, TypeOK
  <2>5. \A c \in Chunks : Early(c)' => Early(c)
    BY <2>1, <2>2, <2>3 DEF Early, TypeOK
  <2> QED
    BY <2>1, <2>4, <2>5, ServiceStep
<1>3. ASSUME NEW s \in Services, Check(s) PROVE IInv'
  <2>1. UNCHANGED <<moved, bytes, cache, report, upload, flow, quota, unanswered>>
    BY <1>3 DEF Check, panel
  <2>2. /\ obs[s].pc = "check"
        /\ \E pc \in {"add", "get"} : obs' = [obs EXCEPT ![s].pc = pc]
    BY <1>3 DEF Check
  <2>3. ObserverInv'
    BY <2>1, <2>2 DEF ObserverInv, TypeOK, Views
  <2>4. \A c \in Chunks : Early(c)' => Early(c)
    BY <2>1, <2>2 DEF Early, TypeOK, Views
  <2> QED
    BY <2>1, <2>3, <2>4, ServiceStep
<1>4. ASSUME NEW s \in Services, AddTraffic(s) PROVE IInv'
  <2>1. UNCHANGED <<moved, bytes, report, upload, flow, quota, unanswered>>
    BY <1>4 DEF AddTraffic, panel
  <2>2. /\ obs[s].pc = "add" /\ obs' = [obs EXCEPT ![s].pc = "get"]
        /\ cache' = cache \cup obs[s].seen
    BY <1>4 DEF AddTraffic
  <2>3. ObserverInv'
    BY <2>1, <2>2 DEF ObserverInv, TypeOK, Views
  <2>4. \A c \in Chunks : Early(c)' => Early(c) /\ c \notin obs[s].seen
    BY <2>1, <2>2 DEF Early, ObserverInv, TypeOK, Views
  <2>5. \A c \in obs[s].seen : c \in Chunks /\ Early(c) /\ c \in moved
    BY <2>2 DEF Early, ObserverInv, TypeOK, Views
  <2>6. \A c : /\ Beyond(c)' <=> Beyond(c)
               /\ \A h : WithHandler(c, h)' <=> WithHandler(c, h)
    BY <2>1 DEF Beyond, WithHandler
  <2>7. MovedInv' /\ EarlyInv' /\ CacheInv'
    BY <2>1, <2>2, <2>4, <2>5, <2>6 DEF MovedInv, EarlyInv, CacheInv
  <2>8. SendInv' /\ HandlerInv' /\ ChargedOnce'
    BY <2>1, <2>6 DEF SendInv, HandlerInv, ChargedOnce
  <2> QED
    BY <2>3, <2>7, <2>8
<1>5. ASSUME NEW s \in Services, GetRest(s) PROVE IInv'
  <2>1. UNCHANGED <<moved, bytes, cache, report, upload, flow, quota, unanswered>>
    BY <1>5 DEF GetRest, panel
  <2>2. /\ obs[s].pc = "get"
        /\ obs' = [obs EXCEPT ![s].pc = "store", ![s].rest = bytes[s] \ obs[s].seen]
    BY <1>5 DEF GetRest
  <2>3. ObserverInv'
    BY <2>1, <2>2 DEF ObserverInv, TypeOK, Views
  <2>4. \A c \in Chunks : Early(c)' => Early(c)
    BY <2>1, <2>2 DEF Early, TypeOK, Views
  <2> QED
    BY <2>1, <2>3, <2>4, ServiceStep
<1>6. ASSUME NEW s \in Services, ResetTraffic(s) PROVE IInv'
  <2>1. UNCHANGED <<moved, cache, report, upload, flow, quota, unanswered>>
    BY <1>6 DEF ResetTraffic, panel
  <2>2. /\ obs[s].pc = "store" /\ obs' = [obs EXCEPT ![s] = Watching]
        /\ bytes' = [bytes EXCEPT ![s] = obs[s].rest]
    BY <1>6 DEF ResetTraffic
  <2>3. ObserverInv'
    BY <2>1, <2>2 DEF ObserverInv, TypeOK, Views, Watching
  <2>4. \A c \in Chunks : Early(c)' => Early(c)
    BY <2>2 DEF Early, ObserverInv, TypeOK, Views, Watching
  <2> QED
    BY <2>1, <2>3, <2>4, ServiceStep
<1>7. ASSUME NEW s \in Services, Exit(s) PROVE IInv'
  <2>1. UNCHANGED <<moved, cache, report, upload, flow, quota, unanswered>>
    BY <1>7 DEF Exit, panel
  <2>2. /\ obs[s].pc = "idle" /\ obs' = [obs EXCEPT ![s].pc = "gone"]
        /\ bytes' = [bytes EXCEPT ![s] = {}]
    BY <1>7 DEF Exit
  <2>3. ObserverInv'
    BY <2>1, <2>2 DEF ObserverInv, TypeOK, Views
  <2>4. \A c \in Chunks : Early(c)' => Early(c)
    BY <2>2 DEF Early, TypeOK, Views
  <2> QED
    BY <2>1, <2>3, <2>4, ServiceStep
<1> QED
  BY <1>1, <1>2, <1>3, <1>4, <1>5, <1>6, <1>7

\* The reporter turns to the next address with the same traffic, or to none.
LEMMA AnotherFacts ==
    ASSUME TypeOK
    PROVE  /\ AnotherTry.pc \in {"idle", "send"}
           /\ AnotherTry.pc # "idle" => AnotherTry.items = report.items
BY DEF TypeOK, Reports, AnotherTry, Silent

\* A step of the reporter keeps the invariant.
LEMMA ReporterStep ==
    ASSUME IInv, TypeOK',
           Collect \/ PostFails \/ AnswerLost \/ \E h \in Handlers : Post(h)
    PROVE  IInv'
<1> USE DEF IInv
<1>1. CASE Collect
  <2>1. UNCHANGED <<moved, bytes, obs, upload, flow, quota, unanswered>>
    BY <1>1 DEF Collect, svcs, panel
  <2>2. report.pc = "idle" /\ cache' = {} /\ report' = Sending(cache)
    BY <1>1 DEF Collect
  <2>3. CASE cache = {}
    <3>1. report' = report
      BY <2>2, <2>3 DEF Sending
    <3>2. \A c : /\ Beyond(c)' <=> Beyond(c)
                 /\ \A h : WithHandler(c, h)' <=> WithHandler(c, h)
      BY <2>1, <3>1 DEF Beyond, WithHandler
    <3>3. SendInv' /\ HandlerInv' /\ ChargedOnce'
      BY <2>1, <3>1, <3>2 DEF SendInv, HandlerInv, ChargedOnce
    <3> QED
      BY <2>1, <2>2, <2>3, <3>2, <3>3, LaterStep
  <2>4. CASE cache # {}
    <3>1. report'.pc = "send" /\ report'.items = cache
      BY <2>2, <2>4 DEF Sending
    <3>2. \A c : \A h : WithHandler(c, h)' <=> WithHandler(c, h)
      BY <2>1 DEF WithHandler
    <3>3. \A c \in Chunks \ cache : Beyond(c)' => Beyond(c)
      BY <2>1, <3>1 DEF Beyond, WithHandler
    <3>4. \A c \in Chunks : Early(c)' => Early(c)
      BY <2>1 DEF Early
    <3>5. MovedInv' /\ EarlyInv'
      BY <2>1, <2>2, <3>3, <3>4 DEF MovedInv, EarlyInv
    <3>6. ObserverInv' /\ CacheInv'
      BY <2>1, <2>2 DEF ObserverInv, CacheInv
    <3>7. SendInv'
      BY <2>1, <3>1, <3>2 DEF SendInv, CacheInv, Beyond
    <3>8. HandlerInv' /\ ChargedOnce'
      BY <2>1, <3>2 DEF HandlerInv, ChargedOnce
    <3> QED
      BY <3>5, <3>6, <3>7, <3>8
  <2> QED
    BY <2>3, <2>4
<1>2. CASE PostFails
  <2>1. UNCHANGED <<moved, bytes, obs, cache, upload, flow, quota, unanswered>>
    BY <1>2 DEF PostFails, svcs, panel
  <2>2. report.pc = "send" /\ report' = AnotherTry
    BY <1>2 DEF PostFails
  <2>3. \A c : /\ Beyond(c)' => Beyond(c)
               /\ \A h : WithHandler(c, h)' <=> WithHandler(c, h)
    BY <2>1, <2>2, AnotherFacts DEF Beyond, WithHandler
  <2>4. SendInv' /\ HandlerInv' /\ ChargedOnce'
    BY <2>1, <2>2, <2>3, AnotherFacts DEF SendInv, HandlerInv, ChargedOnce
  <2> QED
    BY <2>1, <2>3, <2>4, LaterStep
<1>3. CASE AnswerLost
  <2>1. UNCHANGED <<moved, bytes, obs, cache, upload, flow, quota>>
    BY <1>3 DEF AnswerLost, svcs, panel
  <2>2. /\ report.pc = "wait" /\ report' = AnotherTry
        /\ unanswered' = unanswered \cup report.items
    BY <1>3 DEF AnswerLost
  <2>3. \A c : /\ Beyond(c)' => Beyond(c)
               /\ \A h : WithHandler(c, h)' <=> WithHandler(c, h)
    BY <2>1, <2>2, AnotherFacts DEF Beyond, WithHandler
  <2>4. SendInv'
    BY <2>2, AnotherFacts DEF SendInv
  <2>5. HandlerInv' /\ ChargedOnce'
    BY <2>1, <2>2, <2>3 DEF HandlerInv, ChargedOnce
  <2> QED
    BY <2>1, <2>3, <2>4, <2>5, LaterStep
<1>4. ASSUME NEW h \in Handlers, Post(h) PROVE IInv'
  <2>1. UNCHANGED <<moved, bytes, obs, cache, flow, quota, unanswered>>
    BY <1>4 DEF Post, svcs
  <2>2. /\ report.pc = "send" /\ upload[h].pc = "idle"
        /\ upload' = [upload EXCEPT ![h] = [pc |-> "look", items |-> report.items]]
        /\ report' = [report EXCEPT !.pc = "wait", !.at = h]
    BY <1>4 DEF Post
  <2>3. /\ report'.pc = "wait" /\ report'.items = report.items
        /\ upload'[h].pc = "look" /\ upload'[h].items = report.items
        /\ \A g \in Handlers \ {h} : upload'[g] = upload[g]
    BY <2>2 DEF TypeOK, Reports, Uploads
  <2>4. \A c : /\ WithHandler(c, h)' <=> c \in report.items
               /\ ~WithHandler(c, h)
               /\ \A g \in Handlers \ {h} : WithHandler(c, g)' <=> WithHandler(c, g)
    BY <2>2, <2>3 DEF WithHandler
  <2>5. \A c \in Chunks : Beyond(c)' => Beyond(c)
    BY <2>1, <2>2, <2>3, <2>4 DEF Beyond
  <2>6. SendInv' /\ ChargedOnce'
    BY <2>1, <2>3 DEF SendInv, ChargedOnce
  <2>7. HandlerInv'
    <3> SUFFICES ASSUME NEW c \in Chunks \ unanswered, NEW k \in Handlers, WithHandler(c, k)'
                 PROVE  /\ upload'[k].pc \in {"look", "flow"} => flow[c] = 0
                        /\ upload'[k].pc \in {"look", "flow", "quota"} => quota[c] = 0
                        /\ \A g \in Handlers \ {k} : ~WithHandler(c, g)'
      BY <2>1 DEF HandlerInv
    <3>1. CASE c \in report.items
      <4>1. flow[c] = 0 /\ quota[c] = 0 /\ \A g \in Handlers : ~WithHandler(c, g)
        BY <2>2, <3>1 DEF SendInv
      <4> QED
        BY <2>4, <4>1
    <3>2. CASE c \notin report.items
      BY <2>3, <2>4, <3>2 DEF HandlerInv
    <3> QED
      BY <3>1, <3>2
  <2> QED
    BY <2>1, <2>5, <2>6, <2>7, LaterStep
<1> QED
  BY <1>1, <1>2, <1>3, <1>4

\* What a ledger has of a chunk after some were added.
LEMMA AddFacts ==
    ASSUME NEW ledger \in [Chunks -> Nat], NEW items, NEW c \in Chunks
    PROVE  Add(ledger, items)[c] = IF c \in items THEN ledger[c] + 1 ELSE ledger[c]
BY DEF Add

\* A step of a handler keeps the invariant.
LEMMA PanelStep ==
    ASSUME IInv, TypeOK', NEW h \in Handlers, Serve(h)
    PROVE  IInv'
<1> USE DEF IInv
<1>1. CASE Look(h)
  <2>1. UNCHANGED <<moved, bytes, obs, cache, report, flow, quota, unanswered>>
    BY <1>1 DEF Look, svcs
  <2>2. PICK items \in SUBSET upload[h].items :
          upload' = [upload EXCEPT ![h] = [pc |-> "flow", items |-> items]]
    BY <1>1 DEF Look
  <2>3. upload[h].pc = "look"
    BY <1>1 DEF Look
  <2>4. /\ upload'[h].pc = "flow" /\ upload'[h].items = items
        /\ \A g \in Handlers \ {h} : upload'[g] = upload[g]
    BY <2>2 DEF TypeOK
  <2>5. \A c : \A g \in Handlers : WithHandler(c, g)' => WithHandler(c, g)
    BY <2>2, <2>3, <2>4 DEF WithHandler
  <2>6. \A c \in Chunks : Beyond(c)' => Beyond(c)
    BY <2>1, <2>5 DEF Beyond
  <2>7. SendInv' /\ ChargedOnce'
    BY <2>1, <2>5 DEF SendInv, ChargedOnce
  <2>8. HandlerInv'
    BY <2>1, <2>3, <2>4, <2>5 DEF HandlerInv
  <2> QED
    BY <2>1, <2>6, <2>7, <2>8, LaterStep
<1>2. CASE AddFlow(h)
  <2>1. UNCHANGED <<moved, bytes, obs, cache, report, quota, unanswered>>
    BY <1>2 DEF AddFlow, svcs
  <2>2. PICK added \in SUBSET upload[h].items : flow' = Add(flow, added)
    BY <1>2 DEF AddFlow
  <2>3. upload[h].pc = "flow" /\ upload' = [upload EXCEPT ![h].pc = "quota"]
    BY <1>2 DEF AddFlow
  <2>4. /\ upload'[h].pc = "quota" /\ upload'[h].items = upload[h].items
        /\ \A g \in Handlers \ {h} : upload'[g] = upload[g]
    BY <2>3 DEF TypeOK, Uploads
  <2>5. \A c : \A g \in Handlers : WithHandler(c, g)' <=> WithHandler(c, g)
    BY <2>3, <2>4 DEF WithHandler
  <2>6. \A c \in Chunks : c \in added => WithHandler(c, h)
    BY <2>3 DEF WithHandler
  <2>7. \A c \in Chunks : flow[c] \in Nat /\ flow'[c] = IF c \in added THEN flow[c] + 1 ELSE flow[c]
    BY <2>2, AddFacts DEF TypeOK
  <2>8. \A c \in Chunks : Beyond(c)' => Beyond(c)
    BY <2>1, <2>5, <2>6, <2>7 DEF Beyond
  <2>9. SendInv'
    BY <2>1, <2>5, <2>6, <2>7 DEF SendInv, TypeOK, Reports
  <2>10. HandlerInv' /\ ChargedOnce'
    BY <2>1, <2>3, <2>4, <2>5, <2>6, <2>7 DEF HandlerInv, ChargedOnce
  <2> QED
    BY <2>1, <2>8, <2>9, <2>10, LaterStep
<1>3. CASE AddQuota(h)
  <2>1. UNCHANGED <<moved, bytes, obs, cache, report, flow, unanswered>>
    BY <1>3 DEF AddQuota, svcs
  <2>2. PICK added \in SUBSET upload[h].items : quota' = Add(quota, added)
    BY <1>3 DEF AddQuota
  <2>3. upload[h].pc = "quota" /\ upload' = [upload EXCEPT ![h].pc = "done"]
    BY <1>3 DEF AddQuota
  <2>4. /\ upload'[h].pc = "done" /\ upload'[h].items = upload[h].items
        /\ \A g \in Handlers \ {h} : upload'[g] = upload[g]
    BY <2>3 DEF TypeOK, Uploads
  <2>5. \A c : \A g \in Handlers : WithHandler(c, g)' <=> WithHandler(c, g)
    BY <2>3, <2>4 DEF WithHandler
  <2>6. \A c \in Chunks : c \in added => WithHandler(c, h)
    BY <2>3 DEF WithHandler
  <2>7. \A c \in Chunks : quota[c] \in Nat /\ quota'[c] = IF c \in added THEN quota[c] + 1 ELSE quota[c]
    BY <2>2, AddFacts DEF TypeOK
  <2>8. \A c \in Chunks : Beyond(c)' => Beyond(c)
    BY <2>1, <2>5, <2>6, <2>7 DEF Beyond
  <2>9. SendInv'
    BY <2>1, <2>5, <2>6, <2>7 DEF SendInv, TypeOK, Reports
  <2>10. HandlerInv' /\ ChargedOnce'
    BY <2>1, <2>3, <2>4, <2>5, <2>6, <2>7 DEF HandlerInv, ChargedOnce
  <2> QED
    BY <2>1, <2>8, <2>9, <2>10, LaterStep
<1>4. CASE Answer(h)
  <2>1. UNCHANGED <<moved, bytes, obs, cache, flow, quota, unanswered>>
    BY <1>4 DEF Answer, svcs
  <2>2. upload' = [upload EXCEPT ![h] = Free] /\ (report' = report \/ report' = Silent)
    BY <1>4 DEF Answer
  <2>3. \A c : \A g \in Handlers : WithHandler(c, g)' => WithHandler(c, g) /\ upload'[g] = upload[g]
    BY <2>2 DEF WithHandler, TypeOK, Free
  <2>4. \A c \in Chunks : Beyond(c)' => Beyond(c)
    BY <2>1, <2>2, <2>3 DEF Beyond, Silent
  <2>5. SendInv' /\ HandlerInv' /\ ChargedOnce'
    BY <2>1, <2>2, <2>3 DEF SendInv, HandlerInv, ChargedOnce, Silent
  <2> QED
    BY <2>1, <2>4, <2>5, LaterStep
<1> QED
  BY <1>1, <1>2, <1>3, <1>4 DEF Serve

\* A crash of either side keeps the invariant.
LEMMA CrashStep ==
    ASSUME IInv, TypeOK', AgentCrash \/ PanelCrash
    PROVE  IInv'
<1> USE DEF IInv
<1>1. CASE AgentCrash
  <2>1. UNCHANGED <<moved, upload, flow, quota, unanswered>>
    BY <1>1 DEF AgentCrash, panel
  <2>2. /\ bytes' = [s \in Services |-> {}] /\ cache' = {} /\ report' = Silent
        /\ \A s \in Services : obs'[s].pc \in {"idle", "gone"}
    BY <1>1 DEF AgentCrash, Watching
  <2>3. ObserverInv'
    BY <2>2 DEF ObserverInv
  <2>4. \A c : \A g : WithHandler(c, g)' <=> WithHandler(c, g)
    BY <2>1 DEF WithHandler
  <2>5. \A c : ~Early(c)' /\ (Beyond(c)' => Beyond(c))
    BY <2>1, <2>2, <2>4 DEF Early, Beyond, Silent
  <2>6. MovedInv' /\ EarlyInv' /\ CacheInv'
    BY <2>1, <2>2, <2>5 DEF MovedInv, EarlyInv, CacheInv
  <2>7. SendInv' /\ HandlerInv' /\ ChargedOnce'
    BY <2>1, <2>2, <2>4 DEF SendInv, HandlerInv, ChargedOnce, Silent
  <2> QED
    BY <2>3, <2>6, <2>7
<1>2. CASE PanelCrash
  <2>1. UNCHANGED <<moved, bytes, obs, cache, flow, quota>>
    BY <1>2 DEF PanelCrash, svcs
  <2>2. upload' = [h \in Handlers |-> Free]
    BY <1>2 DEF PanelCrash
  <2>3. \/ report' = report /\ unanswered' = unanswered
        \/ report' = AnotherTry /\ report.pc = "wait" /\ unanswered' = unanswered \cup report.items
    BY <1>2 DEF PanelCrash
  <2>4. \A c : \A h \in Handlers : ~WithHandler(c, h)'
    BY <2>2 DEF WithHandler, Free
  <2>5. \A c \in Chunks : Beyond(c)' => Beyond(c)
    BY <2>1, <2>3, <2>4, AnotherFacts DEF Beyond
  <2>6. SendInv'
    BY <2>1, <2>3, <2>4, AnotherFacts DEF SendInv
  <2>7. HandlerInv' /\ ChargedOnce'
    BY <2>1, <2>3, <2>4 DEF HandlerInv, ChargedOnce
  <2> QED
    BY <2>1, <2>5, <2>6, <2>7, LaterStep
<1> QED
  BY <1>1, <1>2

\* Every step keeps the invariant.
LEMMA InvStep == IInv /\ [Next]_vars => IInv'
<1> SUFFICES ASSUME IInv, [Next]_vars PROVE IInv'
  OBVIOUS
<1>1. TypeOK'
  BY TypeStep DEF IInv
<1>2. CASE UNCHANGED core
  <2>1. UNCHANGED <<moved, bytes, obs, cache, report, upload, flow, quota, unanswered>>
    BY <1>2 DEF core
  <2>2. ObserverInv' /\ \A c \in Chunks : Early(c)' => Early(c)
    BY <2>1 DEF IInv, ObserverInv, Early
  <2> QED
    BY <1>1, <2>1, <2>2, ServiceStep
<1> QED
  BY <1>1, <1>2, QuietSteps, AgentStep, ReporterStep, PanelStep, CrashStep
     DEF Next, Observe

\* In every state the chunks are in one place only, as IInv says.
THEOREM Invariant == Spec => []IInv
BY InitInv, InvStep, PTL DEF Spec

-----------------------------------------------------------------------------
(* A ledger gets a chunk at most once for each address that it is posted to. *)

\* The handlers that may still add the chunk to a ledger.
AtFlow(c)  == {h \in Handlers : upload[h].pc \in {"look", "flow"} /\ c \in upload[h].items}
AtQuota(c) == {h \in Handlers : upload[h].pc \in {"look", "flow", "quota"} /\ c \in upload[h].items}

\* How often the report may still post the chunk.
Tries(c) ==
    IF report.pc = "idle" \/ c \notin report.items THEN 0
    ELSE IF report.pc = "send" THEN report.left + 1 ELSE report.left

\* Added n times, with the handlers of S to add it, and to be posted t times.
Within(n, S, t) == IsFiniteSet(S) /\ n + Cardinality(S) + t <= Addresses

TriesInv == \A c \in Chunks :
    Within(flow[c], AtFlow(c), Tries(c)) /\ Within(quota[c], AtQuota(c), Tries(c))

\* Handlers that are through without adding it, and tries that are not made,
\* only take away.
LEMMA LessIsWithin ==
    ASSUME NEW n \in Nat, NEW S, NEW t \in Nat, Within(n, S, t),
           NEW T \in SUBSET S, NEW u \in Nat, u <= t
    PROVE  Within(n, T, u)
<1>1. IsFiniteSet(S) /\ n + Cardinality(S) + t <= Addresses
  BY DEF Within
<1>2. IsFiniteSet(T) /\ Cardinality(T) <= Cardinality(S)
  BY <1>1, FS_Subset
<1>3. Cardinality(S) \in Nat /\ Cardinality(T) \in Nat
  BY <1>1, <1>2, FS_CardinalityType
<1>4. n + Cardinality(T) + u <= Addresses
  BY <1>1, <1>2, <1>3, BoundAssumption
<1> QED
  BY <1>2, <1>4 DEF Within

\* A try gives the chunk to one more handler.
LEMMA PostedIsWithin ==
    ASSUME NEW n \in Nat, NEW S, NEW t \in Nat, Within(n, S, t),
           NEW h, NEW u \in Nat, u + 1 <= t
    PROVE  Within(n, S \cup {h}, u)
<1>1. IsFiniteSet(S) /\ n + Cardinality(S) + t <= Addresses
  BY DEF Within
<1>2. /\ IsFiniteSet(S \cup {h})
      /\ Cardinality(S \cup {h}) = IF h \in S THEN Cardinality(S) ELSE Cardinality(S) + 1
  BY <1>1, FS_AddElement
<1>3. Cardinality(S) \in Nat
  BY <1>1, FS_CardinalityType
<1>4. n + Cardinality(S \cup {h}) + u <= Addresses
  BY <1>1, <1>2, <1>3, BoundAssumption
<1> QED
  BY <1>2, <1>4 DEF Within

\* What a handler adds it adds once.
LEMMA AddedIsWithin ==
    ASSUME NEW n \in Nat, NEW S, NEW t \in Nat, Within(n, S, t), NEW h \in S
    PROVE  Within(n + 1, S \ {h}, t)
<1>1. IsFiniteSet(S) /\ n + Cardinality(S) + t <= Addresses
  BY DEF Within
<1>2. IsFiniteSet(S \ {h}) /\ Cardinality(S \ {h}) = Cardinality(S) - 1
  BY <1>1, FS_RemoveElement
<1>3. Cardinality(S) \in Nat
  BY <1>1, FS_CardinalityType
<1>4. n + 1 + Cardinality(S \ {h}) + t <= Addresses
  BY <1>1, <1>2, <1>3, BoundAssumption
<1> QED
  BY <1>2, <1>4 DEF Within

\* The tries are counted down.
LEMMA TriesFacts ==
    ASSUME TypeOK
    PROVE  /\ \A c : Tries(c) \in Nat
           /\ \A c : report.pc # "idle" /\ report' = AnotherTry => Tries(c)' \in Nat /\ Tries(c)' <= Tries(c)
           /\ \A c : report' = report => Tries(c)' = Tries(c)
           /\ \A c : report' = Silent => Tries(c)' = 0
<1>1. report.left \in Nat /\ report.pc \in {"idle", "send", "wait"}
  BY BoundAssumption DEF TypeOK, Reports
<1>2. \A c : Tries(c) \in Nat
  BY <1>1 DEF Tries
<1>3. \A c : report' = report => Tries(c)' = Tries(c)
  BY DEF Tries
<1>4. \A c : report' = Silent => Tries(c)' = 0
  BY DEF Tries, Silent
<1>5. ASSUME NEW c, report.pc # "idle", report' = AnotherTry PROVE Tries(c)' \in Nat /\ Tries(c)' <= Tries(c)
  <2>1. CASE report.left = 0
    BY <1>2, <1>4, <1>5, <2>1 DEF AnotherTry
  <2>2. CASE report.left # 0
    <3>1. report' = [report EXCEPT !.pc = "send", !.left = @ - 1, !.at = NoHandler]
      BY <1>5, <2>2 DEF AnotherTry
    <3>2. report'.pc = "send" /\ report'.left = report.left - 1 /\ report'.items = report.items
      BY <3>1 DEF TypeOK, Reports
    <3> QED
      BY <1>1, <1>5, <2>2, <3>2 DEF Tries
  <2> QED
    BY <2>1, <2>2
<1> QED
  BY <1>2, <1>3, <1>4, <1>5

\* The first state has posted nothing.
LEMMA TriesInit == Init => TriesInv
<1> SUFFICES ASSUME Init, NEW c \in Chunks
             PROVE  Within(flow[c], AtFlow(c), Tries(c)) /\ Within(quota[c], AtQuota(c), Tries(c))
  BY DEF TriesInv
<1>1. AtFlow(c) = {} /\ AtQuota(c) = {}
  BY DEF Init, AtFlow, AtQuota, Free
<1>2. flow[c] = 0 /\ quota[c] = 0 /\ Tries(c) = 0
  BY DEF Init, Tries, Silent
<1> QED
  BY <1>1, <1>2, FS_EmptySet, BoundAssumption DEF Within

\* A step that adds nothing to a ledger, gives the chunk to no handler and
\* makes no further try possible.
LEMMA TriesKept ==
    ASSUME TypeOK, TriesInv, UNCHANGED <<flow, quota>>, NEW c \in Chunks,
           \A h \in Handlers :
              \/ upload'[h] = upload[h]
              \/ upload'[h].pc = "idle"
              \/ upload[h].pc = "look" /\ upload'[h].items \subseteq upload[h].items,
           Tries(c)' \in Nat, Tries(c)' <= Tries(c)
    PROVE  (Within(flow[c], AtFlow(c), Tries(c)) /\ Within(quota[c], AtQuota(c), Tries(c)))'
<1>1. /\ Within(flow[c], AtFlow(c), Tries(c)) /\ Within(quota[c], AtQuota(c), Tries(c))
      /\ flow[c] \in Nat /\ quota[c] \in Nat /\ Tries(c) \in Nat
  BY TriesFacts DEF TriesInv, TypeOK
<1>2. AtFlow(c)' \in SUBSET AtFlow(c) /\ AtQuota(c)' \in SUBSET AtQuota(c)
  BY DEF AtFlow, AtQuota
<1>3. Within(flow[c], AtFlow(c)', Tries(c)') /\ Within(quota[c], AtQuota(c)', Tries(c)')
  BY <1>1, <1>2, LessIsWithin
<1> QED
  BY <1>3 DEF Within

\* Every step of the reporter and of a handler keeps the count.
LEMMA TriesReporter ==
    ASSUME IInv, TriesInv, Collect \/ PostFails \/ AnswerLost \/ \E h \in Handlers : Post(h)
    PROVE  TriesInv'
<1> SUFFICES ASSUME NEW c \in Chunks
             PROVE  (Within(flow[c], AtFlow(c), Tries(c)) /\ Within(quota[c], AtQuota(c), Tries(c)))'
  BY DEF TriesInv
<1>0. TypeOK /\ UNCHANGED <<flow, quota>>
  BY DEF IInv, Collect, PostFails, AnswerLost, Post, panel
<1>1. CASE Collect
  <2>1. upload' = upload /\ report.pc = "idle" /\ report' = Sending(cache)
    BY <1>1 DEF Collect, panel
  <2>2. Tries(c) = 0
    BY <2>1 DEF Tries
  <2>3. CASE c \in cache
    <3>1. flow[c] = 0 /\ quota[c] = 0 /\ \A h \in Handlers : ~WithHandler(c, h)
      BY <2>3, <1>0 DEF IInv, CacheInv, Beyond
    <3>2. AtFlow(c)' = {} /\ AtQuota(c)' = {}
      BY <2>1, <3>1 DEF AtFlow, AtQuota, WithHandler
    <3>3. Tries(c)' = Addresses
      BY <2>1, <2>3, BoundAssumption DEF Sending, Tries
    <3> QED
      BY <1>0, <3>1, <3>2, <3>3, FS_EmptySet, BoundAssumption DEF Within
  <2>4. CASE c \notin cache
    <3>1. Tries(c)' = 0
      BY <2>1, <2>4 DEF Sending, Tries
    <3> QED
      BY <1>0, <2>1, <2>2, <3>1, TriesKept
  <2> QED
    BY <2>3, <2>4
<1>2. CASE PostFails \/ AnswerLost
  <2>1. upload' = upload /\ report.pc # "idle" /\ report' = AnotherTry
    BY <1>2 DEF PostFails, AnswerLost, panel
  <2>2. Tries(c)' \in Nat /\ Tries(c)' <= Tries(c)
    BY <1>0, <2>1, TriesFacts
  <2> QED
    BY <1>0, <2>1, <2>2, TriesKept
<1>3. ASSUME NEW h \in Handlers, Post(h)
      PROVE  (Within(flow[c], AtFlow(c), Tries(c)) /\ Within(quota[c], AtQuota(c), Tries(c)))'
  <2>1. /\ report.pc = "send" /\ upload[h].pc = "idle"
        /\ upload' = [upload EXCEPT ![h] = [pc |-> "look", items |-> report.items]]
        /\ report' = [report EXCEPT !.pc = "wait", !.at = h]
    BY <1>3 DEF Post
  <2>2. /\ upload'[h].pc = "look" /\ upload'[h].items = report.items
        /\ \A g \in Handlers \ {h} : upload'[g] = upload[g]
        /\ report'.pc = "wait" /\ report'.items = report.items /\ report'.left = report.left
    BY <1>0, <2>1 DEF TypeOK, Reports
  <2>3. /\ Within(flow[c], AtFlow(c), Tries(c)) /\ Within(quota[c], AtQuota(c), Tries(c))
        /\ flow[c] \in Nat /\ quota[c] \in Nat /\ Tries(c) \in Nat /\ report.left \in Nat
    BY <1>0, TriesFacts, BoundAssumption DEF TriesInv, TypeOK, Reports
  <2>4. CASE c \in report.items
    <3>1. AtFlow(c)' = AtFlow(c) \cup {h} /\ AtQuota(c)' = AtQuota(c) \cup {h}
      BY <2>1, <2>2, <2>4 DEF AtFlow, AtQuota
    <3>2. Tries(c)' \in Nat /\ Tries(c)' + 1 <= Tries(c)
      BY <2>1, <2>2, <2>3, <2>4 DEF Tries
    <3>3. Within(flow[c], AtFlow(c) \cup {h}, Tries(c)')
      BY <2>3, <3>2, PostedIsWithin
    <3>4. Within(quota[c], AtQuota(c) \cup {h}, Tries(c)')
      BY <2>3, <3>2, PostedIsWithin
    <3> QED
      BY <1>0, <3>1, <3>3, <3>4 DEF Within
  <2>5. CASE c \notin report.items
    <3>1. AtFlow(c)' = AtFlow(c) /\ AtQuota(c)' = AtQuota(c)
      BY <2>1, <2>2, <2>5 DEF AtFlow, AtQuota
    <3>2. Tries(c)' = Tries(c)
      BY <2>2, <2>5 DEF Tries
    <3> QED
      BY <1>0, <2>3, <3>1, <3>2 DEF Within
  <2> QED
    BY <2>4, <2>5
<1> QED
  BY <1>1, <1>2, <1>3

\* What one handler does to the count of a chunk.
LEMMA TriesServe ==
    ASSUME IInv, TriesInv, NEW h \in Handlers, Serve(h)
    PROVE  TriesInv'
<1> SUFFICES ASSUME NEW c \in Chunks
             PROVE  (Within(flow[c], AtFlow(c), Tries(c)) /\ Within(quota[c], AtQuota(c), Tries(c)))'
  BY DEF TriesInv
<1>0. /\ TypeOK /\ flow[c] \in Nat /\ quota[c] \in Nat /\ Tries(c) \in Nat
      /\ Within(flow[c], AtFlow(c), Tries(c)) /\ Within(quota[c], AtQuota(c), Tries(c))
  BY TriesFacts DEF IInv, TriesInv, TypeOK
<1>1. CASE Look(h)
  <2>1. UNCHANGED <<flow, quota>> /\ report' = report
    BY <1>1 DEF Look
  <2>2. PICK items \in SUBSET upload[h].items :
          upload' = [upload EXCEPT ![h] = [pc |-> "flow", items |-> items]]
    BY <1>1 DEF Look
  <2>3. upload[h].pc = "look"
    BY <1>1 DEF Look
  <2>4. /\ upload'[h].pc = "flow" /\ upload'[h].items = items
        /\ \A g \in Handlers \ {h} : upload'[g] = upload[g]
    BY <1>0, <2>2 DEF TypeOK
  <2>5. Tries(c)' = Tries(c)
    BY <1>0, <2>1, TriesFacts
  <2> QED
    BY <1>0, <2>1, <2>3, <2>4, <2>5, TriesKept
<1>2. CASE AddFlow(h)
  <2>1. UNCHANGED <<quota, report>>
    BY <1>2 DEF AddFlow
  <2>2. PICK added \in SUBSET upload[h].items : flow' = Add(flow, added)
    BY <1>2 DEF AddFlow
  <2>3. upload[h].pc = "flow" /\ upload' = [upload EXCEPT ![h].pc = "quota"]
    BY <1>2 DEF AddFlow
  <2>4. /\ upload'[h].pc = "quota" /\ upload'[h].items = upload[h].items
        /\ \A g \in Handlers \ {h} : upload'[g] = upload[g]
    BY <1>0, <2>3 DEF TypeOK, Uploads
  <2>5. AtFlow(c)' = AtFlow(c) \ {h} /\ AtQuota(c)' = AtQuota(c)
    BY <2>3, <2>4 DEF AtFlow, AtQuota
  <2>6. flow'[c] = IF c \in added THEN flow[c] + 1 ELSE flow[c]
    BY <1>0, <2>2, AddFacts DEF TypeOK
  <2>7. c \in added => h \in AtFlow(c)
    BY <2>3 DEF AtFlow
  <2>8. Tries(c)' = Tries(c)
    BY <1>0, <2>1, TriesFacts
  <2>9. Within(flow'[c], AtFlow(c)', Tries(c)')
    <3>1. CASE c \in added
      BY <1>0, <2>5, <2>6, <2>7, <2>8, <3>1, AddedIsWithin
    <3>2. CASE c \notin added
      BY <1>0, <2>5, <2>6, <2>8, <3>2, LessIsWithin
    <3> QED
      BY <3>1, <3>2
  <2> QED
    BY <1>0, <2>1, <2>5, <2>8, <2>9 DEF Within
<1>3. CASE AddQuota(h)
  <2>1. UNCHANGED <<flow, report>>
    BY <1>3 DEF AddQuota
  <2>2. PICK added \in SUBSET upload[h].items : quota' = Add(quota, added)
    BY <1>3 DEF AddQuota
  <2>3. upload[h].pc = "quota" /\ upload' = [upload EXCEPT ![h].pc = "done"]
    BY <1>3 DEF AddQuota
  <2>4. /\ upload'[h].pc = "done" /\ upload'[h].items = upload[h].items
        /\ \A g \in Handlers \ {h} : upload'[g] = upload[g]
    BY <1>0, <2>3 DEF TypeOK, Uploads
  <2>5. AtFlow(c)' = AtFlow(c) /\ AtQuota(c)' = AtQuota(c) \ {h}
    BY <2>3, <2>4 DEF AtFlow, AtQuota
  <2>6. quota'[c] = IF c \in added THEN quota[c] + 1 ELSE quota[c]
    BY <1>0, <2>2, AddFacts DEF TypeOK
  <2>7. c \in added => h \in AtQuota(c)
    BY <2>3 DEF AtQuota
  <2>8. Tries(c)' = Tries(c)
    BY <1>0, <2>1, TriesFacts
  <2>9. Within(quota'[c], AtQuota(c)', Tries(c)')
    <3>1. CASE c \in added
      BY <1>0, <2>5, <2>6, <2>7, <2>8, <3>1, AddedIsWithin
    <3>2. CASE c \notin added
      BY <1>0, <2>5, <2>6, <2>8, <3>2, LessIsWithin
    <3> QED
      BY <3>1, <3>2
  <2> QED
    BY <1>0, <2>1, <2>5, <2>8, <2>9 DEF Within
<1>4. CASE Answer(h)
  <2>1. /\ UNCHANGED <<flow, quota>> /\ upload' = [upload EXCEPT ![h] = Free]
        /\ report' = report \/ report' = Silent
    BY <1>4 DEF Answer
  <2>2. Tries(c)' \in Nat /\ Tries(c)' <= Tries(c)
    BY <1>0, <2>1, TriesFacts
  <2>3. \A g \in Handlers : upload'[g].pc = "idle" \/ upload'[g] = upload[g]
    BY <1>0, <2>1 DEF TypeOK, Free
  <2> QED
    BY <1>0, <2>1, <2>2, <2>3, TriesKept
<1> QED
  BY <1>1, <1>2, <1>3, <1>4 DEF Serve

\* Every step keeps the count.
LEMMA TriesStep == IInv /\ TriesInv /\ [Next]_vars => TriesInv'
<1> SUFFICES ASSUME IInv, TriesInv, [Next]_vars PROVE TriesInv'
  OBVIOUS
<1>0. TypeOK
  BY DEF IInv
<1>1. ASSUME UNCHANGED <<report, upload, flow, quota>> PROVE TriesInv'
  BY <1>1 DEF TriesInv, Within, AtFlow, AtQuota, Tries
<1>2. CASE UNCHANGED core
  BY <1>1, <1>2 DEF core
<1>3. CASE \/ \E c \in Chunks : Move(c)
           \/ \E s \in Services : Tick(s) \/ Check(s) \/ AddTraffic(s) \/ GetRest(s)
                                  \/ ResetTraffic(s) \/ Exit(s)
  BY <1>1, <1>3 DEF Move, Tick, Check, AddTraffic, GetRest, ResetTraffic, Exit, panel
<1>4. CASE AgentCrash
  <2>1. report' = Silent /\ UNCHANGED <<upload, flow, quota>>
    BY <1>4 DEF AgentCrash, panel
  <2>2. \A c \in Chunks : Tries(c)' \in Nat /\ Tries(c)' <= Tries(c)
    BY <1>0, <2>1, TriesFacts
  <2> QED
    BY <1>0, <2>1, <2>2, TriesKept DEF TriesInv
<1>5. CASE PanelCrash
  <2>1. UNCHANGED <<flow, quota>> /\ \A h \in Handlers : upload'[h].pc = "idle"
    BY <1>5 DEF PanelCrash, Free
  <2>2. report' = report \/ (report.pc # "idle" /\ report' = AnotherTry)
    BY <1>5 DEF PanelCrash
  <2>3. \A c \in Chunks : Tries(c)' \in Nat /\ Tries(c)' <= Tries(c)
    BY <1>0, <2>2, TriesFacts
  <2> QED
    BY <1>0, <2>1, <2>3, TriesKept DEF TriesInv
<1> QED
  BY <1>2, <1>3, <1>4, <1>5, QuietSteps, TriesReporter, TriesServe DEF Next, Observe

\* No ledger charges a chunk twice whose reports were answered, nor any chunk
\* more often than there are addresses to post it to (BilledOnce).
THEOREM OncePerLedger == Spec => []BilledOnce
<1>1. ASSUME IInv, TriesInv PROVE BilledOnce
  <2> SUFFICES ASSUME NEW c \in Chunks
               PROVE  LET most == IF c \in unanswered THEN Addresses ELSE 1
                      IN  flow[c] <= most /\ quota[c] <= most
    BY DEF BilledOnce
  <2>1. CASE c \notin unanswered
    BY <1>1, <2>1 DEF IInv, ChargedOnce
  <2>2. CASE c \in unanswered
    <3>1. /\ IsFiniteSet(AtFlow(c)) /\ flow[c] + Cardinality(AtFlow(c)) + Tries(c) <= Addresses
          /\ IsFiniteSet(AtQuota(c)) /\ quota[c] + Cardinality(AtQuota(c)) + Tries(c) <= Addresses
      BY <1>1 DEF TriesInv, Within
    <3>2. Cardinality(AtFlow(c)) \in Nat /\ Cardinality(AtQuota(c)) \in Nat
      BY <3>1, FS_CardinalityType
    <3>3. flow[c] \in Nat /\ quota[c] \in Nat /\ Tries(c) \in Nat
      BY <1>1, TriesFacts DEF IInv, TypeOK
    <3> QED
      BY <2>2, <3>1, <3>2, <3>3, BoundAssumption
  <2> QED
    BY <2>1, <2>2
<1> QED
  BY <1>1, TriesInit, TriesStep, Invariant, PTL DEF Spec

-----------------------------------------------------------------------------
(* Nothing is lost without a cause.                                        *)

\* A handler has the chunk and has not come to the flow counters, the quota.
BeforeFlow(c) ==
    \E h \in Handlers : upload[h].pc \in {"look", "flow"} /\ c \in upload[h].items
BeforeQuota(c) ==
    \E h \in Handlers : upload[h].pc \in {"look", "flow", "quota"} /\ c \in upload[h].items

\* What is pending, in these words.
LEMMA PendingIs ==
    ASSUME NEW c
    PROVE  /\ OnAgent(c) <=> Early(c) \/ c \in cache \/ (report.pc = "send" /\ c \in report.items)
           /\ FlowPending(c) <=> OnAgent(c) \/ BeforeFlow(c)
           /\ QuotaPending(c) <=> OnAgent(c) \/ BeforeQuota(c)
BY DEF OnAgent, Early, FlowPending, QuotaPending, BeforeFlow, BeforeQuota

\* A chunk that stays with the agent or comes to a handler, and one that stays
\* with its handler, is not lost.
LEMMA NotLost ==
    ASSUME NEW c,
           OnAgent(c) => OnAgent(c)' \/ (BeforeFlow(c)' /\ BeforeQuota(c)'),
           BeforeFlow(c) => BeforeFlow(c)' \/ flow'[c] # 0,
           BeforeQuota(c) => BeforeQuota(c)' \/ quota'[c] # 0
    PROVE  ~Uncharged(c)
<1>1. /\ FlowPending(c) <=> OnAgent(c) \/ BeforeFlow(c)
      /\ QuotaPending(c) <=> OnAgent(c) \/ BeforeQuota(c)
  BY PendingIs
<1>2. /\ FlowPending(c)' <=> OnAgent(c)' \/ BeforeFlow(c)'
      /\ QuotaPending(c)' <=> OnAgent(c)' \/ BeforeQuota(c)'
  BY DEF FlowPending, QuotaPending, BeforeFlow, BeforeQuota
<1> QED
  BY <1>1, <1>2 DEF Uncharged

\* What a step of a service or of its observer takes away is forfeited.
LEMMA AgentLoss ==
    ASSUME IInv, NEW c \in Chunks,
           \/ UNCHANGED core
           \/ \E d \in Chunks : Move(d)
           \/ \E s \in Services : Tick(s) \/ Check(s) \/ AddTraffic(s) \/ GetRest(s)
                                  \/ ResetTraffic(s) \/ Exit(s)
    PROVE  Uncharged(c) => Forfeited(c)
<1> USE DEF IInv
<1>1. report' = report /\ upload' = upload /\ cache \subseteq cache'
  BY DEF core, Move, Tick, Check, AddTraffic, GetRest, ResetTraffic, Exit, panel
<1>2. (BeforeFlow(c)' <=> BeforeFlow(c)) /\ (BeforeQuota(c)' <=> BeforeQuota(c))
  BY <1>1 DEF BeforeFlow, BeforeQuota
<1>3. ASSUME Early(c) => Early(c)' \/ c \in cache' PROVE ~Uncharged(c)
  <2>1. OnAgent(c) => OnAgent(c)'
    BY <1>1, <1>3 DEF OnAgent, Early
  <2> QED
    BY <1>2, <2>1, NotLost
<1>4. CASE UNCHANGED core
  BY <1>3, <1>4 DEF core, Early
<1>5. ASSUME NEW d \in Chunks, Move(d) PROVE ~Uncharged(c)
  <2>1. Early(c) => Early(c)'
    BY <1>5, NamesAssumption DEF Move, Early, TypeOK
  <2> QED
    BY <1>3, <2>1
<1>6. ASSUME NEW s \in Services, Tick(s) PROVE ~Uncharged(c)
  <2>1. Early(c) => Early(c)'
    BY <1>6 DEF Tick, Early, TypeOK
  <2> QED
    BY <1>3, <2>1
<1>7. ASSUME NEW s \in Services, Check(s) PROVE Uncharged(c) => Forfeited(c)
  <2>1. CASE Name[s] \in Registered
    <3>1. Early(c) => Early(c)'
      BY <1>7, <2>1 DEF Check, Early, TypeOK, Views
    <3> QED
      BY <1>3, <3>1
  <2>2. CASE Name[s] \notin Registered /\ c \notin obs[s].seen
    <3>1. Early(c) => Early(c)'
      BY <1>7, <2>2 DEF Check, Early, TypeOK, Views
    <3> QED
      BY <1>3, <3>1
  <2>3. CASE Name[s] \notin Registered /\ c \in obs[s].seen
    BY <1>7, <2>3 DEF Check, Forfeited
  <2> QED
    BY <2>1, <2>2, <2>3
<1>8. ASSUME NEW s \in Services, AddTraffic(s) PROVE ~Uncharged(c)
  <2>1. Early(c) => Early(c)' \/ c \in cache'
    BY <1>8 DEF AddTraffic, Early, TypeOK, Views
  <2> QED
    BY <1>3, <2>1
<1>9. ASSUME NEW s \in Services, GetRest(s) PROVE ~Uncharged(c)
  <2>1. Early(c) => Early(c)'
    BY <1>9 DEF GetRest, Early, TypeOK, Views
  <2> QED
    BY <1>3, <2>1
<1>10. ASSUME NEW s \in Services, ResetTraffic(s) PROVE Uncharged(c) => Forfeited(c)
  <2>1. CASE c \in bytes[s] \ (obs[s].rest \cup obs[s].seen)
    BY <1>10, <2>1 DEF ResetTraffic, Forfeited
  <2>2. CASE c \notin bytes[s] \ (obs[s].rest \cup obs[s].seen)
    <3>1. Early(c) => Early(c)'
      BY <1>10, <2>2 DEF ResetTraffic, Early, TypeOK, Views, Watching
    <3> QED
      BY <1>3, <3>1
  <2> QED
    BY <2>1, <2>2
<1>11. ASSUME NEW s \in Services, Exit(s) PROVE Uncharged(c) => Forfeited(c)
  <2>1. CASE c \in bytes[s]
    BY <1>11, <2>1 DEF Exit, Forfeited
  <2>2. CASE c \notin bytes[s]
    <3>1. Early(c) => Early(c)'
      BY <1>11, <2>2 DEF Exit, Early, TypeOK, Views
    <3> QED
      BY <1>3, <3>1
  <2> QED
    BY <2>1, <2>2
<1> QED
  BY <1>4, <1>5, <1>6, <1>7, <1>8, <1>9, <1>10, <1>11

\* A step of the reporter loses nothing without a fault.
LEMMA ReporterLoss ==
    ASSUME IInv, NEW c \in Chunks,
           Collect \/ PostFails \/ AnswerLost \/ \E h \in Handlers : Post(h)
    PROVE  Uncharged(c) => faults' > faults
<1> USE DEF IInv
<1>1. CASE PostFails \/ AnswerLost
  BY <1>1, FaultType DEF PostFails, AnswerLost, TypeOK
<1>2. CASE Collect
  <2>1. UNCHANGED <<bytes, obs, upload, flow, quota>> /\ report.pc = "idle" /\ report' = Sending(cache)
    BY <1>2 DEF Collect, svcs, panel
  <2>2. c \in cache => report'.pc = "send" /\ c \in report'.items
    BY <2>1 DEF Sending
  <2>3. OnAgent(c) => OnAgent(c)'
    BY <2>1, <2>2 DEF OnAgent
  <2>4. (BeforeFlow(c) => BeforeFlow(c)') /\ (BeforeQuota(c) => BeforeQuota(c)')
    BY <2>1 DEF BeforeFlow, BeforeQuota
  <2> QED
    BY <2>3, <2>4, NotLost
<1>3. ASSUME NEW h \in Handlers, Post(h) PROVE ~Uncharged(c)
  <2>1. /\ UNCHANGED <<bytes, obs, cache>> /\ upload[h].pc = "idle"
        /\ upload' = [upload EXCEPT ![h] = [pc |-> "look", items |-> report.items]]
    BY <1>3 DEF Post, svcs
  <2>2. /\ upload'[h].pc = "look" /\ upload'[h].items = report.items
        /\ \A g \in Handlers \ {h} : upload'[g] = upload[g]
    BY <2>1 DEF TypeOK
  <2>3. (BeforeFlow(c) => BeforeFlow(c)') /\ (BeforeQuota(c) => BeforeQuota(c)')
    BY <2>1, <2>2 DEF BeforeFlow, BeforeQuota
  <2>4. c \in report.items => BeforeFlow(c)' /\ BeforeQuota(c)'
    BY <2>2 DEF BeforeFlow, BeforeQuota
  <2>5. OnAgent(c) => OnAgent(c)' \/ c \in report.items
    BY <2>1 DEF OnAgent
  <2> QED
    BY <2>3, <2>4, <2>5, NotLost
<1> QED
  BY <1>1, <1>2, <1>3

\* A handler that does not fail charges what it was sent, except for forwards
\* that are gone.
LEMMA PanelLoss ==
    ASSUME IInv, NEW c \in Chunks, NEW h \in Handlers, Serve(h)
    PROVE  Uncharged(c) => faults' > faults \/ Forfeited(c)
<1> USE DEF IInv
<1>1. CASE Look(h)
  <2>1. CASE Fault("storage")
    BY <2>1, FaultType DEF TypeOK
  <2>2. CASE upload' = [upload EXCEPT ![h] =
                 [pc |-> "flow", items |-> {d \in upload[h].items : NameOf(d) \in known}]]
    <3>1. UNCHANGED <<bytes, obs, cache, report>> /\ upload[h].pc = "look"
      BY <1>1 DEF Look, svcs
    <3>2. OnAgent(c) => OnAgent(c)'
      BY <3>1 DEF OnAgent
    <3>3. CASE c \in upload[h].items /\ NameOf(c) \notin known
      BY <3>1, <3>3 DEF Forfeited
    <3>4. CASE c \notin upload[h].items \/ NameOf(c) \in known
      <4>1. /\ upload'[h].pc = "flow"
            /\ upload'[h].items = {d \in upload[h].items : NameOf(d) \in known}
            /\ \A g \in Handlers \ {h} : upload'[g] = upload[g]
        BY <2>2 DEF TypeOK
      <4>2. (BeforeFlow(c) => BeforeFlow(c)') /\ (BeforeQuota(c) => BeforeQuota(c)')
        BY <3>1, <3>4, <4>1 DEF BeforeFlow, BeforeQuota
      <4> QED
        BY <3>2, <4>2, NotLost
    <3> QED
      BY <3>3, <3>4
  <2> QED
    BY <1>1, <2>1, <2>2 DEF Look
<1>2. CASE AddFlow(h)
  <2>1. CASE Fault("storage")
    BY <2>1, FaultType DEF TypeOK
  <2>2. CASE ~Fault("storage")
    <3>1. UNCHANGED <<bytes, obs, cache, report>> /\ upload[h].pc = "flow"
      BY <1>2 DEF AddFlow, svcs
    <3>2. flow' = Add(flow, upload[h].items)
      BY <1>2, <2>2 DEF AddFlow, Stored
    <3>3. /\ upload'[h].pc = "quota" /\ upload'[h].items = upload[h].items
          /\ \A g \in Handlers \ {h} : upload'[g] = upload[g]
      BY <1>2 DEF AddFlow, TypeOK, Uploads
    <3>4. c \in upload[h].items => flow'[c] # 0
      BY <3>2, AddFacts DEF TypeOK
    <3>5. OnAgent(c) => OnAgent(c)'
      BY <3>1 DEF OnAgent
    <3>6. (BeforeFlow(c) => BeforeFlow(c)' \/ flow'[c] # 0) /\ (BeforeQuota(c) => BeforeQuota(c)')
      BY <3>3, <3>4 DEF BeforeFlow, BeforeQuota
    <3> QED
      BY <3>5, <3>6, NotLost
  <2> QED
    BY <2>1, <2>2
<1>3. CASE AddQuota(h)
  <2>1. CASE Fault("storage")
    BY <2>1, FaultType DEF TypeOK
  <2>2. CASE ~Fault("storage")
    <3>1. UNCHANGED <<bytes, obs, cache, report>> /\ upload[h].pc = "quota"
      BY <1>3 DEF AddQuota, svcs
    <3>2. quota' = Add(quota, upload[h].items)
      BY <1>3, <2>2 DEF AddQuota, Stored
    <3>3. /\ upload'[h].pc = "done" /\ upload'[h].items = upload[h].items
          /\ \A g \in Handlers \ {h} : upload'[g] = upload[g]
      BY <1>3 DEF AddQuota, TypeOK, Uploads
    <3>4. c \in upload[h].items => quota'[c] # 0
      BY <3>2, AddFacts DEF TypeOK
    <3>5. OnAgent(c) => OnAgent(c)'
      BY <3>1 DEF OnAgent
    <3>6. (BeforeFlow(c) => BeforeFlow(c)') /\ (BeforeQuota(c) => BeforeQuota(c)' \/ quota'[c] # 0)
      BY <3>1, <3>3, <3>4 DEF BeforeFlow, BeforeQuota
    <3> QED
      BY <3>5, <3>6, NotLost
  <2> QED
    BY <2>1, <2>2
<1>4. CASE Answer(h)
  <2>1. /\ UNCHANGED <<bytes, obs, cache>> /\ upload[h].pc = "done"
        /\ upload' = [upload EXCEPT ![h] = Free]
        /\ report' = report \/ report.pc = "wait"
    BY <1>4 DEF Answer, svcs
  <2>2. OnAgent(c) => OnAgent(c)'
    BY <2>1 DEF OnAgent
  <2>3. (BeforeFlow(c) => BeforeFlow(c)') /\ (BeforeQuota(c) => BeforeQuota(c)')
    BY <2>1 DEF BeforeFlow, BeforeQuota, TypeOK
  <2> QED
    BY <2>2, <2>3, NotLost
<1> QED
  BY <1>1, <1>2, <1>3, <1>4 DEF Serve

\* Traffic that no ledger can get any more without having had it was lost by a
\* fault, or in one of the ways that Forfeited lists (LossHasCause).
THEOREM NoSilentLoss == Spec => LossHasCause
<1>1. IInv /\ [Next]_vars => \A c \in Chunks : Uncharged(c) => faults' > faults \/ Forfeited(c)
  <2> SUFFICES ASSUME IInv, [Next]_vars, NEW c \in Chunks, Uncharged(c)
               PROVE  faults' > faults \/ Forfeited(c)
    OBVIOUS
  <2>1. CASE AgentCrash \/ PanelCrash
    BY <2>1, FaultType DEF AgentCrash, PanelCrash, IInv, TypeOK
  <2> QED
    BY <2>1, QuietSteps, AgentLoss, ReporterLoss, PanelLoss DEF Next, Observe
<1> QED
  BY <1>1, Invariant, PTL DEF Spec, LossHasCause

-----------------------------------------------------------------------------
(* Nothing is stranded: what waits is waited for.                          *)

\* An observer that is gone has seen its service end.
GoneInv == \A s \in Services : obs[s].pc = "gone" => state[s] = "ended"

\* A step that leaves these alone keeps them.
LEMMA CountersKept ==
    ASSUME CountersWatched, GoneInv, UNCHANGED <<state, raising, bytes, updated, obs>>
    PROVE  CountersWatched' /\ GoneInv'
BY DEF CountersWatched, GoneInv

\* What the cache loses needs no entry.
LEMMA EntriesKept ==
    ASSUME CacheEntered, cache' \subseteq cache, entries \subseteq entries'
    PROVE  CacheEntered'
BY DEF CacheEntered, NameOf

\* The reporter and the handlers stay as they are.
LEMMA AnswerKept ==
    ASSUME AnswerComing, UNCHANGED <<report, upload>>
    PROVE  AnswerComing'
BY DEF AnswerComing

\* A step of the services, of a connection or of an observer keeps the counters
\* watched.
LEMMA CountersStep ==
    ASSUME IInv, CountersWatched, GoneInv,
           \/ \E s \in Services : \/ Register(s) \/ Unregister(s) \/ End(s)
                                  \/ Tick(s) \/ Check(s) \/ AddTraffic(s) \/ GetRest(s)
                                  \/ ResetTraffic(s) \/ Exit(s)
           \/ \E n \in Names : Delete(n)
           \/ \E c \in Chunks : Move(c) \/ Raise(c)
    PROVE  CountersWatched' /\ GoneInv'
<1> USE DEF CountersWatched, GoneInv
<1>0. TypeOK /\ ObserverInv
  BY DEF IInv
<1>1. ASSUME UNCHANGED <<raising, bytes, updated, obs>>,
             \A s \in Services : /\ state[s] # "new" => state'[s] # "new"
                                 /\ state[s] = "ended" => state'[s] = "ended"
      PROVE  CountersWatched' /\ GoneInv'
  BY <1>1
<1>2. ASSUME NEW s \in Services, Register(s) \/ Unregister(s) \/ End(s)
      PROVE  CountersWatched' /\ GoneInv'
  BY <1>0, <1>1, <1>2 DEF Register, Unregister, End, TypeOK
<1>3. ASSUME NEW n \in Names, Delete(n) PROVE CountersWatched' /\ GoneInv'
  BY <1>0, <1>1, <1>3 DEF Delete, Closing, TypeOK
<1>4. ASSUME NEW s \in Services, Tick(s) PROVE CountersWatched' /\ GoneInv'
  BY <1>0, <1>4 DEF Tick, TypeOK
<1>5. ASSUME NEW s \in Services, Check(s) PROVE CountersWatched' /\ GoneInv'
  BY <1>0, <1>5 DEF Check, TypeOK, Views
<1>6. ASSUME NEW s \in Services, AddTraffic(s) PROVE CountersWatched' /\ GoneInv'
  BY <1>0, <1>6 DEF AddTraffic, TypeOK, Views
<1>7. ASSUME NEW s \in Services, GetRest(s) PROVE CountersWatched' /\ GoneInv'
  BY <1>0, <1>7 DEF GetRest, TypeOK, Views
<1>8. ASSUME NEW s \in Services, ResetTraffic(s) PROVE CountersWatched' /\ GoneInv'
  BY <1>0, <1>8 DEF ResetTraffic, ObserverInv, TypeOK, Views, Watching
<1>9. ASSUME NEW s \in Services, Exit(s) PROVE CountersWatched' /\ GoneInv'
  BY <1>0, <1>9 DEF Exit, TypeOK, Views
<1>10. ASSUME NEW c \in Chunks, Move(c) PROVE CountersWatched' /\ GoneInv'
  BY <1>0, <1>10, NamesAssumption DEF Move, TypeOK
<1>11. ASSUME NEW c \in Chunks, Raise(c) PROVE CountersWatched' /\ GoneInv'
  <2>1. UNCHANGED <<state, bytes, obs>> /\ raising' = raising \ {c}
    BY <1>11 DEF Raise
  <2>2. updated' = [updated EXCEPT ![Of[c]] = TRUE] /\ Of[c] \in Services
    BY <1>11, NamesAssumption DEF Raise
  <2>3. updated'[Of[c]] = TRUE /\ \A s \in Services : updated[s] => updated'[s]
    BY <1>0, <2>2 DEF TypeOK
  <2>4. \A s \in Services : c \in bytes[s] => Of[c] = s
    BY <1>0 DEF ObserverInv
  <2> QED
    BY <2>1, <2>3, <2>4
<1> QED
  BY <1>2, <1>3, <1>4, <1>5, <1>6, <1>7, <1>8, <1>9, <1>10, <1>11

\* Every step leaves nothing stranded.
LEMMA StrandedStep == IInv /\ GoneInv /\ NothingStranded /\ [Next]_vars => GoneInv' /\ NothingStranded'
<1> SUFFICES ASSUME IInv, GoneInv, CountersWatched, CacheEntered, AnswerComing, [Next]_vars
             PROVE  GoneInv' /\ CountersWatched' /\ CacheEntered' /\ AnswerComing'
  BY DEF NothingStranded
<1>0. TypeOK /\ ObserverInv
  BY DEF IInv
<1>1. ASSUME NEW s \in Services,
             \/ Register(s) \/ Unregister(s) \/ End(s)
             \/ Tick(s) \/ Check(s) \/ GetRest(s) \/ ResetTraffic(s) \/ Exit(s)
      PROVE  GoneInv' /\ CountersWatched' /\ CacheEntered' /\ AnswerComing'
  <2>1. UNCHANGED <<entries, cache, report, upload>>
    BY <1>1 DEF Register, Unregister, End, Tick, Check, GetRest, ResetTraffic, Exit, panel
  <2> QED
    BY <1>1, <2>1, CountersStep, EntriesKept, AnswerKept
<1>2. ASSUME NEW s \in Services, AddTraffic(s)
      PROVE  GoneInv' /\ CountersWatched' /\ CacheEntered' /\ AnswerComing'
  <2>1. /\ UNCHANGED <<report, upload>> /\ obs[s].pc = "add"
        /\ cache' = cache \cup obs[s].seen /\ entries' = entries \cup {Name[s]}
    BY <1>2 DEF AddTraffic, panel
  <2>2. \A c \in obs[s].seen : Of[c] = s
    BY <1>0, <2>1 DEF ObserverInv
  <2>3. CacheEntered'
    BY <2>1, <2>2 DEF CacheEntered, NameOf
  <2> QED
    BY <1>2, <2>1, <2>3, CountersStep, AnswerKept
<1>3. ASSUME NEW c \in Chunks, Move(c) \/ Raise(c)
      PROVE  GoneInv' /\ CountersWatched' /\ CacheEntered' /\ AnswerComing'
  <2>1. UNCHANGED <<entries, cache, report, upload>>
    BY <1>3 DEF Move, Raise, panel
  <2> QED
    BY <1>3, <2>1, CountersStep, EntriesKept, AnswerKept
<1>4. ASSUME NEW n \in Names, Delete(n)
      PROVE  GoneInv' /\ CountersWatched' /\ CacheEntered' /\ AnswerComing'
  <2>1. /\ UNCHANGED <<cache, report, upload>>
        /\ entries' = IF \E c \in cache : NameOf(c) = n THEN entries ELSE entries \ {n}
    BY <1>4 DEF Delete, panel
  <2>2. CacheEntered'
    BY <2>1 DEF CacheEntered, NameOf
  <2> QED
    BY <1>4, <2>1, <2>2, CountersStep, AnswerKept
<1>5. CASE AgentCrash
  <2>1. /\ \A s \in Services : bytes'[s] = {} /\ (obs'[s].pc = "gone" => state'[s] = "ended")
        /\ cache' = {} /\ report'.pc = "idle"
    BY <1>5 DEF AgentCrash, Watching, Silent
  <2> QED
    BY <2>1 DEF GoneInv, CountersWatched, CacheEntered, AnswerComing
<1>6. CASE Collect
  <2>1. UNCHANGED <<state, raising, bytes, updated, obs>> /\ cache' = {}
    BY <1>6 DEF Collect, svcs
  <2>2. report'.pc # "wait"
    BY <1>6 DEF Collect, Sending
  <2> QED
    BY <2>1, <2>2, CountersKept DEF CacheEntered, AnswerComing
<1>7. CASE PostFails \/ AnswerLost \/ PanelCrash
  <2>1. UNCHANGED <<state, raising, bytes, updated, obs, entries, cache>>
    BY <1>7 DEF PostFails, AnswerLost, PanelCrash, svcs
  <2>2. report'.pc # "wait"
    BY <1>0, <1>7, AnotherFacts DEF PostFails, AnswerLost, PanelCrash
  <2> QED
    BY <2>1, <2>2, CountersKept, EntriesKept DEF AnswerComing
<1>8. ASSUME NEW h \in Handlers, Post(h) \/ Serve(h)
      PROVE  GoneInv' /\ CountersWatched' /\ CacheEntered' /\ AnswerComing'
  <2>1. UNCHANGED <<state, raising, bytes, updated, obs, entries, cache>>
    BY <1>8 DEF Post, Serve, Look, AddFlow, AddQuota, Answer, svcs
  <2>2. ASSUME Post(h) PROVE AnswerComing'
    <3>1. /\ upload' = [upload EXCEPT ![h] = [pc |-> "look", items |-> report.items]]
          /\ report' = [report EXCEPT !.pc = "wait", !.at = h]
      BY <2>2 DEF Post
    <3>2. report'.at = h /\ upload'[h].pc = "look"
      BY <1>0, <3>1 DEF TypeOK, Reports
    <3> QED
      BY <3>2 DEF AnswerComing
  <2>3. ASSUME Look(h) \/ AddFlow(h) \/ AddQuota(h) PROVE AnswerComing'
    <3>1. /\ report' = report /\ upload'[h].pc # "idle"
          /\ \A g \in Handlers \ {h} : upload'[g] = upload[g]
      BY <1>0, <2>3 DEF Look, AddFlow, AddQuota, TypeOK, Uploads
    <3> QED
      BY <3>1 DEF AnswerComing
  <2>4. ASSUME Answer(h) PROVE AnswerComing'
    <3>1. /\ \A g \in Handlers \ {h} : upload'[g] = upload[g]
          /\ report' = IF report.pc = "wait" /\ report.at = h THEN Silent ELSE report
      BY <1>0, <2>4 DEF Answer, TypeOK
    <3> QED
      BY <3>1 DEF AnswerComing, Silent
  <2> QED
    BY <1>8, <2>1, <2>2, <2>3, <2>4, CountersKept, EntriesKept DEF Serve
<1>9. CASE UNCHANGED vars \/ \E n \in Names : Forget(n)
  <2>1. UNCHANGED <<state, raising, bytes, updated, obs, entries, cache, report, upload>>
    BY <1>9 DEF Forget, vars, svcs, panel
  <2> QED
    BY <2>1, CountersKept, EntriesKept, AnswerKept
<1> QED
  BY <1>1, <1>2, <1>3, <1>4, <1>5, <1>6, <1>7, <1>8, <1>9 DEF Next, Observe

\* In no state does a counted byte, a cached byte or the reporter wait for
\* something that nobody is about to do (NothingStranded).
THEOREM NeverStranded == Spec => []NothingStranded
<1>1. Init => GoneInv /\ NothingStranded
  BY DEF Init, GoneInv, NothingStranded, CountersWatched, CacheEntered, AnswerComing, Watching, Silent
<1> QED
  BY <1>1, StrandedStep, Invariant, PTL DEF Spec
=============================================================================

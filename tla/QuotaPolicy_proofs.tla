-------------------------- MODULE QuotaPolicy_proofs --------------------------
(***************************************************************************)
(* Type correctness of QuotaPolicy and the invariants that relate the      *)
(* user's row to what uploads carried, for any number of handlers,         *)
(* forwards and limits, on either database, with failures and restarts.    *)
(***************************************************************************)
EXTENDS QuotaPolicy, TLAPS

-----------------------------------------------------------------------------
(* Types.                                                                  *)

\* A saturated sum stays within the bound.
LEMMA CappedType ==
    ASSUME NEW n \in Nat PROVE Capped(n) \in 0 .. MaxUsed
BY BoundAssumption DEF Capped

\* Time starts within its bounds.
LEMMA StartType == Start \in Times /\ Start \in [Windows -> 0 .. MaxUsed]
BY BoundAssumption DEF Start, Times

\* The row of a user without usage.
LEMMA FreshRowType == ASSUME NEW l \in Limits PROVE FreshRow(l) \in Rows
BY StartType DEF FreshRow, Rows

\* The frame of an idle process.
LEMMA RestType == NoRow \in Rows /\ Rest \in Frames
<1>1. (CHOOSE l \in Limits : TRUE) \in Limits
  BY LimitAssumption
<1>2. NoRow \in Rows
  BY <1>1, FreshRowType DEF NoRow
<1> QED
  BY <1>2, StartType DEF Rest, Frames, FrameShapes, Steps

\* Rolling a row to a time keeps its shape; it never adds usage.
LEMMA RolledType ==
    ASSUME NEW row \in Rows, NEW t \in Times
    PROVE  Rolled(row, t) \in Rows
<1> DEFINE u == [w \in Windows |-> IF row.key[w] = t[w] THEN row.used[w] ELSE 0]
<1>1. u \in [Windows -> 0 .. MaxUsed]
  <2> SUFFICES ASSUME NEW w \in Windows
               PROVE (IF row.key[w] = t[w] THEN row.used[w] ELSE 0) \in 0 .. MaxUsed
    OBVIOUS
  <2>1. row.used[w] \in 0 .. MaxUsed
    BY DEF Rows
  <2> QED
    BY <2>1, BoundAssumption
<1> HIDE DEF u
<1>2. [row EXCEPT !.used = u, !.key = t] \in Rows
  BY <1>1 DEF Rows
<1> QED
  BY <1>2 DEF Rolled, u

\* Releasing a row keeps its shape.
LEMMA ReleasedType == ASSUME NEW row \in Rows PROVE Released(row) \in Rows
BY DEF Released, Rows

\* The frame a release leaves behind.
LEMMA AfterReleaseType ==
    ASSUME NEW row \in Rows, NEW t \in Times
    PROVE  AfterRelease(row, t) \in Frames
BY RestType DEF AfterRelease, Rows, Frames, FrameShapes, Steps

\* A process moves to a well-formed frame.
LEMMA GotoType ==
    ASSUME TypeOK, NEW p \in Processes, NEW fr \in Frames, Goto(p, fr)
    PROVE  proc' \in [Processes -> Frames]
BY DEF TypeOK, Goto

\* Upload transaction: the row and the history stay within the bounds.
LEMMA AddUsageType ==
    ASSUME TypeOK, NEW p \in Processes, AddUsage(p) PROVE TypeOK'
<1> DEFINE t == proc[p].at
           row == Rolled(quota, t)
<1>1. t \in Times /\ row \in Rows
  BY RolledType DEF TypeOK, Frames, FrameShapes
<1> SUFFICES ASSUME NEW size \in Sizes, NEW failed \in Faults,
               IF failed
               THEN Goto(p, Rest) /\ UNCHANGED <<quota, carried>>
               ELSE LET added == [row EXCEPT !.used =
                                    [w \in Windows |-> Capped(row.used[w] + size)]]
                    IN /\ quota' = added
                       /\ carried' = [w \in Windows |-> [carried[w] EXCEPT
                                         ![t[w]] = Capped(carried[w][t[w]] + size)]]
                       /\ IF added.disabled \/ ~Exceeded(added) THEN Goto(p, Rest)
                          ELSE Goto(p, [Rest EXCEPT !.pc = "list"])
             PROVE TypeOK'
  BY DEF AddUsage
<1>2. proc' \in [Processes -> Frames]
  <2>1. [Rest EXCEPT !.pc = "list"] \in Frames
    BY RestType DEF Frames, FrameShapes, Steps
  <2>2. Goto(p, Rest) \/ Goto(p, [Rest EXCEPT !.pc = "list"])
    OBVIOUS
  <2> QED
    BY <2>1, <2>2, RestType, GotoType
<1>3. ASSUME NEW w \in Windows
      PROVE /\ Capped(row.used[w] + size) \in 0 .. MaxUsed
            /\ t[w] \in 0 .. LastTime
            /\ Capped(carried[w][t[w]] + size) \in 0 .. MaxUsed
  <2>1. row.used[w] \in Nat /\ t[w] \in 0 .. LastTime /\ size \in Nat
    BY <1>1, SizeAssumption, BoundAssumption DEF Rows, Times
  <2>2. carried[w][t[w]] \in Nat
    BY <2>1, BoundAssumption DEF TypeOK
  <2> QED
    BY <2>1, <2>2, CappedType
<1>4. quota' \in Rows
  <2>1. CASE failed
    BY <2>1 DEF TypeOK
  <2>2. CASE ~failed
    BY <2>2, <1>1, <1>3 DEF Rows
  <2> QED
    BY <2>1, <2>2
<1>5. carried' \in [Windows -> [0 .. LastTime -> 0 .. MaxUsed]]
  <2>1. CASE failed
    BY <2>1 DEF TypeOK
  <2>2. CASE ~failed
    <3>1. ASSUME NEW w \in Windows
          PROVE [carried[w] EXCEPT ![t[w]] = Capped(carried[w][t[w]] + size)]
                   \in [0 .. LastTime -> 0 .. MaxUsed]
      BY <1>3 DEF TypeOK
    <3>2. carried' = [w \in Windows |-> [carried[w] EXCEPT
                        ![t[w]] = Capped(carried[w][t[w]] + size)]]
      BY <2>2
    <3> HIDE DEF t
    <3> QED
      BY <3>1, <3>2
  <2> QED
    BY <2>1, <2>2
<1> QED
  BY <1>2, <1>4, <1>5 DEF TypeOK, AddUsage

\* The panel starts in the domains.
LEMMA InitType == Init => TypeOK
<1> SUFFICES ASSUME Init PROVE TypeOK
  OBVIOUS
<1>1. quota \in Rows
  BY FreshRowType DEF Init
<1>2. proc \in [Processes -> Frames]
  BY RestType DEF Init
<1>3. carried \in [Windows -> [0 .. LastTime -> 0 .. MaxUsed]]
  BY BoundAssumption DEF Init
<1> QED
  BY <1>1, <1>2, <1>3, StartType, BoundAssumption DEF Init, TypeOK

\* TypeOK is inductive: whatever handlers, job, time and restarts do, the row,
\* the forwards, the frames and the histories stay in their domains.
THEOREM TypeCorrect == Spec => []TypeOK
<1>1. Init => TypeOK
  BY InitType
<1>2. TypeOK /\ [Next]_vars => TypeOK'
  <2> SUFFICES ASSUME TypeOK, [Next]_vars PROVE TypeOK'
    OBVIOUS
  <2>0. ASSUME NEW t \in Times, NEW fs \in SUBSET Forwards, NEW step \in {"add", "reset", "roll"}
        PROVE  /\ [Rest EXCEPT !.pc = step, !.at = t] \in Frames
               /\ [Rest EXCEPT !.pc = "resume", !.at = t, !.todo = fs] \in Frames
               /\ [Rest EXCEPT !.pc = "pause", !.todo = fs] \in Frames
    BY RestType DEF Frames, FrameShapes, Steps
  <2>1. ASSUME NEW p \in Processes, BeginUpload(p) PROVE TypeOK'
    BY <2>1, <2>0, GotoType DEF BeginUpload, TypeOK, Steps
  <2>2. ASSUME NEW p \in Processes, BeginReset(p) PROVE TypeOK'
    BY <2>2, <2>0, GotoType DEF BeginReset, TypeOK, Steps
  <2>3. ASSUME NEW p \in Processes, BeginResume(p) PROVE TypeOK'
    BY <2>3, <2>0, GotoType DEF BeginResume, TypeOK, Steps
  <2>4. ASSUME NEW p \in Processes, BeginPause(p) PROVE TypeOK'
    BY <2>4, <2>0, GotoType DEF BeginPause, TypeOK, Steps
  <2>5. ASSUME NEW p \in Processes, AddUsage(p) PROVE TypeOK'
    BY <2>5, AddUsageType
  <2>6. ASSUME NEW p \in Processes, ListActive(p) PROVE TypeOK'
    <3> DEFINE active == {f \in Forwards : status[f]}
    <3>1. proc[p] \in Frames
      BY DEF TypeOK
    <3>2. active \in SUBSET Forwards
      OBVIOUS
    <3> HIDE DEF active
    <3>3. [proc[p] EXCEPT !.pc = "pause", !.enforcing = TRUE, !.todo = active] \in Frames
      BY <3>1, <3>2 DEF Frames, FrameShapes, Steps
    <3> QED
      BY <2>6, <3>3, RestType, GotoType DEF ListActive, TypeOK, active
  <2>7. ASSUME NEW p \in Processes, NEW f \in Forwards, SendPause(p, f) PROVE TypeOK'
    <3>1. PICK failed \in Faults :
            Goto(p, [proc[p] EXCEPT !.todo = @ \ {f},
                                    !.pc = IF failed THEN "pause" ELSE "recordPause",
                                    !.cur = IF failed THEN NoForward ELSE f])
      BY <2>7 DEF SendPause
    <3>2. proc[p] \in Frames
      BY DEF TypeOK
    <3>3. /\ [proc[p] EXCEPT !.todo = @ \ {f}, !.pc = "pause", !.cur = NoForward] \in Frames
          /\ [proc[p] EXCEPT !.todo = @ \ {f}, !.pc = "recordPause", !.cur = f] \in Frames
      BY <3>2 DEF Frames, FrameShapes, Steps
    <3>4. PICK fr \in Frames : Goto(p, fr)
      <4>1. CASE failed
        BY <3>1, <3>3, <4>1
      <4>2. CASE ~failed
        BY <3>1, <3>3, <4>2
      <4> QED
        BY <4>1, <4>2
    <3> QED
      BY <2>7, <3>4, GotoType DEF SendPause, TypeOK
  <2>8. ASSUME NEW p \in Processes, RecordPause(p) PROVE TypeOK'
    <3> DEFINE f == proc[p].cur
    <3>1. proc[p] \in Frames /\ f \in Forwards
      BY <2>8 DEF TypeOK, RecordPause, At, Frames
    <3> HIDE DEF f
    <3>2. PICK failed \in Faults :
            /\ Goto(p, [proc[p] EXCEPT !.pc = "pause", !.cur = NoForward,
                                       !.done = IF failed THEN @ ELSE @ \cup {f}])
            /\ status' = [status EXCEPT ![f] = failed /\ @]
            /\ owed' = IF failed THEN owed
                       ELSE IF proc[p].enforcing THEN owed \cup {f} ELSE owed \ {f}
      BY <2>8 DEF RecordPause, f
    <3>3. /\ [proc[p] EXCEPT !.pc = "pause", !.cur = NoForward, !.done = @] \in Frames
          /\ [proc[p] EXCEPT !.pc = "pause", !.cur = NoForward, !.done = @ \cup {f}] \in Frames
      BY <3>1 DEF Frames, FrameShapes, Steps
    <3>4. PICK fr \in Frames : Goto(p, fr)
      <4>1. CASE failed
        BY <3>2, <3>3, <4>1
      <4>2. CASE ~failed
        BY <3>2, <3>3, <4>2
      <4> QED
        BY <4>1, <4>2
    <3>5. owed' \subseteq Forwards
      BY <3>1, <3>2 DEF TypeOK
    <3>6. status' \in [Forwards -> BOOLEAN]
      <4>1. (failed /\ status[f]) \in BOOLEAN
        OBVIOUS
      <4> QED
        BY <3>1, <3>2, <4>1 DEF TypeOK
    <3> QED
      BY <2>8, <3>4, <3>5, <3>6, GotoType DEF RecordPause, TypeOK
  <2>9. ASSUME NEW p \in Processes, EndPause(p) PROVE TypeOK'
    <3>1. proc[p].done \in SUBSET Forwards
      BY DEF TypeOK, Frames, FrameShapes
    <3>2. [quota EXCEPT !.disabled = TRUE, !.paused = proc[p].done] \in Rows
      BY <3>1 DEF TypeOK, Rows
    <3>3. quota' \in Rows
      BY <2>9, <3>2 DEF EndPause, TypeOK
    <3> QED
      BY <2>9, <3>3, RestType, GotoType DEF EndPause, TypeOK
  <2>10. ASSUME NEW p \in Processes, Reset(p) PROVE TypeOK'
    <3> DEFINE row == Rolled(quota, proc[p].at)
               Cleared(scope) == [row EXCEPT !.used =
                   [w \in Windows |-> IF w \in scope THEN 0 ELSE row.used[w]]]
    <3>1. row \in Rows
      BY RolledType DEF TypeOK, Frames, FrameShapes
    <3>2. ASSUME NEW scope \in {{"daily"}, {"monthly"}, Windows}
          PROVE Cleared(scope) \in Rows
      BY <3>1, BoundAssumption DEF Rows
    <3>3. PICK scope \in {{"daily"}, {"monthly"}, Windows}, failed \in Faults :
            IF failed THEN Goto(p, Rest) /\ UNCHANGED quota
            ELSE /\ quota' = Released(Cleared(scope))
                 /\ Goto(p, AfterRelease(Cleared(scope), clock))
      BY <2>10 DEF Reset
    <3> HIDE DEF row, Cleared
    <3>4. quota' \in Rows
      BY <3>2, <3>3, ReleasedType DEF TypeOK
    <3>5. PICK fr \in Frames : Goto(p, fr)
      BY <3>2, <3>3, AfterReleaseType, RestType DEF TypeOK
    <3> QED
      BY <2>10, <3>4, <3>5, GotoType DEF Reset, TypeOK
  <2>11. ASSUME NEW p \in Processes, NEW f \in Forwards, CheckResume(p, f) PROVE TypeOK'
    <3>1. proc[p] \in Frames
      BY DEF TypeOK
    <3>2. /\ [proc[p] EXCEPT !.todo = @ \ {f}, !.pc = "resume", !.cur = NoForward] \in Frames
          /\ [proc[p] EXCEPT !.todo = @ \ {f}, !.pc = "send", !.cur = f] \in Frames
      BY <3>1 DEF Frames, FrameShapes, Steps
    <3> DEFINE view    == Rolled(quota, proc[p].at)
               blocked == view.disabled \/ Exceeded(view)
    <3>3. PICK other \in BOOLEAN :
             /\ Goto(p, [proc[p] EXCEPT
                   !.todo = @ \ {f},
                   !.pc  = IF blocked \/ other THEN "resume" ELSE "send",
                   !.cur = IF blocked \/ other THEN NoForward ELSE f])
             /\ owed' = IF other /\ ~blocked /\ proc[p].releasing
                        THEN owed \ {f} ELSE owed
      BY <2>11 DEF CheckResume
    <3> HIDE DEF blocked
    <3>4. PICK fr \in Frames : Goto(p, fr)
      <4>1. CASE blocked \/ other
        BY <3>2, <3>3, <4>1
      <4>2. CASE ~(blocked \/ other)
        BY <3>2, <3>3, <4>2
      <4> QED
        BY <4>1, <4>2
    <3>5. owed' \subseteq Forwards
      BY <3>3 DEF TypeOK
    <3> QED
      BY <2>11, <3>4, <3>5, GotoType DEF CheckResume, TypeOK
  <2>12. ASSUME NEW p \in Processes, SendResume(p) PROVE TypeOK'
    <3> DEFINE f == proc[p].cur
    <3>1. proc[p] \in Frames /\ f \in Forwards
      BY <2>12 DEF TypeOK, SendResume, At, Frames
    <3> HIDE DEF f
    <3>2. PICK failed \in Faults :
            /\ Goto(p, [proc[p] EXCEPT !.pc = IF failed THEN "resume" ELSE "recordResume",
                                       !.cur = IF failed THEN NoForward ELSE f])
            /\ owed' = IF failed /\ proc[p].releasing THEN owed \ {f} ELSE owed
      BY <2>12 DEF SendResume, f
    <3>3. /\ [proc[p] EXCEPT !.pc = "resume", !.cur = NoForward] \in Frames
          /\ [proc[p] EXCEPT !.pc = "recordResume", !.cur = f] \in Frames
      BY <3>1 DEF Frames, FrameShapes, Steps
    <3>4. PICK fr \in Frames : Goto(p, fr)
      <4>1. CASE failed
        BY <3>2, <3>3, <4>1
      <4>2. CASE ~failed
        BY <3>2, <3>3, <4>2
      <4> QED
        BY <4>1, <4>2
    <3>5. owed' \subseteq Forwards
      BY <3>2 DEF TypeOK
    <3> QED
      BY <2>12, <3>4, <3>5, GotoType DEF SendResume, TypeOK
  <2>13. ASSUME NEW p \in Processes, RecordResume(p) PROVE TypeOK'
    <3> DEFINE f == proc[p].cur
    <3>1. proc[p] \in Frames /\ f \in Forwards
      BY <2>13 DEF TypeOK, RecordResume, At, Frames
    <3>2. [proc[p] EXCEPT !.pc = "resume", !.cur = NoForward] \in Frames
      BY <3>1 DEF Frames, FrameShapes, Steps
    <3> HIDE DEF f
    <3>3. PICK failed \in Faults :
            /\ Goto(p, [proc[p] EXCEPT !.pc = "resume", !.cur = NoForward])
            /\ status' = [status EXCEPT ![f] = ~failed \/ @]
            /\ owed' = IF failed /\ ~proc[p].releasing THEN owed ELSE owed \ {f}
      BY <2>13 DEF RecordResume, f
    <3>4. status' \in [Forwards -> BOOLEAN]
      <4>1. (~failed \/ status[f]) \in BOOLEAN
        OBVIOUS
      <4> QED
        BY <3>1, <3>3, <4>1 DEF TypeOK
    <3>5. owed' \subseteq Forwards
      BY <3>3 DEF TypeOK
    <3> QED
      BY <2>13, <3>2, <3>3, <3>4, <3>5, GotoType DEF RecordResume, TypeOK
  <2>14. ASSUME NEW p \in Processes, EndResume(p) PROVE TypeOK'
    BY <2>14, RestType, GotoType DEF EndResume, TypeOK
  <2>15. ASSUME BeginRoll PROVE TypeOK'
    BY <2>15, <2>0, GotoType DEF BeginRoll, TypeOK, Steps, Processes
  <2>16. ASSUME RollRead PROVE TypeOK'
    <3>1. Job \in Processes /\ proc[Job] \in Frames
      BY DEF TypeOK, Processes
    <3>2. [proc[Job] EXCEPT !.pc = "rollWrite", !.row = quota] \in Frames
      BY <3>1 DEF TypeOK, Frames, FrameShapes, Steps
    <3>3. PICK fr \in Frames : Goto(Job, fr)
      BY <2>16, <3>2, RestType DEF RollRead
    <3> QED
      BY <2>16, <3>1, <3>3, GotoType DEF RollRead, TypeOK
  <2>17. ASSUME RollWrite PROVE TypeOK'
    <3> DEFINE row == Rolled(proc[Job].row, proc[Job].at)
    <3>1. Job \in Processes /\ proc[Job].at \in Times /\ row \in Rows
      BY RolledType DEF TypeOK, Processes, Frames, FrameShapes
    <3>2. PICK failed \in Faults :
            IF failed THEN Goto(Job, Rest) /\ UNCHANGED quota
            ELSE /\ quota' = [Released(row) EXCEPT !.limit = quota.limit]
                 /\ Goto(Job, AfterRelease(row, proc[Job].at))
      BY <2>17 DEF RollWrite
    <3> HIDE DEF row
    <3>3. [Released(row) EXCEPT !.limit = quota.limit] \in Rows
      BY <3>1, ReleasedType DEF TypeOK, Rows
    <3>4. quota' \in Rows
      BY <3>2, <3>3 DEF TypeOK
    <3>5. PICK fr \in Frames : Goto(Job, fr)
      BY <3>1, <3>2, AfterReleaseType, RestType
    <3> QED
      BY <2>17, <3>1, <3>4, <3>5, GotoType DEF RollWrite, TypeOK
  <2>18. ASSUME SaveConfig PROVE TypeOK'
    BY <2>18 DEF SaveConfig, TypeOK, Rows
  <2>19. ASSUME TimePasses PROVE TypeOK'
    <3>1. PICK m \in {clock["monthly"], clock["monthly"] + 1} \cap 0 .. LastTime :
            clock' = [clock EXCEPT !["daily"] = @ + 1, !["monthly"] = m]
      BY <2>19 DEF TimePasses
    <3>2. clock["daily"] \in Nat /\ clock["daily"] < LastTime
      BY <2>19 DEF TimePasses, TypeOK, Times, Windows
    <3>3. clock["daily"] + 1 \in 0 .. LastTime
      BY <3>2, BoundAssumption
    <3>4. clock' \in Times
      BY <3>1, <3>3 DEF TypeOK, Times, Windows
    <3> QED
      BY <2>19, <3>4 DEF TimePasses, TypeOK
  <2>20. ASSUME Crash PROVE TypeOK'
    BY <2>20, RestType, BoundAssumption DEF Crash, TypeOK
  <2>21. ASSUME UNCHANGED vars PROVE TypeOK'
    BY <2>21 DEF vars, TypeOK
  <2> QED
    BY <2>1, <2>2, <2>3, <2>4, <2>5, <2>6, <2>7, <2>8, <2>9, <2>10, <2>11, <2>12,
       <2>13, <2>14, <2>15, <2>16, <2>17, <2>18, <2>19, <2>20, <2>21
       DEF Next, Request, Step, Roll
<1> QED
  BY <1>1, <1>2, PTL DEF Spec

-----------------------------------------------------------------------------
(* What the history of uploads justifies.                                  *)

\* Only an upload changes the history, and only by adding to it.
LEMMA CarriedGrows ==
    ASSUME TypeOK, [Next]_vars
    PROVE  \A w \in Windows, t \in 0 .. LastTime : carried[w][t] <= carried'[w][t]
<1>1. ASSUME NEW p \in Processes, AddUsage(p)
      PROVE  \A w \in Windows, t \in 0 .. LastTime : carried[w][t] <= carried'[w][t]
  <2> DEFINE t == proc[p].at
  <2>1. PICK size \in Sizes, failed \in Faults :
          \/ carried' = carried
          \/ carried' = [w \in Windows |->
               [carried[w] EXCEPT ![t[w]] = Capped(carried[w][t[w]] + size)]]
    BY <1>1 DEF AddUsage
  <2>2. t \in Times
    BY DEF TypeOK, Frames, FrameShapes
  <2> HIDE DEF t
  <2> SUFFICES ASSUME NEW w \in Windows, NEW u \in 0 .. LastTime
               PROVE  carried[w][u] <= carried'[w][u]
    OBVIOUS
  <2>3. carried[w] \in [0 .. LastTime -> 0 .. MaxUsed] /\ t[w] \in 0 .. LastTime
    BY <2>2 DEF TypeOK, Times
  <2>4. carried[w][u] \in 0 .. MaxUsed /\ carried[w][t[w]] \in 0 .. MaxUsed
    BY <2>3
  <2>5. carried[w][t[w]] <= Capped(carried[w][t[w]] + size)
    BY <2>4, SizeAssumption, BoundAssumption DEF Capped
  <2>6. CASE carried' = carried
    BY <2>4, <2>6
  <2>7. CASE carried' = [v \in Windows |->
               [carried[v] EXCEPT ![t[v]] = Capped(carried[v][t[v]] + size)]]
    <3>1. carried'[w] = [carried[w] EXCEPT ![t[w]] = Capped(carried[w][t[w]] + size)]
      BY <2>7
    <3>2. CASE u = t[w]
      BY <3>1, <3>2, <2>3, <2>5
    <3>3. CASE u # t[w]
      BY <3>1, <3>3, <2>3, <2>4
    <3> QED
      BY <3>2, <3>3
  <2> QED
    BY <2>1, <2>6, <2>7
<1>2. CASE UNCHANGED carried
  <2>1. \A w \in Windows, t \in 0 .. LastTime : carried[w][t] \in Nat
    BY BoundAssumption DEF TypeOK
  <2> QED
    BY <1>2, <2>1
<1>3. (\E p \in Processes : AddUsage(p)) \/ UNCHANGED carried
  BY DEF Next, vars, Request, Step, Roll, BeginUpload, BeginReset, BeginResume,
         BeginPause, ListActive, SendPause, RecordPause, EndPause, Reset, CheckResume,
         SendResume, RecordResume, EndResume, BeginRoll, RollRead, RollWrite,
         SaveConfig, TimePasses, Crash
<1> QED
  BY <1>1, <1>2, <1>3

\* A process's copy of the row is what it was, a fresh one, or the row now.
LEMMA CopiesKept ==
    ASSUME TypeOK, [Next]_vars, NEW p \in Processes
    PROVE  proc'[p].row \in {proc[p].row, NoRow, quota}
<1> USE DEF Goto
<1>0. Rest.row = NoRow /\ \A row \in Rows, t \in Times : AfterRelease(row, t).row = NoRow
  BY RestType DEF Rest, AfterRelease
<1>1. \A q \in Processes : proc[q] \in FrameShapes
  BY DEF TypeOK, Frames
<1>2. ASSUME NEW q \in Processes, NEW fr,
             Goto(q, fr), fr.row \in {proc[q].row, NoRow, quota}
      PROVE  proc'[p].row \in {proc[p].row, NoRow, quota}
  BY <1>2 DEF TypeOK
<1>3. ASSUME NEW q \in Processes, Request(q)
      PROVE  proc'[p].row \in {proc[p].row, NoRow, quota}
  BY <1>0, <1>2, <1>3, RestType
     DEF Request, BeginUpload, BeginReset, BeginResume, BeginPause, Frames, FrameShapes
<1>4. ASSUME NEW q \in Processes, Step(q)
      PROVE  proc'[p].row \in {proc[p].row, NoRow, quota}
  <2>0. proc[q] \in FrameShapes /\ Rest \in FrameShapes
    BY <1>1, RestType DEF Frames
  <2>1. CASE AddUsage(q)
    BY <2>1, <2>0, <1>0, <1>2 DEF AddUsage, FrameShapes
  <2>2. CASE ListActive(q)
    BY <2>2, <2>0, <1>0, <1>2 DEF ListActive, FrameShapes
  <2>3. ASSUME NEW f \in Forwards, SendPause(q, f)
        PROVE  proc'[p].row \in {proc[p].row, NoRow, quota}
    BY <2>3, <2>0, <1>2 DEF SendPause, FrameShapes
  <2>4. CASE RecordPause(q)
    BY <2>4, <2>0, <1>2 DEF RecordPause, FrameShapes
  <2>5. CASE EndPause(q) \/ EndResume(q)
    BY <2>5, <1>0, <1>2 DEF EndPause, EndResume
  <2>6. CASE Reset(q)
    <3> DEFINE row == Rolled(quota, proc[q].at)
               Cleared(scope) == [row EXCEPT !.used =
                   [w \in Windows |-> IF w \in scope THEN 0 ELSE row.used[w]]]
    <3>1. row \in Rows
      BY RolledType DEF TypeOK, Frames, FrameShapes
    <3>2. ASSUME NEW scope \in {{"daily"}, {"monthly"}, Windows}
          PROVE Cleared(scope) \in Rows
      BY <3>1, BoundAssumption DEF Rows
    <3>3. \E scope \in {{"daily"}, {"monthly"}, Windows} :
             Goto(q, Rest) \/ Goto(q, AfterRelease(Cleared(scope), clock))
      BY <2>6 DEF Reset
    <3> HIDE DEF Cleared
    <3> QED
      BY <3>2, <3>3, <1>0, <1>2 DEF TypeOK
  <2>7. ASSUME NEW f \in Forwards, CheckResume(q, f)
        PROVE  proc'[p].row \in {proc[p].row, NoRow, quota}
    BY <2>7, <2>0, <1>2 DEF CheckResume, FrameShapes
  <2>8. CASE SendResume(q)
    BY <2>8, <2>0, <1>2 DEF SendResume, FrameShapes
  <2>9. CASE RecordResume(q)
    BY <2>9, <2>0, <1>2 DEF RecordResume, FrameShapes
  <2> QED
    BY <1>4, <2>1, <2>2, <2>3, <2>4, <2>5, <2>6, <2>7, <2>8, <2>9 DEF Step
<1>5. ASSUME Roll PROVE proc'[p].row \in {proc[p].row, NoRow, quota}
  <2>0. Job \in Processes /\ proc[Job] \in FrameShapes /\ Rest \in FrameShapes
    BY <1>1, RestType DEF Frames, Processes
  <2>1. CASE BeginRoll
    BY <2>1, <2>0, <1>0, <1>2 DEF BeginRoll, FrameShapes
  <2>2. CASE RollRead
    BY <2>2, <2>0, <1>0, <1>2 DEF RollRead, FrameShapes
  <2>3. CASE RollWrite
    <3> DEFINE row == Rolled(proc[Job].row, proc[Job].at)
    <3>1. row \in Rows /\ proc[Job].at \in Times
      BY <2>0, RolledType DEF FrameShapes
    <3>2. Goto(Job, Rest) \/ Goto(Job, AfterRelease(row, proc[Job].at))
      BY <2>3 DEF RollWrite
    <3> HIDE DEF row
    <3> QED
      BY <3>1, <3>2, <2>0, <1>0, <1>2
  <2> QED
    BY <1>5, <2>1, <2>2, <2>3 DEF Roll
<1>6. CASE Crash
  BY <1>0, <1>6 DEF Crash
<1>7. CASE UNCHANGED proc
  BY <1>7
<1> QED
  BY <1>3, <1>4, <1>5, <1>6, <1>7 DEF Next, vars, SaveConfig, TimePasses

-----------------------------------------------------------------------------
(* Usage.                                                                  *)

\* A row that charges no window more than history c carried in it.
Charged(row, c) == \A w \in Windows : row.used[w] <= c[w][row.key[w]]

\* The row and every copy of it a process may still write back.
ChargedInv ==
    /\ TypeOK
    /\ Charged(quota, carried)
    /\ \A p \in Processes : Charged(proc[p].row, carried)

\* More history justifies the same row.
LEMMA ChargedGrows ==
    ASSUME TypeOK, TypeOK', [Next]_vars, NEW row \in Rows, Charged(row, carried)
    PROVE  Charged(row, carried')
<1> SUFFICES ASSUME NEW w \in Windows PROVE row.used[w] <= carried'[w][row.key[w]]
  BY DEF Charged
<1>1. row.key[w] \in 0 .. LastTime /\ row.used[w] \in Nat
  BY BoundAssumption DEF Rows, Times
<1>2. /\ carried[w][row.key[w]] \in Nat /\ carried'[w][row.key[w]] \in Nat
      /\ carried[w][row.key[w]] <= carried'[w][row.key[w]]
  <2>1. \A v \in Windows, t \in 0 .. LastTime : carried[v][t] <= carried'[v][t]
    BY CarriedGrows
  <2>2. /\ carried[w] \in [0 .. LastTime -> 0 .. MaxUsed]
        /\ carried'[w] \in [0 .. LastTime -> 0 .. MaxUsed]
    BY DEF TypeOK
  <2> QED
    BY <1>1, <2>1, <2>2, BoundAssumption
<1>3. row.used[w] <= carried[w][row.key[w]]
  BY DEF Charged
<1> QED
  BY <1>1, <1>2, <1>3

\* Rolling to any time, later or earlier, keeps a row within the history.
LEMMA ChargedRolled ==
    ASSUME NEW row \in Rows, NEW t \in Times, Charged(row, carried), TypeOK
    PROVE  Charged(Rolled(row, t), carried)
<1> SUFFICES ASSUME NEW w \in Windows
             PROVE  Rolled(row, t).used[w] <= carried[w][Rolled(row, t).key[w]]
  BY DEF Charged
<1>1. /\ Rolled(row, t).used[w] = IF row.key[w] = t[w] THEN row.used[w] ELSE 0
      /\ Rolled(row, t).key = t
  BY DEF Rolled, Rows
<1>2. t[w] \in 0 .. LastTime
  BY DEF Times
<1>3. carried[w][t[w]] \in Nat
  BY <1>2, BoundAssumption DEF TypeOK
<1>4. row.used[w] <= carried[w][row.key[w]]
  BY DEF Charged
<1> QED
  BY <1>1, <1>3, <1>4

\* Releasing a row and changing its limits leave usage and keys alone.
LEMMA ChargedReleased ==
    ASSUME NEW row \in Rows, NEW c, Charged(row, c), NEW l \in Limits
    PROVE  /\ Charged(Released(row), c)
           /\ Charged([Released(row) EXCEPT !.limit = l], c)
           /\ Charged([row EXCEPT !.limit = l], c)
BY DEF Charged, Released, Rows

\* What an upload adds to the row it adds to the history of the same window.
LEMMA ChargedByUpload ==
    ASSUME ChargedInv, TypeOK', NEW p \in Processes, AddUsage(p)
    PROVE  Charged(quota', carried')
<1> DEFINE t == proc[p].at
           row == Rolled(quota, t)
<1>1. PICK size \in Sizes, failed \in Faults :
        IF failed THEN UNCHANGED <<quota, carried>>
        ELSE /\ quota' = [row EXCEPT !.used =
                            [w \in Windows |-> Capped(row.used[w] + size)]]
             /\ carried' = [w \in Windows |->
                  [carried[w] EXCEPT ![t[w]] = Capped(carried[w][t[w]] + size)]]
  BY DEF AddUsage
<1>2. t \in Times /\ row \in Rows /\ row.key = t /\ Charged(row, carried)
  <2>1. t \in Times /\ quota \in Rows /\ TypeOK /\ Charged(quota, carried)
    BY DEF ChargedInv, TypeOK, Frames, FrameShapes
  <2>2. row.key = t
    BY <2>1 DEF Rolled, Rows
  <2> QED
    BY <2>1, <2>2, RolledType, ChargedRolled
<1> HIDE DEF t, row
<1>3. CASE failed
  BY <1>1, <1>3 DEF ChargedInv
<1>4. CASE ~failed
  <2> SUFFICES ASSUME NEW w \in Windows PROVE quota'.used[w] <= carried'[w][quota'.key[w]]
    BY DEF Charged
  <2>1. quota'.used[w] = Capped(row.used[w] + size) /\ quota'.key = t
    BY <1>1, <1>2, <1>4 DEF Rows
  <2>2. t[w] \in 0 .. LastTime /\ row.used[w] \in Nat
    BY <1>2, BoundAssumption DEF Times, Rows
  <2>3. carried[w] \in [0 .. LastTime -> 0 .. MaxUsed] /\ carried[w][t[w]] \in Nat
    BY <2>2, BoundAssumption DEF ChargedInv, TypeOK
  <2>4. carried'[w][t[w]] = Capped(carried[w][t[w]] + size)
    BY <1>1, <1>4, <2>2, <2>3
  <2>5. row.used[w] <= carried[w][t[w]]
    BY <1>2 DEF Charged
  <2>6. Capped(row.used[w] + size) <= Capped(carried[w][t[w]] + size)
    BY <2>2, <2>3, <2>5, SizeAssumption, BoundAssumption DEF Capped
  <2> QED
    BY <2>1, <2>4, <2>6
<1> QED
  BY <1>3, <1>4

\* A reset only lowers usage.
LEMMA ChargedByReset ==
    ASSUME ChargedInv, NEW p \in Processes, Reset(p)
    PROVE  Charged(quota', carried)
<1> DEFINE row == Rolled(quota, proc[p].at)
           Cleared(scope) == [row EXCEPT !.used =
               [w \in Windows |-> IF w \in scope THEN 0 ELSE row.used[w]]]
<1>1. row \in Rows /\ Charged(row, carried)
  BY RolledType, ChargedRolled DEF ChargedInv, TypeOK, Frames, FrameShapes
<1>2. PICK scope \in {{"daily"}, {"monthly"}, Windows} :
        quota' = quota \/ quota' = Released(Cleared(scope))
  BY DEF Reset
<1>3. Cleared(scope) \in Rows /\ Charged(Cleared(scope), carried)
  <2>0. Cleared(scope) \in Rows
    BY <1>1, BoundAssumption DEF Rows
  <2> SUFFICES ASSUME NEW w \in Windows
               PROVE Cleared(scope).used[w] <= carried[w][Cleared(scope).key[w]]
    BY <2>0 DEF Charged
  <2>1. /\ Cleared(scope).used[w] = IF w \in scope THEN 0 ELSE row.used[w]
        /\ Cleared(scope).key = row.key
    BY <1>1 DEF Rows
  <2>2. carried[w][row.key[w]] \in Nat
    BY <1>1, BoundAssumption DEF ChargedInv, TypeOK, Rows, Times
  <2> QED
    BY <1>1, <2>1, <2>2 DEF Charged
<1> HIDE DEF Cleared
<1> QED
  BY <1>2, <1>3, ChargedReleased, LimitAssumption DEF ChargedInv

\* The roll writes a row that was right when it was read.
LEMMA ChargedByRoll ==
    ASSUME ChargedInv, RollWrite
    PROVE  Charged(quota', carried)
<1> DEFINE row == Rolled(proc[Job].row, proc[Job].at)
<1>1. row \in Rows /\ Charged(row, carried)
  BY RolledType, ChargedRolled DEF ChargedInv, TypeOK, Frames, FrameShapes, Processes
<1>2. quota' = quota \/ quota' = [Released(row) EXCEPT !.limit = quota.limit]
  BY DEF RollWrite
<1>3. quota.limit \in Limits
  BY DEF ChargedInv, TypeOK, Rows
<1> HIDE DEF row
<1> QED
  BY <1>1, <1>2, <1>3, ChargedReleased DEF ChargedInv

\* The steps that touch the row: an upload, a reset, the roll's write, new
\* limits, and the mark that ends an enforcement.
LEMMA RowMoves ==
    ASSUME TypeOK, [Next]_vars
    PROVE  \/ \E p \in Processes : AddUsage(p) \/ Reset(p)
           \/ RollWrite
           \/ quota' = quota
           \/ \E l \in Limits : quota' = [quota EXCEPT !.limit = l]
           \/ \E fs \in SUBSET Forwards :
                 quota' = [quota EXCEPT !.disabled = TRUE, !.paused = fs]
<1>1. ASSUME NEW p \in Processes, EndPause(p)
      PROVE  \/ quota' = quota
             \/ \E fs \in SUBSET Forwards :
                   quota' = [quota EXCEPT !.disabled = TRUE, !.paused = fs]
  <2>1. proc[p].done \in SUBSET Forwards
    BY DEF TypeOK, Frames, FrameShapes
  <2> QED
    BY <1>1, <2>1 DEF EndPause
<1> QED
  BY <1>1 DEF Next, vars, Request, Step, Roll, BeginUpload, BeginReset, BeginResume,
     BeginPause, ListActive, SendPause, RecordPause, CheckResume, SendResume,
     RecordResume, EndResume, BeginRoll, RollRead, SaveConfig, TimePasses, Crash

\* Every step keeps the row and its copies within the history.
LEMMA ChargedStep == ChargedInv /\ [Next]_vars /\ TypeOK' => ChargedInv'
<1> SUFFICES ASSUME ChargedInv, [Next]_vars, TypeOK' PROVE ChargedInv'
  OBVIOUS
<1>1. TypeOK
  BY DEF ChargedInv
<1>2. Charged(quota', carried')
  <2>1. ASSUME NEW p \in Processes, AddUsage(p) PROVE Charged(quota', carried')
    BY <2>1, ChargedByUpload
  <2>2. ASSUME NEW p \in Processes, Reset(p) PROVE Charged(quota', carried')
    BY <2>2, ChargedByReset DEF Reset
  <2>3. ASSUME RollWrite PROVE Charged(quota', carried')
    BY <2>3, ChargedByRoll DEF RollWrite
  <2>4. ASSUME quota'.used = quota.used, quota'.key = quota.key
        PROVE  Charged(quota', carried')
    <3>1. Charged(quota, carried')
      BY <1>1, ChargedGrows DEF ChargedInv, TypeOK
    <3> QED
      BY <2>4, <3>1 DEF Charged
  <2>5. \/ \E p \in Processes : AddUsage(p) \/ Reset(p)
        \/ RollWrite
        \/ quota' = quota
        \/ \E l \in Limits : quota' = [quota EXCEPT !.limit = l]
        \/ \E fs \in SUBSET Forwards :
              quota' = [quota EXCEPT !.disabled = TRUE, !.paused = fs]
    BY <1>1, RowMoves
  <2>6. ASSUME NEW l \in Limits, quota' = [quota EXCEPT !.limit = l]
        PROVE  Charged(quota', carried')
    BY <2>4, <2>6, <1>1 DEF TypeOK, Rows
  <2>7. ASSUME NEW fs \in SUBSET Forwards,
               quota' = [quota EXCEPT !.disabled = TRUE, !.paused = fs]
        PROVE  Charged(quota', carried')
    BY <2>4, <2>7, <1>1 DEF TypeOK, Rows
  <2> QED
    BY <2>1, <2>2, <2>3, <2>4, <2>5, <2>6, <2>7
<1>3. ASSUME NEW p \in Processes PROVE Charged(proc'[p].row, carried')
  <2>1. proc'[p].row \in {proc[p].row, NoRow, quota}
    BY <1>1, CopiesKept
  <2>2. /\ proc[p].row \in Rows /\ quota \in Rows
        /\ Charged(proc[p].row, carried) /\ Charged(quota, carried)
    BY <1>1 DEF ChargedInv, TypeOK, Frames, FrameShapes
  <2>3. Charged(proc[p].row, carried') /\ Charged(quota, carried')
    BY <1>1, <2>2, ChargedGrows
  <2>4. Charged(NoRow, carried')
    <3>1. ASSUME NEW w \in Windows
          PROVE  NoRow.used[w] = 0 /\ carried'[w][NoRow.key[w]] \in Nat
      BY BoundAssumption DEF NoRow, FreshRow, Start, TypeOK
    <3> QED
      BY <3>1 DEF Charged
  <2> QED
    BY <2>1, <2>3, <2>4
<1> QED
  BY <1>2, <1>3 DEF ChargedInv

\* Nothing is charged at first.
LEMMA ChargedInit == Init => ChargedInv
<1> SUFFICES ASSUME Init, TypeOK PROVE ChargedInv
  BY InitType
<1>1. ASSUME NEW l \in Limits PROVE Charged(FreshRow(l), carried)
  BY BoundAssumption DEF Init, Charged, FreshRow, Start
<1>2. (CHOOSE l \in Limits : TRUE) \in Limits
  BY LimitAssumption
<1> QED
  BY <1>1, <1>2 DEF Init, ChargedInv, Rest, NoRow

\* Nobody is ever charged more for a window than uploads stamped with that
\* window carried, on any database, with stale clocks, a stale roll and
\* restarts (applyUserQuotaWindowRoll, RollUserQuotaWindows).
THEOREM UsageNeverOvercharged == Spec => []NeverOvercharged
<1>1. Init => ChargedInv
  BY ChargedInit
<1>2. ChargedInv /\ [Next]_vars /\ TypeOK' => ChargedInv'
  BY ChargedStep
<1>3. ChargedInv => NeverOvercharged
  BY DEF ChargedInv, NeverOvercharged, Charged
<1>4. Spec => []TypeOK
  BY TypeCorrect
<1> QED
  BY <1>1, <1>2, <1>3, <1>4, PTL DEF Spec

-----------------------------------------------------------------------------
(* The mark and the list of forwards to resume.                            *)

\* A list only beside the mark.
Recorded(row) == ~row.disabled => row.paused = {}

RecordedInv ==
    /\ TypeOK
    /\ Recorded(quota)
    /\ \A p \in Processes : Recorded(proc[p].row)

\* Mark and list leave the row together, whichever copy of it is written.
THEOREM ListedOnlyWhileDisabled == Spec => []RecordedOnlyWhileDisabled
<1>1. Init => RecordedInv
  <2> SUFFICES ASSUME Init, TypeOK PROVE RecordedInv
    BY InitType
  <2>1. Recorded(quota)
    BY DEF Init, Recorded, FreshRow
  <2>2. Recorded(Rest.row)
    BY DEF Recorded, FreshRow, NoRow, Rest
  <2> QED
    BY <2>1, <2>2 DEF Init, RecordedInv
<1>2. RecordedInv /\ [Next]_vars /\ TypeOK' => RecordedInv'
  <2> SUFFICES ASSUME RecordedInv, [Next]_vars, TypeOK' PROVE RecordedInv'
    OBVIOUS
  <2>1. TypeOK /\ quota \in Rows /\ Recorded(quota)
    BY DEF RecordedInv, TypeOK
  <2>2. Recorded(quota')
    <3>1. ASSUME NEW p \in Processes, AddUsage(p) PROVE Recorded(quota')
      <4>1. quota'.disabled = quota.disabled /\ quota'.paused = quota.paused
        BY <2>1, <3>1 DEF AddUsage, Rolled, Rows
      <4> QED
        BY <2>1, <4>1 DEF Recorded
    <3>2. ASSUME NEW p \in Processes, Reset(p) PROVE Recorded(quota')
      BY <2>1, <3>2 DEF Reset, Recorded, Released, Rolled, Rows
    <3>3. ASSUME RollWrite PROVE Recorded(quota')
      <4>1. proc[Job].row \in Rows /\ Recorded(proc[Job].row)
        BY DEF RecordedInv, TypeOK, Frames, FrameShapes, Processes
      <4> QED
        BY <2>1, <3>3, <4>1 DEF RollWrite, Recorded, Released, Rolled, Rows
    <3>4. ASSUME NEW l \in Limits, quota' = [quota EXCEPT !.limit = l]
          PROVE  Recorded(quota')
      BY <2>1, <3>4 DEF Recorded, Rows
    <3>5. ASSUME NEW fs \in SUBSET Forwards,
                 quota' = [quota EXCEPT !.disabled = TRUE, !.paused = fs]
          PROVE  Recorded(quota')
      BY <2>1, <3>5 DEF Recorded, Rows
    <3> QED
      BY <2>1, <3>1, <3>2, <3>3, <3>4, <3>5, RowMoves
  <2>3. ASSUME NEW p \in Processes PROVE Recorded(proc'[p].row)
    <3>1. proc'[p].row \in {proc[p].row, NoRow, quota}
      BY <2>1, CopiesKept
    <3>2. Recorded(NoRow)
      BY DEF Recorded, NoRow, FreshRow
    <3> QED
      BY <2>1, <3>1, <3>2 DEF RecordedInv
  <2> QED
    BY <2>2, <2>3 DEF RecordedInv
<1>3. RecordedInv => RecordedOnlyWhileDisabled
  BY DEF RecordedInv, Recorded, RecordedOnlyWhileDisabled
<1>4. Spec => []TypeOK
  BY TypeCorrect
<1> QED
  BY <1>1, <1>2, <1>3, <1>4, PTL DEF Spec

\* A process that is about to mark the user, or will list what to pause.
OnTheWay(frame) == frame.enforcing \/ frame.pc = "list"

\* Whoever has marked, may mark or may write a mark back does so after a
\* window really carried as much as a limit.
JustifiedInv ==
    /\ ChargedInv
    /\ quota.disabled => LimitReached
    /\ \A p \in Processes :
          (OnTheWay(proc[p]) \/ proc[p].row.disabled) => LimitReached

\* A limit once reached stays reached in the history.
LEMMA LimitStaysReached ==
    ASSUME TypeOK, TypeOK', [Next]_vars, LimitReached
    PROVE  LimitReached'
<1>1. PICK w \in Windows, t \in 0 .. LastTime, l \in Limits :
         l[w] > 0 /\ carried[w][t] >= l[w]
  BY DEF LimitReached
<1>2. carried[w][t] \in Nat /\ carried'[w][t] \in Nat
  BY BoundAssumption DEF TypeOK
<1>3. carried[w][t] <= carried'[w][t]
  BY CarriedGrows
<1>4. l[w] \in Nat
  BY LimitAssumption
<1>5. carried'[w][t] >= l[w]
  BY <1>1, <1>2, <1>3, <1>4
<1> QED
  BY <1>1, <1>5 DEF LimitReached

\* A row over a limit that charges nothing unjustified has reached it.
LEMMA OverIsReached ==
    ASSUME TypeOK', NEW row \in Rows, Charged(row, carried'), Exceeded(row)
    PROVE  LimitReached'
<1>1. PICK w \in Windows : row.limit[w] > 0 /\ row.used[w] >= row.limit[w]
  BY DEF Exceeded
<1>2. /\ row.limit \in Limits /\ row.limit[w] \in Nat /\ row.used[w] \in Nat
      /\ row.key[w] \in 0 .. LastTime
  BY LimitAssumption, BoundAssumption DEF Rows, Times
<1>3. carried'[w] \in [0 .. LastTime -> 0 .. MaxUsed]
  BY DEF TypeOK
<1>4. carried'[w][row.key[w]] \in Nat
  BY <1>2, <1>3, BoundAssumption
<1>5. carried'[w][row.key[w]] >= row.limit[w]
  BY <1>1, <1>2, <1>4 DEF Charged
<1> QED
  BY <1>1, <1>2, <1>5 DEF LimitReached

\* A process is on the way to the mark only if it was before, or if its
\* upload has just found the row it wrote over a limit.
LEMMA OnTheWayBegins ==
    ASSUME TypeOK, [Next]_vars, NEW p \in Processes, OnTheWay(proc'[p])
    PROVE  \/ OnTheWay(proc[p])
           \/ AddUsage(p) /\ Exceeded(quota')
<1> USE DEF Goto
<1>0. /\ \A q \in Processes : proc[q] \in FrameShapes
      /\ Rest \in FrameShapes /\ ~Rest.enforcing /\ Rest.pc = "idle"
      /\ \A row, t : ~OnTheWay(AfterRelease(row, t))
  <2>1. \A q \in Processes : proc[q] \in FrameShapes
    BY DEF TypeOK, Frames
  <2>2. Rest \in FrameShapes /\ ~Rest.enforcing /\ Rest.pc = "idle"
    BY RestType DEF Frames, Rest
  <2>3. \A row, t : ~OnTheWay(AfterRelease(row, t))
    BY <2>2 DEF AfterRelease, OnTheWay, Rest
  <2> QED
    BY <2>1, <2>2, <2>3
<1>1. ASSUME NEW q \in Processes, NEW fr, Goto(q, fr), OnTheWay(fr) => OnTheWay(proc[q])
      PROVE  OnTheWay(proc[p])
  BY <1>1 DEF TypeOK
<1>2. ASSUME NEW q \in Processes, Request(q) PROVE OnTheWay(proc[p])
  BY <1>0, <1>1, <1>2
     DEF Request, BeginUpload, BeginReset, BeginResume, BeginPause, FrameShapes, OnTheWay
<1>3. ASSUME NEW q \in Processes, AddUsage(q)
      PROVE  OnTheWay(proc[p]) \/ (AddUsage(p) /\ Exceeded(quota'))
  <2>1. CASE Goto(q, Rest)
    BY <1>0, <1>1, <2>1 DEF OnTheWay
  <2>2. CASE Goto(q, [Rest EXCEPT !.pc = "list"]) /\ Exceeded(quota')
    <3>1. CASE p = q
      BY <1>3, <2>2, <3>1
    <3>2. CASE p # q
      BY <2>2, <3>2 DEF TypeOK
    <3> QED
      BY <3>1, <3>2
  <2> QED
    BY <1>3, <2>1, <2>2 DEF AddUsage
<1>4. ASSUME NEW q \in Processes, Step(q), ~AddUsage(q) PROVE OnTheWay(proc[p])
  <2>0. proc[q] \in FrameShapes
    BY <1>0
  <2>1. CASE ListActive(q)
    BY <2>0, <2>1, <1>0, <1>1 DEF ListActive, At, OnTheWay
  <2>2. ASSUME NEW f \in Forwards, SendPause(q, f) PROVE OnTheWay(proc[p])
    BY <2>0, <2>2, <1>1 DEF SendPause, FrameShapes, OnTheWay
  <2>3. CASE RecordPause(q)
    BY <2>0, <2>3, <1>1 DEF RecordPause, FrameShapes, OnTheWay
  <2>4. CASE EndPause(q) \/ EndResume(q)
    BY <2>4, <1>0, <1>1 DEF EndPause, EndResume, OnTheWay
  <2>5. CASE Reset(q)
    <3>1. Goto(q, Rest) \/ \E row : Goto(q, AfterRelease(row, clock))
      BY <2>5 DEF Reset
    <3> QED
      BY <3>1, <1>0, <1>1 DEF OnTheWay
  <2>6. ASSUME NEW f \in Forwards, CheckResume(q, f) PROVE OnTheWay(proc[p])
    BY <2>0, <2>6, <1>1 DEF CheckResume, FrameShapes, OnTheWay
  <2>7. CASE SendResume(q)
    BY <2>0, <2>7, <1>1 DEF SendResume, FrameShapes, OnTheWay
  <2>8. CASE RecordResume(q)
    BY <2>0, <2>8, <1>1 DEF RecordResume, FrameShapes, OnTheWay
  <2> QED
    BY <1>4, <2>1, <2>2, <2>3, <2>4, <2>5, <2>6, <2>7, <2>8 DEF Step
<1>5. ASSUME Roll PROVE OnTheWay(proc[p])
  <2>0. Job \in Processes /\ proc[Job] \in FrameShapes
    BY <1>0 DEF Processes
  <2>1. CASE BeginRoll
    BY <2>0, <2>1, <1>0, <1>1 DEF BeginRoll, FrameShapes, OnTheWay
  <2>2. CASE RollRead
    BY <2>0, <2>2, <1>0, <1>1 DEF RollRead, At, FrameShapes, OnTheWay
  <2>3. CASE RollWrite
    <3>1. Goto(Job, Rest) \/ \E row, t : Goto(Job, AfterRelease(row, t))
      BY <2>3 DEF RollWrite
    <3> QED
      BY <2>0, <3>1, <1>0, <1>1 DEF OnTheWay
  <2> QED
    BY <1>5, <2>1, <2>2, <2>3 DEF Roll
<1>6. CASE Crash
  BY <1>0, <1>6 DEF Crash, OnTheWay
<1>7. CASE UNCHANGED proc
  BY <1>7
<1> QED
  BY <1>2, <1>3, <1>4, <1>5, <1>6, <1>7 DEF Next, vars, SaveConfig, TimePasses

\* A user is never disabled without a window that carried a whole limit, even
\* though the handler that disables decides on a row several steps old
\* (enforceUserQuotaIfNeeded, MarkUserQuotaDisabled, RollUserQuotaWindows).
THEOREM DisabledIsJustified == Spec => []DisabledJustified
<1>1. Init => JustifiedInv
  <2> SUFFICES ASSUME Init PROVE JustifiedInv
    OBVIOUS
  <2>1. ChargedInv
    BY ChargedInit
  <2>2. ~quota.disabled
    BY DEF Init, FreshRow
  <2>3. ~Rest.row.disabled /\ ~OnTheWay(Rest)
    BY DEF Rest, NoRow, FreshRow, OnTheWay
  <2> QED
    BY <2>1, <2>2, <2>3 DEF Init, JustifiedInv
<1>2. JustifiedInv /\ [Next]_vars /\ TypeOK' => JustifiedInv'
  <2> SUFFICES ASSUME JustifiedInv, [Next]_vars, TypeOK' PROVE JustifiedInv'
    OBVIOUS
  <2>1. TypeOK /\ ChargedInv /\ ChargedInv'
    BY ChargedStep DEF JustifiedInv, ChargedInv
  <2>2. LimitReached => LimitReached'
    BY <2>1, LimitStaysReached
  <2>3. ASSUME NEW p \in Processes, OnTheWay(proc'[p]) PROVE LimitReached'
    <3>1. CASE OnTheWay(proc[p])
      BY <2>2, <3>1 DEF JustifiedInv
    <3>2. CASE Exceeded(quota')
      <4>1. quota' \in Rows /\ Charged(quota', carried')
        BY <2>1 DEF ChargedInv, TypeOK
      <4> QED
        BY <3>2, <4>1, OverIsReached
    <3> QED
      BY <2>1, <2>3, <3>1, <3>2, OnTheWayBegins
  <2>4. ASSUME NEW p \in Processes, proc'[p].row.disabled PROVE LimitReached'
    <3>1. proc'[p].row \in {proc[p].row, NoRow, quota}
      BY <2>1, CopiesKept
    <3>2. ~NoRow.disabled
      BY DEF NoRow, FreshRow
    <3> QED
      BY <2>2, <2>4, <3>1, <3>2 DEF JustifiedInv
  <2>5. ASSUME quota'.disabled PROVE LimitReached'
    <3>0. quota \in Rows
      BY <2>1 DEF TypeOK
    <3>1. CASE quota.disabled
      BY <2>2, <3>1 DEF JustifiedInv
    <3>2. ASSUME NEW p \in Processes, AddUsage(p) PROVE LimitReached'
      <4>1. quota'.disabled = quota.disabled
        BY <3>0, <3>2 DEF AddUsage, Rolled, Rows
      <4> QED
        BY <2>5, <3>1, <4>1
    <3>3. ASSUME NEW p \in Processes, Reset(p) PROVE LimitReached'
      <4>1. quota'.disabled => quota.disabled
        BY <3>0, <3>3 DEF Reset, Released, Rolled, Rows
      <4> QED
        BY <2>5, <3>1, <4>1
    <3>4. ASSUME RollWrite PROVE LimitReached'
      <4>1. Job \in Processes /\ proc[Job].row \in Rows
        BY <2>1 DEF TypeOK, Frames, FrameShapes, Processes
      <4>2. quota'.disabled => quota.disabled \/ proc[Job].row.disabled
        BY <3>0, <3>4, <4>1 DEF RollWrite, Released, Rolled, Rows
      <4> QED
        BY <2>2, <2>5, <4>1, <4>2 DEF JustifiedInv
    <3>5. ASSUME NEW p \in Processes, EndPause(p) PROVE LimitReached'
      BY <2>2, <2>5, <3>1, <3>5 DEF EndPause, OnTheWay, JustifiedInv
    <3>6. ASSUME SaveConfig PROVE LimitReached'
      BY <2>5, <3>0, <3>1, <3>6 DEF SaveConfig, Rows
    <3>7. CASE UNCHANGED quota
      BY <2>5, <3>1, <3>7
    <3> QED
      BY <3>2, <3>3, <3>4, <3>5, <3>6, <3>7
         DEF Next, vars, Request, Step, Roll, BeginUpload, BeginReset, BeginResume,
             BeginPause, ListActive, SendPause, RecordPause, CheckResume, SendResume,
             RecordResume, EndResume, BeginRoll, RollRead, TimePasses, Crash
  <2> QED
    BY <2>1, <2>3, <2>4, <2>5 DEF JustifiedInv
<1>3. JustifiedInv => DisabledJustified
  BY DEF JustifiedInv, DisabledJustified
<1>4. Spec => []TypeOK
  BY TypeCorrect
<1> QED
  BY <1>1, <1>2, <1>3, <1>4, PTL DEF Spec

\* A disabled user has used up a limit, and forwards are listed for resuming only
\* while the user is disabled.
THEOREM MarkHolds == Spec => []MarkIsJustified
BY ListedOnlyWhileDisabled, DisabledIsJustified, PTL DEF MarkIsJustified
=============================================================================

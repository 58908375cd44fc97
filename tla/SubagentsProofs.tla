--------------------------- MODULE SubagentsProofs ---------------------------
(* Theorems about Subagents, for any children, threads, tools, commands and  *)
(* bounds.                                                                    *)
EXTENDS Subagents, TLAPS

(***************************************************************************)
(* What the agent and the threads may become, and the helpers.             *)
(***************************************************************************)

MayBe(p, r) ==
  /\ r \in Proc
  /\ r.pc \in KidPcs => r.kid \in Kids
  /\ p = Agent => /\ r.pc \in AgentPcs \cup Pcs
                  /\ r.op \in AllCalls \cup {"none"}
                  /\ r.pc = "off" => ~mainOn
  /\ p \in Threads => r.pc \in ThreadPcs \cup Pcs

LEMMA Put ==
  ASSUME TypeOK, NEW p \in Procs, NEW r, MayBe(p, r),
         proc' = [proc EXCEPT ![p] = r], UNCHANGED mainOn
  PROVE  ProcOK'
<1>1. proc \in [Procs -> Proc] /\ Agent \in Procs /\ Threads \subseteq Procs
  BY DEF TypeOK, ProcOK, Procs
<1>2. proc' \in [Procs -> Proc]
  BY <1>1 DEF MayBe
<1>3. \A q \in Procs : proc'[q] = IF q = p THEN r ELSE proc[q]
  BY <1>1
<1> QED
  BY <1>1, <1>2, <1>3 DEF TypeOK, ProcOK, MayBe

LEMMA Is0 ==
  ASSUME TypeOK, NEW p \in Procs
  PROVE  MayBe(p, proc[p]) /\ proc[p] \in Proc
BY DEF TypeOK, ProcOK, MayBe, Procs

\* A fresh record of a command, a tool or none.
LEMMA At0Type ==
  ASSUME SubagentsAssumption, NEW pc \in AgentPcs \cup ThreadPcs \cup Pcs,
         NEW op \in AllCalls \cup AllOps \cup {"none"},
         NEW k \in Kids \cup {NoKid}
  PROVE  /\ At0(pc, op, k) \in Proc
         /\ At0(pc, op, k).pc = pc /\ At0(pc, op, k).op = op
         /\ At0(pc, op, k).kid = k /\ At0(pc, op, k).list = {}
BY DEF At0, Proc, SubagentsAssumption, Statuses, Banners

LEMMA GotoType ==
  ASSUME TypeOK, NEW p \in Procs, NEW pc \in AgentPcs \cup ThreadPcs \cup Pcs,
         p = Agent => pc \in (AgentPcs \cup Pcs) \ {"off"},
         p \in Threads => pc \in ThreadPcs \cup Pcs,
         pc \in KidPcs => Kid(p) \in Kids,
         Goto(p, pc), UNCHANGED mainOn
  PROVE  ProcOK'
<1> DEFINE r == [proc[p] EXCEPT !.pc = pc]
<1>1. proc[p] \in Proc /\ MayBe(p, proc[p])
  BY Is0
<1>2. r \in Proc /\ r.pc = pc /\ r.op = proc[p].op /\ r.kid = Kid(p)
  BY <1>1 DEF Proc, Kid
<1>3. MayBe(p, r)
  BY <1>1, <1>2 DEF MayBe
<1>4. proc' = [proc EXCEPT ![p] = r]
  BY DEF Goto
<1> QED
  BY <1>3, <1>4, Put

\* A fresh record names a child where it must, if it is given one.
LEMMA FreshType ==
  ASSUME SubagentsAssumption, NEW p \in Procs, NEW pc \in AgentPcs \cup ThreadPcs \cup Pcs,
         NEW op \in AllCalls \cup AllOps \cup {"none"},
         NEW k \in Kids \cup {NoKid},
         pc \in KidPcs => k \in Kids,
         p = Agent => /\ pc \in AgentPcs \cup Pcs /\ op \in AllCalls \cup {"none"}
                      /\ pc = "off" => ~mainOn,
         p \in Threads => pc \in ThreadPcs \cup Pcs
  PROVE  MayBe(p, At0(pc, op, k))
BY At0Type DEF MayBe

LEMMA OverType ==
  ASSUME SubagentsAssumption, TypeOK, NEW p \in Procs
  PROVE  MayBe(p, Over(p))
<1>1. /\ {"think", "off"} \subseteq AgentPcs \ KidPcs
      /\ "idle" \in ThreadPcs \ KidPcs
  BY DEF AgentPcs, ThreadPcs, KidPcs, Pcs
<1>2. CASE p = Agent
  <2>1. p \notin Threads
    BY <1>2 DEF SubagentsAssumption
  <2>2. mainOn => MayBe(p, At0("think", "none", NoKid))
    BY <1>1, <1>2, <2>1, FreshType
  <2>3. ~mainOn => MayBe(p, At0("off", "none", NoKid))
    BY <1>1, <1>2, <2>1, FreshType
  <2> QED
    BY <1>2, <2>2, <2>3 DEF Over
<1>3. CASE p # Agent
  BY <1>1, <1>3, FreshType DEF Over
<1> QED
  BY <1>2, <1>3

LEMMA ReturnType ==
  ASSUME SubagentsAssumption, TypeOK, NEW p \in Procs, Return(p), UNCHANGED mainOn
  PROVE  ProcOK'
<1>1. proc[p] \in Proc /\ MayBe(p, proc[p])
  BY Is0
<1>2. CASE proc[p].op \in Lists
  <2> DEFINE a == At0("next", proc[p].op, NoKid)
             r == [a EXCEPT !.list = proc[p].list]
  <2>1. p # Agent
    BY <1>1, <1>2 DEF MayBe, Lists, AllCalls
  <2>2. a \in Proc /\ a.pc = "next"
    <3>1. proc[p].op \in AllOps /\ "next" \in ThreadPcs
      BY <1>2 DEF Lists, AllOps, ThreadPcs
    <3> QED
      BY <3>1, At0Type
  <2>3. r \in Proc /\ r.pc = "next"
    BY <1>1, <2>2 DEF Proc
  <2>4. MayBe(p, r)
    BY <2>1, <2>3 DEF MayBe, ThreadPcs, KidPcs, Pcs
  <2>5. proc' = [proc EXCEPT ![p] = r]
    BY <1>2 DEF Return
  <2> QED
    BY <2>4, <2>5, Put
<1>3. CASE proc[p].op \notin Lists
  BY <1>3, OverType, Put DEF Return
<1> QED
  BY <1>2, <1>3

LEMMA SetStatusType ==
  ASSUME TypeOK, NEW k \in Kids, NEW new \in Statuses
  PROVE  SetStatus(k, new) \in Statuses
BY DEF TypeOK, SetStatus, Statuses, Terminal

LEMMA Names ==
  /\ {"active", "running", "deleted", "completed", "failed", "interrupted",
      "cancelled", "unborn"} \subseteq Statuses
BY DEF Statuses, Terminal

(***************************************************************************)
(* Types.                                                                  *)
(***************************************************************************)

LEMMA InitType == SubagentsAssumption /\ Init => TypeOK
<1> SUFFICES ASSUME SubagentsAssumption, Init PROVE TypeOK
  OBVIOUS
<1>1. \A p \in Procs : proc[p] = At0(IF p = Agent THEN "off" ELSE "idle", "none", NoKid)
  BY DEF Init
<1>2. \A p \in Procs : proc[p] \in Proc /\ proc[p].op = "none"
                       /\ proc[p].pc = IF p = Agent THEN "off" ELSE "idle"
  BY <1>1, At0Type DEF AgentPcs, ThreadPcs
<1>3. ProcOK
  <2>1. proc \in [Procs -> Proc]
    BY <1>2 DEF Init
  <2>2. Agent \in Procs /\ Threads \subseteq Procs /\ Agent \notin Threads
    BY DEF Procs, SubagentsAssumption
  <2> QED
    BY <1>2, <2>1, <2>2 DEF Init, ProcOK, AgentPcs, ThreadPcs, KidPcs, Pcs
<1>4. status \in [Kids -> Statuses]
  BY DEF Init, Statuses
<1>5. calls \in 0..MaxCalls /\ cmds \in 0..MaxCmds
  BY DEF Init, SubagentsAssumption
<1> QED
  BY <1>3, <1>4, <1>5 DEF Init, TypeOK

\* A child's loop touches neither the agent nor the threads.
LEMMA KidType ==
  ASSUME TypeOK, NEW k \in Kids, KidStep(k)
  PROVE  TypeOK'
<1>1. UNCHANGED <<mainOn, proc, calls, cmds>>
  BY DEF KidStep, WriteReport, AskUser, Answered, TimesOut, AnsweredLate, EndRun, Settle, counts
<1>2. ProcOK'
  BY <1>1 DEF TypeOK, ProcOK
<1>3. Settled(k) \in Statuses /\ SettledUnder(k) \in Statuses
  <2>1. /\ "completed" \in Statuses /\ "interrupted" \in Statuses
        /\ "failed" \in Statuses /\ "cancelled" \in Statuses
    BY Names
  <2>2. \A new \in {"completed", "failed", "interrupted", "cancelled"} :
          SetStatus(k, new) \in Statuses
    BY <2>1, SetStatusType
  <2> QED
    BY <2>1, <2>2 DEF Settled, SettledUnder, TypeOK
<1>4. CASE WriteReport(k)
  BY <1>1, <1>2, <1>4 DEF WriteReport, TypeOK
<1>5. CASE AskUser(k) \/ Answered(k) \/ TimesOut(k) \/ AnsweredLate(k)
  BY <1>1, <1>2, <1>5 DEF AskUser, Answered, TimesOut, AnsweredLate, TypeOK
<1>6. CASE EndRun(k)
  BY <1>1, <1>2, <1>6 DEF EndRun, TypeOK
<1>7. CASE Settle(k)
  BY <1>1, <1>2, <1>3, <1>7 DEF Settle, TypeOK
<1> QED
  BY <1>4, <1>5, <1>6, <1>7 DEF KidStep

\* The steps that leave the children and the bounds alone.
LEMMA Framed ==
  ASSUME TypeOK, UNCHANGED <<kidVars, counts>>, ProcOK', mainOn' \in BOOLEAN
  PROVE  TypeOK'
BY DEF TypeOK, kidVars, counts

LEMMA KidOf ==
  ASSUME TypeOK, NEW p \in Procs
  PROVE  Kid(p) \in Kids \cup {NoKid} /\ proc[p].list \in SUBSET (Kids \X Statuses)
BY Is0 DEF Kid, Proc

\* A write to the row of p's child.
LEMMA WriteType ==
  ASSUME TypeOK, NEW p \in Procs, NEW new \in Statuses,
         status' = [status EXCEPT ![Kid(p)] = SetStatus(Kid(p), new)]
  PROVE  status' \in [Kids -> Statuses]
<1>1. status \in [Kids -> Statuses]
  BY DEF TypeOK
<1>2. CASE Kid(p) \in Kids
  <2>1. SetStatus(Kid(p), new) \in Statuses
    BY <1>2, SetStatusType
  <2> QED
    BY <1>1, <2>1
<1>3. CASE Kid(p) \notin Kids
  BY <1>1, <1>3
<1> QED
  BY <1>2, <1>3

LEMMA SharedType ==
  ASSUME SubagentsAssumption, TypeOK, NEW p \in Procs, Shared(p)
  PROVE  TypeOK'
<1>1. UNCHANGED <<mainOn, calls, cmds>> /\ mainOn \in BOOLEAN
  BY DEF Shared, Start, SpawnInsert, StopMark, StopClear, StopAbort, RestartRead,
         RestartDecide, RestartMark, counts, kidVars, TypeOK
<1>2. proc[p] \in Proc /\ MayBe(p, proc[p])
  BY Is0
<1>3. \A pc \in Pcs : pc \in AgentPcs \cup ThreadPcs \cup Pcs /\ pc # "off"
  BY DEF Pcs
<1>4. ASSUME NEW pc \in Pcs, Goto(p, pc), Kid(p) \in Kids PROVE ProcOK'
  BY <1>1, <1>3, <1>4, GotoType
<1>14. proc[p].pc \in KidPcs => Kid(p) \in Kids
  BY <1>2 DEF MayBe, Kid
<1>5. Return(p) => ProcOK'
  BY <1>1, ReturnType
<1>6. CASE Start(p)
  BY <1>1, <1>5, <1>6 DEF Start, TypeOK
<1>7. CASE SpawnInsert(p)
  <2>1. PICK k \in Kids :
          /\ status[k] = "unborn"
          /\ status' = [status EXCEPT ![k] = "active"]
          /\ proc' = [proc EXCEPT ![p].pc = "start", ![p].kid = k]
    BY <1>7 DEF SpawnInsert
  <2> DEFINE r == [proc[p] EXCEPT !.pc = "start", !.kid = k]
  <2>2. r \in Proc /\ r.pc = "start" /\ r.op = proc[p].op /\ r.kid = k
    BY <1>2 DEF Proc, Pcs
  <2>3. MayBe(p, r)
    BY <1>2, <2>2 DEF MayBe, Pcs
  <2>4. proc' = [proc EXCEPT ![p] = r]
    BY <2>1
  <2>5. ProcOK'
    BY <1>1, <2>3, <2>4, Put
  <2>6. status' \in [Kids -> Statuses]
    BY <2>1, Names DEF TypeOK
  <2> QED
    BY <1>1, <1>7, <2>5, <2>6 DEF SpawnInsert, TypeOK
<1>8. CASE StopMark(p)
  <2>1. status' \in [Kids -> Statuses]
    BY <1>8, WriteType, Names DEF StopMark
  <2>2. ProcOK'
    BY <1>4, <1>8, <1>14 DEF StopMark, Pcs, KidPcs, Is
  <2> QED
    BY <1>1, <1>8, <2>1, <2>2 DEF StopMark, TypeOK
<1>9. CASE StopClear(p)
  <2>1. ProcOK'
    BY <1>4, <1>9, <1>14 DEF StopClear, Pcs, KidPcs, Is
  <2> QED
    BY <1>1, <1>9, <2>1 DEF StopClear, TypeOK
<1>10. CASE StopAbort(p)
  <2>3. Kid(p) \in Kids
    BY <1>10, <1>14 DEF StopAbort, Is, KidPcs, Pcs
  <2>1. ProcOK'
    <3>1. CASE Goto(p, "restartRead") \/ Goto(p, "rejectClear")
      BY <1>4, <2>3, <3>1 DEF Pcs
    <3>2. CASE proc[p].op \in {"delete", "retry"} /\ Goto(p, "deleteRow")
      <4>1. p # Agent
        BY <1>2, <3>2 DEF MayBe, AllCalls
      <4> QED
        BY <1>1, <2>3, <3>2, <4>1, GotoType DEF ThreadPcs
    <3> QED
      BY <1>5, <1>10, <3>1, <3>2 DEF StopAbort
  <2>2. halted' \subseteq Kids
    BY <1>10, <2>3 DEF StopAbort, TypeOK
  <2> QED
    BY <1>1, <1>10, <2>1, <2>2 DEF StopAbort, TypeOK
<1>11. CASE RestartRead(p)
  <2>1. CASE Kid(p) \in Rows
    <3> DEFINE r == [proc[p] EXCEPT !.pc = "restartDecide", !.seen = status[Kid(p)]]
    <3>1. status[Kid(p)] \in Statuses
      BY <2>1 DEF Rows, TypeOK
    <3>2. r \in Proc /\ r.pc = "restartDecide" /\ r.op = proc[p].op /\ r.kid = Kid(p)
      BY <1>2, <3>1 DEF Proc, Pcs, Kid
    <3>3. MayBe(p, r)
      BY <1>2, <1>14, <1>11, <3>2 DEF MayBe, Pcs, KidPcs, RestartRead, Is
    <3>4. proc' = [proc EXCEPT ![p] = r]
      BY <1>11, <2>1 DEF RestartRead
    <3>5. ProcOK'
      BY <1>1, <3>3, <3>4, Put
    <3> QED
      BY <1>1, <1>11, <3>5, Framed DEF RestartRead
  <2>2. CASE Kid(p) \notin Rows
    BY <1>1, <1>5, <1>11, <2>2, Framed DEF RestartRead
  <2> QED
    BY <2>1, <2>2
<1>12. CASE RestartDecide(p)
  <2>1. CASE ~Refused(p)
    <3> DEFINE r == [proc[p] EXCEPT !.pc = "restartMark", !.seen = "unborn"]
    <3>1. r \in Proc /\ r.pc = "restartMark" /\ r.op = proc[p].op /\ r.kid = Kid(p)
      BY <1>2, Names DEF Proc, Pcs, Kid
    <3>2. MayBe(p, r)
      BY <1>2, <1>14, <1>12, <3>1 DEF MayBe, Pcs, KidPcs, RestartDecide, Is
    <3>3. proc' = [proc EXCEPT ![p] = r]
      BY <1>12, <2>1 DEF RestartDecide
    <3>4. ProcOK'
      BY <1>1, <3>2, <3>3, Put
    <3> QED
      BY <1>1, <1>12, <3>4, Framed DEF RestartDecide
  <2>2. CASE Refused(p)
    BY <1>1, <1>5, <1>12, <2>2, Framed DEF RestartDecide
  <2> QED
    BY <2>1, <2>2
<1>13. CASE RestartMark(p)
  <2>1. status' \in [Kids -> Statuses]
    BY <1>13, WriteType, Names DEF RestartMark
  <2>2. ProcOK'
    BY <1>4, <1>13, <1>14 DEF RestartMark, Pcs, KidPcs, Is
  <2> QED
    BY <1>1, <1>13, <2>1, <2>2 DEF RestartMark, TypeOK
<1> QED
  BY <1>6, <1>7, <1>8, <1>9, <1>10, <1>11, <1>12, <1>13 DEF Shared

LEMMA CallToolType ==
  ASSUME SubagentsAssumption, TypeOK, CallTool
  PROVE  TypeOK'
<1>1. calls' \in 0..MaxCalls /\ UNCHANGED <<kidVars, mainOn, cmds>>
  BY DEF CallTool, TypeOK, SubagentsAssumption
<1>2. Agent \in Procs /\ Agent \notin Threads
  BY DEF Procs, SubagentsAssumption
<1>3. /\ {"spawnCheck", "stopMark", "stopClear", "rejectCheck", "dispatchCheck"} \subseteq Pcs
      /\ {"spawnCheck", "waitList", "stopMark", "stopClear", "rejectCheck",
          "dispatchCheck"} \subseteq (AgentPcs \cup Pcs) \ {"off"}
      /\ "spawnCheck" \notin KidPcs /\ "waitList" \notin KidPcs
      /\ {"spawn", "wait", "waitCollabs", "stop", "restart", "reject", "dispatch"}
           \subseteq AllCalls
  BY DEF AgentPcs, Pcs, KidPcs, AllCalls
<1>4. \A k \in Rows : k \in Kids
  BY DEF Rows
<1>5. PICK r : proc' = [proc EXCEPT ![Agent] = r] /\ MayBe(Agent, r)
  <2>1. CASE proc' = [proc EXCEPT ![Agent] = At0("spawnCheck", "spawn", NoKid)]
    BY <1>2, <1>3, <2>1, FreshType
  <2>2. CASE \E op \in Calls \cap {"wait", "waitCollabs"} :
               proc' = [proc EXCEPT ![Agent] = At0("waitList", op, NoKid)]
    <3>1. PICK op \in {"wait", "waitCollabs"} :
            proc' = [proc EXCEPT ![Agent] = At0("waitList", op, NoKid)]
      BY <2>2
    <3> QED
      BY <1>2, <1>3, <3>1, FreshType
  <2>3. CASE \E k \in Rows :
               \/ proc' = [proc EXCEPT ![Agent] = At0("stopMark", "stop", k)]
               \/ proc' = [proc EXCEPT ![Agent] = At0("stopClear", "restart", k)]
               \/ proc' = [proc EXCEPT ![Agent] = At0("rejectCheck", "reject", k)]
               \/ proc' = [proc EXCEPT ![Agent] = At0("dispatchCheck", "dispatch", k)]
    BY <1>2, <1>3, <1>4, <2>3, FreshType
  <2> QED
    BY <2>1, <2>2, <2>3 DEF CallTool
<1>6. ProcOK'
  BY <1>1, <1>2, <1>5, Put
<1> QED
  BY <1>1, <1>6 DEF TypeOK, kidVars

LEMMA TurnEndsType ==
  ASSUME SubagentsAssumption, TypeOK, TurnEnds
  PROVE  TypeOK'
<1> DEFINE r == At0("off", "none", NoKid)
<1>1. r \in Proc /\ r.pc = "off" /\ r.op = "none"
  <2>1. "off" \in AgentPcs
    BY DEF AgentPcs
  <2> QED
    BY <2>1, At0Type
<1>2. proc \in [Procs -> Proc] /\ Agent \in Procs /\ Agent \notin Threads
  BY DEF TypeOK, ProcOK, Procs, SubagentsAssumption
<1>3. proc' = [proc EXCEPT ![Agent] = r] /\ ~mainOn'
  BY DEF TurnEnds
<1>4. proc' \in [Procs -> Proc] /\ \A q \in Procs : proc'[q] = IF q = Agent THEN r ELSE proc[q]
  BY <1>1, <1>2, <1>3
<1>5. ProcOK'
  BY <1>1, <1>2, <1>3, <1>4 DEF TypeOK, ProcOK, Procs, AgentPcs, KidPcs, Pcs
<1> QED
  BY <1>3, <1>5, Framed DEF TurnEnds

LEMMA ToolType ==
  ASSUME SubagentsAssumption, TypeOK, ToolStep
  PROVE  TypeOK'
<1>1. Agent \in Procs /\ Agent \notin Threads
  BY DEF Procs, SubagentsAssumption
<1>2. proc[Agent] \in Proc /\ MayBe(Agent, proc[Agent])
  BY <1>1, Is0
<1>3. mainOn \in BOOLEAN
  BY DEF TypeOK
<1>4. proc[Agent].pc \in KidPcs => Kid(Agent) \in Kids
  BY <1>2 DEF MayBe, Kid
<1>5. ASSUME NEW pc \in (AgentPcs \cup Pcs) \ {"off"}, Goto(Agent, pc),
             pc \in KidPcs => Kid(Agent) \in Kids, UNCHANGED mainOn
      PROVE  ProcOK'
  BY <1>1, <1>5, GotoType
<1>6. Return(Agent) /\ UNCHANGED mainOn => ProcOK'
  BY <1>1, ReturnType
<1>7. CASE Shared(Agent)
  BY <1>1, <1>7, SharedType
<1>8. CASE SpawnCheck
  <2>1. Goto(Agent, "spawnInsert") /\ UNCHANGED mainOn => ProcOK'
    BY <1>5 DEF Pcs, AgentPcs, KidPcs
  <2> QED
    BY <1>3, <1>6, <1>8, <2>1, Framed DEF SpawnCheck
<1>9. CASE RejectCheck
  <2>1. Goto(Agent, "stopClear") /\ UNCHANGED mainOn => ProcOK'
    BY <1>4, <1>5, <1>9 DEF RejectCheck, Is, Pcs, AgentPcs, KidPcs
  <2> QED
    BY <1>3, <1>6, <1>9, <2>1, Framed DEF RejectCheck
<1>10. CASE RejectClear
  <2>1. Goto(Agent, "rejectMark") /\ UNCHANGED mainOn => ProcOK'
    BY <1>4, <1>5, <1>10 DEF RejectClear, Is, Pcs, AgentPcs, KidPcs
  <2>2. ProcOK'
    BY <1>6, <1>10, <2>1 DEF RejectClear
  <2>3. cleared' \in [Kids -> BOOLEAN] /\ report' \in [Kids -> {"nowhere", "none", "old", "new"}]
    <3>1. CASE Kid(Agent) \in Rows
      <4>1. cleared \in [Kids -> BOOLEAN] /\ report \in [Kids -> {"nowhere", "none", "old", "new"}]
        BY DEF TypeOK
      <4>2. /\ cleared' = [cleared EXCEPT ![Kid(Agent)] = TRUE]
            /\ \E v \in {"nowhere", "none", "old", "new"} : report' = [report EXCEPT ![Kid(Agent)] = v]
        BY <1>10, <3>1, <4>1 DEF RejectClear, Rows
      <4> QED
        BY <4>1, <4>2
    <3>2. CASE Kid(Agent) \notin Rows
      BY <1>10, <3>2 DEF RejectClear, TypeOK
    <3> QED
      BY <3>1, <3>2
  <2>4. UNCHANGED <<status, stale, work, tail, halted, mainOn, calls, cmds>>
    BY <1>10 DEF RejectClear, counts
  <2> QED
    BY <2>2, <2>3, <2>4 DEF TypeOK
<1>11. CASE RejectMark
  <2>1. Goto(Agent, "start") /\ UNCHANGED mainOn => ProcOK'
    BY <1>4, <1>5, <1>11 DEF RejectMark, Is, Pcs, AgentPcs, KidPcs
  <2>2. status' \in [Kids -> Statuses]
    BY <1>1, <1>11, WriteType, Names DEF RejectMark
  <2> QED
    BY <1>11, <2>1, <2>2 DEF RejectMark, TypeOK, counts
<1>12. CASE DispatchCheck
  <2>1. Goto(Agent, "start") /\ UNCHANGED mainOn => ProcOK'
    BY <1>4, <1>5, <1>12 DEF DispatchCheck, Is, Pcs, AgentPcs, KidPcs
  <2> QED
    BY <1>3, <1>6, <1>12, <2>1, Framed DEF DispatchCheck
<1>13. CASE WaitList
  <2>1. PICK S \in SUBSET Rows :
          IF S = {} THEN Return(Agent)
          ELSE proc' = [proc EXCEPT ![Agent].pc = "poll", ![Agent].list = Unread(S)]
    <3>1. (IF proc[Agent].op = "wait" THEN Rows ELSE Rows \cap Residents) \subseteq Rows
      OBVIOUS
    <3> QED
      BY <1>13, <3>1 DEF WaitList
  <2>2. CASE S # {}
    <3> DEFINE r == [proc[Agent] EXCEPT !.pc = "poll", !.list = Unread(S)]
    <3>1. Unread(S) \in SUBSET (Kids \X Statuses)
      BY DEF Unread, Rows, Statuses
    <3>2. r \in Proc /\ r.pc = "poll" /\ r.op = proc[Agent].op
      BY <1>2, <3>1 DEF Proc, AgentPcs
    <3>3. MayBe(Agent, r)
      BY <1>1, <1>2, <3>2 DEF MayBe, AgentPcs, KidPcs, Pcs
    <3>4. proc' = [proc EXCEPT ![Agent] = r]
      BY <2>1, <2>2
    <3>5. ProcOK'
      BY <1>1, <1>13, <3>3, <3>4, Put DEF WaitList
    <3> QED
      BY <1>3, <1>13, <3>5, Framed DEF WaitList
  <2>3. CASE S = {}
    BY <1>3, <1>6, <1>13, <2>1, <2>3, Framed DEF WaitList
  <2> QED
    BY <2>2, <2>3
<1>14. CASE Poll
  <2>1. Goto(Agent, "collect") => ProcOK'
    BY <1>5, <1>14 DEF Poll, AgentPcs, KidPcs, Pcs
  <2>2. CASE /\ mainOn
             /\ proc' = [proc EXCEPT ![Agent] = [@ EXCEPT !.pc = "sleep"]]
    <3>1. Goto(Agent, "sleep")
      BY <2>2 DEF Goto
    <3> QED
      BY <1>3, <1>5, <1>14, <3>1, Framed DEF Poll, AgentPcs, KidPcs, Pcs
  <2>3. CASE /\ ~mainOn
             /\ proc' = [proc EXCEPT ![Agent] = Over(Agent)]
    <3>1. ProcOK'
      BY <1>1, <1>14, <2>3, OverType, Put DEF Poll
    <3> QED
      BY <1>3, <1>14, <3>1, Framed DEF Poll
  <2> QED
    BY <1>3, <1>14, <2>1, <2>2, <2>3, Framed DEF Poll
<1>15. CASE Wake
  <2> DEFINE r == [proc[Agent] EXCEPT !.pc = "poll",
                                      !.polls = IF TimedOut THEN @ ELSE @ + 1]
  <2>1. r \in Proc /\ r.pc = "poll" /\ r.op = proc[Agent].op
    <3>1. proc[Agent].polls \in 0..MaxPolls /\ MaxPolls \in Nat
      BY <1>2 DEF Proc, SubagentsAssumption
    <3>2. (IF TimedOut THEN proc[Agent].polls ELSE proc[Agent].polls + 1) \in 0..MaxPolls
      BY <3>1 DEF TimedOut
    <3> QED
      BY <1>2, <3>2 DEF Proc, AgentPcs
  <2>2. MayBe(Agent, r)
    BY <1>1, <1>2, <2>1 DEF MayBe, AgentPcs, KidPcs, Pcs
  <2>3. proc' = [proc EXCEPT ![Agent] = r]
    BY <1>15 DEF Wake
  <2>4. ProcOK'
    BY <1>1, <1>15, <2>2, <2>3, Put DEF Wake
  <2> QED
    BY <1>3, <1>15, <2>4, Framed DEF Wake
<1>16. CASE Collect
  <2>1. Advice \in Banners
    BY DEF Advice, Banners
  <2> DEFINE r == [proc[Agent] EXCEPT !.pc = "told", !.says = Advice]
  <2>2. r \in Proc /\ r.pc = "told" /\ r.op = proc[Agent].op
    BY <1>2, <2>1 DEF Proc, AgentPcs
  <2>3. MayBe(Agent, r)
    BY <1>1, <1>2, <2>2 DEF MayBe, AgentPcs, KidPcs, Pcs
  <2>4. proc' = [proc EXCEPT ![Agent] = r]
    BY <1>16 DEF Collect
  <2>5. ProcOK'
    BY <1>1, <1>16, <2>3, <2>4, Put DEF Collect
  <2> QED
    BY <1>3, <1>16, <2>5, Framed DEF Collect
<1>17. CASE Told
  BY <1>3, <1>6, <1>17, Framed DEF Told
<1> QED
  BY <1>7, <1>8, <1>9, <1>10, <1>11, <1>12, <1>13, <1>14, <1>15, <1>16, <1>17
     DEF ToolStep

LEMMA IssueType ==
  ASSUME SubagentsAssumption, TypeOK, NEW t \in Threads, Issue(t)
  PROVE  TypeOK'
<1>1. cmds' \in 0..MaxCmds /\ UNCHANGED <<kidVars, mainOn, calls>>
  BY DEF Issue, TypeOK, SubagentsAssumption
<1>2. t \in Procs /\ t # Agent
  BY DEF Procs, SubagentsAssumption
<1>3. /\ {"spawnInsert", "mainStart", "mainAbort", "list", "stopMark", "stopClear", "start"}
           \subseteq ThreadPcs \cup Pcs
      /\ {"spawnInsert", "mainStart", "mainAbort", "list"} \cap KidPcs = {}
  BY DEF ThreadPcs, Pcs, KidPcs
<1>4. /\ \A k \in Rows : k \in Kids
      /\ \A op \in Ops : op \in AllOps
  BY DEF Rows, SubagentsAssumption
<1>5. PICK pc \in {"spawnInsert", "mainStart", "mainAbort", "list", "stopMark",
                   "stopClear", "start"},
           op \in Ops, k \in Kids \cup {NoKid} :
        /\ Begin(t, At0(pc, op, k))
        /\ pc \in KidPcs => k \in Kids
  BY <1>3, <1>4 DEF Issue
<1>6. MayBe(t, At0(pc, op, k))
  BY <1>2, <1>3, <1>4, <1>5, FreshType
<1>7. ProcOK'
  BY <1>1, <1>2, <1>5, <1>6, Put DEF Begin
<1> QED
  BY <1>1, <1>7 DEF TypeOK, kidVars

LEMMA CmdType ==
  ASSUME SubagentsAssumption, TypeOK, NEW t \in Threads, CmdStep(t)
  PROVE  TypeOK'
<1>1. t \in Procs /\ t # Agent /\ Agent \in Procs /\ Agent \notin Threads
  BY DEF Procs, SubagentsAssumption
<1>2. proc[t] \in Proc /\ MayBe(t, proc[t])
  BY <1>1, Is0
<1>3. mainOn \in BOOLEAN
  BY DEF TypeOK
<1>4. MayBe(t, Over(t))
  BY <1>1, OverType
<1>5. ASSUME NEW pc \in ThreadPcs \ KidPcs, Goto(t, pc), UNCHANGED mainOn
      PROVE  ProcOK'
  BY <1>1, <1>5, GotoType
<1>6. CASE Shared(t)
  BY <1>1, <1>6, SharedType
<1>7. CASE List(t)
  <2> DEFINE Of(S) == IF proc[t].op = "cascade" THEN Listed(S) ELSE Unread(S)
  <2>1. PICK S \in SUBSET Rows :
          proc' = [proc EXCEPT ![t].pc = "next", ![t].list = Of(S)]
    BY <1>7 DEF List
  <2> DEFINE r == [proc[t] EXCEPT !.pc = "next", !.list = Of(S)]
  <2>2. Of(S) \in SUBSET (Kids \X Statuses)
    BY DEF Listed, Unread, Rows, Statuses, TypeOK
  <2>3. r \in Proc /\ r.pc = "next"
    BY <1>2, <2>2 DEF Proc, ThreadPcs
  <2>4. MayBe(t, r)
    BY <1>1, <2>3 DEF MayBe, ThreadPcs, KidPcs, Pcs
  <2>5. proc' = [proc EXCEPT ![t] = r]
    BY <2>1
  <2>6. ProcOK'
    BY <1>1, <1>7, <2>4, <2>5, Put DEF List
  <2> QED
    BY <1>3, <1>7, <2>6, Framed DEF List
<1>8. CASE Next1(t)
  <2>1. CASE \E e \in proc[t].list :
               \E pc \in {"next", "stopMark", "stopClear"} :
                 proc' = [proc EXCEPT ![t].pc = pc, ![t].list = @ \ {e},
                                      ![t].kid = IF pc = "next" THEN NoKid ELSE e[1]]
    <3>1. PICK e \in proc[t].list, pc \in {"next", "stopMark", "stopClear"} :
            proc' = [proc EXCEPT ![t].pc = pc, ![t].list = @ \ {e},
                                 ![t].kid = IF pc = "next" THEN NoKid ELSE e[1]]
      BY <2>1
    <3> DEFINE k == IF pc = "next" THEN NoKid ELSE e[1]
               r == [proc[t] EXCEPT !.pc = pc, !.list = @ \ {e}, !.kid = k]
    <3>2. e[1] \in Kids
      BY <1>2 DEF Proc
    <3>3. /\ r \in Proc /\ r.pc = pc /\ r.kid = k
          /\ pc \in KidPcs => k \in Kids
      <4>1. proc[t] \in Proc /\ k \in Kids \cup {NoKid}
        BY <1>2, <3>2
      <4>2. pc = "next" \/ k = e[1]
        OBVIOUS
      <4> HIDE DEF k
      <4>3. r \in Proc /\ r.pc = pc /\ r.kid = k
        BY <4>1 DEF Proc, ThreadPcs, Pcs
      <4>4. pc = "next" => pc \notin KidPcs
        BY DEF KidPcs, Pcs
      <4> QED
        BY <3>2, <4>2, <4>3, <4>4
    <3>4. MayBe(t, r)
      BY <1>1, <3>3 DEF MayBe, ThreadPcs, Pcs
    <3>5. proc' = [proc EXCEPT ![t] = r]
      BY <3>1
    <3>6. ProcOK'
      BY <1>1, <1>8, <3>4, <3>5, Put DEF Next1
    <3> QED
      BY <1>3, <1>8, <3>6, Framed DEF Next1
  <2>2. CASE Goto(t, "mainAbort") \/ Goto(t, "mainStart")
    <3>1. {"mainAbort", "mainStart"} \subseteq ThreadPcs \ KidPcs
      BY DEF ThreadPcs, KidPcs, Pcs
    <3>2. ProcOK'
      BY <1>5, <1>8, <2>2, <3>1 DEF Next1
    <3> QED
      BY <1>3, <1>8, <3>2, Framed DEF Next1
  <2>3. CASE proc' = [proc EXCEPT ![t] = Over(t)]
    <3>1. ProcOK'
      BY <1>1, <1>4, <1>8, <2>3, Put DEF Next1
    <3> QED
      BY <1>3, <1>8, <3>1, Framed DEF Next1
  <2> QED
    <3>1. CASE proc[t].list = {}
      BY <1>8, <2>2, <2>3, <3>1 DEF Next1
    <3>2. CASE proc[t].list # {}
      <4>1. PICK e \in proc[t].list :
              LET pc == CASE proc[t].op = "cascade" ->
                               IF Spared(e[1], e[2]) THEN "next" ELSE "stopMark"
                          [] proc[t].op = "restartAll" ->
                               IF Active(e[1]) THEN "next" ELSE "stopClear"
                          [] OTHER -> "stopClear"
              IN  proc' = [proc EXCEPT ![t].pc = pc, ![t].list = @ \ {e},
                                       ![t].kid = IF pc = "next" THEN NoKid ELSE e[1]]
        BY <1>8, <3>2 DEF Next1
      <4> QED
        BY <2>1, <4>1
    <3> QED
      BY <3>1, <3>2
<1>9. CASE MainAbort(t)
  <2> DEFINE off == At0("off", "none", NoKid)
             idle == At0("idle", "none", NoKid)
             again == [proc[t] EXCEPT !.pc = "list"]
  <2>1. off \in Proc /\ off.pc = "off" /\ off.op = "none"
    <3>1. "off" \in AgentPcs
      BY DEF AgentPcs
    <3> QED
      BY <3>1, At0Type
  <2>2. idle \in Proc /\ idle.pc = "idle"
    <3>1. "idle" \in ThreadPcs
      BY DEF ThreadPcs
    <3> QED
      BY <3>1, At0Type
  <2>3. again \in Proc /\ again.pc = "list"
    BY <1>2 DEF Proc, ThreadPcs
  <2>4. /\ proc'[Agent] \in {off, proc[Agent]}
        /\ proc'[t] \in {idle, again}
        /\ \A q \in Procs \ {Agent, t} : proc'[q] = proc[q]
        /\ proc' = [q \in Procs |-> proc'[q]]
        /\ ~mainOn'
    BY <1>1, <1>9 DEF MainAbort
  <2>5. \A q \in Procs : proc'[q] \in Proc
    BY <1>1, <2>1, <2>2, <2>3, <2>4 DEF TypeOK, ProcOK, Procs
  <2>6. ProcOK'
    <3> HIDE DEF off, idle, again
    <3>1. proc' \in [Procs -> Proc]
      BY <2>4, <2>5
    <3>2. ProcOK /\ {"idle", "list"} \subseteq ThreadPcs \ KidPcs /\ "off" \in AgentPcs \ KidPcs
      BY DEF TypeOK, AgentPcs, ThreadPcs, KidPcs, Pcs
    <3>3. \A q \in Procs : proc'[q].pc \in KidPcs => proc'[q].kid \in Kids
      BY <2>1, <2>2, <2>3, <2>4, <3>2 DEF ProcOK
    <3>4. /\ proc'[Agent].pc \in AgentPcs \cup Pcs
          /\ proc'[Agent].op \in AllCalls \cup {"none"}
      BY <2>1, <2>4, <3>2 DEF ProcOK
    <3>5. \A q \in Threads : proc'[q].pc \in ThreadPcs \cup Pcs
      BY <1>1, <2>2, <2>3, <2>4, <3>2 DEF ProcOK, Procs
    <3> QED
      BY <2>4, <3>1, <3>3, <3>4, <3>5 DEF ProcOK
  <2> QED
    BY <1>9, <2>4, <2>6, Framed DEF MainAbort
<1>10. CASE MainStart(t)
  <2>1. CASE UNCHANGED mainOn /\ proc' = [proc EXCEPT ![t] = Over(t)]
    <3>1. ProcOK'
      BY <1>1, <1>4, <2>1, Put
    <3> QED
      BY <1>3, <1>10, <2>1, <3>1, Framed DEF MainStart
  <2>2. CASE mainOn' = TRUE /\ proc' = [proc EXCEPT ![t] = Over(t),
                                                    ![Agent] = At0("think", "none", NoKid)]
    <3> DEFINE think == At0("think", "none", NoKid)
    <3>1. think \in Proc /\ think.pc = "think" /\ think.op = "none"
      BY At0Type DEF AgentPcs
    <3>2. proc \in [Procs -> Proc] /\ Over(t) \in Proc
      BY <1>4 DEF TypeOK, ProcOK, MayBe
    <3>3. /\ proc' \in [Procs -> Proc]
          /\ \A q \in Procs : proc'[q] = IF q = Agent THEN think
                                         ELSE IF q = t THEN Over(t) ELSE proc[q]
      BY <1>1, <2>2, <3>1, <3>2
    <3>4. ProcOK'
      BY <1>1, <1>4, <2>2, <3>1, <3>3
         DEF TypeOK, ProcOK, MayBe, Procs, AgentPcs, KidPcs, Pcs
    <3> QED
      BY <1>10, <2>2, <3>4, Framed DEF MainStart
  <2> QED
    BY <1>10, <2>1, <2>2 DEF MainStart
<1>11. CASE DeleteRow(t)
  <2>1. ProcOK'
    BY <1>1, <1>11, ReturnType DEF DeleteRow
  <2>2. status' \in [Kids -> Statuses]
    BY <1>11, Names DEF DeleteRow, TypeOK
  <2> QED
    BY <1>11, <2>1, <2>2 DEF DeleteRow, TypeOK, counts
<1> QED
  BY <1>6, <1>7, <1>8, <1>9, <1>10, <1>11 DEF CmdStep

LEMMA NextType ==
  ASSUME SubagentsAssumption, TypeOK, [Next]_vars
  PROVE  TypeOK'
<1>1. CASE UNCHANGED vars
  BY <1>1 DEF vars, TypeOK, ProcOK
<1>2. CASE Next
  BY <1>2, KidType, CallToolType, TurnEndsType, ToolType, IssueType, CmdType DEF Next
<1> QED
  BY <1>1, <1>2

\* Rows, loops, tools and commands keep their types, and a tool or a command
\* that works on a child knows it (tools/subagent.rs, agent.rs).
THEOREM TypeCorrect == Spec => []TypeOK
<1>1. Init => TypeOK
  BY SubagentsAssumption, InitType
<1>2. TypeOK /\ [Next]_vars => TypeOK'
  BY SubagentsAssumption, NextType
<1> QED
  BY <1>1, <1>2, PTL DEF Spec

(***************************************************************************)
(* Terminal states.                                                        *)
(***************************************************************************)

\* What may become of a row.
Kept == \A k \in Kids : status[k] \in {"completed", "cancelled"}
                          => status'[k] \in {status[k], "running", "deleted"}

LEMMA KeptSame == UNCHANGED status => Kept
BY DEF Kept

\* A write with the lock keeps completed, and cancelled unless it is another
\* state that is written.
LEMMA SetStatusKeeps ==
  ASSUME NEW k, NEW new \in {"cancelled", "running"}
  PROVE  /\ status[k] = "completed" => SetStatus(k, new) \in {"completed", "running"}
         /\ status[k] = "cancelled" => SetStatus(k, new) \in {"cancelled", "running"}
BY DEF SetStatus, Terminal

\* The tail of a loop keeps both.
LEMMA SettledKeeps ==
  ASSUME NEW k, status[k] \in {"completed", "cancelled"}
  PROVE  Settled(k) = status[k] /\ SettledUnder(k) = status[k]
<1>1. CASE status[k] = "cancelled"
  BY <1>1 DEF Settled, SettledUnder
<1>2. CASE status[k] = "completed"
  <2>1. \A new \in {"completed", "failed", "interrupted", "cancelled"} :
          SetStatus(k, new) = "completed"
    BY <1>2 DEF SetStatus, Terminal
  <2> QED
    BY <1>2, <2>1 DEF Settled, SettledUnder
<1> QED
  BY <1>1, <1>2

LEMMA WriteKeeps ==
  ASSUME TypeOK, NEW k, NEW new \in {"cancelled", "running"},
         status' = [status EXCEPT ![k] = SetStatus(k, new)]
  PROVE  Kept
<1>1. \A j \in Kids : status'[j] = IF j = k THEN SetStatus(k, new) ELSE status[j]
  BY DEF TypeOK
<1> QED
  BY <1>1, SetStatusKeeps DEF Kept

LEMMA StepKeeps == TypeOK /\ Next => Kept
<1> SUFFICES ASSUME TypeOK, Next PROVE Kept
  OBVIOUS
<1>1. ASSUME NEW k \in Kids, KidStep(k) PROVE Kept
  <2>1. CASE Settle(k)
    <3>1. PICK new \in {Settled(k), SettledUnder(k)} :
            \A j \in Kids : status'[j] = IF j = k THEN new ELSE status[j]
      BY <2>1 DEF Settle, TypeOK
    <3> QED
      BY <3>1, SettledKeeps DEF Kept
  <2> QED
    BY <1>1, <2>1, KeptSame DEF KidStep, WriteReport, AskUser, Answered, TimesOut, AnsweredLate, EndRun
<1>2. CASE CallTool \/ TurnEnds
  BY <1>2, KeptSame DEF CallTool, TurnEnds, kidVars
<1>3. ASSUME NEW p \in Procs, Shared(p) PROVE Kept
  <2>1. CASE StopMark(p)
    BY <2>1, WriteKeeps DEF StopMark
  <2>2. CASE RestartMark(p)
    BY <2>2, WriteKeeps DEF RestartMark
  <2>3. CASE SpawnInsert(p)
    BY <2>3 DEF SpawnInsert, Kept, TypeOK
  <2> QED
    BY <1>3, <2>1, <2>2, <2>3, KeptSame
       DEF Shared, Start, StopClear, StopAbort, RestartRead, RestartDecide, kidVars
<1>4. CASE ToolStep
  <2>1. CASE RejectMark
    BY <2>1, WriteKeeps DEF RejectMark
  <2>2. CASE Shared(Agent)
    BY <1>3, <2>2 DEF Procs
  <2> QED
    BY <1>4, <2>1, <2>2, KeptSame
       DEF ToolStep, SpawnCheck, RejectCheck, RejectClear, DispatchCheck, WaitList,
           Poll, Wake, Collect, Told, kidVars
<1>5. ASSUME NEW t \in Threads, Issue(t) \/ CmdStep(t) PROVE Kept
  <2>1. CASE DeleteRow(t)
    BY <2>1 DEF DeleteRow, Kept, TypeOK
  <2>2. CASE Shared(t)
    BY <1>3, <2>2 DEF Procs
  <2> QED
    BY <1>5, <2>1, <2>2, KeptSame
       DEF CmdStep, Issue, List, Next1, MainAbort, MainStart, kidVars
<1> QED
  BY <1>1, <1>2, <1>4, <1>5 DEF Next

\* A completed or cancelled child stays so until it is restarted, rejected or
\* deleted, however many cascades and loops that leave late there are
\* (set_session_status, the tail of run_loop).
THEOREM TerminalKept == Spec => TerminalIsKept
<1>1. TypeOK /\ [Next]_vars => [Kept]_vars
  BY StepKeeps
<1> QED
  BY <1>1, TypeCorrect, PTL DEF Spec, TerminalIsKept, Kept

(***************************************************************************)
(* Running children are driven.                                            *)
(***************************************************************************)

Driven(k) == Active(k) \/ tail[k] # "none" \/ \E p \in Procs : Minding(p, k)
Claims(k) == status[k] = "running" /\ ~cleared[k] /\ k \notin halted

LEMMA DrivenForm == RunningIsDriven <=> \A k \in Kids : Claims(k) => Driven(k)
BY DEF RunningIsDriven, Claims, Driven

MindPcs == {"restartRead", "restartDecide", "restartMark", "rejectClear",
            "rejectMark", "start", "deleteRow"}

\* A step of p that leaves the children alone, taken where p minds none, keeps
\* what the others mind.
LEMMA OthersMind ==
  ASSUME RunningIsDriven, NEW P, UNCHANGED kidVars,
         \A q \in P \cap Procs : proc[q].pc \notin MindPcs,
         \A q \in Procs \ P : proc'[q] = proc[q]
  PROVE  RunningIsDriven'
<1>1. \A k \in Kids, q \in Procs : Minding(q, k) => Minding(q, k)'
  BY DEF Minding, MindPcs, Kid, Is
<1> QED
  BY <1>1 DEF RunningIsDriven, kidVars, Active

\* The same for a step that changes the child of p: the others are as before.
LEMMA OneKid ==
  ASSUME RunningIsDriven, NEW p \in Procs, NEW c,
         \A q \in Procs \ {p} : proc'[q] = proc[q],
         \A k \in Kids \ {c} : /\ ~Minding(p, k)
                               /\ Claims(k)' => Claims(k)
                               /\ work'[k] = work[k] /\ tail'[k] = tail[k],
         c \in Kids /\ Claims(c)' => Driven(c)'
  PROVE  RunningIsDriven'
<1> SUFFICES ASSUME NEW k \in Kids, Claims(k)' PROVE Driven(k)'
  BY DrivenForm DEF RunningIsDriven, Claims, Driven
<1>1. CASE k = c
  BY <1>1
<1>2. CASE k # c
  <2>1. Driven(k)
    BY <1>2, DrivenForm
  <2>2. \A q \in Procs : Minding(q, k) => Minding(q, k)'
    BY <1>2 DEF Minding, Kid, Is
  <2> QED
    BY <1>2, <2>1, <2>2 DEF Driven, Active
<1> QED
  BY <1>1, <1>2

LEMMA KidDriven ==
  ASSUME TypeOK, RunningIsDriven, NEW k \in Kids, KidStep(k)
  PROVE  RunningIsDriven'
<1>1. UNCHANGED <<cleared, halted, proc>>
  BY DEF KidStep, WriteReport, AskUser, Answered, TimesOut, AnsweredLate, EndRun, Settle
<1>2. \A j \in Kids \ {k} : /\ status'[j] = status[j] /\ work'[j] = work[j]
                            /\ tail'[j] = tail[j]
  BY DEF KidStep, WriteReport, AskUser, Answered, TimesOut, AnsweredLate, EndRun, Settle, TypeOK
<1>3. ASSUME Claims(k)' PROVE Driven(k)'
  <2>1. CASE WriteReport(k)
    BY <2>1 DEF WriteReport, Driven, Active, Alive
  <2>2. CASE AskUser(k) \/ Answered(k) \/ TimesOut(k)
    BY <2>2 DEF AskUser, Answered, TimesOut, Driven, Active, TypeOK
  <2>3. CASE EndRun(k)
    BY <2>3 DEF EndRun, Driven, TypeOK
  <2>4. CASE AnsweredLate(k)
    <3>1. Claims(k) /\ UNCHANGED <<work, tail>>
      BY <1>1, <1>3, <2>4 DEF AnsweredLate, Claims
    <3>2. Driven(k)
      BY <3>1, DrivenForm
    <3> QED
      BY <1>1, <3>1, <3>2 DEF Driven, Active, Minding, Kid, Is
  <2>5. CASE Settle(k)
    <3>1. status'[k] \in {Settled(k), SettledUnder(k)}
      BY <2>5 DEF Settle, TypeOK
    <3>2. ASSUME NEW new \in Terminal, SetStatus(k, new) = "running"
          PROVE  k \notin Rows /\ status[k] = "running"
      BY <3>2 DEF SetStatus, Terminal
    <3>3. status[k] = "running" => k \in Rows
      BY DEF Rows
    <3>4. \A new \in Terminal : SetStatus(k, new) # "running"
      BY <3>2, <3>3
    <3>5. Settled(k) # "running" /\ SettledUnder(k) # "running"
      BY <3>4 DEF Settled, SettledUnder, Terminal
    <3> QED
      BY <1>3, <3>1, <3>5 DEF Claims
  <2> QED
    BY <2>1, <2>2, <2>3, <2>4, <2>5 DEF KidStep
<1>4. ASSUME NEW j \in Kids \ {k}, Claims(j)' PROVE Driven(j)'
  <2>1. Claims(j)
    BY <1>1, <1>2, <1>4 DEF Claims
  <2>2. Driven(j)
    BY <2>1, DrivenForm
  <2> QED
    BY <1>1, <1>2, <2>2 DEF Driven, Active, Minding, Kid, Is
<1> QED
  BY <1>3, <1>4 DEF RunningIsDriven, Claims, Driven

LEMMA OthersGoto ==
  ASSUME TypeOK, NEW p \in Procs, NEW pc, Goto(p, pc) \/ Return(p)
  PROVE  \A q \in Procs \ {p} : proc'[q] = proc[q]
BY DEF TypeOK, ProcOK, Goto, Return

LEMMA AtGoto ==
  ASSUME TypeOK, NEW p \in Procs, NEW pc, Goto(p, pc)
  PROVE  proc'[p].pc = pc /\ proc'[p].kid = Kid(p) /\ proc'[p].seen = proc[p].seen
<1>1. proc[p] \in Proc /\ proc \in [Procs -> Proc]
  BY Is0 DEF TypeOK, ProcOK
<1>2. proc'[p] = [proc[p] EXCEPT !.pc = pc]
  BY <1>1 DEF Goto
<1> QED
  BY <1>1, <1>2 DEF Proc, Kid

LEMMA MindsOne ==
  ASSUME NEW p \in Procs, NEW k, Minding(p, k)
  PROVE  k = Kid(p) /\ proc[p].pc \in MindPcs
BY DEF Minding, MindPcs

\* p hands its child on from one step to the next.
LEMMA Handed ==
  ASSUME TypeOK, NEW p \in Procs, NEW pc \in MindPcs \ {"restartDecide"}, Goto(p, pc),
         NEW k, k = Kid(p)
  PROVE  Minding(p, k)'
<1>1. proc'[p].pc = pc /\ proc'[p].kid = k
  BY AtGoto
<1> QED
  BY <1>1 DEF Minding, MindPcs, Kid, Is

LEMMA SharedDriven ==
  ASSUME TypeOK, RunningIsDriven, NEW p \in Procs, Shared(p), NEW c, c = Kid(p)
  PROVE  RunningIsDriven'
<1>1. proc[p].pc \in KidPcs => c \in Kids
  BY DEF TypeOK, ProcOK, Kid
<1>2. \A k : Minding(p, k) => k = c /\ proc[p].pc \in MindPcs
  BY MindsOne
<1>3. \A pc : Goto(p, pc) \/ Return(p) => \A q \in Procs \ {p} : proc'[q] = proc[q]
  BY OthersGoto
<1>4. CASE Start(p)
  <2>1. c \in Kids
    BY <1>1, <1>4 DEF Start, Is, KidPcs, Pcs
  <2>2. Active(c)'
    BY <1>4, <2>1 DEF Start, Active, TypeOK
  <2>3. \A k \in Kids \ {c} : /\ ~Minding(p, k)
                              /\ Claims(k)' => Claims(k)
                              /\ work'[k] = work[k] /\ tail'[k] = tail[k]
    BY <1>2, <1>4 DEF Start, Claims, TypeOK
  <2>4. \A q \in Procs \ {p} : proc'[q] = proc[q]
    BY <1>3, <1>4 DEF Start
  <2>5. Claims(c)' => Driven(c)'
    BY <2>2 DEF Driven
  <2> QED
    BY <2>1, <2>3, <2>4, <2>5, OneKid
<1>5. CASE SpawnInsert(p)
  <2>1. PICK k \in Kids :
          /\ status[k] = "unborn"
          /\ status' = [status EXCEPT ![k] = "active"]
          /\ proc' = [proc EXCEPT ![p].pc = "start", ![p].kid = k]
    BY <1>5 DEF SpawnInsert
  <2>2. \A j \in Kids : ~Minding(p, j)
    BY <1>2, <1>5 DEF SpawnInsert, Is, MindPcs
  <2>3. \A q \in Procs \ {p} : proc'[q] = proc[q]
    BY <2>1 DEF TypeOK, ProcOK
  <2>4. \A j \in Kids \ {k} : /\ Claims(j)' => Claims(j)
                              /\ work'[j] = work[j] /\ tail'[j] = tail[j]
    BY <1>5, <2>1 DEF SpawnInsert, Claims, TypeOK
  <2>5. ~Claims(k)'
    BY <2>1 DEF Claims, TypeOK
  <2> QED
    BY <2>2, <2>3, <2>4, <2>5, OneKid
<1>6. CASE StopMark(p)
  <2>1. c \in Kids
    BY <1>1, <1>6 DEF StopMark, Is, KidPcs, Pcs
  <2>2. \A j \in Kids : ~Minding(p, j)
    BY <1>2, <1>6 DEF StopMark, Is, MindPcs
  <2>3. \A q \in Procs \ {p} : proc'[q] = proc[q]
    BY <1>3, <1>6 DEF StopMark
  <2>4. \A j \in Kids \ {c} : /\ Claims(j)' => Claims(j)
                              /\ work'[j] = work[j] /\ tail'[j] = tail[j]
    BY <1>6 DEF StopMark, Claims, TypeOK
  <2>5. SetStatus(c, "cancelled") # "running"
    BY <2>1 DEF SetStatus, Rows
  <2>6. ~Claims(c)'
    BY <1>6, <2>1, <2>5 DEF StopMark, Claims, TypeOK
  <2> QED
    BY <2>1, <2>2, <2>3, <2>4, <2>6, OneKid
<1>7. CASE StopClear(p)
  <2>1. c \in Kids
    BY <1>1, <1>7 DEF StopClear, Is, KidPcs, Pcs
  <2>2. \A j \in Kids : ~Minding(p, j)
    BY <1>2, <1>7 DEF StopClear, Is, MindPcs
  <2>3. \A q \in Procs \ {p} : proc'[q] = proc[q]
    BY <1>3, <1>7 DEF StopClear
  <2>4. \A j \in Kids : (Claims(j)' => Claims(j)) /\ tail'[j] = tail[j]
                        /\ (j # c => work'[j] = work[j]) /\ (Active(j) => Active(j)')
    BY <1>7 DEF StopClear, Claims, Active, TypeOK
  <2>5. Claims(c)' => Driven(c)'
    <3>1. Claims(c)' => Driven(c)
      BY <2>1, <2>4, DrivenForm
    <3>2. \A q \in Procs : Minding(q, c) => Minding(q, c)'
      BY <2>1, <2>2, <2>3 DEF Minding, Kid, Is
    <3> QED
      BY <2>1, <2>4, <3>1, <3>2 DEF Driven
  <2> QED
    BY <2>1, <2>2, <2>3, <2>4, <2>5, OneKid
<1>8. CASE StopAbort(p)
  <2>1. c \in Kids
    BY <1>1, <1>8 DEF StopAbort, Is, KidPcs, Pcs
  <2>2. \A j \in Kids : ~Minding(p, j)
    BY <1>2, <1>8 DEF StopAbort, Is, MindPcs
  <2>3. \A q \in Procs \ {p} : proc'[q] = proc[q]
    BY <1>3, <1>8 DEF StopAbort
  <2>4. \A j \in Kids : (Claims(j)' => Claims(j)) /\ tail'[j] = tail[j]
                        /\ (j # c => work'[j] = work[j])
    BY <1>8 DEF StopAbort, Claims, TypeOK
  <2>5. Claims(c)' => Driven(c)'
    <3>1. \A q \in Procs : Minding(q, c) => Minding(q, c)'
      BY <2>1, <2>2, <2>3 DEF Minding, Kid, Is
    <3>2. ASSUME Claims(c)', proc[p].op \in {"stop", "halt", "cascade"}
          PROVE  Driven(c)'
      <4>1. Claims(c) /\ Driven(c)
        BY <2>1, <2>4, <3>2, DrivenForm
      <4>2. ~Active(c)
        BY <1>8, <3>2, <4>1 DEF StopAbort, Claims
      <4> QED
        BY <2>1, <2>4, <3>1, <4>1, <4>2 DEF Driven
    <3>3. ASSUME NEW pc \in {"restartRead", "rejectClear", "deleteRow"}, Goto(p, pc)
          PROVE  Driven(c)'
      BY <3>3, Handed DEF Driven, MindPcs
    <3> QED
      BY <1>8, <3>2, <3>3 DEF StopAbort
  <2> QED
    BY <2>1, <2>2, <2>3, <2>4, <2>5, OneKid
<1>9. CASE RestartRead(p)
  <2>1. c \in Kids
    BY <1>1, <1>9 DEF RestartRead, Is, KidPcs, Pcs
  <2>2. \A j \in Kids \ {c} : ~Minding(p, j)
    BY <1>2
  <2>3. \A q \in Procs \ {p} : proc'[q] = proc[q]
    BY <1>3, <1>9 DEF RestartRead, TypeOK, ProcOK
  <2>4. UNCHANGED kidVars
    BY <1>9 DEF RestartRead
  <2>5. ASSUME Claims(c)' PROVE Driven(c)'
    <3>1. status[c] = "running" /\ c \in Rows
      BY <2>1, <2>4, <2>5 DEF Claims, kidVars, Rows
    <3>2. proc[p] \in Proc /\ proc \in [Procs -> Proc]
      BY Is0 DEF TypeOK, ProcOK
    <3>3. proc'[p] = [proc[p] EXCEPT !.pc = "restartDecide", !.seen = status[c]]
      BY <1>9, <3>1, <3>2 DEF RestartRead
    <3>4. proc'[p].pc = "restartDecide" /\ proc'[p].seen = "running" /\ proc'[p].kid = c
      BY <3>1, <3>2, <3>3 DEF Proc, Kid
    <3>5. Minding(p, c)'
      BY <3>4 DEF Minding, Kid, Is
    <3> QED
      BY <3>5 DEF Driven
  <2> QED
    BY <2>1, <2>2, <2>3, <2>4, <2>5, OneKid DEF kidVars, Claims
<1>10. CASE RestartDecide(p)
  <2>1. c \in Kids
    BY <1>1, <1>10 DEF RestartDecide, Is, KidPcs, Pcs
  <2>2. \A j \in Kids \ {c} : ~Minding(p, j)
    BY <1>2
  <2>3. \A q \in Procs \ {p} : proc'[q] = proc[q]
    BY <1>3, <1>10 DEF RestartDecide, TypeOK, ProcOK
  <2>4. UNCHANGED kidVars
    BY <1>10 DEF RestartDecide
  <2>5. ASSUME Claims(c)' PROVE Driven(c)'
    <3>1. Claims(c)
      BY <2>4, <2>5 DEF Claims, kidVars
    <3>2. CASE Refused(p)
      <4>1. ~Minding(p, c)
        BY <1>10, <3>1, <3>2 DEF RestartDecide, Refused, Claims, Minding, Is
      <4>2. Driven(c)
        BY <2>1, <3>1, DrivenForm
      <4> QED
        BY <2>3, <2>4, <4>1, <4>2 DEF Driven, Active, Minding, Kid, Is, kidVars
    <3>3. CASE ~Refused(p)
      <4>1. proc[p] \in Proc /\ proc \in [Procs -> Proc]
        BY Is0 DEF TypeOK, ProcOK
      <4>2. proc'[p] = [proc[p] EXCEPT !.pc = "restartMark", !.seen = "unborn"]
        BY <1>10, <3>3, <4>1 DEF RestartDecide
      <4>3. proc'[p].pc = "restartMark" /\ proc'[p].kid = c
        BY <4>1, <4>2 DEF Proc, Kid
      <4>4. Minding(p, c)'
        BY <4>3 DEF Minding, Kid, Is
      <4> QED
        BY <4>4 DEF Driven
    <3> QED
      BY <3>2, <3>3
  <2> QED
    BY <2>1, <2>2, <2>3, <2>4, <2>5, OneKid DEF kidVars, Claims
<1>11. CASE RestartMark(p)
  <2>1. c \in Kids
    BY <1>1, <1>11 DEF RestartMark, Is, KidPcs, Pcs
  <2>2. \A j \in Kids \ {c} : ~Minding(p, j)
    BY <1>2
  <2>3. \A q \in Procs \ {p} : proc'[q] = proc[q]
    BY <1>3, <1>11 DEF RestartMark
  <2>4. \A j \in Kids \ {c} : /\ Claims(j)' => Claims(j)
                              /\ work'[j] = work[j] /\ tail'[j] = tail[j]
    BY <1>11 DEF RestartMark, Claims, TypeOK
  <2>5. Driven(c)'
    BY <1>11, Handed DEF RestartMark, Driven, MindPcs
  <2> QED
    BY <2>1, <2>2, <2>3, <2>4, <2>5, OneKid
<1> QED
  BY <1>4, <1>5, <1>6, <1>7, <1>8, <1>9, <1>10, <1>11 DEF Shared

LEMMA ToolDriven ==
  ASSUME SubagentsAssumption, TypeOK, RunningIsDriven, ToolStep
  PROVE  RunningIsDriven'
<1>1. Agent \in Procs
  BY DEF Procs
<1>2. proc[Agent].pc \in KidPcs => Kid(Agent) \in Kids
  BY <1>1 DEF TypeOK, ProcOK, Kid
<1>3. \A k : Minding(Agent, k) => k = Kid(Agent) /\ proc[Agent].pc \in MindPcs
  BY <1>1, MindsOne
<1>4. \A pc : Goto(Agent, pc) \/ Return(Agent) => \A q \in Procs \ {Agent} : proc'[q] = proc[q]
  BY <1>1, OthersGoto
<1>5. CASE Shared(Agent)
  BY <1>1, <1>5, SharedDriven
<1>6. CASE SpawnCheck \/ RejectCheck \/ DispatchCheck \/ WaitList \/ Poll \/ Wake
           \/ Collect \/ Told
  <2>1. UNCHANGED kidVars
    BY <1>6 DEF SpawnCheck, RejectCheck, DispatchCheck, WaitList, Poll, Wake, Collect, Told
  <2>2. proc[Agent].pc \notin MindPcs
    BY <1>6 DEF SpawnCheck, RejectCheck, DispatchCheck, WaitList, Poll, Wake, Collect,
                Told, Is, MindPcs
  <2>3. \A q \in Procs \ {Agent} : proc'[q] = proc[q]
    <3>1. proc \in [Procs -> Proc]
      BY DEF TypeOK, ProcOK
    <3> QED
      BY <1>4, <1>6, <3>1 DEF SpawnCheck, RejectCheck, DispatchCheck, WaitList, Poll,
                              Wake, Collect, Told
  <2>4. \A q \in {Agent} \cap Procs : proc[q].pc \notin MindPcs
    BY <2>2
  <2> QED
    BY <2>1, <2>3, <2>4, OthersMind
<1>7. ASSUME RejectClear, NEW c, c = Kid(Agent) PROVE RunningIsDriven'
  <2>1. c \in Kids
    BY <1>2, <1>7 DEF RejectClear, Is, KidPcs, Pcs
  <2>2. \A j \in Kids \ {c} : ~Minding(Agent, j)
    BY <1>3, <1>7
  <2>3. \A q \in Procs \ {Agent} : proc'[q] = proc[q]
    BY <1>4, <1>7 DEF RejectClear
  <2>4. \A j \in Kids \ {c} : /\ Claims(j)' => Claims(j)
                              /\ work'[j] = work[j] /\ tail'[j] = tail[j]
    BY <1>7 DEF RejectClear, Claims, TypeOK
  <2>5. ~Claims(c)'
    BY <1>7, <2>1 DEF RejectClear, Claims, Rows, TypeOK
  <2> QED
    BY <1>1, <2>1, <2>2, <2>3, <2>4, <2>5, OneKid
<1>8. ASSUME RejectMark, NEW c, c = Kid(Agent) PROVE RunningIsDriven'
  <2>1. c \in Kids
    BY <1>2, <1>8 DEF RejectMark, Is, KidPcs, Pcs
  <2>2. \A j \in Kids \ {c} : ~Minding(Agent, j)
    BY <1>3, <1>8
  <2>3. \A q \in Procs \ {Agent} : proc'[q] = proc[q]
    BY <1>4, <1>8 DEF RejectMark
  <2>4. \A j \in Kids \ {c} : /\ Claims(j)' => Claims(j)
                              /\ work'[j] = work[j] /\ tail'[j] = tail[j]
    BY <1>8 DEF RejectMark, Claims, TypeOK
  <2>5. Driven(c)'
    BY <1>1, <1>8, Handed DEF RejectMark, Driven, MindPcs
  <2> QED
    BY <1>1, <2>1, <2>2, <2>3, <2>4, <2>5, OneKid
<1> QED
  BY <1>5, <1>6, <1>7, <1>8 DEF ToolStep

\* The agent between tools, or a thread between commands, minds no child.
LEMMA TurnDriven ==
  ASSUME TypeOK, RunningIsDriven, CallTool \/ TurnEnds
  PROVE  RunningIsDriven'
<1>1. proc \in [Procs -> Proc]
  BY DEF TypeOK, ProcOK
<1>2. \A q \in Procs \ {Agent} : proc'[q] = proc[q]
  <2>1. PICK r : proc' = [proc EXCEPT ![Agent] = r]
    BY DEF CallTool, TurnEnds
  <2> QED
    BY <1>1, <2>1
<1>3. \A q \in {Agent} \cap Procs : proc[q].pc \notin MindPcs
  BY DEF CallTool, TurnEnds, Is, MindPcs
<1>4. UNCHANGED kidVars
  BY DEF CallTool, TurnEnds
<1> QED
  BY <1>2, <1>3, <1>4, OthersMind

LEMMA CmdDriven ==
  ASSUME SubagentsAssumption, TypeOK, RunningIsDriven, NEW t \in Threads,
         Issue(t) \/ CmdStep(t)
  PROVE  RunningIsDriven'
<1>1. t \in Procs /\ proc \in [Procs -> Proc]
  BY DEF Procs, TypeOK, ProcOK
<1>2. \A pc : Goto(t, pc) \/ Return(t) => \A q \in Procs \ {t} : proc'[q] = proc[q]
  BY <1>1, OthersGoto
<1>3. CASE Shared(t)
  BY <1>1, <1>3, SharedDriven
<1>4. CASE Issue(t) \/ List(t) \/ Next1(t)
  <2>1. UNCHANGED kidVars
    BY <1>4 DEF Issue, List, Next1
  <2>2. \A q \in {t} \cap Procs : proc[q].pc \notin MindPcs
    BY <1>4 DEF Issue, List, Next1, Is, MindPcs
  <2>3. \A q \in Procs \ {t} : proc'[q] = proc[q]
    <3>1. CASE Issue(t)
      <4>1. PICK r : proc' = [proc EXCEPT ![t] = r]
        BY <3>1 DEF Issue, Begin
      <4> QED
        BY <1>1, <4>1
    <3>2. CASE List(t)
      BY <1>1, <3>2 DEF List
    <3>3. CASE Next1(t)
      BY <1>1, <1>2, <3>3 DEF Next1
    <3> QED
      BY <1>4, <3>1, <3>2, <3>3
  <2> QED
    BY <2>1, <2>2, <2>3, OthersMind
<1>5. CASE MainAbort(t)
  <2> DEFINE P == {t} \cup {q \in Procs : q = Agent /\ proc[q].pc \in {"think", "sleep"}}
  <2>1. UNCHANGED kidVars
    BY <1>5 DEF MainAbort
  <2>2. \A q \in P \cap Procs : proc[q].pc \notin MindPcs
    BY <1>5 DEF MainAbort, Is, MindPcs
  <2>3. \A q \in Procs \ P : proc'[q] = proc[q]
    BY <1>5 DEF MainAbort
  <2> QED
    BY <2>1, <2>2, <2>3, OthersMind
<1>6. CASE MainStart(t)
  <2>1. CASE proc' = [proc EXCEPT ![t] = Over(t)]
    <3>1. \A q \in {t} \cap Procs : proc[q].pc \notin MindPcs
      BY <1>6 DEF MainStart, Is, MindPcs
    <3>2. \A q \in Procs \ {t} : proc'[q] = proc[q]
      BY <1>1, <2>1
    <3> QED
      BY <1>6, <3>1, <3>2, OthersMind DEF MainStart
  <2>2. CASE /\ Is(Agent, "off")
             /\ proc' = [proc EXCEPT ![t] = Over(t), ![Agent] = At0("think", "none", NoKid)]
    <3>1. \A q \in {t, Agent} \cap Procs : proc[q].pc \notin MindPcs
      BY <1>6, <2>2 DEF MainStart, Is, MindPcs
    <3>2. \A q \in Procs \ {t, Agent} : proc'[q] = proc[q]
      BY <1>1, <2>2
    <3> QED
      BY <1>6, <3>1, <3>2, OthersMind DEF MainStart
  <2> QED
    BY <1>6, <2>1, <2>2 DEF MainStart
<1>7. ASSUME DeleteRow(t), NEW c, c = Kid(t) PROVE RunningIsDriven'
  <2>1. c \in Kids
    BY <1>1, <1>7 DEF DeleteRow, Is, KidPcs, Pcs, TypeOK, ProcOK, Kid
  <2>2. \A j \in Kids \ {c} : ~Minding(t, j)
    BY <1>1, <1>7, MindsOne
  <2>3. \A q \in Procs \ {t} : proc'[q] = proc[q]
    BY <1>2, <1>7 DEF DeleteRow
  <2>4. \A j \in Kids \ {c} : /\ Claims(j)' => Claims(j)
                              /\ work'[j] = work[j] /\ tail'[j] = tail[j]
    BY <1>7 DEF DeleteRow, Claims, TypeOK
  <2>5. ~Claims(c)'
    BY <1>7, <2>1 DEF DeleteRow, Claims, Rows, TypeOK
  <2> QED
    BY <1>1, <2>1, <2>2, <2>3, <2>4, <2>5, OneKid
<1> QED
  BY <1>3, <1>4, <1>5, <1>6, <1>7 DEF CmdStep

LEMMA StepDriven ==
  ASSUME SubagentsAssumption, TypeOK, RunningIsDriven, [Next]_vars
  PROVE  RunningIsDriven'
<1>1. CASE UNCHANGED vars
  BY <1>1 DEF vars, RunningIsDriven, Active, Minding, Kid, Is
<1>2. CASE Next
  BY <1>2, KidDriven, TurnDriven, ToolDriven, CmdDriven DEF Next
<1> QED
  BY <1>1, <1>2

\* A row that says running has a loop, a tail about to write it, or a command
\* that is going to start it, whatever stops, restarts and rejections overlap,
\* but for the two cases the code leaves behind (restart_subagent,
\* reject_and_restart_subagent, stop_session_ext).
THEOREM RunningDrivenAlways == Spec => []RunningIsDriven
<1>1. Init => RunningIsDriven
  BY DEF Init, RunningIsDriven
<1>2. TypeOK /\ RunningIsDriven /\ [Next]_vars => RunningIsDriven'
  BY SubagentsAssumption, StepDriven
<1> QED
  BY <1>1, <1>2, TypeCorrect, PTL DEF Spec
=============================================================================

------------------------------ MODULE Subagents ------------------------------
(***************************************************************************)
(* A main session and its children (subprocesses, sub-agents and resident  *)
(* collaborators): the tools with which the main agent spawns, awaits,     *)
(* stops, resumes and rejects them (tools/subagent.rs), the cascade of a   *)
(* stop, restart and rejection (agent.rs), what a child's loop writes when *)
(* it leaves (the tail of run_loop), and the user's commands on them.      *)
(*                                                                         *)
(* An action is a section under one lock. A child has at most one loop     *)
(* here, an abort drops it at once unless it is past its last await, and   *)
(* spawn_session_task is one step: SessionRun has the races inside those.  *)
(***************************************************************************)
EXTENDS Integers, FiniteSets

CONSTANTS
  Kids,        \* identifiers of children
  Residents,   \* the collaborators, created beforehand
  Threads,     \* threads executing a command of the user
  Agent,       \* the task of the main session's turn
  Calls,       \* the tools the main agent calls in this instance
  Ops,         \* the commands users issue in this instance
  Limit,       \* children the spawn tool allows (10)
  MaxPolls,    \* rounds of a wait before it times out
  MaxCalls,    \* bound: tool calls
  MaxCmds,     \* bound: commands
  NoKid

AllCalls == {"spawn", "wait", "waitCollabs", "stop", "restart", "reject",
             "dispatch"}
AllOps == {"spawn", "stop", "halt", "restart", "restartAll", "continue",
           "delete", "retry", "cascade", "send", "sendMain"}

ASSUME SubagentsAssumption ==
  /\ Residents \subseteq Kids /\ NoKid \notin Kids /\ Agent \notin Threads
  /\ Calls \subseteq AllCalls /\ Ops \subseteq AllOps
  /\ Limit \in Nat /\ MaxPolls \in Nat /\ MaxCalls \in Nat /\ MaxCmds \in Nat

VARIABLES
  status,     \* sessions.status of the children, or why there is no row
  cleared,    \* whose session database has a row delivered_outcome
  stale,      \* whose request to the user timed out and is still in the map
  report,     \* the report file of a child; "old": from before a rejection,
              \* "nowhere": the session has no workspace to write it to
  work,       \* the loop of a child; it is in active_run while not "off"
  tail,       \* a loop that has cleared active_run and not written its status
  mainOn,     \* active_run of the main session
  proc,       \* the main agent and the threads
  calls, cmds,
  halted      \* history: whose loop a stop aborted, the row not saying so

vars == <<status, cleared, stale, report, work, tail, mainOn, proc, calls, cmds, halted>>
kidVars == <<status, cleared, stale, report, work, tail, halted>>
counts == <<calls, cmds>>

Terminal == {"completed", "failed", "interrupted", "cancelled"}
Statuses == {"unborn", "active", "running", "deleted"} \cup Terminal
Procs == Threads \cup {Agent}
AgentPcs == {"off", "think", "waitList", "poll", "sleep", "collect", "told"}
ThreadPcs == {"idle", "mainAbort", "mainStart", "list", "next", "deleteRow"}
Pcs == {"spawnCheck", "spawnInsert", "start", "stopMark", "stopClear",
        "stopAbort", "restartRead", "restartDecide", "restartMark",
        "rejectCheck", "rejectClear", "rejectMark", "dispatchCheck"}
KidPcs == (Pcs \ {"spawnCheck", "spawnInsert"}) \cup {"deleteRow"}
Banners == {"none", "again", "diagnose", "delivered"}
Proc == [pc : AgentPcs \cup ThreadPcs \cup Pcs,
         op : AllCalls \cup AllOps \cup {"none"},
         kid : Kids \cup {NoKid}, seen : Statuses,
         list : SUBSET (Kids \X Statuses), polls : 0..MaxPolls, says : Banners]
At0(pc, op, k) == [pc |-> pc, op |-> op, kid |-> k, seen |-> "unborn",
                   list |-> {}, polls |-> 0, says |-> "none"]

\* The agent is in tools and the threads in commands, whose child is known
\* where they work on one; without a task of its
\* turn the main session is idle.
ProcOK ==
  /\ proc \in [Procs -> Proc]
  /\ \A p \in Procs : proc[p].pc \in KidPcs => proc[p].kid \in Kids
  /\ proc[Agent].pc \in AgentPcs \cup Pcs
  /\ proc[Agent].op \in AllCalls \cup {"none"}
  /\ \A t \in Threads : proc[t].pc \in ThreadPcs \cup Pcs
  /\ proc[Agent].pc = "off" => ~mainOn

TypeOK ==
  /\ status \in [Kids -> Statuses]
  /\ cleared \in [Kids -> BOOLEAN]
  /\ stale \in [Kids -> BOOLEAN]
  /\ report \in [Kids -> {"nowhere", "none", "old", "new"}]
  /\ work \in [Kids -> {"off", "work", "ask"}]
  /\ tail \in [Kids -> {"none", "done", "failed"}]
  /\ mainOn \in BOOLEAN
  /\ ProcOK
  /\ calls \in 0..MaxCalls /\ cmds \in 0..MaxCmds
  /\ halted \subseteq Kids

Init ==
  /\ status = [k \in Kids |-> IF k \in Residents THEN "active" ELSE "unborn"]
  /\ cleared = [k \in Kids |-> FALSE]
  /\ stale = [k \in Kids |-> FALSE]
  /\ \E file \in {"none", "nowhere"} : report = [k \in Kids |-> file]
  /\ work = [k \in Kids |-> "off"]
  /\ tail = [k \in Kids |-> "none"]
  /\ mainOn = FALSE
  /\ proc = [p \in Procs |-> At0(IF p = Agent THEN "off" ELSE "idle", "none", NoKid)]
  /\ calls = 0 /\ cmds = 0 /\ halted = {}

-----------------------------------------------------------------------------
(* Helpers.                                                                *)

Rows == {k \in Kids : status[k] \notin {"unborn", "deleted"}}
Active(k) == work[k] # "off"            \* is_run_active
HasReport(k) == report[k] \in {"old", "new"}
Listed(S) == {<<k, status[k]>> : k \in S}
Unread(S) == S \X {"unborn"}            \* a list whose statuses nobody reads
Kid(p) == proc[p].kid
Is(p, pc) == proc[p].pc = pc
Goto(p, pc) == proc' = [proc EXCEPT ![p].pc = pc]

\* wrong: the row takes whatever is written
SetStatusUnlocked(k, new) == IF k \in Rows THEN new ELSE status[k]

\* A completed session is not degraded to cancelled, failed or interrupted; an
\* update of a row that is gone has no effect.
SetStatus(k, new) ==
  IF k \notin Rows \/ (status[k] = "completed" /\ new \in Terminal)
    THEN status[k] ELSE new

\* Where p goes when its command or tool is over, unless it works off a list.
\* A task that was aborted meanwhile is dropped at its next await.
Over(p) == IF p = Agent THEN At0(IF mainOn THEN "think" ELSE "off", "none", NoKid)
                        ELSE At0("idle", "none", NoKid)
Lists == {"cascade", "restartAll", "continue", "retry"}
Return(p) == proc' = [proc EXCEPT ![p] =
                        IF proc[p].op \in Lists
                          THEN [At0("next", proc[p].op, NoKid) EXCEPT !.list = proc[p].list]
                          ELSE Over(p)]

-----------------------------------------------------------------------------
(* A child's loop.                                                         *)

Alive(k) == work[k] = "work"

WriteReport(k) ==
  /\ Alive(k) /\ report[k] # "nowhere"
  /\ report' = [report EXCEPT ![k] = "new"]
  /\ UNCHANGED <<status, cleared, stale, work, tail, halted, mainOn, proc, counts>>

AskUser(k) ==
  /\ Alive(k)
  /\ work' = [work EXCEPT ![k] = "ask"]
  /\ UNCHANGED <<status, cleared, stale, report, tail, halted, mainOn, proc, counts>>

Answered(k) ==
  /\ work[k] = "ask"
  /\ work' = [work EXCEPT ![k] = "work"]
  /\ UNCHANGED <<status, cleared, stale, report, tail, halted, mainOn, proc, counts>>

\* The request is denied after 300 seconds, and stays in the map...
TimesOut(k) ==
  /\ work[k] = "ask"
  /\ work' = [work EXCEPT ![k] = "work"]
  /\ stale' = [stale EXCEPT ![k] = TRUE]
  /\ UNCHANGED <<status, cleared, report, tail, halted, mainOn, proc, counts>>

\* ... until somebody answers it after all.
AnsweredLate(k) ==
  /\ stale[k]
  /\ stale' = [stale EXCEPT ![k] = FALSE]
  /\ UNCHANGED <<status, cleared, report, work, tail, halted, mainOn, proc, counts>>

\* The loop leaves and clears active_run, its last outcome being done or failed.
EndRun(k) ==
  /\ Alive(k) /\ tail[k] = "none"
  /\ work' = [work EXCEPT ![k] = "off"]
  /\ \E outcome \in {"done", "failed"} : tail' = [tail EXCEPT ![k] = outcome]
  /\ UNCHANGED <<status, cleared, stale, report, halted, mainOn, proc, counts>>

\* wrong: a child that was restarted does not settle
SettledActive(k) ==
  IF status[k] \in {"cancelled", "interrupted", "running"} THEN status[k]
  ELSE IF HasReport(k) \/ tail[k] = "done" THEN SetStatus(k, "completed")
  ELSE SetStatus(k, "interrupted")

\* wrong: a failure writes nothing
SettledDone(k) ==
  IF tail[k] = "failed" \/ status[k] \in {"cancelled", "interrupted"}
    THEN status[k] ELSE SetStatus(k, "completed")

\* What the tail makes of the row, in one section. A child that was cancelled
\* or interrupted stays so. Without a report in the workspace the row becomes
\* interrupted, which the lock of a completed row prevents when the outcome
\* was done.
Settled(k) ==
  IF status[k] \in {"cancelled", "interrupted"} THEN status[k]
  ELSE IF HasReport(k) \/ tail[k] = "done" THEN SetStatus(k, "completed")
  ELSE IF status[k] = "failed" \/ report[k] = "nowhere" THEN SetStatus(k, "failed")
  ELSE SetStatus(k, "interrupted")

\* A child of a cancelled parent is cancelled. stop_subagent marks whatever row
\* it is told to, so the main session's row may say so: left open here. (The
\* test on the last run comes to the same; it reads the catalog, where no run
\* of the child is.)
SettledUnder(k) ==
  IF status[k] \in {"cancelled", "interrupted"} THEN status[k] ELSE SetStatus(k, "cancelled")

Settle(k) ==
  /\ tail[k] # "none"
  /\ \E new \in {Settled(k), SettledUnder(k)} : status' = [status EXCEPT ![k] = new]
  /\ tail' = [tail EXCEPT ![k] = "none"]
  /\ UNCHANGED <<cleared, stale, report, work, halted, mainOn, proc, counts>>

-----------------------------------------------------------------------------
(* What commands and tools have in common: p works on its child Kid(p).    *)

\* spawn_session_task: the gate on active_run, and the loop.
Start(p) ==
  /\ Is(p, "start")
  /\ work' = [work EXCEPT ![Kid(p)] = IF @ = "off" THEN "work" ELSE @]
  /\ halted' = halted \ {Kid(p)}
  /\ Return(p)
  /\ UNCHANGED <<status, cleared, stale, report, tail, mainOn, counts>>

\* Insert the row and, in the catalog, the first message.
SpawnInsert(p) ==
  /\ Is(p, "spawnInsert")
  /\ \E k \in Kids :
       /\ status[k] = "unborn"
       /\ status' = [status EXCEPT ![k] = "active"]
       /\ proc' = [proc EXCEPT ![p].pc = "start", ![p].kid = k]
  /\ UNCHANGED <<cleared, stale, report, work, tail, halted, mainOn, counts>>

StopMark(p) ==
  /\ Is(p, "stopMark")
  /\ status' = [status EXCEPT ![Kid(p)] = SetStatus(Kid(p), "cancelled")]
  /\ Goto(p, "stopClear")
  /\ UNCHANGED <<cleared, stale, report, work, tail, halted, mainOn, counts>>

\* stop_session_ext on a child: its approvals are dropped, which ends its waits...
StopClear(p) ==
  /\ Is(p, "stopClear")
  /\ work' = [work EXCEPT ![Kid(p)] = IF @ = "ask" THEN "work" ELSE @]
  /\ stale' = [stale EXCEPT ![Kid(p)] = FALSE]
  /\ Goto(p, "stopAbort")
  /\ UNCHANGED <<status, cleared, report, tail, halted, mainOn, counts>>

\* ... then active_run is taken and the task aborted.
StopAbort(p) ==
  /\ Is(p, "stopAbort")
  /\ work' = [work EXCEPT ![Kid(p)] = "off"]
  /\ halted' = IF /\ proc[p].op \in {"stop", "halt", "cascade"}
                  /\ Active(Kid(p)) /\ status[Kid(p)] \in {"active", "running"}
                 THEN halted \cup {Kid(p)} ELSE halted
  /\ \/ proc[p].op \in {"restart", "restartAll", "continue"} /\ Goto(p, "restartRead")
     \/ proc[p].op = "reject" /\ Goto(p, "rejectClear")
     \/ proc[p].op \in {"delete", "retry"} /\ Goto(p, "deleteRow")
     \/ proc[p].op \in {"stop", "halt", "cascade"} /\ Return(p)
  /\ UNCHANGED <<status, cleared, stale, report, tail, mainOn, counts>>

\* restart_subagent, after it has stopped the child.
RestartRead(p) ==
  /\ Is(p, "restartRead")
  /\ IF Kid(p) \in Rows
       THEN proc' = [proc EXCEPT ![p].pc = "restartDecide", ![p].seen = status[Kid(p)]]
       ELSE Return(p)
  /\ UNCHANGED <<kidVars, mainOn, counts>>

\* Any row delivered_outcome in the session's database refuses, an empty one too.
Refused(p) == proc[p].seen = "completed" \/ cleared[Kid(p)]

RestartDecide(p) ==
  /\ Is(p, "restartDecide")
  /\ IF Refused(p) THEN Return(p)
     ELSE proc' = [proc EXCEPT ![p].pc = "restartMark", ![p].seen = "unborn"]
  /\ UNCHANGED <<kidVars, mainOn, counts>>

RestartMark(p) ==
  /\ Is(p, "restartMark")
  /\ status' = [status EXCEPT ![Kid(p)] = SetStatus(Kid(p), "running")]
  /\ Goto(p, "start")
  /\ UNCHANGED <<cleared, stale, report, work, tail, halted, mainOn, counts>>

-----------------------------------------------------------------------------
(* The main agent's turn and its tools.                                    *)

\* The model calls a tool; the arguments are its choice.
CallTool ==
  /\ Is(Agent, "think") /\ calls < MaxCalls
  /\ calls' = calls + 1
  /\ \/ /\ "spawn" \in Calls
        /\ proc' = [proc EXCEPT ![Agent] = At0("spawnCheck", "spawn", NoKid)]
     \/ \E op \in Calls \cap {"wait", "waitCollabs"} :
          proc' = [proc EXCEPT ![Agent] = At0("waitList", op, NoKid)]
     \/ \E k \in Rows :
          \/ /\ "stop" \in Calls
             /\ proc' = [proc EXCEPT ![Agent] = At0("stopMark", "stop", k)]
          \/ /\ "restart" \in Calls      \* resume_subagent
             /\ proc' = [proc EXCEPT ![Agent] = At0("stopClear", "restart", k)]
          \/ /\ "reject" \in Calls
             /\ proc' = [proc EXCEPT ![Agent] = At0("rejectCheck", "reject", k)]
          \/ /\ "dispatch" \in Calls
             /\ proc' = [proc EXCEPT ![Agent] = At0("dispatchCheck", "dispatch", k)]
  /\ UNCHANGED <<kidVars, mainOn, cmds>>

\* wrong: active_run is left as it is
TurnEndsActive ==
  /\ Is(Agent, "think")
  /\ proc' = [proc EXCEPT ![Agent] = At0("off", "none", NoKid)]
  /\ UNCHANGED <<kidVars, mainOn, counts>>

TurnEnds ==
  /\ Is(Agent, "think")
  /\ mainOn' = FALSE
  /\ proc' = [proc EXCEPT ![Agent] = At0("off", "none", NoKid)]
  /\ UNCHANGED <<kidVars, counts>>

\* The rows are counted in one section, the new one is inserted in another.
SpawnCheck ==
  /\ Is(Agent, "spawnCheck")
  /\ IF Cardinality(Rows) >= Limit THEN Return(Agent) ELSE Goto(Agent, "spawnInsert")
  /\ UNCHANGED <<kidVars, mainOn, counts>>

RejectCheck ==
  /\ Is(Agent, "rejectCheck")
  /\ IF Active(Kid(Agent)) THEN Return(Agent) ELSE Goto(Agent, "stopClear")
  /\ UNCHANGED <<kidVars, mainOn, counts>>

\* The delivered_outcome of the session's database becomes "". The report file
\* stays where it is.
RejectClear ==
  /\ Is(Agent, "rejectClear")
  /\ IF Kid(Agent) \in Rows
       THEN /\ cleared' = [cleared EXCEPT ![Kid(Agent)] = TRUE]
            /\ report' = [report EXCEPT ![Kid(Agent)] = IF @ = "new" THEN "old" ELSE @]
            /\ Goto(Agent, "rejectMark")
       ELSE /\ Return(Agent)
            /\ UNCHANGED <<cleared, report>>
  /\ UNCHANGED <<status, stale, work, tail, halted, mainOn, counts>>

RejectMark ==
  /\ Is(Agent, "rejectMark")
  /\ status' = [status EXCEPT ![Kid(Agent)] = SetStatus(Kid(Agent), "running")]
  /\ Goto(Agent, "start")
  /\ UNCHANGED <<cleared, stale, report, work, tail, halted, mainOn, counts>>

DispatchCheck ==
  /\ Is(Agent, "dispatchCheck")
  /\ IF Active(Kid(Agent)) THEN Return(Agent) ELSE Goto(Agent, "start")
  /\ UNCHANGED <<kidVars, mainOn, counts>>

\* wait_subagents, wait_collaborators: of which children.
WaitList ==
  /\ Is(Agent, "waitList")
  /\ \E S \in SUBSET (IF proc[Agent].op = "wait" THEN Rows ELSE Rows \cap Residents) :
       IF S = {} THEN Return(Agent)
       ELSE proc' = [proc EXCEPT ![Agent].pc = "poll", ![Agent].list = Unread(S)]
  /\ UNCHANGED <<kidVars, mainOn, counts>>

Targets == {r[1] : r \in proc[Agent].list}

\* A child with a request in the map, or a report, is not waited for.
Suspended(k) == work[k] = "ask" \/ stale[k]
EffectivelyRunning(k) ==
  /\ Active(k)
  /\ proc[Agent].op = "wait" => ~Suspended(k) /\ ~HasReport(k)

TimedOut == proc[Agent].polls = MaxPolls

\* wrong: as long as a target is in active_run, without a timeout
PollActive ==
  /\ Is(Agent, "poll")
  /\ IF \A k \in Targets : ~Active(k)
       THEN Goto(Agent, "collect")
       ELSE proc' = [proc EXCEPT ![Agent] = IF mainOn THEN [@ EXCEPT !.pc = "sleep"]
                                                      ELSE Over(Agent)]
  /\ UNCHANGED <<kidVars, mainOn, counts>>

\* A round of the wait. The queue of the main session is read in the catalog,
\* where no message of it is ever queued, so this exit is never taken.
Poll ==
  /\ Is(Agent, "poll")
  /\ IF \/ proc[Agent].op = "wait" /\ ~mainOn
        \/ \A k \in Targets : ~EffectivelyRunning(k)
        \/ TimedOut
       THEN Goto(Agent, "collect")
       ELSE proc' = [proc EXCEPT ![Agent] = IF mainOn THEN [@ EXCEPT !.pc = "sleep"]
                                                      ELSE Over(Agent)]
  /\ UNCHANGED <<kidVars, mainOn, counts>>

Wake ==
  /\ Is(Agent, "sleep")
  /\ proc' = [proc EXCEPT ![Agent].pc = "poll",
                          ![Agent].polls = IF TimedOut THEN @ ELSE @ + 1]
  /\ UNCHANGED <<kidVars, mainOn, counts>>

\* What the wait says of a child that does not run.
Delivered(k) == HasReport(k) /\ status[k] \notin {"cancelled", "failed"}
Stuck(k) == ~Delivered(k) /\ status[k] # "cancelled"

\* The sum of it, on top of the tool's result.
Advice ==
  IF TimedOut THEN "again"
  ELSE IF proc[Agent].op = "waitCollabs" THEN "delivered"
  ELSE IF \E k \in Targets : Active(k) \/ Suspended(k) THEN "again"
  ELSE IF \E k \in Targets : Stuck(k) THEN "diagnose"
  ELSE "delivered"

Collect ==
  /\ Is(Agent, "collect")
  /\ proc' = [proc EXCEPT ![Agent].pc = "told", ![Agent].says = Advice]
  /\ UNCHANGED <<kidVars, mainOn, counts>>

Told ==
  /\ Is(Agent, "told")
  /\ Return(Agent)
  /\ UNCHANGED <<kidVars, mainOn, counts>>

-----------------------------------------------------------------------------
(* The user's commands.                                                    *)

Begin(t, r) == proc' = [proc EXCEPT ![t] = r]

Issue(t) ==
  /\ Is(t, "idle") /\ cmds < MaxCmds
  /\ cmds' = cmds + 1
  /\ \E op \in Ops :
       \/ op = "spawn" /\ Begin(t, At0("spawnInsert", op, NoKid))
       \/ op = "sendMain" /\ Begin(t, At0("mainStart", op, NoKid))
       \/ op = "retry" /\ Begin(t, At0("mainAbort", op, NoKid))
       \/ op \in {"cascade", "restartAll"} /\ Begin(t, At0("list", op, NoKid))
       \/ op = "continue" /\ ~mainOn /\ Begin(t, At0("list", op, NoKid))
       \/ \E k \in Rows :
            \/ op = "stop" /\ Begin(t, At0("stopMark", op, k))
            \/ op \in {"halt", "restart", "delete"} /\ Begin(t, At0("stopClear", op, k))
            \/ op = "send" /\ Begin(t, At0("start", op, k))
  /\ UNCHANGED <<kidVars, mainOn, calls>>

\* The children a command works on, with the status they have now. A retry
\* removes those the turn had spawned.
List(t) ==
  /\ Is(t, "list")
  /\ \E S \in SUBSET Rows :
       /\ CASE proc[t].op \in {"cascade", "restartAll"} -> S = Rows
            [] proc[t].op = "continue" ->
                 S = {k \in Rows : status[k] \in {"interrupted", "failed", "cancelled"}}
            [] OTHER -> S \cap Residents = {}
       /\ proc' = [proc EXCEPT ![t].pc = "next",
                    ![t].list = IF proc[t].op = "cascade" THEN Listed(S) ELSE Unread(S)]
  /\ UNCHANGED <<kidVars, mainOn, counts>>

\* The cascade spares what was completed when it was listed, collaborators
\* that do nothing, and what has ended.
Spared(k, st) ==
  \/ st = "completed"
  \/ ~Active(k) /\ (k \in Residents \/ st \notin {"active", "running"})

Next1(t) ==
  /\ Is(t, "next")
  /\ \/ \E r \in proc[t].list :
          LET k == r[1]
              pc == CASE proc[t].op = "cascade" ->
                           IF Spared(k, r[2]) THEN "next" ELSE "stopMark"
                      [] proc[t].op = "restartAll" ->
                           IF Active(k) THEN "next" ELSE "stopClear"
                      [] OTHER -> "stopClear"
          IN  proc' = [proc EXCEPT ![t].pc = pc, ![t].list = @ \ {r},
                                   ![t].kid = IF pc = "next" THEN NoKid ELSE k]
     \/ /\ proc[t].list = {}
        /\ CASE proc[t].op = "cascade" -> Goto(t, "mainAbort")
             [] proc[t].op = "restartAll" -> proc' = [proc EXCEPT ![t] = Over(t)]
             [] OTHER -> Goto(t, "mainStart")
  /\ UNCHANGED <<kidVars, mainOn, counts>>

\* The main session itself is stopped. Its task is dropped where it awaits; a
\* tool call it is in goes on to the next await.
MainAbort(t) ==
  /\ Is(t, "mainAbort")
  /\ mainOn' = FALSE
  /\ proc' = [p \in Procs |->
       IF p = Agent /\ proc[p].pc \in {"think", "sleep"} THEN At0("off", "none", NoKid)
       ELSE IF p # t THEN proc[p]
       ELSE IF proc[t].op = "retry" THEN [proc[t] EXCEPT !.pc = "list"]
       ELSE At0("idle", "none", NoKid)]
  /\ UNCHANGED <<kidVars, counts>>

\* A turn of the main session; the one before it has been dropped.
MainStart(t) ==
  /\ Is(t, "mainStart")
  /\ \/ /\ mainOn
        /\ proc' = [proc EXCEPT ![t] = Over(t)]
        /\ UNCHANGED mainOn
     \/ /\ ~mainOn /\ Is(Agent, "off")
        /\ mainOn' = TRUE
        /\ proc' = [proc EXCEPT ![t] = Over(t), ![Agent] = At0("think", "none", NoKid)]
  /\ UNCHANGED <<kidVars, counts>>

DeleteRow(t) ==
  /\ Is(t, "deleteRow")
  /\ status' = [status EXCEPT ![Kid(t)] = IF Kid(t) \in Rows THEN "deleted" ELSE @]
  /\ Return(t)
  /\ UNCHANGED <<cleared, stale, report, work, tail, halted, mainOn, counts>>

-----------------------------------------------------------------------------

KidStep(k) ==
  \/ WriteReport(k) \/ AskUser(k) \/ Answered(k) \/ TimesOut(k) \/ AnsweredLate(k)
  \/ EndRun(k) \/ Settle(k)

Shared(p) ==
  \/ Start(p) \/ SpawnInsert(p) \/ StopMark(p) \/ StopClear(p) \/ StopAbort(p)
  \/ RestartRead(p) \/ RestartDecide(p) \/ RestartMark(p)

ToolStep ==
  \/ Shared(Agent) \/ SpawnCheck \/ RejectCheck \/ RejectClear \/ RejectMark
  \/ DispatchCheck \/ WaitList \/ Poll \/ Wake \/ Collect \/ Told

CmdStep(t) ==
  \/ Shared(t) \/ List(t) \/ Next1(t) \/ MainAbort(t) \/ MainStart(t) \/ DeleteRow(t)

Next ==
  \/ \E k \in Kids : KidStep(k)
  \/ CallTool \/ TurnEnds \/ ToolStep
  \/ \E t \in Threads : Issue(t) \/ CmdStep(t)

Spec == Init /\ [][Next]_vars

\* Threads and tasks that can move do. A run has finitely many steps, so a
\* child that is not kept waiting leaves its loop; nobody need answer it.
Fairness ==
  /\ \A k \in Kids : WF_vars(EndRun(k)) /\ WF_vars(Settle(k))
  /\ WF_vars(ToolStep)
  /\ \A t \in Threads : WF_vars(CmdStep(t))

FairSpec == Spec /\ Fairness

-----------------------------------------------------------------------------
(* Properties.                                                             *)

\* A completed child is degraded by nobody, and a cancelled one is not turned
\* into completed by a loop that leaves late: only a restart, a rejection or a
\* deletion takes a child out of these states, though the cascade works off a
\* list it read before (stop_session_ext, set_session_status, run_loop).
TerminalIsKept ==
  [][\A k \in Kids :
       status[k] \in {"completed", "cancelled"}
         => status'[k] \in {status[k], "running", "deleted"}]_vars

\* Who is about to start k, or to look at it before that.
Minding(p, k) ==
  /\ Kid(p) = k /\ ~(Is(p, "restartDecide") /\ proc[p].seen = "completed")
  /\ proc[p].pc \in {"restartRead", "restartDecide", "restartMark", "rejectClear",
                     "rejectMark", "start", "deleteRow"}

\* A child shown as running is executed, about to settle, or in the hands of a
\* command that starts it, whatever restarts and stops overlap. Two cases are
\* excepted, which the code leaves behind: a stop that comes after the row was
\* set to running, and a restart that is refused after a rejection.
RunningIsDriven ==
  \A k \in Kids :
    status[k] = "running" /\ ~cleared[k] /\ k \notin halted
      => Active(k) \/ tail[k] # "none" \/ \E p \in Procs : Minding(p, k)

\* A child that executes comes to a terminal state, unless it waits for the
\* user: no restart, stop or rejection in between loses its outcome.
ChildSettles ==
  \A k \in Kids :
    Alive(k) ~> \/ status[k] \in Terminal \cup {"deleted"}
                \/ work[k] = "ask" \/ cleared[k] \/ k \in halted

\* A wait returns although children wait for the user, are stopped, restarted
\* or deleted meanwhile (wait_subagents, wait_collaborators).
WaitReturns == Is(Agent, "poll") ~> proc[Agent].pc \in {"told", "think", "off"}
=============================================================================

------------------------------- MODULE LongTask -------------------------------
(***************************************************************************)
(* The long tasks of a session (task/mod.rs): the row of each task, the    *)
(* daemons that push the session on when it falls idle                     *)
(* (task/loop_runner.rs), the channels with which they are told to leave,  *)
(* the commands and the agent's tool that start, pause, resume, cancel,    *)
(* complete and roll back, what stop and continue of the session do to a   *)
(* task (agent.rs), and the restart of the program.                        *)
(*                                                                         *)
(* An action is a section under one lock. The row is written as a whole,   *)
(* from a copy that a daemon took when it was started. Of the session only *)
(* whether a run is active and its last message is here: SessionRun has    *)
(* the rest.                                                               *)
(***************************************************************************)
EXTENDS Integers, FiniteSets

CONSTANTS
  Tasks,       \* identifiers of long tasks, all of one session
  Daemons,     \* places for tasks of the runtime that execute run_task_loop
  Threads,     \* threads executing a command of the user
  Agent,       \* the tool the session's agent executes
  MaxStep,     \* bound: steps counted
  MaxCmds,     \* bound: commands, tool calls and restarts of the program
  None

ASSUME LongTaskAssumption ==
  /\ None \notin Tasks \cup Daemons /\ Agent \notin Threads
  /\ MaxStep \in Nat \ {0} /\ MaxCmds \in Nat

VARIABLES
  row,      \* the rows of long_tasks
  saved,    \* the steps of each task's checkpoints
  newest,   \* the task whose updated_at is greatest
  control,  \* TASK_CONTROLS: the daemon whose channel is registered for a task
  daemon,   \* the daemons
  proc,     \* the threads and the agent's tool
  on,       \* is_run_active of the session
  last,     \* what the session's last message says
  ended,    \* history: the tasks that were ever cancelled or completed
  late,     \* history: pulses of a daemon that had been told to leave
  cmds

vars == <<row, saved, newest, control, daemon, proc, on, last, ended, late, cmds>>
session == <<on, last>>

Status == {"none", "running", "paused", "interrupted", "completed", "cancelled"}
ActiveStatus == {"running", "paused", "interrupted"}
Stopped == {"paused", "completed", "cancelled"}
Row == [st : Status, step : 1..MaxStep]
Signals == {"Running", "Pause", "Cancel", "Complete"}
DaemonPcs == {"gone", "init", "top", "pauseCheck", "pauseWrite", "leave", "status",
              "overBudget", "active", "judge", "declare", "finish", "confirm",
              "push", "pulse"}
Ops == {"start", "pause", "resume", "cancel", "complete", "rollback", "stop",
        "halt", "continue", "none"}
ProcPcs == {"idle", "signal", "mark", "abort", "coop", "create", "register",
            "drive", "rewrite"}
Procs == Threads \cup {Agent}
Daemon == [pc : DaemonPcs, task : Tasks \cup {None}, copy : Row, heard : Signals]
Proc == [pc : ProcPcs, op : Ops, task : Tasks \cup {None}, copy : Row, cp : 0..MaxStep]

NoRow == [st |-> "none", step |-> 1]
Gone == [pc |-> "gone", task |-> None, copy |-> NoRow, heard |-> "Running"]
Idle == [pc |-> "idle", op |-> "none", task |-> None, copy |-> NoRow, cp |-> 0]

HasTask(r) == r.pc \in {"signal", "mark", "register", "rewrite"} \/ r.op = "rollback"

\* A daemon that is not gone has a task, and so has a thread past its first
\* section, unless it stops the session or makes a task.
TypeOK ==
  /\ row \in [Tasks -> Row]
  /\ saved \in [Tasks -> SUBSET (1..MaxStep)]
  /\ newest \in Tasks \cup {None}
  /\ control \in [Tasks -> Daemons \cup {None}]
  /\ daemon \in [Daemons -> Daemon]
  /\ \A d \in Daemons : daemon[d].pc # "gone" => daemon[d].task \in Tasks
  /\ proc \in [Procs -> Proc]
  /\ \A p \in Procs : HasTask(proc[p]) => proc[p].task \in Tasks
  /\ on \in BOOLEAN
  /\ last \in {"user", "goal", "confirm", "other"}
  /\ ended \subseteq Tasks
  /\ late \in [Daemons -> 0..2]
  /\ cmds \in 0..MaxCmds

Init ==
  /\ row = [t \in Tasks |-> NoRow]
  /\ saved = [t \in Tasks |-> {}]
  /\ newest = None
  /\ control = [t \in Tasks |-> None]
  /\ daemon = [d \in Daemons |-> Gone]
  /\ proc = [p \in Procs |-> Idle]
  /\ on = FALSE /\ last = "other"
  /\ ended = {} /\ late = [d \in Daemons |-> 0]
  /\ cmds = 0

-----------------------------------------------------------------------------
(* The table and the channels.                                             *)

\* update_long_task: the whole row, from a copy.
Write(t, r) == row' = [row EXCEPT ![t] = r] /\ newest' = t

\* get_active_long_task: of the tasks that are not over the one updated last.
\* Among older ones the order is not kept here, so any of them may be it.
IsActive(t) ==
  /\ row[t].st \in ActiveStatus
  /\ newest \in Tasks /\ row[newest].st \in ActiveStatus => t = newest
NoneActive == \A t \in Tasks : row[t].st \notin ActiveStatus

\* send_control_signal: without an entry nobody is told.
Told(t, signal) ==
  IF control[t] = None THEN daemon
  ELSE [daemon EXCEPT ![control[t]].heard = signal]

Over(st) == st \in {"cancelled", "completed"}

-----------------------------------------------------------------------------
(* A daemon (run_task_loop).                                               *)

Is(d, pc) == daemon[d].pc = pc
Goto(d, pc) == daemon' = [daemon EXCEPT ![d].pc = pc]
MyTask(d) == daemon[d].task
Copy(d, st) == [daemon[d].copy EXCEPT !.st = st]

\* The daemon writes its copy, with status st, and goes to pc.
Save(d, st, pc) ==
  /\ Write(MyTask(d), Copy(d, st))
  /\ daemon' = [daemon EXCEPT ![d].pc = pc, ![d].copy.st = st]
  /\ UNCHANGED <<saved, control, proc, session, ended, late, cmds>>

\* The first write, whatever happened to the row since the copy was taken.
Announce(d) == Is(d, "init") /\ Save(d, "running", "top")

\* wrong: a pause is not heard
HearEnd(d) ==
  /\ Is(d, "top")
  /\ Goto(d, IF daemon[d].heard \in {"Running", "Pause"} THEN "status" ELSE "leave")
  /\ UNCHANGED <<row, saved, newest, control, proc, session, ended, late, cmds>>

Hear(d) ==
  /\ Is(d, "top")
  /\ Goto(d, CASE daemon[d].heard = "Running" -> "status"
               [] daemon[d].heard = "Pause" -> "pauseCheck"
               [] OTHER -> "leave")
  /\ UNCHANGED <<row, saved, newest, control, proc, session, ended, late, cmds>>

\* A task that is over is not written back as paused...
CheckOver(d) ==
  /\ Is(d, "pauseCheck")
  /\ Goto(d, IF Over(row[MyTask(d)].st) THEN "leave" ELSE "pauseWrite")
  /\ UNCHANGED <<row, saved, newest, control, proc, session, ended, late, cmds>>

\* wrong: the daemon leaves and trusts the row
SkipPaused(d) ==
  /\ Is(d, "pauseWrite") /\ Goto(d, "leave")
  /\ UNCHANGED <<row, saved, newest, control, proc, session, ended, late, cmds>>

\* ... as it was under an earlier lock.
WritePaused(d) == Is(d, "pauseWrite") /\ Save(d, "paused", "leave")

\* remove_control removes whatever channel is registered for the task.
Leave(d) ==
  /\ Is(d, "leave")
  /\ control' = [control EXCEPT ![MyTask(d)] = None]
  /\ daemon' = [daemon EXCEPT ![d] = Gone]
  /\ late' = [late EXCEPT ![d] = 0]
  /\ UNCHANGED <<row, saved, newest, proc, session, ended, cmds>>

\* wrong: only a task that is over sends its daemons away
ReadOver(d) ==
  /\ Is(d, "status")
  /\ Goto(d, IF Over(row[MyTask(d)].st) THEN "leave" ELSE "active")
  /\ UNCHANGED <<row, saved, newest, control, proc, session, ended, late, cmds>>

\* The row may say that the task is stopped; the session's tokens may have
\* reached the budget. A row that says "interrupted" is not looked at further.
ReadStatus(d) ==
  /\ Is(d, "status")
  /\ IF row[MyTask(d)].st \in Stopped THEN Goto(d, "leave")
     ELSE \E pc \in {"overBudget", "active"} : Goto(d, pc)
  /\ UNCHANGED <<row, saved, newest, control, proc, session, ended, late, cmds>>

\* A daemon that suspends its task leaves its channel registered: without a
\* receiver it is as good as none.
SuspendAt(d, pc) ==
  /\ Is(d, pc)
  /\ Write(MyTask(d), Copy(d, "paused"))
  /\ daemon' = [daemon EXCEPT ![d] = Gone]
  /\ control' = [t \in Tasks |-> IF control[t] = d THEN None ELSE control[t]]
  /\ late' = [late EXCEPT ![d] = 0]
  /\ UNCHANGED <<saved, proc, session, ended, cmds>>
OverBudget(d) == SuspendAt(d, "overBudget")
AwaitConfirmation(d) == SuspendAt(d, "confirm")

\* The session must be seen idle twice in a row; whether this is the second
\* time is a choice.
LookAtSession(d) ==
  /\ Is(d, "active")
  /\ \/ ~on /\ Goto(d, "judge")
     \/ Goto(d, "top")
  /\ UNCHANGED <<row, saved, newest, control, proc, session, ended, late, cmds>>

\* What the last message says: everything reached, a question, or neither.
Judge(d) ==
  /\ Is(d, "judge")
  /\ Goto(d, CASE last = "goal" -> "declare" [] last = "confirm" -> "confirm"
               [] OTHER -> "push")
  /\ UNCHANGED <<row, saved, newest, control, proc, session, ended, late, cmds>>

\* complete_long_task called by the daemon: the signal to the registered
\* channel, then row and checkpoint in one section.
Declare(d) ==
  /\ Is(d, "declare")
  /\ daemon' = [Told(MyTask(d), "Complete") EXCEPT ![d].pc = "finish"]
  /\ ended' = ended \cup {MyTask(d)}
  /\ UNCHANGED <<row, saved, newest, control, proc, session, late, cmds>>

Completed(t) ==
  /\ Write(t, [row[t] EXCEPT !.st = "completed"])
  /\ saved' = [saved EXCEPT ![t] = @ \cup {row[t].step}]
  /\ ended' = ended \cup {t}

Finish(d) ==
  /\ Is(d, "finish")
  /\ Completed(MyTask(d))
  /\ daemon' = [daemon EXCEPT ![d] = Gone]
  /\ control' = [t \in Tasks |-> IF control[t] = d THEN None ELSE control[t]]
  /\ late' = [late EXCEPT ![d] = 0]
  /\ UNCHANGED <<proc, session, cmds>>

\* The next step is counted in the copy, which replaces the row.
Push(d) ==
  /\ Is(d, "push")
  /\ LET next == IF daemon[d].copy.step < MaxStep THEN daemon[d].copy.step + 1 ELSE MaxStep
         r == [daemon[d].copy EXCEPT !.step = next]
     IN /\ Write(MyTask(d), r)
        /\ daemon' = [daemon EXCEPT ![d].pc = "pulse", ![d].copy = r]
  /\ UNCHANGED <<saved, control, proc, session, ended, late, cmds>>

\* continue_turn_autonomous: nothing when a run is active.
Drive == /\ on' = TRUE
         /\ last' = IF on THEN last ELSE "user"

Pulse(d) ==
  /\ Is(d, "pulse")
  /\ Drive
  /\ Goto(d, "top")
  /\ late' = [late EXCEPT ![d] = IF daemon[d].heard # "Running" /\ @ < 2 THEN @ + 1 ELSE @]
  /\ UNCHANGED <<row, saved, newest, control, proc, ended, cmds>>

DaemonStep(d) ==
  \/ Announce(d) \/ Hear(d) \/ CheckOver(d) \/ WritePaused(d) \/ Leave(d)
  \/ ReadStatus(d) \/ OverBudget(d) \/ AwaitConfirmation(d) \/ LookAtSession(d)
  \/ Judge(d) \/ Declare(d) \/ Finish(d) \/ Push(d) \/ Pulse(d)

-----------------------------------------------------------------------------
(* The session's run, and messages of the user.                            *)

EndRun ==
  /\ on /\ proc[Agent].pc = "idle"
  /\ on' = FALSE
  /\ last' \in {"goal", "confirm", "other"}
  /\ UNCHANGED <<row, saved, newest, control, daemon, proc, ended, late, cmds>>

SendMessage ==
  /\ ~on /\ on' = TRUE /\ last' = "user"
  /\ UNCHANGED <<row, saved, newest, control, daemon, proc, ended, late, cmds>>

-----------------------------------------------------------------------------
(* Commands and tools: their first section.                                *)

At(p, pc) == proc[p].pc = pc
PGoto(p, pc) == proc' = [proc EXCEPT ![p].pc = pc]
Task(p) == proc[p].task
Return(p) == proc' = [proc EXCEPT ![p] = Idle]

\* p comes to execute op on t; the agent can only while its run is active.
Call(p, op, pc, t, c, cp) ==
  /\ At(p, "idle") /\ (p = Agent => on)
  /\ cmds < MaxCmds /\ cmds' = cmds + 1
  /\ proc' = [proc EXCEPT ![p] = [pc |-> pc, op |-> op, task |-> t, copy |-> c, cp |-> cp]]
  /\ UNCHANGED <<saved, control, daemon, session, late>>
Reads == UNCHANGED <<row, newest, ended>>

\* A task that runs or is paused is cancelled first; an interrupted one is not.
StartTask(p) ==
  /\ \/ \E t \in Tasks :
          /\ IsActive(t)
          /\ Call(p, "start", IF row[t].st \in {"running", "paused"} THEN "signal" ELSE "create",
                  t, NoRow, 0)
     \/ NoneActive /\ Call(p, "start", "create", None, NoRow, 0)
  /\ Reads

\* The agent's tool is for the active task, a command for the one it names.
PauseTask(p) ==
  /\ \E t \in Tasks : /\ IF p = Agent THEN IsActive(t) ELSE row[t].st # "none"
                      /\ Call(p, "pause", "signal", t, NoRow, 0)
  /\ Reads

CompleteTask(p) ==
  /\ \E t \in Tasks : /\ IF p = Agent THEN IsActive(t) ELSE row[t].st # "none"
                      /\ Call(p, "complete", "signal", t, NoRow, 0)
  /\ Reads

CancelTask(p) ==
  /\ \E t \in Tasks : row[t].st # "none" /\ Call(p, "cancel", "signal", t, NoRow, 0)
  /\ Reads

\* The task and the checkpoint are read, to be written back after the pause.
RollBack(p) ==
  /\ \E t \in Tasks : \E cp \in saved[t] : Call(p, "rollback", "signal", t, row[t], cp)
  /\ Reads

\* wrong: the active task is not tested
StopUntested(p) == Call(p, "stop", "signal", None, NoRow, 0) /\ Reads

\* stop_run: a running task is paused, then the session is stopped anyway.
StopSession(p) ==
  /\ \/ \E t \in Tasks :
          /\ IsActive(t)
          /\ IF row[t].st = "running" THEN Call(p, "stop", "signal", t, NoRow, 0)
                                      ELSE Call(p, "halt", "abort", None, NoRow, 0)
     \/ NoneActive /\ Call(p, "halt", "abort", None, NoRow, 0)
  /\ Reads

\* The row says running whatever it said; a daemon is to follow.
ResumeTask(p) ==
  \E t \in Tasks :
    /\ row[t].st # "none"
    /\ Call(p, "resume", "register", t, [row[t] EXCEPT !.st = "running"], 0)
    /\ Write(t, [row[t] EXCEPT !.st = "running"])
    /\ ended' = ended

\* continue_turn: a suspended task is resumed. A turn is continued only when no
\* task is over.
ContinueSession(p) ==
  /\ \/ /\ newest \in Tasks /\ row[newest].st \in {"paused", "interrupted"}
        /\ Call(p, "continue", "register", newest, NoRow, 0)
     \/ /\ newest = None \/ (newest \in Tasks /\ row[newest].st = "running")
        /\ ~on
        /\ Call(p, "continue", "drive", None, NoRow, 0)
  /\ Reads

(* Their later sections.                                                   *)

SignalOf(op) == CASE op \in {"start", "cancel"} -> "Cancel"
                  [] op = "complete" -> "Complete"
                  [] OTHER -> "Pause"
StatusOf(op) == IF op \in {"start", "cancel"} THEN "cancelled" ELSE "paused"

Signal(p) ==
  /\ At(p, "signal")
  /\ daemon' = Told(Task(p), SignalOf(proc[p].op))
  /\ ended' = IF SignalOf(proc[p].op) = "Pause" THEN ended ELSE ended \cup {Task(p)}
  /\ PGoto(p, "mark")
  /\ UNCHANGED <<row, saved, newest, control, session, late, cmds>>

\* Whatever the row says.
Mark(p) ==
  /\ At(p, "mark") /\ proc[p].op # "complete"
  /\ LET st == StatusOf(proc[p].op)
     IN /\ Write(Task(p), [row[Task(p)] EXCEPT !.st = st])
        /\ ended' = IF st = "cancelled" THEN ended \cup {Task(p)} ELSE ended
  /\ PGoto(p, "abort")
  /\ UNCHANGED <<saved, control, daemon, session, late, cmds>>

\* The run that completes its task goes on.
MarkCompleted(p) ==
  /\ At(p, "mark") /\ proc[p].op = "complete"
  /\ Completed(Task(p))
  /\ Return(p)
  /\ UNCHANGED <<control, daemon, session, late, cmds>>

\* stop_session_ext: the run is aborted...
Abort(p) ==
  /\ At(p, "abort")
  /\ on' = FALSE
  /\ PGoto(p, "coop")
  /\ UNCHANGED <<row, saved, newest, control, daemon, last, ended, late, cmds>>

\* ... an active task that is not paused is told to pause and interrupted, and
\* then a loop is started in case a message is queued.
AfterStop(p) ==
  proc' = [proc EXCEPT ![p] =
    CASE proc[p].op = "start" -> [@ EXCEPT !.pc = "create"]
      [] proc[p].op = "rollback" -> [@ EXCEPT !.pc = "rewrite"]
      [] proc[p].op = "stop" -> [@ EXCEPT !.pc = "abort", !.op = "halt"]
      [] OTHER -> Idle]

Interrupt(t) ==
  /\ IsActive(t) /\ row[t].st # "paused"
  /\ daemon' = Told(t, "Pause")
  /\ Write(t, [row[t] EXCEPT !.st = "interrupted"])

Cooperate(p) ==
  /\ At(p, "coop")
  /\ \/ \E t \in Tasks : Interrupt(t)
     \/ /\ \E t \in Tasks : IsActive(t) /\ row[t].st = "paused"
        /\ UNCHANGED <<row, newest, daemon>>
     \/ NoneActive /\ UNCHANGED <<row, newest, daemon>>
  /\ UNCHANGED session \/ (on' = TRUE /\ last' = "user")
  /\ AfterStop(p)
  /\ UNCHANGED <<saved, control, ended, late, cmds>>

\* A row and its first message.
Create(p) ==
  /\ At(p, "create")
  /\ \E t \in Tasks :
       LET r == [st |-> "running", step |-> 1] IN
       /\ row[t].st = "none"
       /\ Write(t, r)
       /\ proc' = [proc EXCEPT ![p] = [@ EXCEPT !.pc = "register", !.task = t, !.copy = r]]
  /\ last' = "user"
  /\ UNCHANGED <<saved, control, daemon, on, ended, late, cmds>>

\* A channel replaces the one registered, whose daemon is told nothing, and a
\* daemon with a copy of the row is started; a new task also starts the run.
Register(p) ==
  /\ At(p, "register") /\ proc[p].op \in {"start", "resume"}
  /\ \E d \in Daemons :
       /\ Is(d, "gone")
       /\ control' = [control EXCEPT ![Task(p)] = d]
       /\ daemon' = [daemon EXCEPT ![d] =
            [pc |-> "init", task |-> Task(p), copy |-> proc[p].copy,
             heard |-> "Running"]]
  /\ IF proc[p].op = "start" THEN on' = TRUE /\ Return(p)
     ELSE on' = on /\ PGoto(p, "drive")
  /\ UNCHANGED <<row, saved, newest, last, ended, late, cmds>>

\* resume_long_task, entered from continue_turn after the lock was given up.
ResumeLatest(p) ==
  /\ At(p, "register") /\ proc[p].op = "continue"
  /\ LET r == [row[Task(p)] EXCEPT !.st = "running"]
     IN /\ Write(Task(p), r)
        /\ proc' = [proc EXCEPT ![p] = [@ EXCEPT !.op = "resume", !.copy = r]]
  /\ UNCHANGED <<saved, control, daemon, session, ended, late, cmds>>

DriveSession(p) ==
  /\ At(p, "drive") /\ Drive /\ Return(p)
  /\ UNCHANGED <<row, saved, newest, control, daemon, ended, late, cmds>>

\* wrong: the status read before the pause is written back
RewriteAsRead(p) ==
  /\ At(p, "rewrite")
  /\ saved' = [saved EXCEPT ![Task(p)] = {s \in @ : s <= proc[p].cp}]
  /\ Write(Task(p), proc[p].copy)
  /\ Return(p)
  /\ UNCHANGED <<control, daemon, session, ended, late, cmds>>

\* Later checkpoints go, and the row read before the pause comes back as paused.
Rewrite(p) ==
  /\ At(p, "rewrite")
  /\ saved' = [saved EXCEPT ![Task(p)] = {s \in @ : s <= proc[p].cp}]
  /\ Write(Task(p), [proc[p].copy EXCEPT !.st = "paused"])
  /\ Return(p)
  /\ UNCHANGED <<control, daemon, session, ended, late, cmds>>

-----------------------------------------------------------------------------
(* The program is killed and started again: startup_reconcile.             *)

Crash ==
  /\ cmds < MaxCmds /\ cmds' = cmds + 1
  /\ row' = [t \in Tasks |-> IF row[t].st = "running"
                               THEN [row[t] EXCEPT !.st = "interrupted"] ELSE row[t]]
  /\ daemon' = [d \in Daemons |-> Gone]
  /\ control' = [t \in Tasks |-> None]
  /\ proc' = [p \in Procs |-> Idle]
  /\ late' = [d \in Daemons |-> 0]
  /\ on' = FALSE
  /\ UNCHANGED <<saved, newest, last, ended>>

Command(p) ==
  \/ StartTask(p) \/ PauseTask(p) \/ CompleteTask(p)
  \/ p # Agent /\ (CancelTask(p) \/ RollBack(p) \/ StopSession(p) \/ ResumeTask(p)
                   \/ ContinueSession(p))

ProcStep(p) ==
  \/ Signal(p) \/ Mark(p) \/ MarkCompleted(p) \/ Abort(p) \/ Cooperate(p)
  \/ Create(p) \/ Register(p) \/ ResumeLatest(p) \/ DriveSession(p) \/ Rewrite(p)

Next ==
  \/ \E d \in Daemons : DaemonStep(d)
  \/ \E p \in Procs : Command(p) \/ ProcStep(p)
  \/ EndRun \/ SendMessage \/ Crash

Spec == Init /\ [][Next]_vars

\* The runtime polls its tasks, and a thread executes its command.
FairSpec ==
  /\ Spec
  /\ \A d \in Daemons : WF_vars(DaemonStep(d))
  /\ \A p \in Procs : WF_vars(ProcStep(p))

-----------------------------------------------------------------------------
(* Properties.                                                             *)

Drives(d, t) == MyTask(d) = t /\ daemon[d].pc \notin {"gone", "leave"}
ToBeDriven(t) == \E p \in Procs : At(p, "register") /\ Task(p) = t

\* A row that says running, with no daemon left to execute it and nobody about
\* to start one, is of a task somebody cancelled or completed: pauses, stops,
\* budgets, rollbacks, restarts and daemons that a resume has replaced never
\* leave one. (A write of an old copy can undo a cancellation.)
UndrivenWasEnded ==
  \A t \in Tasks :
    row[t].st = "running" /\ (\A d \in Daemons : ~Drives(d, t)) /\ ~ToBeDriven(t)
      => t \in ended

\* A daemon that was told to pause, cancel or complete pushes the session on at
\* most once more, from the iteration it was in.
ToldPushesOnce == \A d \in Daemons : late[d] <= 1

\* A completed task has the checkpoint of the step it was completed at, though
\* rollbacks delete checkpoints and write back a row read earlier.
CompletedIsArchived ==
  \A t \in Tasks : row[t].st = "completed" => row[t].step \in saved[t]

\* Once a task stays paused, completed or cancelled all its daemons leave, those
\* too whose channel a resume has replaced and which are told nothing.
StoppedIsLeft ==
  \A t \in Tasks :
    <>[](row[t].st \in Stopped)
      => <>[](\A d \in Daemons : MyTask(d) # t \/ Is(d, "gone"))
=============================================================================

------------------------------ MODULE SessionRun ------------------------------
(***************************************************************************)
(* The life of the runs of ONE top-level session: the agent loop of        *)
(* agent.rs (spawn_session_task, run_loop, the outer shape of run_once),   *)
(* the user commands that start, feed, cut and rewind it (send_message,    *)
(* guide_message, delete_queued_message, stop_run, retry_turn,             *)
(* edit_and_resend, continue_turn), and the rows of `messages' and `runs'  *)
(* these share.                                                            *)
(*                                                                         *)
(* Granularity: one action per section of code executed under one lock     *)
(* (the handles mutex, the connection of the session's database) or        *)
(* between two await points. Commands run on the main thread, on blocking  *)
(* threads and on the threads of the RPC server, so their steps interleave *)
(* with each other and with every loop.                                    *)
(***************************************************************************)
EXTENDS Integers, Sequences, FiniteSets, SequencesExt

CONSTANTS
  Msgs,        \* user messages; each is typed once
  Loops,       \* identities of tokio tasks executing run_loop
  Cmds,        \* threads executing a command
  Ops,         \* the commands users issue in this instance
  Outcomes,    \* how run_once may end in this instance
  DbMayFail,   \* whether pop_queued and create_run may return an error
  MaxCmds,     \* bound: commands issued
  MaxTurns,    \* bound: tool rounds of one run_once (settings.max_steps)
  Idle, Starting,  \* active_run = None, active_run = Some("starting")
  NoMsg, NoLoop

AllOps == {"send", "guide", "delete", "stop", "retry", "edit", "continue"}
AllOutcomes == {"answered", "stepsRefused", "failed"}

ASSUME SessionRunAssumption ==
  /\ Ops \subseteq AllOps /\ Outcomes \subseteq AllOutcomes
  /\ DbMayFail \in BOOLEAN /\ MaxCmds \in Nat /\ MaxTurns \in Nat
  /\ Idle \notin Nat /\ Starting \notin Nat /\ Idle # Starting
  /\ NoMsg \notin Msgs /\ NoLoop \notin Loops

VARIABLES
  queue,       \* rows of messages with queued = 1, in created_at order
  stream,      \* user rows with queued = 0, in seq order
  removed,     \* rows deleted: from the queue, or by a rewind
  runs,        \* table runs, in started_at order: [trig, status]
  active,      \* SessionHandle.active_run
  abort,       \* SessionHandle.abort: the loop whose JoinHandle is stored
  loop,        \* the run_loop tasks and their locals
  cmd,         \* the commands in flight and their locals
  answered,    \* history: messages in the context of a final answer
  ncmds        \* history: commands issued so far

db == <<queue, stream, removed, runs>>
handle == <<active, abort>>
vars == <<db, handle, loop, cmd, answered, ncmds>>

LoopPcs == {"unborn", "ready", "pick", "create", "mark", "context", "await",
            "limit", "finished", "failed", "broke", "clear", "sweep", "dead"}
CmdPcs == {"idle", "enqueue", "append", "dequeue", "guideCheck", "remove",
           "cancelRuns", "choose", "truncate", "prepare",
           "gate", "launch", "handle"}
Statuses == {"running", "done", "failed", "interrupted", "cancelled"}

RunRow == [trig : Msgs, status : Statuses]
LoopState == [pc : LoopPcs, trig : Msgs \cup {NoMsg}, run : Nat, turn : Nat,
              ctx : SUBSET Msgs, cancelled : BOOLEAN]
CmdState == [pc : CmdPcs, op : AllOps \cup {"none"}, msg : Msgs \cup {NoMsg},
             pos : Nat, loop : Loops \cup {NoLoop}]
LoopAt(pc, m) == [pc |-> pc, trig |-> m, run |-> 0, turn |-> 0, ctx |-> {},
                  cancelled |-> FALSE]
NoCmd == [pc |-> "idle", op |-> "none", msg |-> NoMsg, pos |-> 0,
          loop |-> NoLoop]

TypeOK ==
  /\ queue \in Seq(Msgs) /\ stream \in Seq(Msgs) /\ removed \subseteq Msgs
  /\ runs \in Seq(RunRow)
  /\ active \in Nat \cup {Idle, Starting}
  /\ abort \in Loops \cup {NoLoop}
  /\ loop \in [Loops -> LoopState]
  /\ cmd \in [Cmds -> CmdState]
  /\ answered \subseteq Msgs /\ ncmds \in Nat

Init ==
  /\ queue = <<>> /\ stream = <<>> /\ removed = {} /\ runs = <<>>
  /\ active = Idle /\ abort = NoLoop
  /\ loop = [l \in Loops |-> LoopAt("unborn", NoMsg)]
  /\ cmd = [c \in Cmds |-> NoCmd]
  /\ answered = {} /\ ncmds = 0

-----------------------------------------------------------------------------
(* The loop: run_loop, with run_once from "context" to its return.          *)

At(l, pc) == loop[l].pc = pc
Goto(l, pc) == loop' = [loop EXCEPT ![l].pc = pc]
EndLoop(l) == loop' = [loop EXCEPT ![l] = LoopAt("dead", NoMsg)]
SetStatus(r, s) == runs' = [runs EXCEPT ![r].status = s]
CloseOpen(s) ==
  runs' = [r \in DOMAIN runs |->
             IF runs[r].status = "running" THEN [runs[r] EXCEPT !.status = s]
                                           ELSE runs[r]]

\* tokio polls the task for the first time; a task already aborted never is.
Begin(l) ==
  /\ At(l, "ready") /\ ~loop[l].cancelled
  /\ Goto(l, "pick")
  /\ UNCHANGED <<db, handle, cmd, answered, ncmds>>

\* Top of the loop: the explicit trigger, or the oldest queued message.
PickTriggerUnset(l) ==   \* wrong: takes an absent trigger for one
  /\ At(l, "pick")
  /\ Goto(l, "create")
  /\ UNCHANGED <<db, handle, cmd, answered, ncmds>>

PickTrigger(l) ==
  /\ At(l, "pick") /\ loop[l].trig # NoMsg
  /\ Goto(l, "create")
  /\ UNCHANGED <<db, handle, cmd, answered, ncmds>>

PopNewest(l) ==   \* wrong: the newest message first
  /\ At(l, "pick") /\ loop[l].trig = NoMsg /\ queue # <<>>
  /\ loop' = [loop EXCEPT ![l].pc = "create", ![l].trig = Last(queue)]
  /\ queue' = Front(queue) /\ stream' = Append(stream, Last(queue))
  /\ UNCHANGED <<removed, runs, handle, cmd, answered, ncmds>>

PopQueued(l) ==
  /\ At(l, "pick") /\ loop[l].trig = NoMsg /\ queue # <<>>
  /\ loop' = [loop EXCEPT ![l].pc = "create", ![l].trig = Head(queue)]
  /\ queue' = Tail(queue) /\ stream' = Append(stream, Head(queue))
  /\ UNCHANGED <<removed, runs, handle, cmd, answered, ncmds>>

PopNothingReturns(l) ==   \* wrong: returns without clearing active_run
  /\ At(l, "pick") /\ loop[l].trig = NoMsg /\ queue = <<>>
  /\ Goto(l, "sweep")
  /\ UNCHANGED <<db, handle, cmd, answered, ncmds>>

PopNothing(l) ==
  /\ At(l, "pick") /\ loop[l].trig = NoMsg /\ queue = <<>>
  /\ Goto(l, "clear")
  /\ UNCHANGED <<db, handle, cmd, answered, ncmds>>

\* pop_queued returns an error: taken for an empty queue, the loop ends.
PopFails(l) ==
  /\ At(l, "pick") /\ loop[l].trig = NoMsg /\ DbMayFail
  /\ Goto(l, "broke")
  /\ UNCHANGED <<db, handle, cmd, answered, ncmds>>

CreateRun(l) ==
  /\ At(l, "create")
  /\ runs' = Append(runs, [trig |-> loop[l].trig, status |-> "running"])
  /\ loop' = [loop EXCEPT ![l].pc = "mark", ![l].run = Len(runs) + 1]
  /\ UNCHANGED <<queue, stream, removed, handle, cmd, answered, ncmds>>

\* create_run returns an error: the loop ends, its trigger stays in the stream.
CreateRunFails(l) ==
  /\ At(l, "create") /\ DbMayFail
  /\ Goto(l, "broke")
  /\ UNCHANGED <<db, handle, cmd, answered, ncmds>>

MarkActiveAgain(l) ==   \* wrong: writes the run as running once more
  /\ At(l, "mark")
  /\ active' = loop[l].run /\ SetStatus(loop[l].run, "running")
  /\ loop' = [loop EXCEPT ![l].pc = "context", ![l].turn = 0]
  /\ UNCHANGED <<queue, stream, removed, abort, cmd, answered, ncmds>>

MarkActive(l) ==
  /\ At(l, "mark")
  /\ active' = loop[l].run
  /\ loop' = [loop EXCEPT ![l].pc = "context", ![l].turn = 0]
  /\ UNCHANGED <<db, abort, cmd, answered, ncmds>>

\* Each step of run_once rebuilds the context from the stream, then awaits.
BuildContext(l) ==
  /\ At(l, "context")
  /\ loop' = [loop EXCEPT ![l].pc = "await", ![l].ctx = ToSet(stream)]
  /\ UNCHANGED <<db, handle, cmd, answered, ncmds>>

\* The model asked for tools: their results start another step.
ToolRound(l) ==
  /\ At(l, "await") /\ ~loop[l].cancelled /\ loop[l].turn < MaxTurns
  /\ loop' = [loop EXCEPT ![l].pc = "context", ![l].turn = @ + 1]
  /\ UNCHANGED <<db, handle, cmd, answered, ncmds>>

\* The steps are used up: the run asks the user for more, and waits for the
\* answer without a limit of time (request_step_approval).
ReachLimit(l) ==
  /\ At(l, "await") /\ ~loop[l].cancelled /\ loop[l].turn = MaxTurns
  /\ Goto(l, "limit")
  /\ UNCHANGED <<db, handle, cmd, answered, ncmds>>

\* The user's answer: more steps (as many again in the model), or none, which
\* ends the run as Done.
StepsGranted(l) ==
  /\ At(l, "limit") /\ ~loop[l].cancelled
  /\ loop' = [loop EXCEPT ![l].pc = "context", ![l].turn = 0]
  /\ UNCHANGED <<db, handle, cmd, answered, ncmds>>

StepsRefused(l) ==
  /\ At(l, "limit") /\ ~loop[l].cancelled /\ "stepsRefused" \in Outcomes
  /\ Goto(l, "finished")
  /\ UNCHANGED <<db, handle, cmd, answered, ncmds>>

\* run_once returns by itself: a final answer (Done), or an error (Failed),
\* which a missing provider raises before any await.
Return(l, o) ==
  /\ \/ At(l, "await") /\ ~loop[l].cancelled
     \/ At(l, "context") /\ o = "failed"
  /\ o \in Outcomes \ {"stepsRefused"}
  /\ answered' = IF o = "answered" THEN answered \cup loop[l].ctx ELSE answered
  /\ Goto(l, IF o = "failed" THEN "failed" ELSE "finished")
  /\ UNCHANGED <<db, handle, cmd, ncmds>>

\* finish_run writes the row whatever its status; a failure ends the loop.
RecordDoneOnce(l) ==   \* wrong: one run per loop, the queue is left alone
  /\ At(l, "finished")
  /\ SetStatus(loop[l].run, "done")
  /\ Goto(l, "clear")
  /\ UNCHANGED <<queue, stream, removed, handle, cmd, answered, ncmds>>

RecordDone(l) ==
  /\ At(l, "finished")
  /\ SetStatus(loop[l].run, "done")
  /\ loop' = [loop EXCEPT ![l] = LoopAt("pick", NoMsg),
                          ![l].cancelled = loop[l].cancelled]
  /\ UNCHANGED <<queue, stream, removed, handle, cmd, answered, ncmds>>

RecordFailedGoesOn(l) ==   \* wrong: no break on failure
  /\ At(l, "failed")
  /\ SetStatus(loop[l].run, "failed")
  /\ loop' = [loop EXCEPT ![l] = LoopAt("pick", NoMsg)]
  /\ UNCHANGED <<queue, stream, removed, handle, cmd, answered, ncmds>>

RecordFailedEarly(l) ==   \* wrong: breaks before finish_run
  /\ At(l, "failed")
  /\ Goto(l, "clear")
  /\ UNCHANGED <<db, handle, cmd, answered, ncmds>>

RecordFailed(l) ==
  /\ At(l, "failed")
  /\ SetStatus(loop[l].run, "failed")
  /\ Goto(l, "clear")
  /\ UNCHANGED <<queue, stream, removed, handle, cmd, answered, ncmds>>

ClearActive(l) ==
  /\ At(l, "clear") \/ At(l, "broke")
  /\ active' = Idle
  /\ Goto(l, "sweep")
  /\ UNCHANGED <<db, abort, cmd, answered, ncmds>>

\* fail_open_runs, for every run of the session that is still open.
Sweep(l) ==
  /\ At(l, "sweep")
  /\ CloseOpen("interrupted")
  /\ EndLoop(l)
  /\ UNCHANGED <<queue, stream, removed, handle, cmd, answered, ncmds>>

\* tokio drops an aborted task, at an await point or before its first poll.
Drop(l) ==
  /\ At(l, "ready") \/ At(l, "await") \/ At(l, "limit")
  /\ loop[l].cancelled
  /\ EndLoop(l)
  /\ UNCHANGED <<db, handle, cmd, answered, ncmds>>

-----------------------------------------------------------------------------
(* Commands. Issue is the click; what follows runs on the command's thread. *)

CmdAt(c, pc) == cmd[c].pc = pc
CmdGoto(c, pc) == cmd' = [cmd EXCEPT ![c].pc = pc]
CmdEnd(c) == cmd' = [cmd EXCEPT ![c] = NoCmd]

\* Messages typed so far, those whose row is not inserted yet included.
Typed == ToSet(queue) \cup ToSet(stream) \cup removed
           \cup {cmd[c].msg : c \in {d \in Cmds : cmd[d].pc \in {"enqueue", "append"}}}

Issue(c, op, m, pos, pc) ==
  /\ CmdAt(c, "idle") /\ op \in Ops /\ ncmds < MaxCmds
  /\ ncmds' = ncmds + 1
  /\ cmd' = [cmd EXCEPT ![c] = [NoCmd EXCEPT !.pc = pc, !.op = op,
                                             !.msg = m, !.pos = pos]]

\* send_message reads is_run_active, later inserts the row with queued = that.
SendMessage(c, m) ==
  /\ m \in Msgs \ Typed
  /\ Issue(c, "send", m, 0, IF active # Idle THEN "enqueue" ELSE "append")
  /\ UNCHANGED <<db, handle, loop, answered>>

InsertQueued(c) ==
  /\ CmdAt(c, "enqueue")
  /\ queue' = Append(queue, cmd[c].msg)
  /\ CmdEnd(c)
  /\ UNCHANGED <<stream, removed, runs, handle, loop, answered, ncmds>>

InsertDirect(c) ==
  /\ CmdAt(c, "append")
  /\ stream' = Append(stream, cmd[c].msg)
  /\ CmdGoto(c, "gate")
  /\ UNCHANGED <<queue, removed, runs, handle, loop, answered, ncmds>>

\* guide_message on a message the list shows; it may be gone when it runs.
GuideMessage(c, m) ==
  /\ m \in ToSet(queue)
  /\ Issue(c, "guide", m, 0, "dequeue")
  /\ UNCHANGED <<db, handle, loop, answered>>

DequeueGuided(c) ==
  /\ CmdAt(c, "dequeue")
  /\ \/ /\ cmd[c].msg \notin ToSet(queue)
        /\ UNCHANGED <<queue, stream>>
     \/ \E i \in DOMAIN queue :
          /\ queue[i] = cmd[c].msg
          /\ queue' = RemoveAt(queue, i)
          /\ stream' = Append(stream, cmd[c].msg)
  /\ CmdGoto(c, "guideCheck")
  /\ UNCHANGED <<removed, runs, handle, loop, answered, ncmds>>

GuideCheck(c) ==
  /\ CmdAt(c, "guideCheck")
  /\ IF active = Idle THEN CmdGoto(c, "gate") ELSE CmdEnd(c)
  /\ UNCHANGED <<db, handle, loop, answered, ncmds>>

DeleteQueued(c, m) ==
  /\ m \in ToSet(queue)
  /\ Issue(c, "delete", m, 0, "remove")
  /\ UNCHANGED <<db, handle, loop, answered>>

RemoveQueued(c) ==
  /\ CmdAt(c, "remove")
  /\ \/ /\ cmd[c].msg \notin ToSet(queue)
        /\ UNCHANGED <<queue, removed>>
     \/ \E i \in DOMAIN queue :
          /\ queue[i] = cmd[c].msg
          /\ queue' = RemoveAt(queue, i)
          /\ removed' = removed \cup {cmd[c].msg}
  /\ CmdEnd(c)
  /\ UNCHANGED <<stream, runs, handle, loop, answered, ncmds>>

\* stop_session_ext: take active_run and the abort handle, abort the task.
AfterStop(op) == IF op = "stop" THEN "gate" ELSE "choose"

Stop(c, op) ==
  /\ op \in {"stop", "retry"}
  /\ Issue(c, op, NoMsg, 0,
           IF active = Idle THEN AfterStop(op) ELSE "cancelRuns")
  /\ active' = Idle /\ abort' = NoLoop
  /\ loop' = [l \in Loops |-> IF l = abort /\ ~At(l, "dead")
                                THEN [loop[l] EXCEPT !.cancelled = TRUE]
                                ELSE loop[l]]
  /\ UNCHANGED <<db, answered>>

CancelOpenRuns(c) ==
  /\ CmdAt(c, "cancelRuns")
  /\ CloseOpen("cancelled")
  /\ CmdGoto(c, AfterStop(cmd[c].op))
  /\ UNCHANGED <<queue, stream, removed, handle, loop, answered, ncmds>>

\* retry_turn: the last user message of the stream; an error if there is none.
ChooseLast(c) ==
  /\ CmdAt(c, "choose")
  /\ IF stream = <<>>
       THEN CmdEnd(c)
       ELSE cmd' = [cmd EXCEPT ![c].pc = "truncate", ![c].msg = Last(stream),
                               ![c].pos = Len(stream)]
  /\ UNCHANGED <<db, handle, loop, answered, ncmds>>

\* edit_and_resend: refused while a run is active, then awaits the revert of
\* the files of the turns it rewinds.
EditMessage(c, m) ==
  /\ active = Idle
  /\ \E i \in DOMAIN stream :
       stream[i] = m /\ Issue(c, "edit", m, i, "truncate")
  /\ UNCHANGED <<db, handle, loop, answered>>

\* delete_messages_after: every row of the stream past the message.
Truncate(c) ==
  /\ CmdAt(c, "truncate")
  /\ LET kept == [i \in {j \in DOMAIN stream : j <= cmd[c].pos} |-> stream[i]]
         cut == ToSet(stream) \ ToSet(kept)
     IN  /\ stream' = kept
         /\ removed' = removed \cup cut
         /\ answered' = answered \ (cut \cup {cmd[c].msg})
  /\ CmdGoto(c, "gate")
  /\ UNCHANGED <<queue, runs, handle, loop, ncmds>>

\* continue_turn: refused while a run is active; the last message is the
\* trigger when it is a user's, otherwise a new one asks to continue.
ContinueTurn(c) ==
  /\ active = Idle
  /\ Issue(c, "continue", NoMsg, 0, "prepare")
  /\ UNCHANGED <<db, handle, loop, answered>>

PrepareContinue(c) ==
  /\ CmdAt(c, "prepare")
  /\ \/ /\ stream # <<>> /\ Last(stream) \notin answered
        /\ cmd' = [cmd EXCEPT ![c].pc = "gate", ![c].msg = Last(stream)]
        /\ UNCHANGED stream
     \/ \E m \in Msgs \ Typed :
          /\ cmd' = [cmd EXCEPT ![c].pc = "gate", ![c].msg = m]
          /\ stream' = Append(stream, m)
  /\ UNCHANGED <<queue, removed, runs, handle, loop, answered, ncmds>>

\* spawn_session_task: test and set active_run, spawn, store the JoinHandle.
SpawnUntested(c) ==   \* wrong: without the test of active_run
  /\ CmdAt(c, "gate")
  /\ CmdGoto(c, "launch") /\ active' = Starting
  /\ UNCHANGED <<db, abort, loop, answered, ncmds>>

SpawnGate(c) ==
  /\ CmdAt(c, "gate")
  /\ IF active # Idle THEN CmdEnd(c) /\ UNCHANGED active
                      ELSE CmdGoto(c, "launch") /\ active' = Starting
  /\ UNCHANGED <<db, abort, loop, answered, ncmds>>

SpawnLaunch(c) ==
  /\ CmdAt(c, "launch")
  /\ \E k \in Loops : At(k, "unborn")
  /\ LET l == CHOOSE k \in Loops : At(k, "unborn")   \* a new task
     IN  /\ loop' = [loop EXCEPT ![l] = LoopAt("ready", cmd[c].msg)]
         /\ cmd' = [cmd EXCEPT ![c].pc = "handle", ![c].loop = l]
  /\ UNCHANGED <<db, handle, answered, ncmds>>

SpawnStore(c) ==
  /\ CmdAt(c, "handle")
  /\ abort' = cmd[c].loop
  /\ CmdEnd(c)
  /\ UNCHANGED <<db, active, loop, answered, ncmds>>

-----------------------------------------------------------------------------
LoopStep(l) ==
  \/ Begin(l) \/ PickTrigger(l) \/ PopQueued(l) \/ PopNothing(l) \/ PopFails(l)
  \/ CreateRun(l) \/ CreateRunFails(l) \/ MarkActive(l) \/ BuildContext(l)
  \/ ToolRound(l) \/ ReachLimit(l) \/ (\E o \in AllOutcomes : Return(l, o))
  \/ RecordDone(l) \/ RecordFailed(l) \/ ClearActive(l) \/ Sweep(l) \/ Drop(l)

CmdStep(c) ==
  \/ InsertQueued(c) \/ InsertDirect(c) \/ DequeueGuided(c) \/ GuideCheck(c)
  \/ RemoveQueued(c) \/ CancelOpenRuns(c) \/ ChooseLast(c) \/ Truncate(c)
  \/ PrepareContinue(c) \/ SpawnGate(c) \/ SpawnLaunch(c) \/ SpawnStore(c)

User(c) ==
  \/ \E m \in Msgs : \/ SendMessage(c, m) \/ GuideMessage(c, m)
                     \/ DeleteQueued(c, m) \/ EditMessage(c, m)
  \/ \E op \in {"stop", "retry"} : Stop(c, op)
  \/ ContinueTurn(c)

Next ==
  \/ \E l \in Loops : LoopStep(l) \/ StepsGranted(l) \/ StepsRefused(l)
  \/ \E c \in Cmds : CmdStep(c) \/ User(c)

Spec == Init /\ [][Next]_vars

\* The scheduler runs every ready task and thread. That an await of the run
\* ends is assumed of the model's provider and of the tools: a reply ends or
\* its connection does (the client limits the time of connecting only, and
\* keeps the connection alive). Users need not do anything: a run that has
\* used up its steps may wait for them for ever, so StepsGranted and
\* StepsRefused are under no fairness.
FairSpec ==
  /\ Spec
  /\ \A l \in Loops : WF_vars(LoopStep(l))
  /\ \A c \in Cmds : WF_vars(CmdStep(c))

-----------------------------------------------------------------------------
(* Properties.                                                             *)

\* Loops between their spawn and the clearing of active_run, not yet aborted.
Driver(l) ==
  /\ loop[l].pc \notin {"unborn", "sweep", "dead"}
  /\ ~loop[l].cancelled
InRun(l) ==
  loop[l].pc \in {"mark", "context", "await", "limit", "finished", "failed"}

\* At most one loop drives the session, none while another thread is about
\* to spawn one, and active_run is None exactly when nobody does: what the
\* test of active_run in spawn_session_task is for.
OneDriver ==
  /\ \A k, l \in Loops : Driver(k) /\ Driver(l) => k = l
  /\ \A c, d \in Cmds : CmdAt(c, "launch") /\ CmdAt(d, "launch") => c = d
  /\ \A c \in Cmds, l \in Loops : ~(CmdAt(c, "launch") /\ Driver(l))
  /\ active = Idle <=> /\ \A l \in Loops : ~Driver(l)
                       /\ \A c \in Cmds : ~CmdAt(c, "launch")

\* A run the table says is running is being executed by a loop: no row is
\* left behind by a loop that ended (create_run, finish_run, fail_open_runs).
RunningRunsAreDriven ==
  \A r \in DOMAIN runs :
    runs[r].status = "running" => \E l \in Loops : loop[l].run = r /\ InRun(l)

\* After a failed run the queue waits for the user: a loop never pops while
\* the latest run of the session failed (run_loop: on failure the queue is no
\* longer consumed automatically).
FailureHoldsQueue ==
  [][\A l \in Loops :
       At(l, "pick") /\ loop'[l].pc = "create" /\ queue' # queue
         => runs = <<>> \/ Last(runs).status # "failed"]_vars

\* A run that ended, however it ended, is never shown as running again.
RunsNeverReopen ==
  [][\A r \in DOMAIN runs :
       runs[r].status # "running" => runs'[r].status # "running"]_vars

\* The session as a serial executor: one message at a time, queued messages
\* in the order they were queued (run_loop, pop_queued, spawn_session_task).
Executing(l) == loop[l].pc = "create" \/ InRun(l)
Current == IF \E l \in Loops : Executing(l)
             THEN loop[CHOOSE l \in Loops : Executing(l)].trig
             ELSE NoMsg
Serial == INSTANCE SerialExecutor
            WITH waiting <- queue, current <- Current
ExecutesSerially == Serial!Spec

\* A session that is active becomes idle again or comes to wait for the user
\* at its step limit, whatever fails on the way: no leaving path of run_loop
\* forgets active_run.
ActiveEnds ==
  (active # Idle) ~> \/ active = Idle
                     \/ \E l \in Loops : At(l, "limit")

\* A message queued while a run is executing is taken out of the queue (run,
\* guided or deleted) without the user having to do anything, unless the
\* session comes to one of the three halts that leave the queue to the user:
\* a run at its step limit, a failed run, an error of the database.
Halted(l) == loop[l].pc \in {"limit", "failed", "broke"}
QueuedDuringRunIsTaken ==
  \A m \in Msgs :
    (m \in ToSet(queue) /\ \E l \in Loops : InRun(l))
      ~> (m \notin ToSet(queue) \/ \E l \in Loops : Halted(l))
=============================================================================

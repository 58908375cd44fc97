---------------------------- MODULE ToolApproval ----------------------------
(***************************************************************************)
(* The turns of several sessions and the approvals they wait for: the loop *)
(* of run_once (agent.rs) over steps and tool calls, handle_tool_call with *)
(* the policy engine, the table tool_events, the map of pending approvals  *)
(* shared by all sessions (approval.rs), and the commands that answer,     *)
(* switch the access mode, change the step limit, forget a rule and stop.  *)
(*                                                                         *)
(* A session has one turn at a time here; SessionRun is about how many it  *)
(* really has. Granularity as there: one action per section under a lock,  *)
(* or between two awaits.                                                  *)
(***************************************************************************)
EXTENDS Policy, Integers, Sequences, FiniteSets

CONSTANTS
  Sessions,
  Children,    \* sessions of sub-tasks: a report ends them at the step limit
  Calls,       \* the tool calls the model may make in this instance
  Reviewed,    \* those of decision tools, whose result the user may review
  Threads,     \* threads executing a command
  Ops,         \* the commands users issue in this instance
  Limit,       \* settings.max_steps
  Extra,       \* steps an extension adds
  MaxChecks,   \* times a self-check may send an answer back (2)
  MaxCmds,     \* bound: commands issued
  MaxEvents,   \* bound: rows of tool_events
  NoCall, NoId

AllOps == {"send", "answer", "mode", "limit", "forget", "stop"}

ASSUME ToolApprovalAssumption ==
  /\ Children \subseteq Sessions
  /\ Calls \subseteq Call /\ Reviewed \subseteq Calls /\ NoCall \notin Calls
  /\ Ops \subseteq AllOps
  /\ Limit \in Nat \ {0} /\ Extra \in Nat /\ MaxChecks \in Nat
  /\ MaxCmds \in Nat /\ MaxEvents \in Nat

VARIABLES
  mode, rules, limit,  \* per session: access_mode, approval rules, max_steps
  events,      \* table tool_events, in insertion order
  pending,     \* AppState.approvals: the requests whose sender it holds
  turn,        \* per session: its turn and the turn's locals
  cmd,         \* the commands in flight
  answers,     \* history: <<request, decision or "switch">> sent
  ncmds        \* history: commands issued, which also numbers step requests

settings == <<mode, rules, limit>>
vars == <<settings, events, pending, turn, cmd, answers, ncmds>>

Pcs == {"idle", "step", "stepAsk", "stepWait", "llm", "gate", "evaluate",
        "ask", "wait", "begin", "running", "review", "reviewWait", "result",
        "ended"}
CmdPcs == {"idle", "resolve", "abort", "close"}
Decisions == {"once", "session", "steps", "deny"}
Mails == Decisions \cup {"none", "closed"}
Statuses == {"pending_approval", "running", "success", "failed", "denied"}

\* A request is known by the event it is about, or by its number.
\* "once" is a tool's request that may not be remembered (force_once).
Kinds == {"tool", "once", "steps"}
Request == [kind : Kinds, id : Nat, sess : Sessions]
Event == [sess : Sessions, call : Calls, status : Statuses,
          scope : {"none", "null", "once", "session", "steps", "denied"}]
Turn == [pc : Pcs, step : Nat, max : Nat, call : Calls \cup {NoCall},
         mode : Modes, ev : Nat, scope : {"none", "once", "session", "steps"},
         kind : {"tool", "once"}, checks : Nat,
         req : Request \cup {NoId}, mail : Mails, cancelled : BOOLEAN]
NewTurn(pc) == [pc |-> pc, step |-> 0, max |-> 0, call |-> NoCall,
                mode |-> "confirm", ev |-> 0, scope |-> "none", kind |-> "tool",
                checks |-> 0, req |-> NoId,
                mail |-> "none", cancelled |-> FALSE]
Cmd == [pc : CmdPcs, sess : Sessions \cup {NoId}]
NoCmd == [pc |-> "idle", sess |-> NoId]

TypeOK ==
  /\ mode \in [Sessions -> Modes]
  /\ rules \in [Sessions -> SUBSET Rule]
  /\ limit \in [Sessions -> Nat]
  /\ events \in Seq(Event)
  /\ pending \subseteq Request
  /\ turn \in [Sessions -> Turn]
  /\ cmd \in [Threads -> Cmd]
  /\ answers \subseteq Request \X (Decisions \cup {"switch"})
  /\ ncmds \in Nat

Init ==
  /\ mode = [s \in Sessions |-> "confirm"]
  /\ rules = [s \in Sessions |-> {}]
  /\ limit = [s \in Sessions |-> Limit]
  /\ events = <<>> /\ pending = {}
  /\ turn = [s \in Sessions |-> NewTurn("idle")]
  /\ cmd = [t \in Threads |-> NoCmd]
  /\ answers = {} /\ ncmds = 0

At(s, pc) == turn[s].pc = pc
Goto(s, pc) == turn' = [turn EXCEPT ![s].pc = pc]
SetEvent(i, status) == events' = [events EXCEPT ![i].status = status]
CloseEvents(s) ==   \* fail_open_tool_events
  events' = [i \in DOMAIN events |->
               IF events[i].sess = s
                    /\ events[i].status \in {"running", "pending_approval"}
                 THEN [events[i] EXCEPT !.status = "failed"]
                 ELSE events[i]]

\* Where an aborted task is dropped, and no longer polled.
Awaits == {"stepWait", "llm", "wait", "running", "reviewWait"}
Polled(s, pc) == At(s, pc) /\ ~turn[s].cancelled

AskUnlessAsked(s, kind, id, pc) ==   \* wrong: one request per session
  LET r == [kind |-> kind, id |-> id, sess |-> s]
  IN  /\ pending' = IF \E p \in pending : p.sess = s THEN pending
                                                     ELSE pending \cup {r}
      /\ turn' = [turn EXCEPT ![s].pc = pc, ![s].req = r, ![s].mail = "none"]

\* Insert the sender in the map, then wait for its receiver.
Ask(s, kind, id, pc) ==
  LET r == [kind |-> kind, id |-> id, sess |-> s]
  IN  /\ pending' = pending \cup {r}
      /\ turn' = [turn EXCEPT ![s].pc = pc, ![s].req = r, ![s].mail = "none"]

\* What is sent reaches the turn that waits for it, if it still does.
Waits(s, rs) == /\ turn[s].pc \in {"stepWait", "wait", "reviewWait"}
                /\ turn[s].req \in rs /\ turn[s].mail = "none"
Send(rs, d) ==
  turn' = [s \in Sessions |-> IF Waits(s, rs) THEN [turn[s] EXCEPT !.mail = d]
                                              ELSE turn[s]]
OfSession(s) == {r \in pending : r.sess = s}

-----------------------------------------------------------------------------
(* A turn: run_once and handle_tool_call.                                  *)

\* Top of the loop: the limit is read anew at each step.
CheckLimit(s) ==
  /\ At(s, "step")
  /\ \/ /\ turn[s].step < limit[s]
        /\ Goto(s, "llm")
     \/ /\ turn[s].step >= limit[s]
        /\ turn' = [turn EXCEPT ![s].pc = "stepAsk", ![s].max = limit[s]]
     \/ /\ turn[s].step >= limit[s] /\ s \in Children
        /\ Goto(s, "ended")
  /\ UNCHANGED <<settings, events, pending, cmd, answers, ncmds>>

\* request_step_approval waits for ever.
AskSteps(s) ==
  /\ At(s, "stepAsk")
  /\ Ask(s, "steps", ncmds, "stepWait")
  /\ UNCHANGED <<settings, events, cmd, answers, ncmds>>

StepsAnswered(s) ==
  /\ Polled(s, "stepWait") /\ turn[s].mail # "none"
  /\ IF turn[s].mail = "steps"
       THEN /\ limit' = [limit EXCEPT ![s] = turn[s].max + Extra]
            /\ Goto(s, "step")
       ELSE /\ Goto(s, "ended")
            /\ UNCHANGED limit
  /\ UNCHANGED <<mode, rules, events, pending, cmd, answers, ncmds>>

\* The model answers with text or fails, or asks for tools; an answer after
\* changes to the code is sent back when the project's self-check fails.
Reply(s) ==
  /\ Polled(s, "llm")
  /\ \/ Goto(s, "ended")
     \/ /\ Len(events) < MaxEvents
        /\ Goto(s, "gate")
     \/ /\ turn[s].checks < MaxChecks
        /\ turn' = [turn EXCEPT ![s].pc = "step", ![s].step = @ + 1,
                                ![s].checks = @ + 1]
  /\ UNCHANGED <<settings, events, pending, cmd, answers, ncmds>>

Insert(s, c, status, scope) ==
  events' = Append(events, [sess |-> s, call |-> c, status |-> status,
                            scope |-> scope])

\* The gates before the policy: no declared intent, disabled or unknown tool,
\* wrong scope. Past them the access mode is read from the catalog.
Gate(s) ==
  /\ At(s, "gate")
  /\ \E c \in Calls :
       \/ /\ Insert(s, c, "failed", "none")
          /\ Goto(s, "result")
       \/ /\ turn' = [turn EXCEPT ![s].pc = "evaluate", ![s].call = c,
                                  ![s].mode = mode[s]]
          /\ UNCHANGED events
  /\ UNCHANGED <<settings, pending, cmd, answers, ncmds>>

\* The rules are read from the session's database and the engine decides. A
\* call allowed unasked keeps the scope "none" its event was made with.
Verdict(s) == Evaluate(turn[s].call, TRUE, turn[s].mode, rules[s])

PolicyDenies(s) ==
  /\ At(s, "evaluate") /\ Verdict(s) = "deny"
  /\ Insert(s, turn[s].call, "failed", "none")
  /\ Goto(s, "result")
  /\ UNCHANGED <<settings, pending, cmd, answers, ncmds>>

PolicyAllows(s) ==
  /\ At(s, "evaluate") /\ Verdict(s) = "allow"
  /\ turn' = [turn EXCEPT ![s].pc = "begin", ![s].ev = 0, ![s].scope = "none"]
  /\ UNCHANGED <<settings, events, pending, cmd, answers, ncmds>>

PolicyAsks(s) ==
  /\ At(s, "evaluate") /\ Verdict(s) \in {"ask", "askOnce"}
  /\ Insert(s, turn[s].call, "pending_approval", "null")
  /\ turn' = [turn EXCEPT ![s].pc = "ask", ![s].ev = Len(events) + 1,
                          ![s].kind = IF Verdict(s) = "ask" THEN "tool" ELSE "once"]
  /\ UNCHANGED <<settings, pending, cmd, answers, ncmds>>

AskUser(s) ==
  /\ At(s, "ask")
  /\ Ask(s, turn[s].kind, turn[s].ev, "wait")
  /\ UNCHANGED <<settings, events, cmd, answers, ncmds>>

Allowed(s) == turn[s].mail \in {"once", "session", "steps"}

UserAllowed(s) ==
  /\ Polled(s, "wait") /\ Allowed(s)
  /\ rules' = IF turn[s].mail = "session"
                THEN [rules EXCEPT ![s] = Learn(turn[s].call, @)]
                ELSE rules
  /\ turn' = [turn EXCEPT ![s].pc = "begin", ![s].scope = turn[s].mail]
  /\ UNCHANGED <<mode, limit, events, pending, cmd, answers, ncmds>>

\* wrong: a refused call is not marked, and runs
RefusedRuns(s) ==
  /\ Polled(s, "wait") /\ turn[s].mail \in {"deny", "closed"}
  /\ turn' = [turn EXCEPT ![s].pc = "begin", ![s].scope = "once"]
  /\ UNCHANGED <<settings, events, pending, cmd, answers, ncmds>>

Deny(s) ==
  /\ events' = [events EXCEPT ![turn[s].ev].status = "denied",
                              ![turn[s].ev].scope = "denied"]
  /\ Goto(s, "result")

\* A refusal, or the sender was dropped.
UserDenied(s) ==
  /\ Polled(s, "wait") /\ turn[s].mail \in {"deny", "closed"}
  /\ Deny(s)
  /\ UNCHANGED <<settings, pending, cmd, answers, ncmds>>

NeverTimesOut(s) ==   \* wrong: only a dropped sender ends the wait
  /\ Polled(s, "wait") /\ turn[s].mail = "closed"
  /\ Deny(s)
  /\ UNCHANGED <<settings, pending, cmd, answers, ncmds>>

TimedOutRuns(s) ==   \* wrong: silence is consent
  /\ Polled(s, "wait") /\ turn[s].mail = "none"
  /\ turn' = [turn EXCEPT ![s].pc = "begin", ![s].scope = "once"]
  /\ UNCHANGED <<settings, events, pending, cmd, answers, ncmds>>

\* 300 seconds without an answer; the sender stays in the map.
TimedOut(s) ==
  /\ Polled(s, "wait") /\ turn[s].mail = "none"
  /\ Deny(s)
  /\ UNCHANGED <<settings, pending, cmd, answers, ncmds>>

Begin(s) ==
  /\ At(s, "begin")
  /\ IF turn[s].ev = 0
       THEN /\ Insert(s, turn[s].call, "running", turn[s].scope)
            /\ turn' = [turn EXCEPT ![s].pc = "running", ![s].ev = Len(events) + 1]
       ELSE /\ events' = [events EXCEPT ![turn[s].ev].status = "running",
                                        ![turn[s].ev].scope = turn[s].scope]
            /\ Goto(s, "running")
  /\ UNCHANGED <<settings, pending, cmd, answers, ncmds>>

\* The tool returns. A decision tool may have to be reviewed by the user.
Finish(s) ==
  /\ Polled(s, "running")
  /\ \E status \in {"success", "failed"} : SetEvent(turn[s].ev, status)
  /\ Goto(s, "result")
  /\ UNCHANGED <<settings, pending, cmd, answers, ncmds>>

FinishDoubtful(s) ==
  /\ Polled(s, "running") /\ turn[s].call \in Reviewed
  /\ SetEvent(turn[s].ev, "pending_approval")
  /\ Goto(s, "review")
  /\ UNCHANGED <<settings, pending, cmd, answers, ncmds>>

AskReview(s) ==
  /\ At(s, "review")
  /\ Ask(s, "once", turn[s].ev, "reviewWait")
  /\ UNCHANGED <<settings, events, cmd, answers, ncmds>>

\* An answer, or the timeout.
ReviewEnds(s) ==
  /\ Polled(s, "reviewWait")
  /\ SetEvent(turn[s].ev, IF Allowed(s) THEN "success" ELSE "denied")
  /\ Goto(s, "result")
  /\ UNCHANGED <<settings, pending, cmd, answers, ncmds>>

NextCall(s, pc) == [NewTurn(pc) EXCEPT !.step = turn[s].step,
                      !.checks = turn[s].checks, !.cancelled = turn[s].cancelled]

\* The result enters the context: the next call of the reply, or a new step.
Result(s) ==
  /\ At(s, "result")
  /\ \/ /\ Len(events) < MaxEvents
        /\ turn' = [turn EXCEPT ![s] = NextCall(s, "gate")]
     \/ turn' = [turn EXCEPT ![s] = [NextCall(s, "step") EXCEPT !.step = @ + 1]]
  /\ UNCHANGED <<settings, events, pending, cmd, answers, ncmds>>

\* run_loop leaves: what is still open in tool_events is closed.
End(s) ==
  /\ At(s, "ended")
  /\ CloseEvents(s)
  /\ turn' = [turn EXCEPT ![s] = NewTurn("idle")]
  /\ UNCHANGED <<settings, pending, cmd, answers, ncmds>>

\* The aborted task is dropped where it awaits.
Drop(s) ==
  /\ turn[s].pc \in Awaits /\ turn[s].cancelled
  /\ turn' = [turn EXCEPT ![s] = NewTurn("idle")]
  /\ UNCHANGED <<settings, events, pending, cmd, answers, ncmds>>

-----------------------------------------------------------------------------
(* Commands.                                                               *)

CmdAt(t, pc) == cmd[t].pc = pc
CmdEnd(t) == cmd' = [cmd EXCEPT ![t] = NoCmd]
Issue(t, op, s, pc) ==
  /\ CmdAt(t, "idle") /\ op \in Ops /\ ncmds < MaxCmds
  /\ ncmds' = ncmds + 1
  /\ cmd' = [cmd EXCEPT ![t] = [pc |-> pc, sess |-> IF pc = "idle" THEN NoId ELSE s]]

\* A message starts a turn.
Start(t, s) ==
  /\ At(s, "idle") /\ Issue(t, "send", s, "idle")
  /\ turn' = [turn EXCEPT ![s] = NewTurn("step")]
  /\ UNCHANGED <<settings, events, pending, answers>>

\* respond_approval: take the sender, send. The card of the request offers
\* the answers.
Choices(r) == CASE r.kind = "steps" -> {"steps", "deny"}
                [] r.kind = "once" -> {"once", "deny"}
                [] r.kind = "tool" -> {"once", "session", "deny"}
Respond(t, r, d) ==
  /\ r \in pending /\ d \in Choices(r)
  /\ Issue(t, "answer", r.sess, "idle")
  /\ pending' = pending \ {r}
  /\ answers' = answers \cup {<<r, d>>}
  /\ Send({r}, d)
  /\ UNCHANGED <<settings, events>>

\* set_session_mode; on full_access, resolve_pending_approvals follows.
SetMode(t, s, m) ==
  /\ Issue(t, "mode", s, IF m = "full_access" THEN "resolve" ELSE "idle")
  /\ mode' = [mode EXCEPT ![s] = m]
  /\ UNCHANGED <<rules, limit, events, pending, turn, answers>>

ResolveAll(t) ==   \* wrong: takes the requests of every session
  /\ CmdAt(t, "resolve")
  /\ pending' = {}
  /\ Send(pending, "once")
  /\ answers' = answers \cup {<<r, "switch">> : r \in pending}
  /\ CmdEnd(t)
  /\ UNCHANGED <<settings, events, ncmds>>

ResolvePending(t) ==
  /\ CmdAt(t, "resolve")
  /\ LET rs == OfSession(cmd[t].sess)
     IN  /\ pending' = pending \ rs
         /\ Send(rs, "once")
         /\ answers' = answers \cup {<<r, "switch">> : r \in rs}
  /\ CmdEnd(t)
  /\ UNCHANGED <<settings, events, ncmds>>

SetLimit(t, s, n) ==
  /\ Issue(t, "limit", s, "idle")
  /\ limit' = [limit EXCEPT ![s] = n]
  /\ UNCHANGED <<mode, rules, events, pending, turn, answers>>

ForgetRule(t, s) ==
  /\ Issue(t, "forget", s, "idle")
  /\ \E r \in rules[s] : rules' = [rules EXCEPT ![s] = @ \ {r}]
  /\ UNCHANGED <<mode, limit, events, pending, turn, answers>>

\* stop_session_ext: drop the session's senders, abort its task, close what
\* it left open in tool_events.
Stop(t, s) ==
  /\ Issue(t, "stop", s, "abort")
  /\ pending' = pending \ OfSession(s)
  /\ Send(OfSession(s), "closed")
  /\ UNCHANGED <<settings, events, answers>>

Abort(t) ==
  /\ CmdAt(t, "abort")
  /\ IF At(cmd[t].sess, "idle") \/ turn[cmd[t].sess].cancelled
       THEN CmdEnd(t) /\ UNCHANGED turn
       ELSE /\ cmd' = [cmd EXCEPT ![t].pc = "close"]
            /\ turn' = [turn EXCEPT ![cmd[t].sess].cancelled = TRUE]
  /\ UNCHANGED <<settings, events, pending, answers, ncmds>>

CloseOpen(t) ==
  /\ CmdAt(t, "close")
  /\ CloseEvents(cmd[t].sess)
  /\ CmdEnd(t)
  /\ UNCHANGED <<settings, pending, turn, answers, ncmds>>

-----------------------------------------------------------------------------
TurnStep(s) ==
  \/ CheckLimit(s) \/ AskSteps(s) \/ StepsAnswered(s) \/ Reply(s) \/ Gate(s)
  \/ PolicyDenies(s) \/ PolicyAllows(s) \/ PolicyAsks(s) \/ AskUser(s)
  \/ UserAllowed(s) \/ UserDenied(s) \/ TimedOut(s) \/ Begin(s) \/ Finish(s)
  \/ FinishDoubtful(s) \/ AskReview(s) \/ ReviewEnds(s) \/ Result(s) \/ End(s)
  \/ Drop(s)

CmdStep(t) == ResolvePending(t) \/ Abort(t) \/ CloseOpen(t)

User(t) ==
  \/ \E s \in Sessions :
       \/ Start(t, s) \/ ForgetRule(t, s) \/ Stop(t, s)
       \/ \E m \in Modes : SetMode(t, s, m)
       \/ \E n \in 1 .. Limit + Extra + 1 : SetLimit(t, s, n)
  \/ \E r \in pending, d \in Decisions : Respond(t, r, d)

Next ==
  \/ \E s \in Sessions : TurnStep(s)
  \/ \E t \in Threads : CmdStep(t) \/ User(t)

Spec == Init /\ [][Next]_vars

\* The scheduler runs every ready task and thread, the model and the tools
\* answer or time out, the timer of an approval fires; users may do nothing.
FairSpec ==
  /\ Spec
  /\ \A s \in Sessions : WF_vars(TurnStep(s))
  /\ \A t \in Threads : WF_vars(CmdStep(t))

-----------------------------------------------------------------------------
(* Properties.                                                             *)

Open(i) == events[i].status \in {"running", "pending_approval"}
Ran(i) == events[i].status \in {"running", "success"}
AnsweredWith(i, ds) ==
  \E d \in ds, k \in {"tool", "once"} :
    <<[kind |-> k, id |-> i, sess |-> events[i].sess], d>> \in answers

\* A call the policy always asks about runs only once somebody allowed it:
\* an answer of the user, or the switch to full access. Neither a timeout,
\* a dropped sender, a rule nor a race of them makes it run.
ForcedRunsAreAllowed ==
  \A i \in DOMAIN events :
    Ran(i) /\ Forced(events[i].call, "full_access")
      => AnsweredWith(i, {"once", "session", "switch"})

\* What the user refused never runs, whenever the refusal arrives.
RefusedNeverRuns ==
  \A i \in DOMAIN events : AnsweredWith(i, {"deny"}) => ~Ran(i)

\* No lost request: whoever waits without an answer can still be answered,
\* whatever stale requests the session has left in the map.
WaitersAreListed ==
  \A s \in Sessions :
    turn[s].pc \in {"stepWait", "wait", "reviewWait"} /\ turn[s].mail = "none"
      => turn[s].req \in pending

\* Nobody answers for another session: an answer that is not a command's own
\* comes from a switch of that very session to full access.
AnswersStayInSession ==
  [][\A s \in Sessions :
       turn[s].mail = "none" /\ turn'[s].mail = "once" /\ ncmds' = ncmds
         => \E t \in Threads : CmdAt(t, "resolve") /\ cmd[t].sess = s]_vars

\* Nobody answers: the call ends all the same, so that an unattended turn
\* goes on (the timeout of request_approval).
ToolCallsEnd ==
  \A s \in Sessions :
    turn[s].pc \in {"ask", "wait", "review", "reviewWait"}
      ~> At(s, "result") \/ At(s, "idle")

\* A stopped turn ends, wherever the stop finds it.
StopEnds == \A s \in Sessions : turn[s].cancelled ~> At(s, "idle")

\* No tool call waits for ever for an absent user, and no turn outlives its stop.
\* Of a turn at its step limit, which waits without a timeout until the user
\* answers or stops it (agent.rs:1623), only the stop is claimed to end it.
TurnsEnd == ToolCallsEnd /\ StopEnds
=============================================================================

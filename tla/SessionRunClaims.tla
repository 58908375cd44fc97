-------------------------- MODULE SessionRunClaims --------------------------
(* What comments, messages and documents of the repository say of the runs   *)
(* of a session, as properties of SessionRun.                                *)
EXTENDS MCSessionRun

\* No command is in flight and no loop is alive.
Quiet == /\ \A c \in Cmds : CmdAt(c, "idle")
         /\ \A l \in Loops : loop[l].pc \in {"unborn", "dead"}

\* "a second run_loop is never started concurrently" (spawn_session_task).
RunsDoNotOverlap ==
  \A k, l \in Loops : InRun(k) /\ InRun(l)
    /\ ~loop[k].cancelled /\ ~loop[l].cancelled => k = l

\* "the existing abort handle is never overwritten": not the one of a loop
\* that still drives the session (spawn_session_task).
HandleNotOverwritten ==
  [][abort # NoLoop /\ abort' \notin {abort, NoLoop} => ~Driver(abort)]_vars

\* Runs are always closed when a task is aborted or leaves its loop; none is
\* left running in the table (list_running_sessions).
NoRunLeftOpen ==
  Quiet => \A r \in DOMAIN runs : runs[r].status # "running"

\* The state does not drift into "running" for ever (fail_open_runs).
NoPhantomActive == Quiet => active = Idle

\* fail_open_runs closes what an aborted or crashed run left behind, not the
\* run that another loop is executing.
SweepSparesLiveRuns ==
  [][\A r \in DOMAIN runs :
       runs[r].status = "running" /\ runs'[r].status = "interrupted"
         => ~\E l \in Loops : loop[l].run = r /\ InRun(l)]_vars

\* "the agent is running, cannot edit and resend" (edit_and_resend).
EditNeverCutsARun ==
  [][\A c \in Cmds :
       CmdAt(c, "truncate") /\ cmd[c].op = "edit" /\ cmd'[c].pc # "truncate"
         => ~\E l \in Loops : InRun(l)]_vars

\* Messages not guided are executed in turn once the conversation ends.
QueuedIsRun ==
  \A m \in Msgs : m \in ToSet(queue) ~> m \notin ToSet(queue)

\* A guided message is taken up by the conversation in progress.
GuidedIsAnswered ==
  \A m \in Msgs :
    (\E c \in Cmds : CmdAt(c, "guideCheck") /\ cmd[c].msg = m)
      ~> m \in answered
=============================================================================

------------------------- MODULE ToolApprovalClaims -------------------------
(* What comments, messages and documents of the repository say of approvals, *)
(* as properties of ToolApproval.                                            *)
EXTENDS MCToolApproval

\* A pending request means a turn is suspended on it (wait_subagents keeps
\* children with a pending approval out of its timeout).
PendingMeansWaiting ==
  \A r \in pending :
    /\ turn[r.sess].req = r
    /\ turn[r.sess].pc \in {"stepWait", "wait", "reviewWait"}

\* Where nobody stops a turn, only a user's refusal denies a call: the
\* timeout of approvals is said to be abolished.
OnlyUsersDeny ==
  \A i \in DOMAIN events :
    events[i].status = "denied" => AnsweredWith(i, {"deny"})

\* The switch to full access lets every suspended request of the session
\* through (resolve_pending_approvals); it ends no turn.
SwitchReleasesAll ==
  [][\A s \in Sessions :
       At(s, "stepWait") /\ turn[s].mail = "once" => turn'[s].pc # "ended"]_vars

\* The switch to full access takes effect at once, also for the conversation
\* in progress: no request that full access would not make stays suspended.
NoAskUnderFullAccess ==
  \A s \in Sessions :
    /\ At(s, "wait") /\ turn[s].mail = "none" /\ mode[s] = "full_access"
    /\ \A t \in Threads : CmdAt(t, "idle")
    => Forced(turn[s].call, "full_access")

\* temp_merge is confirmed by the user in any mode, each time.
ForcedNeedsOwnAnswer ==
  \A i \in DOMAIN events :
    Ran(i) /\ Forced(events[i].call, "full_access")
      => AnsweredWith(i, {"once", "session"})

\* When a session stops running, or is stopped, what is left open in
\* tool_events is closed (fail_open_tool_events).
NothingLeftOpen ==
  \A s \in Sessions :
    At(s, "idle") /\ (\A t \in Threads : CmdAt(t, "idle"))
      => \A i \in DOMAIN events : events[i].sess = s => ~Open(i)

\* Granting more steps never takes steps away (the card asks whether to add).
GrantNeverLowersLimit ==
  [][\A s \in Sessions :
       At(s, "stepWait") /\ turn'[s].pc = "step" => limit'[s] >= limit[s]]_vars

\* In confirm mode a write outside the workspace is confirmed one by one;
\* only reads may be remembered for the session (evaluate_path_tool).
OutsideWritesAsk ==
  [][\A s \in Sessions :
       At(s, "evaluate") /\ Outside(turn[s].call) /\ turn[s].mode = "confirm"
         => turn'[s].pc # "begin"]_vars

\* The scope of a tool event says why it ran: mode, session or once; "none"
\* is for calls nobody need allow (ToolEvent.approval_scope).
ScopeSaysWhy ==
  \A i \in DOMAIN events :
    Ran(i) /\ ~Free(events[i].call, "confirm", {}) => events[i].scope # "none"
=============================================================================

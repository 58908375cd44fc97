--------------------------- MODULE SubagentsClaims ---------------------------
(* What comments, messages and documents of the repository say of children,  *)
(* as properties of Subagents.                                               *)
EXTENDS MCSubagents

\* A restart is refused when the child is completed; cancelled, interrupted and
\* failed ones are recovered by it (restart_subagent, the diagram of states).
RefusedMeansCompleted ==
  [][\A p \in Procs :
       Is(p, "restartDecide") /\ proc'[p].pc \notin {"restartDecide", "restartMark"}
         => proc[p].seen = "completed"]_vars

\* Stopping the main session stops every child it has: when the list is worked
\* off and the main task is about to be aborted, no child executes.
StopReachesAll ==
  \A t \in Threads :
    Is(t, "mainAbort") /\ proc[t].op = "cascade" => \A k \in Kids : ~Active(k)

\* "All children have finished and handed in their report" (wait_subagents).
DeliveredMeansReports ==
  proc[Agent].says = "delivered" /\ proc[Agent].op = "wait"
    => \A k \in Targets : HasReport(k)

\* After a rejection the agent is told to wait for the latest report: a wait
\* does not come back at once while the child works on it (reject_subagent).
ReworkIsAwaited ==
  [][\A k \in Targets :
       Is(Agent, "poll") /\ mainOn /\ ~TimedOut /\ Alive(k) /\ report[k] = "old"
         => proc'[Agent].pc # "collect"]_vars

\* "Children are suspended or waiting for the user: wait again" is said only of
\* children that have not ended (wait_subagents).
FinishedIsNotAwaited ==
  [][Is(Agent, "collect") /\ proc'[Agent].says = "again" /\ ~TimedOut
       => \E k \in Targets : Active(k)]_vars

\* A report is the only measure of completion: a loop that ends without one
\* leaves its child interrupted (run_loop, the prompt of a child).
CompletedHasReport ==
  \A k \in Kids \ Residents : status[k] = "completed" => HasReport(k)

\* A running child that is stopped becomes cancelled (the diagram of states).
StoppedIsCancelled ==
  [][\A k \in Kids, t \in Threads :
       status[k] = "running" /\ Active(k) /\ Is(t, "stopAbort") /\ Kid(t) = k
       /\ proc[t].op = "halt" /\ proc'[t].pc # "stopAbort"
         => status'[k] = "cancelled"]_vars

\* A session has at most ten children (spawn_subagent).
LimitHolds == Cardinality(Rows) <= Limit
=============================================================================

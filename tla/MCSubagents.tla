----------------------------- MODULE MCSubagents -----------------------------
(* Instances of Subagents for TLC: w1, w2 are spawned, r1 is a collaborator. *)
EXTENDS Subagents, TLC

CONSTANTS w1, w2, r1

OneEach == {w1, r1}
OneResident == {r1}
TwoWorkers == {w1, w2}
Nobody == {}
EveryCall == AllCalls
\* For liveness, commands whose steps others take too are left out: restartAll
\* restarts as "continue" does; spawn and send are tools without the check; stop
\* is a tool too, and "cascade" takes its steps on a thread of the user.
MostOps == AllOps \ {"restartAll", "spawn", "send", "stop"}
EveryOp == AllOps
=============================================================================

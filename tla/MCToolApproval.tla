--------------------------- MODULE MCToolApproval ---------------------------
(* Instances of ToolApproval for TLC: one call of each kind that the policy  *)
(* treats differently, a read and a write of one path outside the workspace. *)
EXTENDS ToolApproval, TLC

CONSTANTS k1, k2, k3

Plain == [branch |-> "generic", risk |-> "read", class |-> "plain",
          zone |-> "workspace", git |-> FALSE, unboundOk |-> TRUE, key |-> k1]
Write == [Plain EXCEPT !.branch = "path", !.risk = "write", !.key = k2]
Merge == [Plain EXCEPT !.branch = "merge", !.risk = "write"]
Decide == [Plain EXCEPT !.key = k3]
EmptyCommand == [Plain EXCEPT !.branch = "command", !.risk = "write", !.key = NoKey]
KillByName == [EmptyCommand EXCEPT !.class = "killByName"]
ReadOutside == [Plain EXCEPT !.branch = "path", !.zone = "critical", !.key = k3]
WriteOutside == [ReadOutside EXCEPT !.risk = "write"]

ManyCalls == {Write, Merge, EmptyCommand, KillByName, Decide}
OneWrite == {Write}
NoCalls == {}
OneMerge == {Merge}
OutsideCalls == {ReadOutside, WriteOutside}
ReviewedCalls == {Decide}
=============================================================================

------------------------------- MODULE Policy -------------------------------
(***************************************************************************)
(* The policy engine (policy/pipeline.rs): whether a tool call runs, needs *)
(* the user's approval, or is refused. A call is what the engine tells     *)
(* apart of it: the branch its name selects, the risk of the tool, the     *)
(* class CommandClassifier gives its command, the zone of its path, and    *)
(* the pattern an approval of it would remember. That a pattern also       *)
(* covers what it is a prefix of is abstracted: two calls with one key     *)
(* stand for a call and one the remembered pattern covers.                 *)
(***************************************************************************)

CONSTANTS
  Keys,   \* command words, paths and tool names a rule may remember
  NoKey   \* the empty pattern: a command without a word

ASSUME PolicyAssumption == NoKey \notin Keys

Modes == {"confirm", "full_access"}
Branches == {"harness", "merge", "command", "path", "generic"}
Classes == {"killByName", "danger", "delete", "plain"}
Zones == {"critical", "workspace", "ephemeral"}

Call == [branch : Branches, risk : {"read", "write"}, class : Classes,
         zone : Zones, git : BOOLEAN, unboundOk : BOOLEAN,
         key : Keys \cup {NoKey}]

\* rule_for: what "allow for this session" remembers.
Rule == [kind : {"command_prefix", "path_write", "tool"}, pattern : Keys]
RuleKind(c) == CASE c.branch = "command" -> "command_prefix"
                 [] c.branch = "path" -> "path_write"
                 [] OTHER -> "tool"
RuleFor(c) == [kind |-> RuleKind(c), pattern |-> c.key]
Remembered(c, rules) == RuleFor(c) \in rules

LearnAny(c, rules) ==   \* wrong: remembers an empty pattern too
  rules \cup {RuleFor(c)}
Learn(c, rules) == IF c.key = NoKey THEN rules ELSE rules \cup {RuleFor(c)}

\* No workspace is bound, or the command kills processes by name.
Refused(c, bound) ==
  \/ ~bound /\ ~c.unboundOk
  \/ c.branch = "command" /\ c.class = "killByName"

\* Asked whatever the rules remember.
Forced(c, mode) ==
  \/ c.branch = "merge"
  \/ c.branch = "command" /\ c.class = "danger"
  \/ c.branch = "command" /\ c.class = "delete" /\ c.zone = "critical"
  \/ c.branch = "path" /\ c.git /\ (c.risk = "write" \/ mode = "confirm")

\* Run without asking.
Free(c, mode, rules) ==
  \/ c.branch = "harness"
  \/ mode = "full_access" \/ Remembered(c, rules)
  \/ c.branch = "path" /\ c.zone = "ephemeral"
  \/ c.branch = "path" /\ c.risk = "read" /\ c.zone = "workspace"
  \/ c.branch = "generic" /\ c.risk = "read"

\* Asked, and not to be remembered.
Outside(c) == c.branch = "path" /\ c.risk = "write" /\ c.zone = "critical"

Evaluate(c, bound, mode, rules) ==
  CASE Refused(c, bound) -> "deny"
    [] ~Refused(c, bound) /\ Forced(c, mode) -> "askOnce"
    [] ~Refused(c, bound) /\ ~Forced(c, mode) /\ Free(c, mode, rules) -> "allow"
    [] OTHER -> IF Outside(c) THEN "askOnce" ELSE "ask"
=============================================================================

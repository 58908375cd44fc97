---------------------------- MODULE ContextClaims ----------------------------
(* What the messages of the program say of compaction.                       *)
EXTENDS Context

\* A session begins empty or as the migration left it.
Migrated == <<User(FALSE), Assistant(1), Tool(2, 1, "other"), Assistant(0)>>
StartLogs == {[log |-> << >>, upTo |-> 0], [log |-> Migrated, upTo |-> 0],
              [log |-> Migrated, upTo |-> 2], [log |-> Migrated, upTo |-> 4]}
Leftovers == {<< >>, <<"user", "assistant">>}

\* A compaction is refused with "no earlier history that could be compacted (at
\* least 1 finished round is needed)" (governance.rs:364) only when the session
\* has no finished round that is not yet compacted.
Finished == {i \in LiveUsers : \E j \in LiveUsers \cup {Len(log) + 1} :
               /\ i < j /\ j - 1 > i /\ log[j - 1].role = "assistant" /\ log[j - 1].calls = 0
               /\ \A k \in i + 1 .. j - 1 : log[k].role # "user"}
RefusedOnlyWhenNothing == [][refused' /\ ~refused => Finished = {}]_vars
=============================================================================

------------------------------ MODULE Context ------------------------------
(***************************************************************************)
(* What the model is shown of one session, and how it is shortened:        *)
(*  - the log of the session, in its own data file;                        *)
(*  - assemble_execution_context (context/message_stream.rs): the memo of  *)
(*    compacted messages, the live messages with every call followed by    *)
(*    its results, folding of old results, pruning of whole turns;         *)
(*  - propose_and_execute_compaction (context/governance.rs): a summary by *)
(*    the model, 30 seconds for the user's answer, a row that replaces     *)
(*    what was summed up.                                                  *)
(*                                                                         *)
(* The context is built from the session's own file.  A compaction reads   *)
(* the messages of the catalog and writes its row there, and the catalog   *)
(* has messages only of a session that could not be migrated.              *)
(*                                                                         *)
(* A message's place in the log is its seq.  Texts are costs in tokens.    *)
(***************************************************************************)
EXTENDS Naturals, FiniteSets, SequencesExt

CONSTANTS MaxLog,     \* messages in the log
          MaxBeside,  \* the same, beside messages left in the catalog
          MaxCalls,   \* tool calls of an assistant message
          Horizon,    \* groups of calls whose results stay whole (10 in the code)
          Limits,     \* token limits a context is built for
          Histories,  \* logs, and what of them is compacted, a session starts with
          OldRoles,   \* roles of the messages left in the catalog
          MaxProposals

ContextAssumption ==
  /\ {MaxLog, MaxBeside, MaxCalls, Horizon, MaxProposals} \subseteq Nat /\ Limits \subseteq Nat \ {0}
  /\ \A h \in Histories : h.upTo \in 0 .. Len(h.log) /\ Len(h.log) <= MaxLog
  /\ MaxBeside <= MaxLog

User(image) == [role |-> "user", image |-> image, reverted |-> FALSE]
Assistant(n) == [role |-> "assistant", calls |-> n, reverted |-> FALSE]
\* the result of call k of message a: a file, the output of a command, or a
\* screenshot
Tool(a, k, kind) == [role |-> "tool", of |-> a, k |-> k, kind |-> kind,
                     image |-> kind = "shot", reverted |-> FALSE]
Kinds == {"read", "other", "shot"}
Compactors == {"user", "agent"}

VARIABLES log, upTo,      \* messages and last compacted seq of the own file
          old, oldUpTo,   \* the same of the catalog
          run,            \* a run of the session is active
          proposal,       \* the compactions under way
          asked,          \* state.compactions: proposals that wait for an answer
          proposals,      \* counter
          sums,           \* rows written, of which message to which
          rejected,       \* proposals the user was told are rejected
          raced,          \* those answered between the timeout and its handling
          refused         \* a compaction was refused for lack of messages

vars == <<log, upTo, old, oldUpTo, run, proposal, asked, proposals, sums, rejected,
          raced, refused>>
compaction == <<old, oldUpTo, proposal, asked, proposals, sums, rejected, raced, refused>>

NoProposal == [pc |-> "idle", n |-> 0, from |-> 0, to |-> 0, verdict |-> "none"]

TypeOK ==
  /\ Len(log) <= MaxLog /\ upTo \in 0 .. Len(log)
  /\ \A i \in DOMAIN log : log[i].role \in {"user", "assistant", "tool"}
  /\ oldUpTo \in 0 .. Len(old) /\ run \in BOOLEAN /\ refused \in BOOLEAN
  /\ \A c \in Compactors : proposal[c].pc \in {"idle", "summing", "asking", "elapsed", "told"}
  /\ asked \subseteq Compactors /\ proposals \in 0 .. MaxProposals
  /\ rejected \cup raced \subseteq 1 .. MaxProposals
  /\ \A s \in sums : s.n \in 1 .. MaxProposals /\ s.from <= s.to

Init ==
  /\ \E h \in Histories : log = h.log /\ upTo = h.upTo
  /\ old \in OldRoles /\ oldUpTo = 0
  /\ run = FALSE /\ refused = FALSE
  /\ proposal = [c \in Compactors |-> NoProposal] /\ asked = {}
  /\ proposals = 0 /\ sums = {} /\ rejected = {} /\ raced = {}

----------------------------------------------------------------------------
(* assemble_execution_context                                              *)

Live(i) == ~log[i].reverted
Shown == SelectSeq([i \in DOMAIN log |-> i], LAMBDA i : i > upTo /\ Live(i))

LiveUsers == {i \in DOMAIN log : i > upTo /\ Live(i) /\ log[i].role = "user"}
LastUser == IF LiveUsers = {} THEN 0 ELSE Max(LiveUsers)

\* An entry of the context: its role, the message it comes from (0 the prompt and
\* the memo), the call it answers, what it adds to the estimate and what pruning
\* subtracts for it: nothing for a content with images, which is not a string.
Entry(role, at, k, kind, cost, image) ==
  [role |-> role, at |-> at, k |-> k, kind |-> kind,
   cost |-> cost + (IF image THEN 2 ELSE 0), drop |-> IF image THEN 0 ELSE cost]

Prompt == <<Entry("system", 0, 0, "", 1, FALSE)>>
Memo == IF upTo = 0 THEN << >>
        ELSE <<Entry("user", 0, 0, "memo", 2, FALSE), Entry("assistant", 0, 0, "memo", 1, FALSE)>>

Size(kind) == IF kind = "shot" THEN 1 ELSE 4   \* 4 is over what stays whole

\* the stored result of a call, or one made up for a call that was cut short
Results(a, k) == {i \in DOMAIN log : Live(i) /\ log[i].role = "tool"
                                       /\ log[i].of = a /\ log[i].k = k}
Result(a, k) ==
  IF Results(a, k) = {} THEN Entry("tool", a, k, "interrupted", 1, FALSE)
  ELSE LET r == log[CHOOSE i \in Results(a, k) : TRUE] IN
       Entry("tool", a, k, r.kind, Size(r.kind), r.image /\ a >= LastUser)

Entries(i) ==
  CASE log[i].role = "user" -> <<Entry("user", i, 0, "", 1, log[i].image)>>
    [] log[i].role = "assistant" ->
         <<Entry("assistant", i, log[i].calls, "", 1 + log[i].calls, FALSE)>>
           \o [k \in 1 .. log[i].calls |-> Result(i, k)]
    [] OTHER -> << >>

Stream ==
  LET shown == Shown
  IN Prompt \o Memo \o FlattenSeq([j \in DOMAIN shown |-> Entries(shown[j])])

Sum(s) == FoldSeq(LAMBDA e, n : e.cost + n, 0, s)

\* The messages with calls, in order; the last is active if nothing follows its
\* results.
Groups(s) == {i \in DOMAIN s : s[i].role = "assistant" /\ s[i].k > 0}
ResultsOf(s, g) == g + 1 .. g + s[g].k

Foldable(e) == e.kind \in {"read", "other"} /\ e.cost = 4
Folded(e) == [e EXCEPT !.cost = 2, !.drop = 2]

\* phase 1: all results of the groups before the horizon
Far(s) == {g \in Groups(s) : Cardinality({h \in Groups(s) : h > g}) >= Horizon}
FoldFar(s) ==
  LET far == UNION {ResultsOf(s, g) : g \in Far(s)}
  IN [i \in DOMAIN s |-> IF i \in far /\ Foldable(s[i]) THEN Folded(s[i]) ELSE s[i]]

\* phase 2: results of commands in the nearer groups, oldest first, as long as
\* the estimate is over 80% of the limit; never those of the active group
Near(s) == UNION {ResultsOf(s, g) : g \in {h \in Groups(s) \ Far(s) : h + s[h].k # Len(s)}}
FoldNear(s, limit) ==
  LET near == {i \in Near(s) : Foldable(s[i]) /\ s[i].kind = "other"}
  IN FoldLeft(LAMBDA t, i : IF Sum(t) * 10 > limit * 8 THEN [t EXCEPT ![i] = Folded(@)] ELSE t,
              s, SelectSeq([i \in DOMAIN s |-> i], LAMBDA i : i \in near))

\* Whole turns are dropped, from the oldest, until the estimate fits or one turn
\* is left. A turn runs from one entry of the user to the next.
Users(s) == SelectSeq([i \in DOMAIN s |-> i], LAMBDA i : s[i].role = "user")
Monus(a, b) == IF a > b THEN a - b ELSE 0

\* one entry at a time
PruneEntries(s, limit) ==
  LET fit == {k \in 2 .. Len(s) : Sum(SubSeq(s, k, Len(s))) <= limit \/ k = Len(s)}
  IN IF fit = {} THEN s ELSE <<s[1]>> \o SubSeq(s, Min(fit), Len(s))

\* until it fits
PruneTurns(s, limit) ==
  LET users == Users(s)
      est == Sum(s)
      dropped(n) == FoldSeq(LAMBDA e, k : e.drop + k, 0, SubSeq(s, users[1], users[n + 1] - 1))
      last == Len(users) - 1
  IN IF est <= limit \/ last < 1 THEN s
     ELSE LET n == Min({k \in 1 .. last : Monus(est, dropped(k)) <= limit \/ k = last})
          IN SubSeq(s, 1, users[1] - 1) \o SubSeq(s, users[n + 1], Len(s))

\* an assistant's text cannot be the end
DropLast(s) == SubSeq(s, 1, Max({i \in DOMAIN s : s[i].role # "assistant"}))

Shortened(s, limit) == DropLast(PruneTurns(FoldNear(s, limit), limit))

Contexts == LET s == FoldFar(Stream) IN {Shortened(s, limit) : limit \in Limits}

----------------------------------------------------------------------------
(* The log                                                                 *)

Append1(m) ==
  /\ Len(log) < IF old = << >> THEN MaxLog ELSE MaxBeside
  /\ log' = Append(log, m)

\* a message that starts a run, or one that is guided into the active run
SendMessage ==
  /\ \E image \in BOOLEAN : Append1(User(image))
  /\ run' = TRUE
  /\ UNCHANGED <<upTo, compaction>>

Answering == LET a == {i \in DOMAIN log : log[i].role = "assistant" /\ log[i].calls > 0}
             IN IF a = {} THEN 0 ELSE Max(a)
Answered(a) == {log[i].k : i \in {j \in DOMAIN log : log[j].role = "tool" /\ log[j].of = a}}
Missing == IF Answering = 0 THEN {} ELSE (1 .. log[Answering].calls) \ Answered(Answering)

\* the model answers the context that was built, once all results are stored
Reply(n) ==
  /\ run /\ Missing = {} /\ Append1(Assistant(n))
  /\ run' = (n > 0)
  /\ UNCHANGED <<upTo, compaction>>

StoreResult ==
  /\ run /\ Missing # {}
  /\ \E kind \in Kinds : Append1(Tool(Answering, Min(Missing), kind))
  /\ UNCHANGED <<upTo, run, compaction>>

\* stopped, failed or cut off: results of calls may be missing for good
RunEnds == run /\ run' = FALSE /\ UNCHANGED <<log, upTo, compaction>>

\* retry_run: a run without a new message
Retry == ~run /\ Missing = {} /\ LiveUsers # {} /\ run' = TRUE /\ UNCHANGED <<log, upTo, compaction>>

TurnOf(u) == {i \in DOMAIN log : i >= u /\ \A j \in u + 1 .. i : log[j].role # "user"}

\* a turn is marked as reverted, or live again
Revert(u) ==
  /\ ~run /\ log[u].role = "user"
  /\ log' = [i \in DOMAIN log |->
       IF i \in TurnOf(u) THEN [log[i] EXCEPT !.reverted = ~log[u].reverted] ELSE log[i]]
  /\ UNCHANGED <<upTo, run, compaction>>

\* wrong: the compactions of deleted messages stay
ForgetNot(seq) == UNCHANGED upTo

\* delete_messages_after: later messages go, and the compactions that end later
\* (here there is one at most, that of the history)
Forget(seq) == upTo' = IF upTo > seq THEN 0 ELSE upTo
DeleteAfter(seq) ==
  /\ ~run /\ seq < Len(log)
  /\ log' = SubSeq(log, 1, seq) /\ Forget(seq)
  /\ UNCHANGED <<run, compaction>>

----------------------------------------------------------------------------
(* propose_and_execute_compaction                                          *)

\* partition_compaction_candidates: how many messages, from the first
Candidates(roles, running) ==
  LET n == Len(roles)
      users == {i \in 1 .. n : roles[i] = "user"}
  IN IF n = 0 THEN 0
     ELSE IF running \/ roles[n] = "user"
       THEN IF users # {} /\ Max(users) > 1 THEN Max(users) - 1 ELSE n - 1
       ELSE n

\* What a compaction sees: the catalog's messages after its last compaction.
Uncompacted == SubSeq(old, oldUpTo + 1, Len(old))

\* the agent at the first step of a run, if the watermark recommends it, or its
\* tool; the user by command
MayPropose(c) ==
  /\ proposal[c].pc = "idle" /\ proposals < MaxProposals
  /\ asked = {}
  /\ c = "agent" => run

Propose(c) ==
  /\ MayPropose(c)
  /\ Candidates(Uncompacted, run) > 0
  /\ proposals' = proposals + 1
  /\ proposal' = [proposal EXCEPT ![c] =
       [pc |-> "summing", n |-> proposals', from |-> oldUpTo + 1,
        to |-> oldUpTo + Candidates(Uncompacted, run), verdict |-> "none"]]
  /\ UNCHANGED <<log, upTo, old, oldUpTo, run, asked, sums, rejected, raced, refused>>

ProposeRefused(c) ==
  /\ MayPropose(c)
  /\ Candidates(Uncompacted, run) = 0
  /\ refused' = TRUE
  /\ UNCHANGED <<log, upTo, old, oldUpTo, run, proposal, asked, proposals, sums,
                 rejected, raced>>

\* the summary arrives, or fails; the request is listed only now
Summed(c) ==
  /\ proposal[c].pc = "summing"
  /\ \/ /\ proposal' = [proposal EXCEPT ![c].pc = "asking"] /\ asked' = asked \cup {c}
     \/ /\ proposal' = [proposal EXCEPT ![c] = NoProposal] /\ UNCHANGED asked
  /\ UNCHANGED <<log, upTo, old, oldUpTo, run, proposals, sums, rejected, raced, refused>>

\* respond_compaction
Respond(c, verdict) ==
  /\ c \in asked /\ asked' = asked \ {c}
  /\ proposal' = IF proposal[c].pc = "asking"
                   THEN [proposal EXCEPT ![c].pc = "told", ![c].verdict = verdict]
                   ELSE proposal
  /\ rejected' = IF verdict = "reject" THEN rejected \cup {proposal[c].n} ELSE rejected
  /\ raced' = IF proposal[c].pc = "elapsed" THEN raced \cup {proposal[c].n} ELSE raced
  /\ UNCHANGED <<log, upTo, old, oldUpTo, run, proposals, sums, refused>>

Elapse(c) ==
  /\ proposal[c].pc = "asking"
  /\ proposal' = [proposal EXCEPT ![c].pc = "elapsed"]
  /\ UNCHANGED <<log, upTo, old, oldUpTo, run, asked, proposals, sums, rejected, raced,
                 refused>>

\* an answer is followed; a timeout applies the summary
Applies(c) == proposal[c].pc = "elapsed" \/ proposal[c].verdict = "approve"

Conclude(c) ==
  /\ proposal[c].pc \in {"elapsed", "told"}
  /\ asked' = asked \ {c}
  /\ IF Applies(c)
       THEN /\ sums' = sums \cup {[n |-> proposal[c].n, from |-> proposal[c].from,
                                   to |-> proposal[c].to]}
            /\ oldUpTo' = Max({oldUpTo, proposal[c].to})
       ELSE UNCHANGED <<sums, oldUpTo>>
  /\ proposal' = [proposal EXCEPT ![c] = NoProposal]
  /\ UNCHANGED <<log, upTo, old, run, proposals, rejected, raced, refused>>

----------------------------------------------------------------------------

Next ==
  \/ SendMessage \/ StoreResult \/ RunEnds \/ Retry
  \/ \E n \in 0 .. MaxCalls : Reply(n)
  \/ \E u \in DOMAIN log : Revert(u)
  \/ \E seq \in 0 .. MaxLog : DeleteAfter(seq)
  \/ \E c \in Compactors : Propose(c) \/ ProposeRefused(c) \/ Summed(c) \/ Elapse(c) \/ Conclude(c)
  \/ \E c \in Compactors, v \in {"approve", "reject"} : Respond(c, v)

Spec == Init /\ [][Next]_vars

----------------------------------------------------------------------------

\* Whatever was stopped, reverted, guided in, deleted, folded or pruned, a context
\* is one a provider accepts: the prompt first, no assistant's text at the end,
\* every call followed by one result each, in order, and no result elsewhere.
WellFormed(s) ==
  /\ s[1].role = "system" /\ Last(s).role # "assistant"
  /\ \A i \in DOMAIN s : s[i].role = "assistant" =>
       /\ i + s[i].k <= Len(s)
       /\ \A k \in 1 .. s[i].k : s[i + k].role = "tool" /\ s[i + k].at = s[i].at /\ s[i + k].k = k
  /\ \A i \in DOMAIN s : s[i].role = "tool" =>
       LET a == i - s[i].k IN a > 0 /\ s[a].role = "assistant" /\ s[a].at = s[i].at

\* The last message of the user that is live and not summed up, and all that was
\* stored after it but for a text at the end, is in every context, however small
\* the limit; and of the user's messages the oldest are left out first.
Places(s) == {s[i].at : i \in DOMAIN s} \ {0}
Visible == {i \in Range(Shown) : log[i].role # "tool"}
LatestTurnKept(s) ==
  LET last == LastUser
      tail == {i \in Visible : i >= last /\ (log[i].role = "assistant" => log[i].calls > 0)}
      places == Places(s)
  IN /\ last # 0 => tail \subseteq places
     /\ \A i \in places, j \in LiveUsers :
          log[i].role = "user" /\ j > i => j \in places

\* Both, of every context the session is sent with.
ContextsSound == \A s \in Contexts : WellFormed(s) /\ LatestTurnKept(s)

\* A compaction the user rejected is not applied, unless the answer came after
\* the 30 seconds had run out and before the request was taken off the list.
RejectedIsNotApplied == \A s \in sums : s.n \notin rejected \ raced
=============================================================================

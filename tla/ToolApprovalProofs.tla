------------------------- MODULE ToolApprovalProofs -------------------------
(* Theorems about ToolApproval, for any sessions, calls, threads and bounds. *)
EXTENDS ToolApproval, TLAPS

(***************************************************************************)
(* The invariant. A call comes by a row of tool_events before it asks, and *)
(* keeps it until its result; what its turn waits for is the request about *)
(* that row, in the map until it is answered. A row whose call runs has no *)
(* request left in the map and no refusal, so that no late answer changes  *)
(* what the user decided.                                                  *)
(***************************************************************************)
HoldPcs == {"ask", "wait", "running", "review", "reviewWait"}
Holds(s) == turn[s].pc \in HoldPcs \/ (At(s, "begin") /\ turn[s].ev # 0)
Agreed(s) == Holds(s) /\ turn[s].pc \notin {"ask", "wait"}
Waiting(s) == turn[s].pc \in {"stepWait", "wait", "reviewWait"}

About(r, i, s) == r.kind \in {"tool", "once"} /\ r.id = i /\ r.sess = s
Unlisted(i, s) == \A r \in pending : ~About(r, i, s)
Undenied(i, s) == \A r \in Request : About(r, i, s) => <<r, "deny">> \notin answers
Allows == {"once", "session", "switch"}
Consent(i, s) ==
  \E r \in Request, d \in Allows : About(r, i, s) /\ <<r, d>> \in answers
MayRun(c, i, s) ==
  /\ Unlisted(i, s) /\ Undenied(i, s)
  /\ Forced(c, "full_access") => Consent(i, s)

RowOfTurn(s) ==
  /\ Holds(s) \/ turn[s].pc \in {"evaluate", "begin"} => turn[s].call \in Calls
  /\ Holds(s) => /\ turn[s].ev \in DOMAIN events
                 /\ events[turn[s].ev].sess = s
                 /\ events[turn[s].ev].call = turn[s].call
RequestOfTurn(s) ==
  /\ At(s, "stepWait") => turn[s].req.kind = "steps" /\ turn[s].req.sess = s
  /\ turn[s].pc \in {"wait", "reviewWait"} => About(turn[s].req, turn[s].ev, s)
MailOfTurn(s) ==
  Waiting(s) =>
    /\ turn[s].req \in Request
    /\ turn[s].mail = "none" => turn[s].req \in pending
    /\ turn[s].mail \in Decisions =>
         \/ <<turn[s].req, turn[s].mail>> \in answers
         \/ turn[s].mail = "once" /\ <<turn[s].req, "switch">> \in answers
\* The request a call waits by is the only one about its row, and once the
\* call may go on there is none.
CleanTurn(s) ==
  Holds(s) =>
    /\ turn[s].pc \notin {"wait", "reviewWait"} \/ Allowed(s) =>
         Unlisted(turn[s].ev, s) /\ Undenied(turn[s].ev, s)
    /\ turn[s].mail = "none" =>
         /\ Undenied(turn[s].ev, s)
         /\ \A r \in pending : About(r, turn[s].ev, s) => r = turn[s].req
AskedNotRun(s) == turn[s].pc \in {"ask", "review"} => ~Ran(turn[s].ev)
ConsentOfTurn(s) ==
  Forced(turn[s].call, "full_access") =>
    /\ ~(At(s, "begin") /\ turn[s].ev = 0)
    /\ Agreed(s) => Consent(turn[s].ev, s)
TurnOK(s) ==
  /\ RowOfTurn(s) /\ RequestOfTurn(s) /\ MailOfTurn(s) /\ CleanTurn(s)
  /\ AskedNotRun(s) /\ ConsentOfTurn(s)

RequestsKnown ==
  /\ \A r \in pending : r.kind # "steps" => r.id \in DOMAIN events
  /\ \A r \in Request, d \in Decisions \cup {"switch"} : <<r, d>> \in answers =>
       /\ r.kind # "steps" => r.id \in DOMAIN events
       /\ d \in Choices(r) \cup {"switch"}
RanMayRun ==
  \A i \in DOMAIN events : Ran(i) => MayRun(events[i].call, i, events[i].sess)

TurnsOK == \A s \in Sessions : TurnOK(s)
Inv == TypeOK /\ TurnsOK /\ RequestsKnown /\ RanMayRun

(***************************************************************************)
(* The turns that a step does not move. Rows keep their call and session;  *)
(* only those of s may begin to run, only requests of s come and go.       *)
(***************************************************************************)
RowsKept ==
  /\ DOMAIN events \subseteq DOMAIN events'
  /\ \A i \in DOMAIN events : /\ events'[i].sess = events[i].sess
                              /\ events'[i].call = events[i].call
KeptFor(x) ==
  /\ \A i \in DOMAIN events : events[i].sess = x => (Ran(i)' => Ran(i))
  /\ \A r \in pending \cup pending' : r.sess = x => r \in pending /\ r \in pending'
OnlyOf(s) == \A x \in Sessions \ {s} : KeptFor(x)

LEMMA OthersKept ==
  ASSUME NEW x \in Sessions, TurnOK(x), turn'[x] = turn[x],
         RowsKept, KeptFor(x), answers' = answers
  PROVE  TurnOK(x)'
<1>1. /\ Holds(x)' = Holds(x) /\ Agreed(x)' = Agreed(x) /\ Waiting(x)' = Waiting(x)
      /\ Allowed(x)' = Allowed(x) /\ \A pc : At(x, pc)' = At(x, pc)
  BY DEF Holds, Agreed, Waiting, Allowed, At
<1>2. \A i : /\ Unlisted(i, x)' = Unlisted(i, x) /\ Undenied(i, x)' = Undenied(i, x)
             /\ Consent(i, x)' = Consent(i, x)
  BY DEF KeptFor, Unlisted, Undenied, Consent, About
<1>3. RowOfTurn(x)'
  BY <1>1 DEF TurnOK, RowOfTurn, RowsKept
<1>4. RequestOfTurn(x)'
  BY <1>1 DEF TurnOK, RequestOfTurn
<1>5. MailOfTurn(x)'
  BY <1>1 DEF TurnOK, MailOfTurn, KeptFor, RequestOfTurn, About, Waiting, At
<1>6. CleanTurn(x)'
  BY <1>1, <1>2 DEF TurnOK, CleanTurn, KeptFor, About
<1>7. AskedNotRun(x)'
  BY <1>1 DEF TurnOK, AskedNotRun, KeptFor, RowOfTurn, Holds, HoldPcs
<1>8. ConsentOfTurn(x)'
  BY <1>1, <1>2 DEF TurnOK, ConsentOfTurn
<1> QED
  BY <1>3, <1>4, <1>5, <1>6, <1>7, <1>8 DEF TurnOK

\* A turn that neither has a call nor waits has nothing to keep.
Quiet == {"idle", "step", "stepAsk", "llm", "gate", "result", "ended"}
LEMMA QuietTurn ==
  ASSUME NEW s \in Sessions, turn'[s].pc \in Quiet
  PROVE  TurnOK(s)'
BY DEF Quiet, TurnOK, RowOfTurn, RequestOfTurn, MailOfTurn, CleanTurn, AskedNotRun,
       ConsentOfTurn, Holds, HoldPcs, Agreed, Waiting, At

\* The tables after a step of a turn: rows that run from now on may, what is
\* asked is about a row that does not run.
LEMMA TablesKept ==
  ASSUME RequestsKnown, RanMayRun, RowsKept, answers' = answers,
         \A i \in DOMAIN events' :
           Ran(i)' => \/ i \in DOMAIN events /\ Ran(i)
                      \/ MayRun(events[i].call, i, events[i].sess)',
         \A r \in pending' : \/ r \in pending \/ r.kind = "steps"
                             \/ r.id \in DOMAIN events' /\ ~Ran(r.id)'
  PROVE  RequestsKnown' /\ RanMayRun'
<1>1. RequestsKnown'
  BY DEF RequestsKnown, RowsKept
<1>2. ASSUME NEW i \in DOMAIN events', Ran(i)', i \in DOMAIN events, Ran(i)
      PROVE  MayRun(events[i].call, i, events[i].sess)'
  <2>1. MayRun(events[i].call, i, events[i].sess)
    BY <1>2 DEF RanMayRun
  <2>2. Unlisted(i, events[i].sess)'
    BY <1>2, <2>1 DEF MayRun, Unlisted, About, RowsKept, Ran
  <2> QED
    BY <1>2, <2>1, <2>2 DEF MayRun, Undenied, Consent, RowsKept
<1> QED
  BY <1>1, <1>2 DEF RanMayRun, Ran

Others(s) == \A x \in Sessions \ {s} : turn'[x] = turn[x]

LEMMA StepOfTurn ==
  ASSUME Inv, TypeOK', NEW s \in Sessions, Others(s), TurnOK(s)',
         RowsKept, OnlyOf(s), answers' = answers,
         \A i \in DOMAIN events' :
           Ran(i)' => \/ i \in DOMAIN events /\ Ran(i)
                      \/ MayRun(events[i].call, i, events[i].sess)',
         \A r \in pending' : \/ r \in pending \/ r.kind = "steps"
                             \/ r.id \in DOMAIN events' /\ ~Ran(r.id)'
  PROVE  Inv'
<1>1. RequestsKnown' /\ RanMayRun'
  BY TablesKept DEF Inv
<1>2. ASSUME NEW x \in Sessions PROVE TurnOK(x)'
  <2>1. CASE x = s
    BY <2>1
  <2>2. CASE x # s
    BY <2>2, OthersKept DEF Inv, TurnsOK, Others, OnlyOf
  <2> QED
    BY <2>1, <2>2
<1> QED
  BY <1>1, <1>2 DEF Inv, TurnsOK

\* The rows and the requests stay.
LEMMA MovesOn ==
  ASSUME Inv, TypeOK', NEW s \in Sessions, Others(s), TurnOK(s)',
         UNCHANGED <<events, pending, answers>>
  PROVE  Inv'
<1>1. RowsKept /\ OnlyOf(s) /\ \A i : Ran(i)' = Ran(i)
  BY DEF RowsKept, OnlyOf, KeptFor, Ran
<1> QED
  BY <1>1, StepOfTurn

\* A row comes at the end of the table.
LEMMA RowComes ==
  ASSUME Inv, TypeOK', NEW s \in Sessions, Others(s), TurnOK(s)',
         NEW row \in Event, events' = Append(events, row), row.sess = s,
         row.status \in {"running", "success"} => ~Forced(row.call, "full_access"),
         UNCHANGED <<pending, answers>>
  PROVE  Inv'
<1>0. PICK n \in Nat : n = Len(events) + 1
  BY DEF Inv, TypeOK
<1>1. events \in Seq(Event) /\ events' \in Seq(Event) /\ Len(events) \in Nat
  BY DEF Inv, TypeOK
<1>2. /\ DOMAIN events' = DOMAIN events \cup {n} /\ n \notin DOMAIN events
      /\ events'[n] = row /\ \A i \in DOMAIN events : events'[i] = events[i]
  BY <1>0, <1>1
<1>3. RowsKept /\ OnlyOf(s)
  BY <1>2 DEF RowsKept, OnlyOf, KeptFor, Ran
<1>4. Unlisted(n, s)' /\ Undenied(n, s)'
  BY <1>2 DEF Inv, RequestsKnown, Unlisted, Undenied, About, Decisions
<1>5. ASSUME NEW i \in DOMAIN events', Ran(i)'
      PROVE  (i \in DOMAIN events /\ Ran(i)) \/ MayRun(events[i].call, i, events[i].sess)'
  <2>1. CASE i = n
    BY <1>2, <1>4, <1>5, <2>1 DEF MayRun, Ran
  <2>2. CASE i \in DOMAIN events
    BY <1>2, <1>5, <2>2 DEF Ran
  <2> QED
    BY <1>2, <2>1, <2>2
<1> QED
  BY <1>3, <1>5, StepOfTurn

\* The row of the turn's call gets another status.
LEMMA RowChanges ==
  ASSUME Inv, TypeOK', NEW s \in Sessions, Others(s), TurnOK(s)', Holds(s),
         NEW row, row.call = events[turn[s].ev].call, row.sess = s,
         events' = [events EXCEPT ![turn[s].ev] = row],
         row.status \in {"running", "success"} =>
           MayRun(turn[s].call, turn[s].ev, s),
         UNCHANGED <<pending, answers>>
  PROVE  Inv'
<1> DEFINE n == turn[s].ev
<1>1. n \in DOMAIN events /\ events[n].sess = s /\ events[n].call = turn[s].call
  BY DEF Inv, TurnsOK, TurnOK, RowOfTurn
<1>2. /\ DOMAIN events' = DOMAIN events
      /\ events'[n] = row /\ \A i \in DOMAIN events \ {n} : events'[i] = events[i]
  BY <1>1 DEF Inv, TypeOK
<1>3. RowsKept /\ OnlyOf(s)
  BY <1>1, <1>2 DEF RowsKept, OnlyOf, KeptFor, Ran
<1>5. ASSUME NEW i \in DOMAIN events', Ran(i)'
      PROVE  (i \in DOMAIN events /\ Ran(i)) \/ MayRun(events[i].call, i, events[i].sess)'
  <2>1. CASE i = n
    BY <1>1, <1>2, <1>5, <2>1 DEF MayRun, Ran, Unlisted, Undenied, Consent
  <2>2. CASE i # n
    BY <1>2, <1>5, <2>2 DEF Ran
  <2> QED
    BY <2>1, <2>2
<1> QED
  BY <1>3, <1>5, StepOfTurn

\* A request is put in the map, which is not about a row that runs.
LEMMA RequestComes ==
  ASSUME Inv, TypeOK', NEW s \in Sessions, Others(s), TurnOK(s)',
         NEW r \in Request, pending' = pending \cup {r}, r.sess = s,
         r.kind # "steps" => r.id \in DOMAIN events /\ ~Ran(r.id),
         UNCHANGED <<events, answers>>
  PROVE  Inv'
<1>1. RowsKept /\ OnlyOf(s) /\ \A i : Ran(i)' = Ran(i)
  BY DEF RowsKept, OnlyOf, KeptFor, Ran
<1> QED
  BY <1>1, StepOfTurn

(***************************************************************************)
(* Steps of a turn.                                                        *)
(***************************************************************************)
LEMMA TurnTyped ==
  ASSUME Inv, NEW s \in Sessions
  PROVE  turn \in [Sessions -> Turn] /\ turn[s] \in Turn
BY DEF Inv, TypeOK

LEMMA NewTurnTyped == \A pc \in Pcs : NewTurn(pc) \in Turn /\ NewTurn(pc).pc = pc
BY DEF NewTurn, Turn, Modes, Mails, Pcs

\* A step to where the turn has no call.
LEMMA QuietMove ==
  ASSUME Inv, NEW s \in Sessions, NEW T \in Turn, T.pc \in Quiet,
         turn' = [turn EXCEPT ![s] = T], limit' \in [Sessions -> Nat],
         UNCHANGED <<mode, rules, events, pending, cmd, answers, ncmds>>
  PROVE  Inv'
<1>1. turn' \in [Sessions -> Turn] /\ turn'[s] = T /\ Others(s)
  BY DEF Inv, TypeOK, Others
<1>2. TypeOK'
  BY <1>1 DEF Inv, TypeOK
<1>3. TurnOK(s)'
  BY <1>1, QuietTurn
<1> QED
  BY <1>1, <1>2, <1>3, MovesOn

LEMMA CheckLimitInv ==
  ASSUME Inv, NEW s \in Sessions, CheckLimit(s) PROVE Inv'
<1> USE DEF CheckLimit, settings
<1>1. turn[s] \in Turn /\ turn \in [Sessions -> Turn] /\ limit[s] \in Nat
      /\ limit' \in [Sessions -> Nat]
  BY TurnTyped DEF Inv, TypeOK
<1>2. PICK T : /\ turn' = [turn EXCEPT ![s] = T]
               /\ \/ \E pc \in {"llm", "ended"} : T = [turn[s] EXCEPT !.pc = pc]
                  \/ T = [turn[s] EXCEPT !.pc = "stepAsk", !.max = limit[s]]
  BY <1>1 DEF Goto
<1>3. T \in Turn /\ T.pc \in Quiet
  BY <1>1, <1>2 DEF Turn, Pcs, Quiet
<1> QED
  BY <1>1, <1>2, <1>3, QuietMove

LEMMA StepsAnsweredInv ==
  ASSUME ToolApprovalAssumption, Inv, NEW s \in Sessions, StepsAnswered(s) PROVE Inv'
<1> USE DEF StepsAnswered
<1>1. turn[s] \in Turn /\ turn \in [Sessions -> Turn] /\ turn[s].max + Extra \in Nat
  BY TurnTyped DEF Turn, ToolApprovalAssumption
<1>2. limit' \in [Sessions -> Nat]
  BY <1>1 DEF Inv, TypeOK
<1>3. PICK pc \in {"step", "ended"} : turn' = [turn EXCEPT ![s] = [turn[s] EXCEPT !.pc = pc]]
  BY <1>1 DEF Goto
<1>4. [turn[s] EXCEPT !.pc = pc] \in Turn /\ [turn[s] EXCEPT !.pc = pc].pc \in Quiet
  BY <1>1 DEF Turn, Pcs, Quiet
<1> QED
  BY <1>2, <1>3, <1>4, QuietMove

LEMMA ReplyInv ==
  ASSUME Inv, NEW s \in Sessions, Reply(s) PROVE Inv'
<1> USE DEF Reply, settings
<1>1. turn[s] \in Turn /\ turn \in [Sessions -> Turn] /\ limit' \in [Sessions -> Nat]
  BY TurnTyped DEF Inv, TypeOK
<1>2. PICK T : /\ turn' = [turn EXCEPT ![s] = T]
               /\ \/ \E pc \in {"gate", "ended"} : T = [turn[s] EXCEPT !.pc = pc]
                  \/ T = [turn[s] EXCEPT !.pc = "step", !.step = turn[s].step + 1,
                                         !.checks = turn[s].checks + 1]
  BY <1>1 DEF Goto, Turn
<1>3. turn[s].step + 1 \in Nat /\ turn[s].checks + 1 \in Nat
  BY <1>1 DEF Turn
<1>4. T \in Turn /\ T.pc \in Quiet
  <2>1. ASSUME NEW pc \in {"gate", "ended"}, T = [turn[s] EXCEPT !.pc = pc]
        PROVE  T \in Turn /\ T.pc \in Quiet
    BY <1>1, <2>1 DEF Turn, Pcs, Quiet
  <2>2. CASE T = [turn[s] EXCEPT !.pc = "step", !.step = turn[s].step + 1,
                                 !.checks = turn[s].checks + 1]
    BY <1>1, <1>3, <2>2 DEF Turn, Pcs, Quiet
  <2> QED
    BY <1>2, <2>1, <2>2
<1> QED
  BY <1>1, <1>2, <1>4, QuietMove

LEMMA ResultInv ==
  ASSUME Inv, NEW s \in Sessions, Result(s) PROVE Inv'
<1> USE DEF Result, settings
<1>1. turn[s] \in Turn /\ turn \in [Sessions -> Turn] /\ limit' \in [Sessions -> Nat]
  BY TurnTyped DEF Inv, TypeOK
<1>2. \A pc \in {"gate", "step"} : NextCall(s, pc) \in Turn /\ NextCall(s, pc).pc = pc
  <2>1. turn[s].step \in Nat /\ turn[s].checks \in Nat /\ turn[s].cancelled \in BOOLEAN
    BY <1>1 DEF Turn
  <2> QED
    BY <2>1 DEF NextCall, NewTurn, Turn, Pcs, Modes, Mails
<1>3. PICK T : /\ turn' = [turn EXCEPT ![s] = T]
               /\ \/ T = NextCall(s, "gate")
                  \/ T = [NextCall(s, "step") EXCEPT !.step = @ + 1]
  BY <1>1
<1>4. T \in Turn /\ T.pc \in Quiet
  BY <1>2, <1>3 DEF Turn, Quiet
<1> QED
  BY <1>1, <1>3, <1>4, QuietMove

LEMMA DropInv ==
  ASSUME Inv, NEW s \in Sessions, Drop(s) PROVE Inv'
<1>1. NewTurn("idle") \in Turn /\ NewTurn("idle").pc \in Quiet /\ limit' \in [Sessions -> Nat]
  BY NewTurnTyped DEF Drop, Inv, TypeOK, settings, Pcs, Quiet
<1> QED
  BY <1>1, QuietMove DEF Drop, settings

\* A refusal of the policy aside, a call that must be asked about is asked.
LEMMA ForcedIsAsked ==
  ASSUME Inv, NEW s \in Sessions, Forced(turn[s].call, "full_access")
  PROVE  Verdict(s) \in {"deny", "askOnce"}
<1>1. Forced(turn[s].call, turn[s].mode)
  BY DEF Forced
<1> QED
  BY <1>1 DEF Verdict, Evaluate

\* A row is inserted for a call that will not run, or one that may.
LEMMA InsertTyped ==
  ASSUME Inv, NEW s \in Sessions, NEW c \in Calls, NEW status \in Statuses,
         NEW scope \in {"none", "null", "once", "session", "steps", "denied"},
         Insert(s, c, status, scope)
  PROVE  \E row \in Event :
           /\ events' = Append(events, row)
           /\ row.sess = s /\ row.call = c /\ row.status = status
           /\ events' \in Seq(Event) /\ Len(events') = Len(events) + 1
           /\ events'[Len(events) + 1] = row
<1> DEFINE row == [sess |-> s, call |-> c, status |-> status, scope |-> scope]
<1>1. row \in Event
  BY DEF Event
<1>2. events \in Seq(Event) /\ events' = Append(events, row)
  BY DEF Inv, TypeOK, Insert
<1> QED
  BY <1>1, <1>2

LEMMA GateInv ==
  ASSUME Inv, NEW s \in Sessions, Gate(s) PROVE Inv'
<1> USE DEF Gate, settings
<1>1. turn[s] \in Turn /\ turn \in [Sessions -> Turn]
  BY TurnTyped
<1>2. PICK c \in Calls :
        \/ Insert(s, c, "failed", "none") /\ Goto(s, "result")
        \/ /\ turn' = [turn EXCEPT ![s].pc = "evaluate", ![s].call = c,
                                   ![s].mode = mode[s]]
           /\ UNCHANGED events
  OBVIOUS
<1>3. CASE Insert(s, c, "failed", "none") /\ Goto(s, "result")
  <2>1. turn' \in [Sessions -> Turn] /\ turn'[s].pc = "result" /\ Others(s)
    BY <1>1, <1>3 DEF Goto, Turn, Pcs, Others
  <2>2. PICK row \in Event : /\ events' = Append(events, row) /\ row.sess = s
                             /\ row.status = "failed" /\ events' \in Seq(Event)
    BY <1>3, InsertTyped DEF Statuses
  <2>3. TypeOK'
    BY <2>1, <2>2 DEF Inv, TypeOK
  <2>4. TurnOK(s)'
    BY <2>1, QuietTurn DEF Quiet
  <2> QED
    BY <2>1, <2>2, <2>3, <2>4, RowComes
<1>4. CASE /\ turn' = [turn EXCEPT ![s].pc = "evaluate", ![s].call = c,
                                   ![s].mode = mode[s]]
           /\ UNCHANGED events
  <2>1. mode[s] \in Modes
    BY DEF Inv, TypeOK
  <2>2. turn' \in [Sessions -> Turn] /\ turn'[s].pc = "evaluate" /\ turn'[s].call = c
        /\ Others(s)
    BY <1>1, <1>4, <2>1 DEF Turn, Pcs, Others
  <2>3. TypeOK'
    BY <1>4, <2>2 DEF Inv, TypeOK
  <2>4. TurnOK(s)'
    BY <2>2 DEF TurnOK, RowOfTurn, RequestOfTurn, MailOfTurn, CleanTurn, AskedNotRun,
                ConsentOfTurn, Holds, HoldPcs, Agreed, Waiting, At
  <2> QED
    BY <1>4, <2>2, <2>3, <2>4, MovesOn
<1> QED
  BY <1>2, <1>3, <1>4

LEMMA PolicyDeniesInv ==
  ASSUME Inv, NEW s \in Sessions, PolicyDenies(s) PROVE Inv'
<1> USE DEF PolicyDenies, settings
<1>1. turn[s] \in Turn /\ turn \in [Sessions -> Turn] /\ turn[s].call \in Calls
  BY TurnTyped DEF Inv, TurnsOK, TurnOK, RowOfTurn, At
<1>2. turn' \in [Sessions -> Turn] /\ turn'[s].pc = "result" /\ Others(s)
  BY <1>1 DEF Goto, Turn, Pcs, Others
<1>3. PICK row \in Event : /\ events' = Append(events, row) /\ row.sess = s
                           /\ row.status = "failed" /\ events' \in Seq(Event)
  BY <1>1, InsertTyped DEF Statuses
<1>4. TypeOK'
  BY <1>2, <1>3 DEF Inv, TypeOK
<1>5. TurnOK(s)'
  BY <1>2, QuietTurn DEF Quiet
<1> QED
  BY <1>2, <1>3, <1>4, <1>5, RowComes

LEMMA PolicyAllowsInv ==
  ASSUME Inv, NEW s \in Sessions, PolicyAllows(s) PROVE Inv'
<1> USE DEF PolicyAllows, settings
<1>1. turn[s] \in Turn /\ turn \in [Sessions -> Turn] /\ turn[s].call \in Calls
      /\ ~Forced(turn[s].call, "full_access")
  BY TurnTyped, ForcedIsAsked DEF Inv, TurnsOK, TurnOK, RowOfTurn, At
<1>2. /\ turn' \in [Sessions -> Turn] /\ Others(s)
      /\ turn'[s].pc = "begin" /\ turn'[s].ev = 0 /\ turn'[s].call = turn[s].call
  BY <1>1 DEF Turn, Pcs, Others
<1>3. TypeOK'
  BY <1>2 DEF Inv, TypeOK
<1>4. TurnOK(s)'
  BY <1>1, <1>2 DEF TurnOK, RowOfTurn, RequestOfTurn, MailOfTurn, CleanTurn, AskedNotRun,
       ConsentOfTurn, Holds, HoldPcs, Agreed, Waiting, At
<1> QED
  BY <1>2, <1>3, <1>4, MovesOn

\* What a row that has just come is known by.
LEMMA NewRowClean ==
  ASSUME Inv, NEW s \in Sessions, UNCHANGED <<pending, answers>>
  PROVE  Unlisted(Len(events) + 1, s) /\ Undenied(Len(events) + 1, s)
<1>1. Len(events) + 1 \notin DOMAIN events
  BY DEF Inv, TypeOK
<1> QED
  BY <1>1 DEF Inv, RequestsKnown, Unlisted, Undenied, About, Decisions

LEMMA PolicyAsksInv ==
  ASSUME Inv, NEW s \in Sessions, PolicyAsks(s) PROVE Inv'
<1> USE DEF PolicyAsks, settings
<1>1. turn[s] \in Turn /\ turn \in [Sessions -> Turn] /\ turn[s].call \in Calls
  BY TurnTyped DEF Inv, TurnsOK, TurnOK, RowOfTurn, At
<1>2. PICK row \in Event :
        /\ events' = Append(events, row) /\ row.sess = s /\ row.call = turn[s].call
        /\ row.status = "pending_approval"
        /\ events' \in Seq(Event) /\ Len(events') = Len(events) + 1
        /\ events'[Len(events) + 1] = row
  BY <1>1, InsertTyped DEF Statuses
<1>3. PICK n \in Nat : n = Len(events) + 1
  BY DEF Inv, TypeOK
<1>4. /\ turn' \in [Sessions -> Turn] /\ Others(s)
      /\ turn'[s].pc = "ask" /\ turn'[s].ev = n /\ turn'[s].call = turn[s].call
  BY <1>1, <1>3 DEF Turn, Pcs, Others
<1>5. TypeOK'
  BY <1>2, <1>4 DEF Inv, TypeOK
<1>6. n \in DOMAIN events' /\ Unlisted(n, s)' /\ Undenied(n, s)'
  <2>1. Unlisted(n, s) /\ Undenied(n, s)
    BY <1>3, NewRowClean
  <2> QED
    BY <1>2, <1>3, <2>1 DEF Unlisted, Undenied
<1>7. TurnOK(s)'
  <2>1. RowOfTurn(s)'
    BY <1>1, <1>2, <1>3, <1>4, <1>6 DEF RowOfTurn
  <2>2. CleanTurn(s)'
    BY <1>4, <1>6 DEF CleanTurn, Unlisted
  <2>3. AskedNotRun(s)'
    BY <1>2, <1>3, <1>4 DEF AskedNotRun, Ran
  <2> QED
    BY <1>4, <2>1, <2>2, <2>3 DEF TurnOK, RequestOfTurn, MailOfTurn, ConsentOfTurn, Holds,
         HoldPcs, Agreed, Waiting, At
<1> QED
  BY <1>2, <1>4, <1>5, <1>7, RowComes

\* A turn that waits again has a request in the map, and no mail.
LEMMA AskTyped ==
  ASSUME Inv, NEW s \in Sessions, NEW kind \in Kinds, NEW id \in Nat,
         NEW pc \in {"stepWait", "wait", "reviewWait"}, Ask(s, kind, id, pc)
  PROVE  \E r \in Request :
           /\ r.kind = kind /\ r.id = id /\ r.sess = s /\ pending' = pending \cup {r}
           /\ turn' \in [Sessions -> Turn] /\ Others(s)
           /\ turn'[s].pc = pc /\ turn'[s].req = r /\ turn'[s].mail = "none"
           /\ turn'[s].call = turn[s].call /\ turn'[s].ev = turn[s].ev
<1>1. turn[s] \in Turn /\ turn \in [Sessions -> Turn]
  BY TurnTyped
<1>2. PICK r \in Request : r = [kind |-> kind, id |-> id, sess |-> s]
  BY DEF Request
<1>3. /\ turn' = [turn EXCEPT ![s].pc = pc, ![s].req = r, ![s].mail = "none"]
      /\ pending' = pending \cup {r} /\ r.kind = kind /\ r.id = id /\ r.sess = s
  BY <1>2 DEF Ask
<1>4. /\ turn' \in [Sessions -> Turn] /\ Others(s)
      /\ turn'[s].pc = pc /\ turn'[s].req = r /\ turn'[s].mail = "none"
      /\ turn'[s].call = turn[s].call /\ turn'[s].ev = turn[s].ev
  <2>1. /\ turn'[s] = [turn[s] EXCEPT !.pc = pc, !.req = r, !.mail = "none"] /\ Others(s)
        /\ turn' = [turn EXCEPT ![s] = [turn[s] EXCEPT !.pc = pc, !.req = r, !.mail = "none"]]
    BY <1>1, <1>3 DEF Others
  <2>2. pc \in Pcs /\ "none" \in Mails /\ r \in Request \cup {NoId}
    BY DEF Pcs, Mails
  <2>3. turn'[s] \in Turn
    BY <1>1, <2>1, <2>2 DEF Turn
  <2>4. /\ turn'[s].pc = pc /\ turn'[s].req = r /\ turn'[s].mail = "none"
        /\ turn'[s].call = turn[s].call /\ turn'[s].ev = turn[s].ev
    BY <1>1, <2>1 DEF Turn
  <2> QED
    BY <1>1, <2>1, <2>3, <2>4
<1> QED
  BY <1>3, <1>4

LEMMA AskStepsInv ==
  ASSUME Inv, NEW s \in Sessions, AskSteps(s) PROVE Inv'
<1> USE DEF AskSteps, settings
<1>1. PICK r \in Request :
        /\ r.kind = "steps" /\ r.sess = s /\ pending' = pending \cup {r}
        /\ turn' \in [Sessions -> Turn] /\ Others(s)
        /\ turn'[s].pc = "stepWait" /\ turn'[s].req = r /\ turn'[s].mail = "none"
  BY AskTyped DEF Kinds, Inv, TypeOK
<1>2. TypeOK'
  BY <1>1 DEF Inv, TypeOK
<1>3. TurnOK(s)'
  BY <1>1 DEF TurnOK, RowOfTurn, RequestOfTurn, MailOfTurn, CleanTurn, AskedNotRun,
       ConsentOfTurn, Holds, HoldPcs, Agreed, Waiting, At, Decisions
<1> QED
  BY <1>1, <1>2, <1>3, RequestComes

\* A call that asks about its row.
LEMMA AskAbout ==
  ASSUME Inv, NEW s \in Sessions, NEW kind \in {"tool", "once"},
         NEW pc \in {"wait", "reviewWait"}, Ask(s, kind, turn[s].ev, pc),
         IF pc = "wait" THEN At(s, "ask") ELSE At(s, "review"),
         UNCHANGED <<mode, rules, limit, events, cmd, answers, ncmds>>
  PROVE  Inv'
<1>1. /\ turn[s].call \in Calls /\ turn[s].ev \in DOMAIN events
      /\ events[turn[s].ev].sess = s /\ events[turn[s].ev].call = turn[s].call
      /\ ~Ran(turn[s].ev) /\ turn[s].ev \in Nat
      /\ Unlisted(turn[s].ev, s) /\ Undenied(turn[s].ev, s)
      /\ pc = "reviewWait" /\ Forced(turn[s].call, "full_access") => Consent(turn[s].ev, s)
  <2>1. /\ RowOfTurn(s) /\ CleanTurn(s) /\ AskedNotRun(s) /\ ConsentOfTurn(s)
        /\ turn[s] \in Turn /\ turn[s].pc \in {"ask", "review"} /\ Holds(s)
    BY DEF Inv, TypeOK, TurnsOK, TurnOK, Holds, HoldPcs, At
  <2>2. /\ turn[s].call \in Calls /\ turn[s].ev \in DOMAIN events /\ turn[s].ev \in Nat
        /\ events[turn[s].ev].sess = s /\ events[turn[s].ev].call = turn[s].call
    BY <2>1 DEF RowOfTurn, Inv, TypeOK, HoldPcs
  <2>3. ~Ran(turn[s].ev) /\ Unlisted(turn[s].ev, s) /\ Undenied(turn[s].ev, s)
    BY <2>1 DEF CleanTurn, AskedNotRun, HoldPcs, At
  <2>4. pc = "reviewWait" /\ Forced(turn[s].call, "full_access") => Consent(turn[s].ev, s)
    BY <2>1 DEF ConsentOfTurn, Agreed, At
  <2> QED
    BY <2>2, <2>3, <2>4
<1>2. PICK r \in Request :
        /\ r.kind = kind /\ r.id = turn[s].ev /\ r.sess = s /\ pending' = pending \cup {r}
        /\ turn' \in [Sessions -> Turn] /\ Others(s)
        /\ turn'[s].pc = pc /\ turn'[s].req = r /\ turn'[s].mail = "none"
        /\ turn'[s].call = turn[s].call /\ turn'[s].ev = turn[s].ev
  BY <1>1, AskTyped DEF Kinds
<1>3. TypeOK'
  BY <1>2 DEF Inv, TypeOK
<1>4. TurnOK(s)'
  <2>1. RowOfTurn(s)'
    BY <1>1, <1>2 DEF RowOfTurn
  <2>2. RequestOfTurn(s)'
    BY <1>2 DEF RequestOfTurn, About, At
  <2>3. MailOfTurn(s)'
    BY <1>2 DEF MailOfTurn, Decisions
  <2>4. CleanTurn(s)'
    BY <1>1, <1>2 DEF CleanTurn, Unlisted, Undenied, Allowed
  <2>5. ConsentOfTurn(s)'
    BY <1>1, <1>2 DEF ConsentOfTurn, Consent, Agreed, At
  <2> QED
    BY <1>2, <2>1, <2>2, <2>3, <2>4, <2>5 DEF TurnOK, AskedNotRun
<1> QED
  BY <1>1, <1>2, <1>3, <1>4, RequestComes

LEMMA AskUserInv ==
  ASSUME Inv, NEW s \in Sessions, AskUser(s) PROVE Inv'
<1>1. turn[s].kind \in {"tool", "once"}
  BY TurnTyped DEF Turn
<1> QED
  BY <1>1, AskAbout DEF AskUser, settings

LEMMA AskReviewInv ==
  ASSUME Inv, NEW s \in Sessions, AskReview(s) PROVE Inv'
BY AskAbout DEF AskReview, settings

\* The answer was given to the very request the call waits by.
LEMMA UserAllowedInv ==
  ASSUME ToolApprovalAssumption, Inv, NEW s \in Sessions, UserAllowed(s) PROVE Inv'
<1> USE DEF UserAllowed, Polled
<1>1. /\ turn[s] \in Turn /\ turn \in [Sessions -> Turn] /\ turn[s].call \in Calls
      /\ turn[s].ev \in DOMAIN events /\ turn[s].ev # 0
      /\ events[turn[s].ev].sess = s /\ events[turn[s].ev].call = turn[s].call
  BY TurnTyped DEF Inv, TypeOK, TurnsOK, TurnOK, RowOfTurn, Holds, HoldPcs, At
<1>2. /\ turn[s].req \in Request /\ About(turn[s].req, turn[s].ev, s)
      /\ Unlisted(turn[s].ev, s) /\ Undenied(turn[s].ev, s)
  BY DEF Inv, TurnsOK, TurnOK, RequestOfTurn, MailOfTurn, CleanTurn, Waiting, Holds, HoldPcs,
         At
<1>3. Consent(turn[s].ev, s) /\ turn[s].mail \in {"once", "session"}
  <2>1. \/ <<turn[s].req, turn[s].mail>> \in answers
        \/ turn[s].mail = "once" /\ <<turn[s].req, "switch">> \in answers
    BY DEF Inv, TurnsOK, TurnOK, MailOfTurn, Waiting, At, Allowed, Decisions
  <2>2. CASE <<turn[s].req, turn[s].mail>> \in answers
    <3>1. turn[s].mail \in Choices(turn[s].req) \cup {"switch"}
      BY <1>2, <2>2 DEF Inv, RequestsKnown, Allowed, Decisions
    <3>2. turn[s].mail \in {"once", "session"}
      BY <1>2, <3>1 DEF Choices, About, Allowed
    <3> QED
      BY <1>2, <2>2, <3>2 DEF Consent, Allows
  <2>3. CASE turn[s].mail = "once" /\ <<turn[s].req, "switch">> \in answers
    BY <1>2, <2>3 DEF Consent, Allows
  <2> QED
    BY <2>1, <2>2, <2>3
<1>4. /\ turn' \in [Sessions -> Turn] /\ Others(s)
      /\ turn'[s].pc = "begin" /\ turn'[s].mail = turn[s].mail
      /\ turn'[s].call = turn[s].call /\ turn'[s].ev = turn[s].ev
  BY <1>1, <1>3 DEF Turn, Pcs, Others
<1>5. rules' \in [Sessions -> SUBSET Rule]
  <2>1. turn[s].call \in Call
    BY <1>1 DEF ToolApprovalAssumption
  <2>2. \A R \in SUBSET Rule : Learn(turn[s].call, R) \in SUBSET Rule
    BY <2>1 DEF Learn, RuleFor, RuleKind, Rule, Call
  <2> QED
    BY <2>2 DEF Inv, TypeOK
<1>6. TypeOK'
  BY <1>4, <1>5 DEF Inv, TypeOK
<1>7. TurnOK(s)'
  <2>1. RowOfTurn(s)'
    BY <1>1, <1>4 DEF RowOfTurn
  <2>2. CleanTurn(s)'
    BY <1>2, <1>4 DEF CleanTurn, Unlisted, Undenied
  <2>3. ConsentOfTurn(s)'
    BY <1>1, <1>3, <1>4 DEF ConsentOfTurn, Consent, At
  <2> QED
    BY <1>4, <2>1, <2>2, <2>3 DEF TurnOK, RequestOfTurn, MailOfTurn, AskedNotRun, Waiting, At
<1> QED
  BY <1>4, <1>6, <1>7, MovesOn

LEMMA Going ==
  ASSUME Inv, NEW s \in Sessions, NEW pc \in Pcs, Goto(s, pc)
  PROVE  /\ turn' \in [Sessions -> Turn] /\ Others(s) /\ turn'[s].pc = pc
         /\ turn'[s].call = turn[s].call /\ turn'[s].ev = turn[s].ev
         /\ turn'[s].mail = turn[s].mail
<1>1. turn[s] \in Turn /\ turn \in [Sessions -> Turn]
  BY TurnTyped
<1> QED
  BY <1>1 DEF Goto, Turn, Others

\* The row of a call whose turn is done with it.
LEMMA CallEnds ==
  ASSUME Inv, NEW s \in Sessions, Holds(s), Goto(s, "result"),
         NEW row \in Event, events' = [events EXCEPT ![turn[s].ev] = row],
         row.call = events[turn[s].ev].call, row.sess = s,
         row.status \in {"running", "success"} => MayRun(turn[s].call, turn[s].ev, s),
         UNCHANGED <<mode, rules, limit, pending, cmd, answers, ncmds>>
  PROVE  Inv'
<1>1. turn[s] \in Turn /\ turn \in [Sessions -> Turn] /\ turn[s].ev \in DOMAIN events
  BY TurnTyped DEF Inv, TurnsOK, TurnOK, RowOfTurn
<1>2. turn' \in [Sessions -> Turn] /\ turn'[s].pc = "result" /\ Others(s)
  BY Going DEF Pcs
<1>3. events' \in Seq(Event)
  BY <1>1 DEF Inv, TypeOK
<1>4. TypeOK'
  BY <1>2, <1>3 DEF Inv, TypeOK
<1>5. TurnOK(s)'
  BY <1>2, QuietTurn DEF Quiet
<1> QED
  BY <1>2, <1>4, <1>5, RowChanges

\* The row of the turn's call with another status, or with a decision.
LEMMA RowWritten ==
  ASSUME Inv, NEW s \in Sessions, Holds(s), NEW status \in Statuses,
         SetEvent(turn[s].ev, status)
  PROVE  \E row \in Event :
           /\ row.call = events[turn[s].ev].call /\ row.sess = s /\ row.status = status
           /\ events' = [events EXCEPT ![turn[s].ev] = row]
<1> DEFINE row == [events[turn[s].ev] EXCEPT !.status = status]
<1>1. events[turn[s].ev] \in Event /\ events[turn[s].ev].sess = s
  BY DEF Inv, TypeOK, TurnsOK, TurnOK, RowOfTurn
<1>2. /\ row \in Event /\ row.call = events[turn[s].ev].call /\ row.sess = s
      /\ row.status = status
  BY <1>1 DEF Event
<1>3. events' = [events EXCEPT ![turn[s].ev] = row]
  BY DEF SetEvent
<1> QED
  BY <1>2, <1>3

LEMMA RowDecided ==
  ASSUME Inv, NEW s \in Sessions, Holds(s), NEW status \in Statuses,
         NEW scope \in {"none", "null", "once", "session", "steps", "denied"},
         events' = [events EXCEPT ![turn[s].ev].status = status, ![turn[s].ev].scope = scope]
  PROVE  \E row \in Event :
           /\ row.call = events[turn[s].ev].call /\ row.sess = s /\ row.status = status
           /\ events' = [events EXCEPT ![turn[s].ev] = row]
<1> DEFINE row == [events[turn[s].ev] EXCEPT !.status = status, !.scope = scope]
<1>1. /\ events[turn[s].ev] \in Event /\ events[turn[s].ev].sess = s
      /\ turn[s].ev \in DOMAIN events /\ events \in Seq(Event)
  BY DEF Inv, TypeOK, TurnsOK, TurnOK, RowOfTurn
<1>2. /\ row \in Event /\ row.call = events[turn[s].ev].call /\ row.sess = s
      /\ row.status = status
  BY <1>1 DEF Event
<1>3. events' = [events EXCEPT ![turn[s].ev] = row]
  BY <1>1
<1> QED
  BY <1>2, <1>3

Runs(s) ==
  events' = [events EXCEPT ![turn[s].ev].status = "running",
                           ![turn[s].ev].scope = turn[s].scope]

LEMMA RowRuns ==
  ASSUME Inv, NEW s \in Sessions, Holds(s),
         turn[s].scope \in {"none", "once", "session", "steps"}, Runs(s)
  PROVE  \E row \in Event :
           /\ row.call = events[turn[s].ev].call /\ row.sess = s
           /\ row.status = "running"
           /\ events' = [events EXCEPT ![turn[s].ev] = row]
<1> DEFINE row == [events[turn[s].ev] EXCEPT !.status = "running",
                                              !.scope = turn[s].scope]
<1>1. /\ events[turn[s].ev] \in Event /\ events[turn[s].ev].sess = s
      /\ turn[s].ev \in DOMAIN events /\ events \in Seq(Event)
  BY DEF Inv, TypeOK, TurnsOK, TurnOK, RowOfTurn
<1>2. /\ row \in Event /\ row.call = events[turn[s].ev].call /\ row.sess = s
      /\ row.status = "running"
  BY <1>1 DEF Event, Statuses
<1>3. events' = [events EXCEPT ![turn[s].ev] = row]
  BY <1>1 DEF Runs
<1> QED
  BY <1>2, <1>3

LEMMA DenyInv ==
  ASSUME Inv, NEW s \in Sessions, At(s, "wait"), Deny(s),
         UNCHANGED <<mode, rules, limit, pending, cmd, answers, ncmds>>
  PROVE  Inv'
<1>1. Holds(s) /\ "denied" \in Statuses
  BY DEF Holds, HoldPcs, At, Statuses
<1>2. events' = [events EXCEPT ![turn[s].ev].status = "denied", ![turn[s].ev].scope = "denied"]
  BY DEF Deny
<1>3. PICK row \in Event :
        /\ row.call = events[turn[s].ev].call /\ row.sess = s /\ row.status = "denied"
        /\ events' = [events EXCEPT ![turn[s].ev] = row]
  BY <1>1, <1>2, RowDecided
<1> QED
  BY <1>1, <1>3, CallEnds DEF Deny

LEMMA UserDeniedInv ==
  ASSUME Inv, NEW s \in Sessions, UserDenied(s) \/ TimedOut(s) PROVE Inv'
BY DenyInv DEF UserDenied, TimedOut, Polled, settings

LEMMA BeginInv ==
  ASSUME Inv, NEW s \in Sessions, Begin(s) PROVE Inv'
<1> USE DEF Begin, settings
<1>1. /\ turn[s] \in Turn /\ turn \in [Sessions -> Turn] /\ turn[s].call \in Calls
      /\ turn[s].scope \in {"none", "once", "session", "steps"}
  BY TurnTyped DEF Turn, Inv, TurnsOK, TurnOK, RowOfTurn, At
<1>2. CASE turn[s].ev = 0
  <2>1. ~Forced(turn[s].call, "full_access")
    BY <1>2 DEF Inv, TurnsOK, TurnOK, ConsentOfTurn
  <2>2. PICK row \in Event :
          /\ events' = Append(events, row) /\ row.sess = s /\ row.call = turn[s].call
          /\ row.status = "running"
          /\ events' \in Seq(Event) /\ Len(events') = Len(events) + 1
          /\ events'[Len(events) + 1] = row
    BY <1>1, <1>2, InsertTyped DEF Statuses
  <2>3. PICK n \in Nat : n = Len(events) + 1
    BY DEF Inv, TypeOK
  <2>4. /\ turn' \in [Sessions -> Turn] /\ Others(s)
        /\ turn'[s].pc = "running" /\ turn'[s].ev = n /\ turn'[s].call = turn[s].call
    BY <1>1, <1>2, <2>3 DEF Turn, Pcs, Others
  <2>5. TypeOK'
    BY <2>2, <2>4 DEF Inv, TypeOK
  <2>6. n \in DOMAIN events' /\ Unlisted(n, s)' /\ Undenied(n, s)'
    <3>1. Unlisted(n, s) /\ Undenied(n, s)
      BY <2>3, NewRowClean
    <3> QED
      BY <2>2, <2>3, <3>1 DEF Unlisted, Undenied
  <2>7. TurnOK(s)'
    <3>1. RowOfTurn(s)'
      BY <1>1, <2>2, <2>3, <2>4, <2>6 DEF RowOfTurn
    <3>2. CleanTurn(s)'
      BY <2>4, <2>6 DEF CleanTurn, Unlisted
    <3> QED
      BY <2>1, <2>4, <3>1, <3>2 DEF TurnOK, RequestOfTurn, MailOfTurn, AskedNotRun,
           ConsentOfTurn, Waiting, At
  <2> QED
    BY <2>1, <2>2, <2>4, <2>5, <2>7, RowComes
<1>3. CASE turn[s].ev # 0
  <2>1. Holds(s) /\ MayRun(turn[s].call, turn[s].ev, s) /\ turn[s].ev \in DOMAIN events
    BY <1>3 DEF Inv, TurnsOK, TurnOK, RowOfTurn, CleanTurn, ConsentOfTurn, MayRun, Holds,
                HoldPcs, Agreed, At
  <2>0. Runs(s)
    BY <1>3 DEF Runs
  <2>2. PICK row \in Event :
          /\ row.call = events[turn[s].ev].call /\ row.sess = s /\ row.status = "running"
          /\ events' = [events EXCEPT ![turn[s].ev] = row]
    <3> HIDE DEF Begin
    <3> QED
      BY <1>1, <2>0, <2>1, RowRuns
  <2>3. /\ turn' \in [Sessions -> Turn] /\ Others(s) /\ turn'[s].pc = "running"
        /\ turn'[s].call = turn[s].call /\ turn'[s].ev = turn[s].ev
    BY <1>3, Going DEF Pcs
  <2>4. events' \in Seq(Event) /\ DOMAIN events' = DOMAIN events /\ events'[turn[s].ev] = row
    BY <2>1, <2>2 DEF Inv, TypeOK
  <2>5. TypeOK'
    BY <2>3, <2>4 DEF Inv, TypeOK
  <2>6. TurnOK(s)'
    <3>0. events[turn[s].ev].call = turn[s].call
      BY <2>1 DEF Inv, TurnsOK, TurnOK, RowOfTurn
    <3>1. RowOfTurn(s)'
      BY <1>1, <2>1, <2>2, <2>3, <2>4, <3>0 DEF RowOfTurn
    <3>2. CleanTurn(s)'
      BY <2>1, <2>3 DEF CleanTurn, MayRun, Unlisted, Undenied
    <3>3. ConsentOfTurn(s)'
      BY <2>1, <2>3 DEF ConsentOfTurn, MayRun, Consent, At
    <3> QED
      BY <2>3, <3>1, <3>2, <3>3 DEF TurnOK, RequestOfTurn, MailOfTurn, AskedNotRun, Waiting,
           At
  <2> QED
    BY <1>3, <2>1, <2>2, <2>3, <2>5, <2>6, RowChanges
<1> QED
  BY <1>2, <1>3

\* A call that was let run may have its outcome written.
LEMMA AgreedMayRun ==
  ASSUME Inv, NEW s \in Sessions,
         At(s, "running") \/ (At(s, "reviewWait") /\ Allowed(s))
  PROVE  Holds(s) /\ MayRun(turn[s].call, turn[s].ev, s)
BY DEF Inv, TurnsOK, TurnOK, CleanTurn, ConsentOfTurn, MayRun, Holds, HoldPcs, Agreed, At

LEMMA FinishInv ==
  ASSUME Inv, NEW s \in Sessions, Finish(s) PROVE Inv'
<1> USE DEF Finish, Polled, settings
<1>1. Holds(s) /\ MayRun(turn[s].call, turn[s].ev, s)
  BY AgreedMayRun
<1>2. PICK status \in {"success", "failed"} : SetEvent(turn[s].ev, status)
  OBVIOUS
<1>3. PICK row \in Event :
        /\ row.call = events[turn[s].ev].call /\ row.sess = s
        /\ events' = [events EXCEPT ![turn[s].ev] = row]
  <2>1. status \in Statuses
    BY DEF Statuses
  <2> QED
    BY <1>1, <1>2, <2>1, RowWritten
<1> QED
  BY <1>1, <1>3, CallEnds

LEMMA ReviewEndsInv ==
  ASSUME Inv, NEW s \in Sessions, ReviewEnds(s) PROVE Inv'
<1> USE DEF ReviewEnds, Polled, settings
<1>1. Holds(s) /\ (Allowed(s) => MayRun(turn[s].call, turn[s].ev, s))
  BY AgreedMayRun DEF Holds, HoldPcs, At
<1>2. PICK status \in {"success", "denied"} :
        /\ SetEvent(turn[s].ev, status)
        /\ status = "success" => Allowed(s)
  OBVIOUS
<1>3. PICK row \in Event :
        /\ row.call = events[turn[s].ev].call /\ row.sess = s /\ row.status = status
        /\ events' = [events EXCEPT ![turn[s].ev] = row]
  <2>1. status \in Statuses
    BY DEF Statuses
  <2> QED
    BY <1>1, <1>2, <2>1, RowWritten
<1> QED
  BY <1>1, <1>2, <1>3, CallEnds

LEMMA FinishDoubtfulInv ==
  ASSUME Inv, NEW s \in Sessions, FinishDoubtful(s) PROVE Inv'
<1> USE DEF FinishDoubtful, Polled, settings
<1>1. Holds(s) /\ MayRun(turn[s].call, turn[s].ev, s) /\ turn[s].call \in Calls
      /\ turn[s].ev \in DOMAIN events /\ events[turn[s].ev].call = turn[s].call
  BY AgreedMayRun DEF Inv, TurnsOK, TurnOK, RowOfTurn
<1>2. PICK row \in Event :
        /\ row.call = events[turn[s].ev].call /\ row.sess = s
        /\ row.status = "pending_approval"
        /\ events' = [events EXCEPT ![turn[s].ev] = row]
  <2>1. "pending_approval" \in Statuses
    BY DEF Statuses
  <2> QED
    BY <1>1, <2>1, RowWritten
<1>3. /\ turn' \in [Sessions -> Turn] /\ Others(s) /\ turn'[s].pc = "review"
      /\ turn'[s].call = turn[s].call /\ turn'[s].ev = turn[s].ev
  BY Going DEF Pcs
<1>4. events' \in Seq(Event) /\ DOMAIN events' = DOMAIN events /\ events'[turn[s].ev] = row
  BY <1>1, <1>2 DEF Inv, TypeOK
<1>5. TypeOK'
  BY <1>3, <1>4 DEF Inv, TypeOK
<1>6. TurnOK(s)'
  <2>1. RowOfTurn(s)'
    BY <1>1, <1>2, <1>3, <1>4 DEF RowOfTurn
  <2>2. CleanTurn(s)'
    BY <1>1, <1>3 DEF CleanTurn, MayRun, Unlisted, Undenied
  <2>3. AskedNotRun(s)'
    BY <1>2, <1>3, <1>4 DEF AskedNotRun, Ran
  <2>4. ConsentOfTurn(s)'
    BY <1>1, <1>3 DEF ConsentOfTurn, MayRun, Consent, At
  <2> QED
    BY <1>3, <2>1, <2>2, <2>3, <2>4 DEF TurnOK, RequestOfTurn, MailOfTurn, Waiting, At
<1> QED
  BY <1>1, <1>2, <1>3, <1>5, <1>6, RowChanges

\* What is closed in the table of events does not run afterwards.
LEMMA Closing ==
  ASSUME Inv, NEW s, CloseEvents(s), UNCHANGED <<pending, answers>>
  PROVE  /\ events' \in Seq(Event) /\ RowsKept /\ \A x \in Sessions : KeptFor(x)
         /\ DOMAIN events' = DOMAIN events /\ \A i \in DOMAIN events : Ran(i)' => Ran(i)
<1>1. events \in Seq(Event)
  BY DEF Inv, TypeOK
<1>2. ASSUME NEW i \in DOMAIN events
      PROVE  LET row == [events[i] EXCEPT !.status = "failed"] IN
             /\ events[i] \in Event /\ row \in Event
             /\ row.sess = events[i].sess /\ row.call = events[i].call
             /\ row.status = "failed"
  <2>1. events[i] \in Event
    BY <1>1
  <2> QED
    BY <2>1 DEF Event, Statuses
<1>3. /\ DOMAIN events' = DOMAIN events
      /\ \A i \in DOMAIN events :
           /\ events'[i] \in Event
           /\ events'[i].sess = events[i].sess /\ events'[i].call = events[i].call
           /\ events'[i].status \in {events[i].status, "failed"}
  BY <1>2 DEF CloseEvents
<1>4. events' \in Seq(Event)
  <2>1. DOMAIN events = 1 .. Len(events) /\ Len(events) \in Nat
    BY <1>1
  <2> QED
    BY <1>3, <2>1 DEF CloseEvents
<1> QED
  BY <1>3, <1>4 DEF RowsKept, KeptFor, Ran

LEMMA EndInv ==
  ASSUME Inv, NEW s \in Sessions, End(s) PROVE Inv'
<1> USE DEF End, settings
<1>1. /\ events' \in Seq(Event) /\ RowsKept /\ OnlyOf(s)
      /\ DOMAIN events' = DOMAIN events /\ \A i \in DOMAIN events : Ran(i)' => Ran(i)
  BY Closing DEF OnlyOf
<1>2. turn' \in [Sessions -> Turn] /\ turn'[s].pc = "idle" /\ Others(s)
  BY TurnTyped, NewTurnTyped DEF Others, Pcs
<1>3. TypeOK'
  BY <1>1, <1>2 DEF Inv, TypeOK
<1>4. TurnOK(s)'
  BY <1>2, QuietTurn DEF Quiet
<1> QED
  BY <1>1, <1>2, <1>3, <1>4, StepOfTurn

(***************************************************************************)
(* Commands.                                                               *)
(***************************************************************************)
LEMMA Issued ==
  ASSUME Inv, NEW t \in Threads, NEW op, NEW s \in Sessions,
         NEW pc \in {"idle", "resolve", "abort"}, Issue(t, op, s, pc)
  PROVE  cmd' \in [Threads -> Cmd] /\ ncmds' \in Nat
<1>1. [pc |-> pc, sess |-> IF pc = "idle" THEN NoId ELSE s] \in Cmd
  BY DEF Cmd, CmdPcs
<1> QED
  BY <1>1 DEF Inv, TypeOK, Issue

LEMMA Ended ==
  ASSUME Inv, NEW t \in Threads, CmdEnd(t)
  PROVE  cmd' \in [Threads -> Cmd]
<1>1. NoCmd \in Cmd
  BY DEF NoCmd, Cmd, CmdPcs
<1> QED
  BY <1>1 DEF Inv, TypeOK, CmdEnd

\* Commands that touch neither turns nor requests.
LEMMA Elsewhere ==
  ASSUME Inv, TypeOK', UNCHANGED <<events, pending, turn, answers>>
  PROVE  Inv'
<1>1. RowsKept /\ (\A x \in Sessions : KeptFor(x)) /\ \A i : Ran(i)' = Ran(i)
  BY DEF RowsKept, KeptFor, Ran
<1>2. TurnsOK'
  BY <1>1, OthersKept DEF Inv, TurnsOK
<1>3. RequestsKnown' /\ RanMayRun'
  BY <1>1, TablesKept DEF Inv
<1> QED
  BY <1>2, <1>3 DEF Inv

LEMMA StartInv ==
  ASSUME Inv, NEW t \in Threads, NEW s \in Sessions, Start(t, s) PROVE Inv'
<1> USE DEF Start, settings
<1>1. cmd' \in [Threads -> Cmd] /\ ncmds' \in Nat
  BY Issued
<1>2. turn' \in [Sessions -> Turn] /\ turn'[s].pc = "step" /\ Others(s)
  BY TurnTyped, NewTurnTyped DEF Others, Pcs
<1>3. TypeOK'
  BY <1>1, <1>2 DEF Inv, TypeOK
<1>4. TurnOK(s)'
  BY <1>2, QuietTurn DEF Quiet
<1> QED
  BY <1>2, <1>3, <1>4, MovesOn

LEMMA SetModeInv ==
  ASSUME Inv, NEW t \in Threads, NEW s \in Sessions, NEW m \in Modes, SetMode(t, s, m)
  PROVE  Inv'
<1> USE DEF SetMode
<1>1. PICK pc \in {"idle", "resolve"} : Issue(t, "mode", s, pc)
  OBVIOUS
<1>2. cmd' \in [Threads -> Cmd] /\ ncmds' \in Nat
  BY <1>1, Issued
<1>3. TypeOK'
  BY <1>2 DEF Inv, TypeOK
<1> QED
  BY <1>3, Elsewhere

LEMMA SetLimitInv ==
  ASSUME ToolApprovalAssumption, Inv, NEW t \in Threads, NEW s \in Sessions,
         NEW n \in 1 .. Limit + Extra + 1, SetLimit(t, s, n)
  PROVE  Inv'
<1> USE DEF SetLimit
<1>1. cmd' \in [Threads -> Cmd] /\ ncmds' \in Nat
  BY Issued
<1>2. n \in Nat
  BY DEF ToolApprovalAssumption
<1>3. TypeOK'
  BY <1>1, <1>2 DEF Inv, TypeOK
<1> QED
  BY <1>3, Elsewhere

LEMMA ForgetRuleInv ==
  ASSUME Inv, NEW t \in Threads, NEW s \in Sessions, ForgetRule(t, s)
  PROVE  Inv'
<1> USE DEF ForgetRule
<1>1. cmd' \in [Threads -> Cmd] /\ ncmds' \in Nat
  BY Issued
<1>2. TypeOK'
  BY <1>1 DEF Inv, TypeOK
<1> QED
  BY <1>2, Elsewhere

LEMMA AbortInv ==
  ASSUME Inv, NEW t \in Threads, Abort(t) PROVE Inv'
<1> USE DEF Abort, settings
<1>1. cmd' \in [Threads -> Cmd]
  <2>1. CASE CmdEnd(t)
    BY <2>1, Ended
  <2>2. CASE cmd' = [cmd EXCEPT ![t].pc = "close"]
    BY <2>2 DEF Inv, TypeOK, Cmd, CmdPcs
  <2> QED
    BY <2>1, <2>2
<1>2. turn' \in [Sessions -> Turn]
  <2>1. turn \in [Sessions -> Turn]
    BY DEF Inv, TypeOK
  <2>2. \A T \in Turn : [T EXCEPT !.cancelled = TRUE] \in Turn
    BY DEF Turn
  <2> QED
    BY <2>1, <2>2
<1>3. TypeOK'
  BY <1>1, <1>2 DEF Inv, TypeOK
<1>4. ASSUME NEW x \in Sessions PROVE TurnOK(x)'
  <2>1. /\ turn'[x].pc = turn[x].pc /\ turn'[x].call = turn[x].call
        /\ turn'[x].ev = turn[x].ev /\ turn'[x].req = turn[x].req
        /\ turn'[x].mail = turn[x].mail
    BY TurnTyped DEF Turn
  <2>2. /\ Holds(x)' = Holds(x) /\ Agreed(x)' = Agreed(x) /\ Waiting(x)' = Waiting(x)
        /\ Allowed(x)' = Allowed(x) /\ \A pc : At(x, pc)' = At(x, pc)
    BY <2>1 DEF Holds, Agreed, Waiting, Allowed, At
  <2>3. \A i : /\ Unlisted(i, x)' = Unlisted(i, x) /\ Undenied(i, x)' = Undenied(i, x)
               /\ Consent(i, x)' = Consent(i, x) /\ Ran(i)' = Ran(i)
    BY DEF Unlisted, Undenied, Consent, About, Ran
  <2>4. RowOfTurn(x)' /\ RequestOfTurn(x)' /\ MailOfTurn(x)'
    BY <2>1, <2>2 DEF Inv, TurnsOK, TurnOK, RowOfTurn, RequestOfTurn, MailOfTurn, About
  <2>5. CleanTurn(x)' /\ AskedNotRun(x)' /\ ConsentOfTurn(x)'
    BY <2>1, <2>2, <2>3 DEF Inv, TurnsOK, TurnOK, CleanTurn, AskedNotRun, ConsentOfTurn, About
  <2> QED
    BY <2>4, <2>5 DEF TurnOK
<1>5. RequestsKnown' /\ RanMayRun'
  BY TablesKept DEF Inv, RowsKept, Ran
<1> QED
  BY <1>3, <1>4, <1>5 DEF Inv, TurnsOK

LEMMA CloseOpenInv ==
  ASSUME Inv, NEW t \in Threads, CloseOpen(t) PROVE Inv'
<1> USE DEF CloseOpen, settings
<1>1. /\ events' \in Seq(Event) /\ RowsKept /\ \A x \in Sessions : KeptFor(x)
      /\ DOMAIN events' = DOMAIN events /\ \A i \in DOMAIN events : Ran(i)' => Ran(i)
  BY Closing
<1>2. cmd' \in [Threads -> Cmd]
  BY Ended
<1>3. TypeOK'
  BY <1>1, <1>2 DEF Inv, TypeOK
<1>4. TurnsOK'
  BY <1>1, OthersKept DEF Inv, TurnsOK
<1>5. RequestsKnown' /\ RanMayRun'
  BY <1>1, TablesKept DEF Inv
<1> QED
  BY <1>3, <1>4, <1>5 DEF Inv

(***************************************************************************)
(* What is sent: the requests leave the map with their answers noted, and  *)
(* the turns that wait by them find their mail.                            *)
(***************************************************************************)
Noted(rs, d) ==
  /\ answers \subseteq answers'
  /\ d \in Decisions =>
       \A r \in rs : <<r, d>> \in answers' \/ (d = "once" /\ <<r, "switch">> \in answers')
  /\ \A r \in Request, e \in Decisions \cup {"switch"} :
       <<r, e>> \in answers' =>
         \/ <<r, e>> \in answers
         \/ r \in rs /\ e \in Choices(r) \cup {"switch"} /\ (e = "deny" => d = "deny")

LEMMA SentTyped ==
  ASSUME Inv, NEW rs, NEW d \in Mails, Send(rs, d)
  PROVE  turn' \in [Sessions -> Turn]
<1>1. turn \in [Sessions -> Turn]
  BY DEF Inv, TypeOK
<1>2. \A T \in Turn : [T EXCEPT !.mail = d] \in Turn
  BY DEF Turn
<1> QED
  BY <1>1, <1>2 DEF Send

LEMMA SentTurn ==
  ASSUME Inv, NEW rs \in SUBSET pending, NEW d \in Mails \ {"none"}, Send(rs, d),
         pending' = pending \ rs, Noted(rs, d), events' = events, NEW x \in Sessions
  PROVE  TurnOK(x)'
<1>1. turn[x] \in Turn /\ TurnOK(x) /\ pending \subseteq Request
  BY TurnTyped DEF Inv, TurnsOK, TypeOK
<1>2. /\ turn'[x].pc = turn[x].pc /\ turn'[x].call = turn[x].call
      /\ turn'[x].ev = turn[x].ev /\ turn'[x].req = turn[x].req
      /\ turn'[x].mail = IF Waits(x, rs) THEN d ELSE turn[x].mail
  BY <1>1 DEF Send, Turn
<1>3. /\ Holds(x)' = Holds(x) /\ Agreed(x)' = Agreed(x) /\ Waiting(x)' = Waiting(x)
      /\ \A pc : At(x, pc)' = At(x, pc)
  BY <1>2 DEF Holds, Agreed, Waiting, At
<1>4. \A i : /\ Unlisted(i, x) => Unlisted(i, x)' /\ (Undenied(i, x) => Undenied(i, x)')
             /\ Consent(i, x) => Consent(i, x)'
  <2>1. \A i : Unlisted(i, x) => Unlisted(i, x)'
    BY DEF Unlisted, About
  <2>2. \A i : Unlisted(i, x) /\ Undenied(i, x) => Undenied(i, x)'
    BY DEF Unlisted, Undenied, About, Noted, Decisions
  <2>3. \A i : Consent(i, x) => Consent(i, x)'
    BY DEF Consent, About, Noted
  <2> QED
    BY <2>1, <2>2, <2>3
<1>5. RowOfTurn(x)' /\ RequestOfTurn(x)' /\ AskedNotRun(x)'
  BY <1>1, <1>2, <1>3 DEF TurnOK, RowOfTurn, RequestOfTurn, AskedNotRun, About, Ran
<1>6. ConsentOfTurn(x)'
  BY <1>1, <1>2, <1>3, <1>4 DEF TurnOK, ConsentOfTurn
<1>7. MailOfTurn(x)'
  BY <1>1, <1>2, <1>3 DEF TurnOK, MailOfTurn, Waits, Waiting, Noted
<1>8. CleanTurn(x)'
  <2>1. CASE ~Holds(x)
    BY <1>3, <2>1 DEF CleanTurn
  <2>2. CASE Holds(x) /\ Waits(x, rs)
    <3>1. /\ turn[x].req \in rs /\ turn[x].mail = "none" /\ turn'[x].mail = d
          /\ Undenied(turn[x].ev, x)
          /\ \A r \in pending : About(r, turn[x].ev, x) => r = turn[x].req
      BY <1>1, <1>2, <2>2 DEF Waits, TurnOK, CleanTurn
    <3>2. Unlisted(turn[x].ev, x)'
      BY <1>2, <3>1 DEF Unlisted, About
    <3>3. d # "deny" => Undenied(turn[x].ev, x)'
      BY <1>2, <3>1 DEF Undenied, About, Noted, Decisions
    <3>4. d = "deny" => ~Allowed(x)' /\ turn[x].pc \in {"wait", "reviewWait"}
      BY <3>1, <2>2 DEF Allowed, Waits, Holds, HoldPcs, At
    <3> QED
      BY <1>2, <1>3, <3>1, <3>2, <3>3, <3>4 DEF CleanTurn
  <2>3. CASE Holds(x) /\ ~Waits(x, rs)
    <3>1. turn'[x] = turn[x] /\ Allowed(x)' = Allowed(x)
      BY <2>3 DEF Send, Allowed
    <3>2. CASE Unlisted(turn[x].ev, x) /\ Undenied(turn[x].ev, x)
      <4>1. Unlisted(turn[x].ev, x)' /\ Undenied(turn[x].ev, x)'
        BY <1>4, <3>2, <3>1
      <4> QED
        BY <3>1, <4>1 DEF CleanTurn, Unlisted, About
    <3>3. CASE /\ turn[x].pc \in {"wait", "reviewWait"} /\ ~Allowed(x)
               /\ turn[x].mail = "none"
      <4>1. /\ turn[x].req \notin rs /\ Undenied(turn[x].ev, x)
            /\ \A r \in pending : About(r, turn[x].ev, x) => r = turn[x].req
        BY <1>1, <2>3, <3>3 DEF TurnOK, CleanTurn, Waits
      <4>2. Undenied(turn[x].ev, x)'
        BY <4>1, <3>1 DEF Undenied, About, Noted, Decisions
      <4> QED
        BY <3>1, <3>3, <4>1, <4>2 DEF CleanTurn, About
    <3>4. CASE /\ turn[x].pc \in {"wait", "reviewWait"} /\ ~Allowed(x)
               /\ turn[x].mail # "none"
      BY <3>1, <3>4 DEF CleanTurn
    <3> QED
      BY <1>1, <2>3, <3>2, <3>3, <3>4 DEF TurnOK, CleanTurn
  <2> QED
    BY <2>1, <2>2, <2>3
<1> QED
  BY <1>5, <1>6, <1>7, <1>8 DEF TurnOK

LEMMA SentTables ==
  ASSUME Inv, NEW rs \in SUBSET pending, NEW d \in Mails \ {"none"},
         pending' = pending \ rs, Noted(rs, d), events' = events
  PROVE  RequestsKnown' /\ RanMayRun'
<1>1. pending \subseteq Request
  BY DEF Inv, TypeOK
<1>2. RequestsKnown'
  <2>1. \A r \in pending' : r.kind # "steps" => r.id \in DOMAIN events'
    BY DEF Inv, RequestsKnown
  <2>2. ASSUME NEW r \in Request, NEW e \in Decisions \cup {"switch"}, <<r, e>> \in answers'
        PROVE  /\ r.kind # "steps" => r.id \in DOMAIN events'
               /\ e \in Choices(r) \cup {"switch"}
    BY <2>2 DEF Inv, RequestsKnown, Noted
  <2> QED
    BY <2>1, <2>2 DEF RequestsKnown, Choices
<1>3. ASSUME NEW i \in DOMAIN events', Ran(i)'
      PROVE  MayRun(events[i].call, i, events[i].sess)'
  <2>1. MayRun(events[i].call, i, events[i].sess)
    BY <1>3 DEF Inv, RanMayRun, Ran
  <2>2. Unlisted(i, events[i].sess)'
    BY <2>1 DEF MayRun, Unlisted, About
  <2>3. Undenied(i, events[i].sess)'
    BY <2>1 DEF MayRun, Unlisted, Undenied, About, Noted, Decisions
  <2>4. Consent(i, events[i].sess) => Consent(i, events[i].sess)'
    BY DEF Consent, About, Noted
  <2> QED
    BY <2>1, <2>2, <2>3, <2>4 DEF MayRun
<1> QED
  BY <1>2, <1>3 DEF RanMayRun

LEMMA SentInv ==
  ASSUME Inv, NEW rs \in SUBSET pending, NEW d \in Mails \ {"none"}, Send(rs, d),
         pending' = pending \ rs, Noted(rs, d),
         answers' \subseteq Request \X (Decisions \cup {"switch"}),
         cmd' \in [Threads -> Cmd], ncmds' \in Nat, UNCHANGED <<settings, events>>
  PROVE  Inv'
<1>1. turn' \in [Sessions -> Turn]
  BY SentTyped
<1>2. TypeOK'
  BY <1>1 DEF Inv, TypeOK, settings
<1> QED
  BY <1>2, SentTurn, SentTables DEF Inv, TurnsOK

LEMMA RespondInv ==
  ASSUME Inv, NEW t \in Threads, NEW r \in pending, NEW d \in Decisions, Respond(t, r, d)
  PROVE  Inv'
<1> USE DEF Respond
<1>1. r \in Request /\ r.sess \in Sessions /\ d \in Mails \ {"none"}
  BY DEF Inv, TypeOK, Request, Mails, Decisions
<1>2. cmd' \in [Threads -> Cmd] /\ ncmds' \in Nat
  BY <1>1, Issued
<1>3. answers' \subseteq Request \X (Decisions \cup {"switch"})
  BY <1>1 DEF Inv, TypeOK
<1>4. Noted({r}, d)
  BY DEF Noted
<1> QED
  BY <1>1, <1>2, <1>3, <1>4, SentInv

LEMMA ResolvePendingInv ==
  ASSUME Inv, NEW t \in Threads, ResolvePending(t) PROVE Inv'
<1> USE DEF ResolvePending
<1>1. PICK rs \in SUBSET pending : rs = OfSession(cmd[t].sess)
  BY DEF OfSession
<1>2. cmd' \in [Threads -> Cmd] /\ ncmds' \in Nat
  BY Ended DEF Inv, TypeOK
<1>3. answers' \subseteq Request \X (Decisions \cup {"switch"})
  BY <1>1 DEF Inv, TypeOK
<1>4. Noted(rs, "once") /\ "once" \in Mails \ {"none"}
  BY <1>1 DEF Noted, Decisions, Mails
<1>5. Send(rs, "once") /\ pending' = pending \ rs
  BY <1>1
<1> QED
  BY <1>2, <1>3, <1>4, <1>5, SentInv

LEMMA StopInv ==
  ASSUME Inv, NEW t \in Threads, NEW s \in Sessions, Stop(t, s) PROVE Inv'
<1> USE DEF Stop
<1>1. PICK rs \in SUBSET pending : rs = OfSession(s)
  BY DEF OfSession
<1>2. cmd' \in [Threads -> Cmd] /\ ncmds' \in Nat
  BY Issued
<1>3. answers' \subseteq Request \X (Decisions \cup {"switch"})
  BY DEF Inv, TypeOK
<1>4. Noted(rs, "closed") /\ "closed" \in Mails \ {"none"}
  BY DEF Noted, Decisions, Mails
<1>5. Send(rs, "closed") /\ pending' = pending \ rs
  BY <1>1
<1> QED
  BY <1>2, <1>3, <1>4, <1>5, SentInv

(***************************************************************************)
(* The theorems.                                                           *)
(***************************************************************************)
LEMMA InitInv == ToolApprovalAssumption /\ Init => Inv
<1> SUFFICES ASSUME ToolApprovalAssumption, Init PROVE Inv
  OBVIOUS
<1> USE DEF Init
<1>1. NewTurn("idle") \in Turn /\ NewTurn("idle").pc = "idle" /\ NoCmd \in Cmd
  BY NewTurnTyped DEF Pcs, NoCmd, Cmd, CmdPcs
<1>2. TypeOK
  BY <1>1 DEF TypeOK, ToolApprovalAssumption, Modes
<1>3. \A s \in Sessions : TurnOK(s)
  BY <1>1 DEF TurnOK, RowOfTurn, RequestOfTurn, MailOfTurn, CleanTurn, AskedNotRun,
       ConsentOfTurn, Holds, HoldPcs, Agreed, Waiting, At
<1> QED
  BY <1>2, <1>3 DEF Inv, TurnsOK, RequestsKnown, RanMayRun

LEMMA TurnStepInv ==
  ASSUME ToolApprovalAssumption, Inv, NEW s \in Sessions, TurnStep(s) PROVE Inv'
BY CheckLimitInv, StepsAnsweredInv, ReplyInv, ResultInv, DropInv, GateInv, PolicyDeniesInv,
   PolicyAllowsInv, PolicyAsksInv, AskStepsInv, AskUserInv, AskReviewInv, UserAllowedInv,
   UserDeniedInv, BeginInv, FinishInv, FinishDoubtfulInv, ReviewEndsInv, EndInv
   DEF TurnStep

LEMMA CommandInv ==
  ASSUME ToolApprovalAssumption, Inv, NEW t \in Threads, CmdStep(t) \/ User(t) PROVE Inv'
BY StartInv, SetModeInv, SetLimitInv, ForgetRuleInv, AbortInv, CloseOpenInv, RespondInv,
   ResolvePendingInv, StopInv DEF CmdStep, User

LEMMA NextInv == ToolApprovalAssumption /\ Inv /\ [Next]_vars => Inv'
<1> SUFFICES ASSUME ToolApprovalAssumption, Inv, [Next]_vars PROVE Inv'
  OBVIOUS
<1>1. CASE UNCHANGED vars
  <2>1. TypeOK'
    BY <1>1 DEF Inv, TypeOK, vars, settings
  <2> QED
    BY <1>1, <2>1, Elsewhere DEF vars
<1>2. CASE Next
  BY <1>2, TurnStepInv, CommandInv DEF Next
<1> QED
  BY <1>1, <1>2

LEMMA Invariance == ToolApprovalAssumption /\ Spec => []Inv
<1> SUFFICES ASSUME ToolApprovalAssumption PROVE Spec => []Inv
  OBVIOUS
<1> QED
  BY InitInv, NextInv, PTL DEF Spec

\* A request about a row, as the properties write it down.
LEMMA AboutRow ==
  ASSUME NEW i, NEW s, NEW r \in Request, About(r, i, s)
  PROVE  r = [kind |-> r.kind, id |-> i, sess |-> s]
BY DEF About, Request

\* The tables, the map of approvals and the turns keep their types.
THEOREM Typing == ToolApprovalAssumption /\ Spec => []TypeOK
BY Invariance, PTL DEF Inv

\* Whatever races an answer with a timeout, a stop, a rule or a switch of the
\* mode: a call that is always to be asked about has run only with consent.
THEOREM ConsentGiven == ToolApprovalAssumption /\ Spec => []ForcedRunsAreAllowed
<1>1. Inv => ForcedRunsAreAllowed
  <2> SUFFICES ASSUME Inv, NEW i \in DOMAIN events, Ran(i),
                      Forced(events[i].call, "full_access")
               PROVE  AnsweredWith(i, {"once", "session", "switch"})
    BY DEF ForcedRunsAreAllowed
  <2>1. PICK r \in Request, d \in Allows :
          About(r, i, events[i].sess) /\ <<r, d>> \in answers
    BY DEF Inv, RanMayRun, MayRun, Consent
  <2>2. r.kind \in {"tool", "once"} /\ r = [kind |-> r.kind, id |-> i, sess |-> events[i].sess]
    BY <2>1, AboutRow DEF About
  <2> QED
    BY <2>1, <2>2 DEF AnsweredWith, Allows
<1> QED
  BY <1>1, Invariance, PTL

\* A call the user refused has not run, whenever the refusal came.
THEOREM RefusalHolds == ToolApprovalAssumption /\ Spec => []RefusedNeverRuns
<1>1. Inv => RefusedNeverRuns
  <2> SUFFICES ASSUME Inv, NEW i \in DOMAIN events, AnsweredWith(i, {"deny"}), Ran(i)
               PROVE  FALSE
    BY DEF RefusedNeverRuns
  <2>1. PICK k \in {"tool", "once"} :
          <<[kind |-> k, id |-> i, sess |-> events[i].sess], "deny">> \in answers
    BY DEF AnsweredWith
  <2>2. PICK r : r = [kind |-> k, id |-> i, sess |-> events[i].sess]
    OBVIOUS
  <2>3. r \in Request /\ About(r, i, events[i].sess)
    BY <2>1, <2>2 DEF Inv, TypeOK, About
  <2> QED
    BY <2>1, <2>2, <2>3 DEF Inv, RanMayRun, MayRun, Undenied
<1> QED
  BY <1>1, Invariance, PTL

\* Whoever waits without an answer can still be answered.
THEOREM WaitersAnswerable == ToolApprovalAssumption /\ Spec => []WaitersAreListed
<1>1. Inv => WaitersAreListed
  BY DEF Inv, TurnsOK, TurnOK, MailOfTurn, Waiting, WaitersAreListed
<1> QED
  BY <1>1, Invariance, PTL

\* Mail that no answer of the user brings comes from a switch to full access
\* of the very session.
THEOREM OwnSwitchOnly == ToolApprovalAssumption /\ Spec => AnswersStayInSession
<1> DEFINE Own == \A s \in Sessions :
                    turn[s].mail = "none" /\ turn'[s].mail = "once" /\ ncmds' = ncmds
                      => \E t \in Threads : CmdAt(t, "resolve") /\ cmd[t].sess = s
<1>1. Inv /\ [Next]_vars => [Own]_vars
  <2> SUFFICES ASSUME Inv, Next, NEW s \in Sessions, turn[s].mail = "none",
                      turn'[s].mail = "once", ncmds' = ncmds
               PROVE  \E t \in Threads : CmdAt(t, "resolve") /\ cmd[t].sess = s
    OBVIOUS
  <2>1. turn \in [Sessions -> Turn] /\ turn[s] \in Turn /\ ncmds \in Nat
    BY TurnTyped DEF Inv, TypeOK
  <2>2. ASSUME NEW x \in Sessions, TurnStep(x) PROVE FALSE
    <3>1. PICK pc : \/ Goto(x, pc) \/ Deny(x)
                    \/ StepsAnswered(x) \/ Result(x) \/ CheckLimit(x) \/ Reply(x) \/ Gate(x)
                    \/ turn' = [turn EXCEPT ![x] = NewTurn("idle")]
                    \/ AskSteps(x) \/ AskUser(x) \/ AskReview(x)
                    \/ PolicyAllows(x) \/ PolicyAsks(x) \/ UserAllowed(x) \/ Begin(x)
      BY <2>2 DEF TurnStep, PolicyDenies, UserDenied, TimedOut, Finish, FinishDoubtful,
                  ReviewEnds, End, Drop
    <3>2. ASSUME NEW q, Goto(x, q) PROVE turn'[s].mail = turn[s].mail
      BY <2>1, <3>2 DEF Goto, Turn
    <3>a. ASSUME NEW T, turn' = [turn EXCEPT ![x] = T], T.mail \in {"none", turn[x].mail}
          PROVE  turn'[s].mail = turn[s].mail
      BY <2>1, <3>a
    <3>b. turn[x] \in Turn
      BY <2>1
    <3>3. CASE StepsAnswered(x) \/ CheckLimit(x) \/ Reply(x) \/ Gate(x)
      <4>1. \/ \E q : Goto(x, q)
            \/ turn' = [turn EXCEPT ![x] = [turn[x] EXCEPT !.pc = "stepAsk", !.max = limit[x]]]
            \/ turn' = [turn EXCEPT ![x] = [turn[x] EXCEPT !.pc = "step",
                          !.step = turn[x].step + 1, !.checks = turn[x].checks + 1]]
            \/ \E c : turn' = [turn EXCEPT ![x] = [turn[x] EXCEPT !.pc = "evaluate",
                          !.call = c, !.mode = mode[x]]]
        <5>1. CASE StepsAnswered(x) \/ CheckLimit(x)
          BY <2>1, <5>1 DEF StepsAnswered, CheckLimit
        <5>2. CASE Reply(x)
          BY <2>1, <5>2 DEF Reply
        <5>3. CASE Gate(x)
          BY <2>1, <5>3 DEF Gate
        <5> QED
          BY <3>3, <5>1, <5>2, <5>3
      <4> QED
        BY <3>2, <3>a, <3>b, <4>1 DEF Turn
    <3>4. CASE PolicyAllows(x) \/ PolicyAsks(x) \/ UserAllowed(x) \/ Begin(x)
      <4>1. \/ \E q : Goto(x, q)
            \/ \E n, sc : turn' = [turn EXCEPT ![x] = [turn[x] EXCEPT !.pc = "begin",
                          !.ev = n, !.scope = sc]]
            \/ \E n, k : turn' = [turn EXCEPT ![x] = [turn[x] EXCEPT !.pc = "ask",
                          !.ev = n, !.kind = k]]
            \/ turn' = [turn EXCEPT ![x] = [turn[x] EXCEPT !.pc = "begin",
                          !.scope = turn[x].mail]]
            \/ \E n : turn' = [turn EXCEPT ![x] = [turn[x] EXCEPT !.pc = "running", !.ev = n]]
        <5>1. CASE PolicyAllows(x)
          BY <2>1, <5>1 DEF PolicyAllows
        <5>2. CASE PolicyAsks(x)
          BY <2>1, <5>2 DEF PolicyAsks
        <5>3. CASE UserAllowed(x)
          BY <2>1, <5>3 DEF UserAllowed
        <5>4. CASE Begin(x)
          BY <2>1, <5>4 DEF Begin
        <5> QED
          BY <3>4, <5>1, <5>2, <5>3, <5>4
      <4> QED
        BY <3>2, <3>a, <3>b, <4>1 DEF Turn
    <3>5. CASE AskSteps(x) \/ AskUser(x) \/ AskReview(x)
      BY <2>1, <3>5 DEF AskSteps, AskUser, AskReview, Ask, Turn
    <3>6. CASE Result(x) \/ turn' = [turn EXCEPT ![x] = NewTurn("idle")]
      <4> DEFINE L == [NextCall(x, "step") EXCEPT !.step = @ + 1]
      <4>1. /\ NextCall(x, "gate").mail = "none" /\ L.mail = "none"
            /\ NewTurn("idle").mail = "none"
        BY DEF NextCall, NewTurn
      <4>2. \/ turn' = [turn EXCEPT ![x] = NextCall(x, "gate")]
            \/ turn' = [turn EXCEPT ![x] = L]
            \/ turn' = [turn EXCEPT ![x] = NewTurn("idle")]
        BY <3>6 DEF Result
      <4> HIDE DEF L
      <4> QED
        BY <3>a, <4>1, <4>2
    <3> QED
      BY <3>1, <3>2, <3>3, <3>4, <3>5, <3>6 DEF Deny
  <2>3. ASSUME NEW t \in Threads, User(t) PROVE FALSE
    <3>1. ncmds' = ncmds + 1
      BY <2>3 DEF User, Start, ForgetRule, Stop, SetMode, SetLimit, Respond, Issue
    <3> QED
      BY <2>1, <3>1
  <2>4. ASSUME NEW t \in Threads, Abort(t) \/ CloseOpen(t) PROVE FALSE
    BY <2>1, <2>4 DEF Abort, CloseOpen, Turn
  <2>5. ASSUME NEW t \in Threads, ResolvePending(t)
        PROVE  CmdAt(t, "resolve") /\ cmd[t].sess = s
    <3>1. Waits(s, OfSession(cmd[t].sess))
      BY <2>1, <2>5 DEF ResolvePending, Send
    <3>2. turn[s].req \in pending /\ turn[s].req.sess = cmd[t].sess
      BY <3>1 DEF Waits, OfSession
    <3>3. turn[s].req.sess = s
      BY <3>1 DEF Waits, Inv, TurnsOK, TurnOK, RequestOfTurn, About, At
    <3> QED
      BY <2>5, <3>2, <3>3 DEF ResolvePending
  <2> QED
    BY <2>2, <2>3, <2>4, <2>5 DEF Next, CmdStep
<1>2. ToolApprovalAssumption /\ Spec => [][Own]_vars
  BY <1>1, Invariance, PTL DEF Spec
<1> QED
  BY <1>2 DEF AnswersStayInSession
=============================================================================

-------------------------- MODULE SessionRunProofs --------------------------
(* Theorems about SessionRun, for any messages, loops, commands and bounds.  *)
EXTENDS SessionRun, SequenceTheorems, TLAPS

(***************************************************************************)
(* Sequences and tables.                                                   *)
(***************************************************************************)

\* Removing one message of the queue leaves a queue.
LEMMA RemoveAtType ==
  ASSUME NEW S, NEW s \in Seq(S), NEW i \in DOMAIN s
  PROVE  RemoveAt(s, i) \in Seq(S)
<1>1. i \in 1 .. Len(s)
  OBVIOUS
<1>2. SubSeq(s, 1, i - 1) \in Seq(S)
  BY <1>1, SubSeqProperties
<1>3. SubSeq(s, i + 1, Len(s)) \in Seq(S)
  BY <1>1, SubSeqProperties
<1> QED
  BY <1>2, <1>3, ConcatProperties DEF RemoveAt

\* The rows up to a position are a stream.
LEMMA KeptType ==
  ASSUME NEW S, NEW s \in Seq(S), NEW n \in Nat
  PROVE  [i \in {j \in DOMAIN s : j <= n} |-> s[i]] \in Seq(S)
<1> DEFINE k == IF n <= Len(s) THEN n ELSE Len(s)
<1>1. k \in Nat /\ {j \in DOMAIN s : j <= n} = 1 .. k
  BY LenProperties
<1>2. \A i \in 1 .. k : s[i] \in S
  BY LenProperties, ElementOfSeq
<1>3. [i \in {j \in DOMAIN s : j <= n} |-> s[i]] = [i \in 1 .. k |-> s[i]]
  BY <1>1
<1> HIDE DEF k
<1>4. [i \in 1 .. k |-> s[i]] \in Seq(S)
  BY <1>1, <1>2, IsASeq
<1> QED
  BY <1>3, <1>4

\* Writing a status changes no row's place and no trigger.
LEMMA SetStatusType ==
  ASSUME runs \in Seq(RunRow), NEW r, NEW s \in Statuses, SetStatus(r, s)
  PROVE  runs' \in Seq(RunRow) /\ DOMAIN runs' = DOMAIN runs
<1>1. DOMAIN runs = 1 .. Len(runs) /\ Len(runs) \in Nat
  BY LenProperties
<1>2. \A i \in 1 .. Len(runs) : runs[i] \in RunRow
  BY ElementOfSeq
<1>3. /\ DOMAIN runs' = 1 .. Len(runs)
      /\ runs' = [i \in 1 .. Len(runs) |-> runs'[i]]
  BY <1>1 DEF SetStatus
<1>4. \A i \in 1 .. Len(runs) : runs'[i] \in RunRow
  BY <1>1, <1>2 DEF SetStatus, RunRow
<1> QED
  BY <1>1, <1>3, <1>4, IsASeq

LEMMA CloseOpenType ==
  ASSUME runs \in Seq(RunRow), NEW s \in Statuses, CloseOpen(s)
  PROVE  runs' \in Seq(RunRow) /\ DOMAIN runs' = DOMAIN runs
<1>1. DOMAIN runs = 1 .. Len(runs) /\ Len(runs) \in Nat
  BY LenProperties
<1>2. \A i \in 1 .. Len(runs) : runs[i] \in RunRow
  BY ElementOfSeq
<1>3. /\ DOMAIN runs' = 1 .. Len(runs)
      /\ runs' = [i \in 1 .. Len(runs) |-> runs'[i]]
  BY <1>1 DEF CloseOpen
<1>4. \A i \in 1 .. Len(runs) : runs'[i] \in RunRow
  BY <1>1, <1>2 DEF CloseOpen, RunRow
<1> QED
  BY <1>1, <1>3, <1>4, IsASeq

(***************************************************************************)
(* Types. The locals a step appends to a table must be messages, so the    *)
(* invariant also says where a loop or a command surely has one.           *)
(***************************************************************************)

LoopLocals == \A l \in Loops : At(l, "create") => loop[l].trig # NoMsg

CmdLocals ==
  \A c \in Cmds :
    cmd[c].pc \in {"enqueue", "append", "dequeue", "remove"}
      => cmd[c].msg # NoMsg

TypeInv == TypeOK /\ LoopLocals /\ CmdLocals

\* What changes a loop: a step of its own, or the user's answer to it.
LoopMove(l) == LoopStep(l) \/ StepsGranted(l) \/ StepsRefused(l)

LEMMA InitType == Init => TypeInv
BY SessionRunAssumption
   DEF SessionRunAssumption, Init, TypeInv, TypeOK, LoopLocals, CmdLocals,
       LoopState, CmdState, LoopAt, NoCmd, LoopPcs, CmdPcs, AllOps, At

LEMMA Names ==
  /\ {"ready", "pick", "create", "mark", "context", "await", "limit",
      "finished", "failed", "broke", "clear", "sweep", "dead"} \subseteq LoopPcs
  /\ {"idle", "enqueue", "append", "dequeue", "guideCheck", "remove",
      "cancelRuns", "choose", "truncate", "prepare", "gate", "launch",
      "handle"} \subseteq CmdPcs
  /\ {"running", "done", "failed", "interrupted", "cancelled"}
       \subseteq Statuses
  /\ {"send", "guide", "delete", "stop", "retry", "edit", "continue"}
       \subseteq AllOps
BY DEF LoopPcs, CmdPcs, Statuses, AllOps

\* A loop that moves on, or is given a new record, stays well typed.
LEMMA GotoType ==
  ASSUME TypeInv, NEW l \in Loops, NEW pc \in LoopPcs, Goto(l, pc),
         pc = "create" => loop[l].trig # NoMsg
  PROVE  loop' \in [Loops -> LoopState] /\ LoopLocals'
BY DEF TypeInv, TypeOK, LoopState, LoopLocals, Goto, At

LEMMA LoopRecordType ==
  ASSUME TypeInv, NEW l \in Loops, NEW r \in LoopState,
         loop' = [loop EXCEPT ![l] = r], r.pc = "create" => r.trig # NoMsg
  PROVE  loop' \in [Loops -> LoopState] /\ LoopLocals'
BY DEF TypeInv, TypeOK, LoopState, LoopLocals, At

LEMMA LoopAtType ==
  ASSUME NEW pc \in LoopPcs, NEW m \in Msgs \cup {NoMsg}
  PROVE  LoopAt(pc, m) \in LoopState
BY DEF LoopAt, LoopState

LEMMA LoopStepType ==
  ASSUME TypeInv, NEW l \in Loops, LoopMove(l)
  PROVE  TypeInv'
<1> USE Names DEF TypeInv, TypeOK, db, handle
<1>c. cmd' = cmd /\ CmdLocals'
  BY Zenon DEF LoopMove, LoopStep, Begin, PickTrigger, PopQueued, PopNothing,
     PopFails, CreateRun, CreateRunFails, MarkActive, BuildContext, ToolRound,
     ReachLimit, StepsGranted, StepsRefused, Return, RecordDone, RecordFailed,
     ClearActive, Sweep, Drop, CmdLocals
<1>1. CASE Begin(l)
  BY <1>1, <1>c, GotoType DEF Begin
<1>2. CASE PickTrigger(l)
  BY <1>2, <1>c, GotoType DEF PickTrigger
<1>3. CASE PopQueued(l)
  <2> DEFINE r == [loop[l] EXCEPT !.pc = "create", !.trig = Head(queue)]
  <2>1. Head(queue) \in Msgs /\ Tail(queue) \in Seq(Msgs)
    BY <1>3, HeadTailProperties DEF PopQueued
  <2>2. stream' \in Seq(Msgs)
    BY <1>3, <2>1, AppendProperties DEF PopQueued
  <2>3. r \in LoopState /\ r.trig # NoMsg
    BY <2>1, SessionRunAssumption DEF LoopState, SessionRunAssumption
  <2>4. loop' = [loop EXCEPT ![l] = r]
    BY <1>3 DEF PopQueued, LoopState
  <2>5. loop' \in [Loops -> LoopState] /\ LoopLocals'
    BY <2>3, <2>4, LoopRecordType
  <2> QED
    BY <1>3, <1>c, <2>1, <2>2, <2>5 DEF PopQueued
<1>4. CASE PopNothing(l) \/ PopFails(l) \/ ReachLimit(l) \/ StepsRefused(l)
  BY <1>4, <1>c, GotoType DEF PopNothing, PopFails, ReachLimit, StepsRefused
<1>5. CASE CreateRun(l)
  <2> DEFINE r == [loop[l] EXCEPT !.pc = "mark", !.run = Len(runs) + 1]
  <2>1. [trig |-> loop[l].trig, status |-> "running"] \in RunRow
    BY <1>5 DEF CreateRun, RunRow, LoopLocals, LoopState
  <2>2. runs' \in Seq(RunRow) /\ Len(runs) \in Nat
    BY <1>5, <2>1, AppendProperties, LenProperties DEF CreateRun
  <2>a. loop[l] \in LoopState /\ Len(runs) + 1 \in Nat
    BY <2>2
  <2>3. r \in LoopState /\ r.pc # "create"
    BY <2>a DEF LoopState
  <2>4. loop' = [loop EXCEPT ![l] = r]
    BY <1>5 DEF CreateRun, LoopState
  <2>5. loop' \in [Loops -> LoopState] /\ LoopLocals'
    BY <2>3, <2>4, LoopRecordType
  <2> QED
    BY <1>5, <1>c, <2>2, <2>5 DEF CreateRun
<1>6. CASE CreateRunFails(l)
  BY <1>6, <1>c, GotoType DEF CreateRunFails
<1>7. CASE MarkActive(l)
  <2> DEFINE r == [loop[l] EXCEPT !.pc = "context", !.turn = 0]
  <2>1. r \in LoopState /\ r.pc # "create" /\ loop[l].run \in Nat
    BY DEF LoopState
  <2>2. loop' = [loop EXCEPT ![l] = r]
    BY <1>7 DEF MarkActive, LoopState
  <2>3. loop' \in [Loops -> LoopState] /\ LoopLocals'
    BY <2>1, <2>2, LoopRecordType
  <2> QED
    BY <1>7, <1>c, <2>1, <2>3 DEF MarkActive
<1>16. CASE StepsGranted(l)
  <2> DEFINE r == [loop[l] EXCEPT !.pc = "context", !.turn = 0]
  <2>1. r \in LoopState /\ r.pc # "create"
    BY DEF LoopState
  <2>2. loop' = [loop EXCEPT ![l] = r]
    BY <1>16 DEF StepsGranted, LoopState
  <2>3. loop' \in [Loops -> LoopState] /\ LoopLocals'
    BY <2>1, <2>2, LoopRecordType
  <2> QED
    BY <1>16, <1>c, <2>3 DEF StepsGranted
<1>8. CASE BuildContext(l)
  <2> DEFINE r == [loop[l] EXCEPT !.pc = "await", !.ctx = ToSet(stream)]
  <2>1. ToSet(stream) \subseteq Msgs
    BY ElementOfSeq DEF ToSet
  <2>2. r \in LoopState /\ r.pc # "create"
    BY <2>1 DEF LoopState
  <2>3. loop' = [loop EXCEPT ![l] = r]
    BY <1>8 DEF BuildContext, LoopState
  <2>4. loop' \in [Loops -> LoopState] /\ LoopLocals'
    BY <2>2, <2>3, LoopRecordType
  <2> QED
    BY <1>8, <1>c, <2>4 DEF BuildContext
<1>9. CASE ToolRound(l)
  <2> DEFINE r == [loop[l] EXCEPT !.pc = "context", !.turn = @ + 1]
  <2>a. loop[l] \in LoopState /\ loop[l].turn + 1 \in Nat
    BY DEF LoopState
  <2>1. r \in LoopState /\ r.pc # "create"
    BY <2>a DEF LoopState
  <2>2. loop' = [loop EXCEPT ![l] = r]
    BY <1>9 DEF ToolRound, LoopState
  <2>3. loop' \in [Loops -> LoopState] /\ LoopLocals'
    BY <2>1, <2>2, LoopRecordType
  <2> QED
    BY <1>9, <1>c, <2>3 DEF ToolRound
<1>10. CASE \E o \in AllOutcomes : Return(l, o)
  <2>1. PICK o \in AllOutcomes : Return(l, o)
    BY <1>10
  <2>2. loop' \in [Loops -> LoopState] /\ LoopLocals'
    BY <2>1, GotoType DEF Return
  <2>3. answered' \subseteq Msgs
    BY <2>1 DEF Return, LoopState
  <2> QED
    BY <1>c, <2>1, <2>2, <2>3 DEF Return
<1>11. CASE RecordDone(l)
  <2> DEFINE r == [LoopAt("pick", NoMsg) EXCEPT
                     !.cancelled = loop[l].cancelled]
  <2>1. runs' \in Seq(RunRow)
    BY <1>11, SetStatusType DEF RecordDone
  <2>2. r \in LoopState /\ r.pc # "create"
    BY DEF LoopState, LoopAt
  <2>3. loop' = [loop EXCEPT ![l] = r]
    BY <1>11 DEF RecordDone, LoopAt
  <2>4. loop' \in [Loops -> LoopState] /\ LoopLocals'
    BY <2>2, <2>3, LoopRecordType
  <2> QED
    BY <1>11, <1>c, <2>1, <2>4 DEF RecordDone
<1>12. CASE RecordFailed(l)
  BY <1>12, <1>c, SetStatusType, GotoType DEF RecordFailed
<1>13. CASE ClearActive(l)
  BY <1>13, <1>c, GotoType DEF ClearActive
<1>14. CASE Sweep(l)
  BY <1>14, <1>c, CloseOpenType, LoopAtType, LoopRecordType
     DEF Sweep, EndLoop, LoopAt
<1>15. CASE Drop(l)
  BY <1>15, <1>c, LoopAtType, LoopRecordType DEF Drop, EndLoop, LoopAt
<1> QED
  BY <1>1, <1>2, <1>3, <1>4, <1>5, <1>6, <1>7, <1>8, <1>9, <1>10, <1>11,
     <1>12, <1>13, <1>14, <1>15, <1>16, LoopMove(l) DEF LoopMove, LoopStep

\* The same for a command.
LEMMA CmdGotoType ==
  ASSUME TypeInv, NEW c \in Cmds, NEW pc \in CmdPcs, CmdGoto(c, pc),
         pc \notin {"enqueue", "append", "dequeue", "remove"}
  PROVE  cmd' \in [Cmds -> CmdState] /\ CmdLocals'
BY DEF TypeInv, TypeOK, CmdState, CmdLocals, CmdGoto

LEMMA CmdRecordType ==
  ASSUME TypeInv, NEW c \in Cmds, NEW r \in CmdState,
         cmd' = [cmd EXCEPT ![c] = r],
         r.pc \in {"enqueue", "append", "dequeue", "remove"} => r.msg # NoMsg
  PROVE  cmd' \in [Cmds -> CmdState] /\ CmdLocals'
BY DEF TypeInv, TypeOK, CmdState, CmdLocals

LEMMA CmdEndType ==
  ASSUME TypeInv, NEW c \in Cmds, CmdEnd(c)
  PROVE  cmd' \in [Cmds -> CmdState] /\ CmdLocals'
<1>1. NoCmd \in CmdState /\ NoCmd.pc = "idle"
  BY Names DEF NoCmd, CmdState
<1> QED
  BY <1>1, CmdRecordType DEF CmdEnd

LEMMA IssueType ==
  ASSUME TypeInv, NEW c \in Cmds, NEW op \in AllOps,
         NEW m \in Msgs \cup {NoMsg}, NEW i \in Nat, NEW pc \in CmdPcs,
         pc \in {"enqueue", "append", "dequeue", "remove"} => m # NoMsg,
         Issue(c, op, m, i, pc)
  PROVE  cmd' \in [Cmds -> CmdState] /\ CmdLocals' /\ ncmds' \in Nat
<1> DEFINE r == [NoCmd EXCEPT !.pc = pc, !.op = op, !.msg = m, !.pos = i]
<1>1. r \in CmdState /\ r.pc = pc /\ r.msg = m
  BY DEF NoCmd, CmdState
<1>2. cmd' = [cmd EXCEPT ![c] = r] /\ ncmds' = ncmds + 1
  BY DEF Issue
<1>3. ncmds' \in Nat
  BY <1>2 DEF TypeInv, TypeOK
<1> HIDE DEF r
<1> QED
  BY <1>1, <1>2, <1>3, CmdRecordType

LEMMA CmdStepType ==
  ASSUME TypeInv, NEW c \in Cmds, CmdStep(c)
  PROVE  TypeInv'
<1> USE Names DEF TypeInv, TypeOK, db, handle
<1>m. cmd[c].msg \in Msgs \cup {NoMsg} /\ cmd[c].pos \in Nat
  BY DEF CmdState
<1>l. loop' = loop => LoopLocals'
  BY DEF LoopLocals, At
<1>1. CASE InsertQueued(c)
  <2>1. cmd[c].msg \in Msgs
    BY <1>1, <1>m DEF InsertQueued, CmdAt, CmdLocals
  <2>2. queue' \in Seq(Msgs)
    BY <1>1, <2>1, AppendProperties DEF InsertQueued
  <2> QED
    BY <1>1, <1>l, <2>2, CmdEndType DEF InsertQueued
<1>2. CASE InsertDirect(c)
  <2>1. cmd[c].msg \in Msgs
    BY <1>2, <1>m DEF InsertDirect, CmdAt, CmdLocals
  <2>2. stream' \in Seq(Msgs)
    BY <1>2, <2>1, AppendProperties DEF InsertDirect
  <2> QED
    BY <1>2, <1>l, <2>2, CmdGotoType DEF InsertDirect
<1>3. CASE DequeueGuided(c)
  <2>1. cmd[c].msg \in Msgs
    BY <1>3, <1>m DEF DequeueGuided, CmdAt, CmdLocals
  <2>2. Append(stream, cmd[c].msg) \in Seq(Msgs)
    BY <2>1, AppendProperties
  <2>3. \A i \in DOMAIN queue : RemoveAt(queue, i) \in Seq(Msgs)
    BY RemoveAtType
  <2>4. queue' \in Seq(Msgs) /\ stream' \in Seq(Msgs)
    BY <1>3, <2>2, <2>3 DEF DequeueGuided
  <2> QED
    BY <1>3, <1>l, <2>4, CmdGotoType DEF DequeueGuided
<1>4. CASE GuideCheck(c)
  BY <1>4, <1>l, CmdGotoType, CmdEndType DEF GuideCheck
<1>5. CASE RemoveQueued(c)
  <2>1. cmd[c].msg \in Msgs
    BY <1>5, <1>m DEF RemoveQueued, CmdAt, CmdLocals
  <2>2. queue' \in Seq(Msgs) /\ removed' \subseteq Msgs
    BY <1>5, <2>1, RemoveAtType DEF RemoveQueued
  <2> QED
    BY <1>5, <1>l, <2>2, CmdEndType DEF RemoveQueued
<1>6. CASE CancelOpenRuns(c)
  BY <1>6, <1>l, CloseOpenType, CmdGotoType DEF CancelOpenRuns, AfterStop
<1>7. CASE ChooseLast(c)
  <2>1. CASE stream = <<>>
    BY <1>7, <1>l, <2>1, CmdEndType DEF ChooseLast
  <2>2. CASE stream # <<>>
    <3> DEFINE r == [cmd[c] EXCEPT !.pc = "truncate", !.msg = Last(stream),
                                   !.pos = Len(stream)]
    <3>1. Last(stream) \in Msgs /\ Len(stream) \in Nat
      BY <2>2, LenProperties, EmptySeq, ElementOfSeq DEF Last
    <3>2. r \in CmdState /\ r.pc = "truncate"
      BY <3>1 DEF CmdState
    <3>3. cmd' = [cmd EXCEPT ![c] = r]
      BY <1>7, <2>2 DEF ChooseLast, CmdState
    <3>4. cmd' \in [Cmds -> CmdState] /\ CmdLocals'
      BY <3>2, <3>3, CmdRecordType
    <3> QED
      BY <1>7, <1>l, <3>4 DEF ChooseLast
  <2> QED
    BY <2>1, <2>2
<1>8. CASE Truncate(c)
  <2>1. stream' \in Seq(Msgs)
    BY <1>8, <1>m, KeptType DEF Truncate
  <2>2. removed' \subseteq Msgs /\ answered' \subseteq Msgs
    <3>1. ToSet(stream) \subseteq Msgs
      BY ElementOfSeq DEF ToSet
    <3> QED
      BY <1>8, <3>1 DEF Truncate
  <2> QED
    BY <1>8, <1>l, <2>1, <2>2, CmdGotoType DEF Truncate
<1>9. CASE PrepareContinue(c)
  <2>0. stream # <<>> => Last(stream) \in Msgs
    BY LenProperties, EmptySeq, ElementOfSeq DEF Last
  <2>1. \E m \in Msgs : /\ cmd' = [cmd EXCEPT ![c].pc = "gate", ![c].msg = m]
                        /\ stream' = stream \/ stream' = Append(stream, m)
    BY <1>9, <2>0 DEF PrepareContinue
  <2> PICK m \in Msgs : /\ cmd' = [cmd EXCEPT ![c].pc = "gate", ![c].msg = m]
                        /\ stream' = stream \/ stream' = Append(stream, m)
    BY <2>1
  <2> DEFINE r == [cmd[c] EXCEPT !.pc = "gate", !.msg = m]
  <2>2. r \in CmdState /\ r.pc = "gate" /\ cmd' = [cmd EXCEPT ![c] = r]
    BY DEF CmdState
  <2>3. cmd' \in [Cmds -> CmdState] /\ CmdLocals'
    BY <2>2, CmdRecordType
  <2>4. Append(stream, m) \in Seq(Msgs)
    BY AppendProperties
  <2>5. stream' \in Seq(Msgs)
    BY <2>4
  <2> QED
    BY <1>9, <1>l, <2>3, <2>5 DEF PrepareContinue
<1>10. CASE SpawnGate(c)
  BY <1>10, <1>l, CmdGotoType, CmdEndType DEF SpawnGate
<1>11. CASE SpawnLaunch(c)
  <2> DEFINE l == CHOOSE k \in Loops : At(k, "unborn")
             r == [cmd[c] EXCEPT !.pc = "handle", !.loop = l]
  <2>1. l \in Loops
    BY <1>11 DEF SpawnLaunch
  <2>2. LoopAt("ready", cmd[c].msg) \in LoopState
    BY <1>m, LoopAtType
  <2>3. loop' \in [Loops -> LoopState] /\ LoopLocals'
    BY <1>11, <2>1, <2>2, LoopRecordType DEF SpawnLaunch, LoopAt
  <2>4. r \in CmdState /\ r.pc = "handle"
    BY <2>1 DEF CmdState
  <2>5. cmd' = [cmd EXCEPT ![c] = r]
    BY <1>11 DEF SpawnLaunch, CmdState
  <2>6. cmd' \in [Cmds -> CmdState] /\ CmdLocals'
    BY <2>4, <2>5, CmdRecordType
  <2> QED
    BY <1>11, <2>3, <2>6 DEF SpawnLaunch
<1>12. CASE SpawnStore(c)
  <2>1. cmd[c].loop \in Loops \cup {NoLoop}
    BY DEF CmdState
  <2> QED
    BY <1>12, <1>l, <2>1, CmdEndType DEF SpawnStore
<1> QED
  BY <1>1, <1>2, <1>3, <1>4, <1>5, <1>6, <1>7, <1>8, <1>9, <1>10, <1>11,
     <1>12, CmdStep(c) DEF CmdStep

LEMMA UserType ==
  ASSUME TypeInv, NEW c \in Cmds, User(c)
  PROVE  TypeInv'
<1> USE Names, SessionRunAssumption
    DEF SessionRunAssumption, TypeInv, TypeOK, db, handle
<1>l. loop' = loop => LoopLocals'
  BY DEF LoopLocals, At
<1>1. CASE \E m \in Msgs : SendMessage(c, m)
  <2>1. PICK m \in Msgs : SendMessage(c, m)
    BY <1>1
  <2>2. cmd' \in [Cmds -> CmdState] /\ CmdLocals' /\ ncmds' \in Nat
    BY <2>1, IssueType DEF SendMessage
  <2> QED
    BY <1>l, <2>1, <2>2 DEF SendMessage
<1>2. CASE \E m \in Msgs : GuideMessage(c, m)
  <2>1. PICK m \in Msgs : GuideMessage(c, m)
    BY <1>2
  <2>2. cmd' \in [Cmds -> CmdState] /\ CmdLocals' /\ ncmds' \in Nat
    BY <2>1, IssueType DEF GuideMessage
  <2> QED
    BY <1>l, <2>1, <2>2 DEF GuideMessage
<1>3. CASE \E m \in Msgs : DeleteQueued(c, m)
  <2>1. PICK m \in Msgs : DeleteQueued(c, m)
    BY <1>3
  <2>2. cmd' \in [Cmds -> CmdState] /\ CmdLocals' /\ ncmds' \in Nat
    BY <2>1, IssueType DEF DeleteQueued
  <2> QED
    BY <1>l, <2>1, <2>2 DEF DeleteQueued
<1>4. CASE \E m \in Msgs : EditMessage(c, m)
  <2>1. PICK m \in Msgs, i \in DOMAIN stream :
          EditMessage(c, m) /\ Issue(c, "edit", m, i, "truncate")
    BY <1>4 DEF EditMessage
  <2>2. i \in Nat
    BY LenProperties
  <2>3. cmd' \in [Cmds -> CmdState] /\ CmdLocals' /\ ncmds' \in Nat
    BY <2>1, <2>2, IssueType
  <2> QED
    BY <1>l, <2>1, <2>3 DEF EditMessage
<1>5. CASE \E op \in {"stop", "retry"} : Stop(c, op)
  <2>1. PICK op \in {"stop", "retry"} : Stop(c, op)
    BY <1>5
  <2>2. cmd' \in [Cmds -> CmdState] /\ CmdLocals' /\ ncmds' \in Nat
    BY <2>1, IssueType DEF Stop, AfterStop
  <2>3. loop' \in [Loops -> LoopState] /\ LoopLocals'
    BY <2>1 DEF Stop, LoopState, LoopLocals, At
  <2> QED
    BY <2>1, <2>2, <2>3 DEF Stop
<1>6. CASE ContinueTurn(c)
  <2>1. cmd' \in [Cmds -> CmdState] /\ CmdLocals' /\ ncmds' \in Nat
    BY <1>6, IssueType DEF ContinueTurn
  <2> QED
    BY <1>6, <1>l, <2>1 DEF ContinueTurn
<1> QED
  BY <1>1, <1>2, <1>3, <1>4, <1>5, <1>6, User(c) DEF User

\* The tables of the session's database, its handle and the locals of every
\* loop and command always hold values of their types; in particular a run
\* is only ever created for a message (run_loop breaks without a trigger).
THEOREM TypeCorrect == Spec => []TypeOK
<1>1. TypeInv /\ [Next]_vars => TypeInv'
  <2> SUFFICES ASSUME TypeInv, [Next]_vars PROVE TypeInv'
    OBVIOUS
  <2>1. CASE UNCHANGED vars
    BY <2>1 DEF vars, db, handle, TypeInv, TypeOK, LoopLocals, CmdLocals, At
  <2>2. CASE Next
    BY <2>2, LoopStepType, CmdStepType, UserType DEF Next, LoopMove
  <2> QED
    BY <2>1, <2>2
<1>2. TypeInv => TypeOK
  BY DEF TypeInv
<1> QED
  BY InitType, <1>1, <1>2, PTL DEF Spec

(***************************************************************************)
(* One driver. Where users neither stop nor retry, no loop is aborted, and *)
(* the test of active_run in spawn_session_task lets one loop in at a time.*)
(* With OneDriver and the types, that no loop is aborted is inductive.     *)
(***************************************************************************)

NoStops == Ops \cap {"stop", "retry"} = {}

Uncut == \A l \in Loops : ~loop[l].cancelled

DriverInv == TypeInv /\ Uncut /\ OneDriver

\* A driver that moves on without leaving the loop changes nothing to it.
LEMMA DriveOn ==
  ASSUME DriverInv, NEW l \in Loops, Driver(l),
         \A k \in Loops \ {l} : loop'[k] = loop[k],
         loop'[l].pc \notin {"unborn", "sweep", "dead"},
         loop'[l].cancelled = FALSE, cmd' = cmd,
         active' = active \/ active' \in Nat
  PROVE  Uncut' /\ OneDriver'
<1>1. \A k \in Loops : Driver(k)' <=> Driver(k)
  BY DEF Driver, DriverInv, Uncut
<1>2. \A c \in Cmds : CmdAt(c, "launch")' <=> CmdAt(c, "launch")
  BY DEF CmdAt
<1>3. active # Idle /\ active' # Idle
  BY SessionRunAssumption DEF DriverInv, OneDriver, SessionRunAssumption
<1>4. Uncut'
  BY DEF Uncut, DriverInv
<1> QED
  BY <1>1, <1>2, <1>3, <1>4 DEF OneDriver, DriverInv

\* A loop that no longer drives may end.
LEMMA EndKeeps ==
  ASSUME DriverInv, NEW l \in Loops, ~Driver(l), EndLoop(l),
         cmd' = cmd, active' = active
  PROVE  Uncut' /\ OneDriver'
<1>1. \A k \in Loops : loop'[k] = IF k = l THEN LoopAt("dead", NoMsg)
                                           ELSE loop[k]
  BY DEF EndLoop, DriverInv, TypeInv, TypeOK
<1>2. \A k \in Loops : Driver(k)' <=> Driver(k)
  BY <1>1 DEF Driver, LoopAt
<1>3. Uncut'
  BY <1>1 DEF Uncut, DriverInv, LoopAt
<1> QED
  BY <1>2, <1>3 DEF OneDriver, DriverInv, CmdAt

LEMMA LoopStepDriver ==
  ASSUME DriverInv, NEW l \in Loops, LoopMove(l)
  PROVE  Uncut' /\ OneDriver'
<1> USE DEF db, handle, At
<1> DEFINE On(pc) ==
             /\ Driver(l) /\ loop'[l].pc = pc
             /\ \A k \in Loops \ {l} : loop'[k] = loop[k]
             /\ loop'[l].cancelled = FALSE
             /\ cmd' = cmd
             /\ (active' = active \/ active' \in Nat)
<1>t. loop \in [Loops -> LoopState] /\ loop[l].cancelled = FALSE
  BY DEF DriverInv, TypeInv, TypeOK, Uncut, LoopState
<1>g. ASSUME NEW pc, Goto(l, pc)
      PROVE  /\ \A k \in Loops \ {l} : loop'[k] = loop[k]
             /\ loop'[l].pc = pc /\ loop'[l].cancelled = FALSE
  BY <1>g, <1>t DEF Goto, LoopState
<1>o. ASSUME NEW pc, pc \notin {"unborn", "sweep", "dead"}, On(pc)
      PROVE  Uncut' /\ OneDriver'
  BY <1>o, DriveOn
<1>1. CASE Begin(l)
  <2>1. On("pick")
    BY <1>1, <1>g, <1>t DEF Begin, Driver
  <2> QED
    BY <2>1, <1>o
<1>2. CASE PickTrigger(l)
  <2>1. On("create")
    BY <1>2, <1>g, <1>t DEF PickTrigger, Driver
  <2> QED
    BY <2>1, <1>o
<1>3. CASE PopQueued(l)
  <2>1. On("create")
    BY <1>3, <1>g, <1>t DEF PopQueued, Driver, LoopState
  <2> QED
    BY <2>1, <1>o
<1>4. CASE PopNothing(l) \/ PopFails(l)
  <2>1. On("clear") \/ On("broke")
    BY <1>4, <1>g, <1>t DEF PopNothing, PopFails, Driver
  <2> QED
    BY <2>1, <1>o
<1>5. CASE CreateRun(l)
  <2>1. On("mark")
    BY <1>5, <1>g, <1>t DEF CreateRun, Driver, LoopState
  <2> QED
    BY <2>1, <1>o
<1>6. CASE CreateRunFails(l)
  <2>1. On("broke")
    BY <1>6, <1>g, <1>t DEF CreateRunFails, Driver
  <2> QED
    BY <2>1, <1>o
<1>7. CASE MarkActive(l)
  <2>1. active' \in Nat
    BY <1>7, <1>t DEF MarkActive, LoopState
  <2>2. On("context")
    BY <1>7, <1>t, <2>1 DEF MarkActive, Driver, LoopState
  <2> QED
    BY <2>2, <1>o
<1>8. CASE BuildContext(l)
  <2>1. On("await")
    BY <1>8, <1>g, <1>t DEF BuildContext, Driver, LoopState
  <2> QED
    BY <2>1, <1>o
<1>9. CASE ToolRound(l)
  <2>1. On("context")
    BY <1>9, <1>g, <1>t DEF ToolRound, Driver, LoopState
  <2> QED
    BY <2>1, <1>o
<1>16. CASE ReachLimit(l) \/ StepsGranted(l) \/ StepsRefused(l)
  <2>1. On("limit") \/ On("context") \/ On("finished")
    BY <1>16, <1>g, <1>t DEF ReachLimit, StepsGranted, StepsRefused, Driver, LoopState
  <2> QED
    BY <2>1, <1>o
<1>10. CASE \E o \in AllOutcomes : Return(l, o)
  <2>1. On("failed") \/ On("finished")
    BY <1>10, <1>g, <1>t DEF Return, Driver
  <2> QED
    BY <2>1, <1>o
<1>11. CASE RecordDone(l)
  <2>1. On("pick")
    BY <1>11, <1>g, <1>t DEF RecordDone, Driver, LoopAt
  <2> QED
    BY <2>1, <1>o
<1>12. CASE RecordFailed(l)
  <2>1. On("clear")
    BY <1>12, <1>g, <1>t DEF RecordFailed, Driver
  <2> QED
    BY <2>1, <1>o
<1>13. CASE ClearActive(l)
  <2>1. Driver(l)
    BY <1>13, <1>t DEF ClearActive, Driver
  <2>2. \A k \in Loops : ~Driver(k)'
    BY <1>13, <1>g, <2>1 DEF ClearActive, Driver, OneDriver, DriverInv
  <2>3. \A c \in Cmds : ~CmdAt(c, "launch")'
    BY <1>13, <2>1 DEF ClearActive, OneDriver, DriverInv, CmdAt
  <2>4. active' = Idle
    BY <1>13 DEF ClearActive
  <2>5. Uncut'
    BY <1>13, <1>g DEF ClearActive, Uncut, DriverInv
  <2> QED
    BY <2>2, <2>3, <2>4, <2>5 DEF OneDriver
<1>14. CASE Sweep(l)
  BY <1>14, EndKeeps DEF Sweep, Driver
<1>15. CASE Drop(l)
  BY <1>15, <1>t DEF Drop
<1> QED
  BY <1>1, <1>2, <1>3, <1>4, <1>5, <1>6, <1>7, <1>8, <1>9, <1>10, <1>11,
     <1>12, <1>13, <1>14, <1>15, <1>16, LoopMove(l) DEF LoopMove, LoopStep

\* A command step that neither enters nor leaves spawn_session_task's gate.
LEMMA CmdAside ==
  ASSUME DriverInv, NEW c \in Cmds, loop' = loop, active' = active,
         \A d \in Cmds \ {c} : cmd'[d] = cmd[d],
         cmd[c].pc # "launch", cmd'[c].pc # "launch"
  PROVE  Uncut' /\ OneDriver'
BY DEF DriverInv, OneDriver, Uncut, Driver, CmdAt

LEMMA CmdStepDriver ==
  ASSUME DriverInv, NEW c \in Cmds, CmdStep(c)
  PROVE  Uncut' /\ OneDriver'
<1> USE DEF db, handle, CmdAt
<1>t. cmd \in [Cmds -> CmdState]
  BY DEF DriverInv, TypeInv, TypeOK
<1>g. ASSUME NEW pc, CmdGoto(c, pc)
      PROVE  /\ \A d \in Cmds \ {c} : cmd'[d] = cmd[d]
             /\ cmd'[c].pc = pc
  BY <1>g, <1>t DEF CmdGoto, CmdState
<1>e. ASSUME CmdEnd(c)
      PROVE  /\ \A d \in Cmds \ {c} : cmd'[d] = cmd[d]
             /\ cmd'[c].pc = "idle"
  BY <1>e, <1>t DEF CmdEnd, NoCmd
<1>1. CASE InsertQueued(c)
  BY <1>1, <1>e, CmdAside DEF InsertQueued
<1>2. CASE InsertDirect(c)
  BY <1>2, <1>g, CmdAside DEF InsertDirect
<1>3. CASE DequeueGuided(c)
  BY <1>3, <1>g, CmdAside DEF DequeueGuided
<1>4. CASE GuideCheck(c)
  BY <1>4, <1>g, <1>e, CmdAside DEF GuideCheck
<1>5. CASE RemoveQueued(c)
  BY <1>5, <1>e, CmdAside DEF RemoveQueued
<1>6. CASE CancelOpenRuns(c)
  BY <1>6, <1>g, CmdAside DEF CancelOpenRuns, AfterStop
<1>7. CASE ChooseLast(c)
  <2>1. CASE stream = <<>>
    BY <1>7, <1>e, <2>1, CmdAside DEF ChooseLast
  <2>2. CASE stream # <<>>
    BY <1>7, <1>t, <2>2, CmdAside DEF ChooseLast, CmdState
  <2> QED
    BY <2>1, <2>2
<1>8. CASE Truncate(c)
  BY <1>8, <1>g, CmdAside DEF Truncate
<1>9. CASE PrepareContinue(c)
  <2>1. /\ \A d \in Cmds \ {c} : cmd'[d] = cmd[d]
        /\ cmd'[c].pc = "gate"
    BY <1>9, <1>t DEF PrepareContinue, CmdState
  <2> QED
    BY <1>9, <2>1, CmdAside DEF PrepareContinue
<1>10. CASE SpawnGate(c)
  <2>1. CASE active # Idle
    BY <1>10, <1>e, <2>1, CmdAside DEF SpawnGate
  <2>2. CASE active = Idle
    <3>1. \A d \in Cmds : CmdAt(d, "launch")' <=> d = c
      BY <1>10, <1>g, <2>2 DEF SpawnGate, OneDriver, DriverInv
    <3>2. \A k \in Loops : ~Driver(k)'
      BY <1>10, <2>2 DEF SpawnGate, OneDriver, DriverInv, Driver
    <3>3. active' # Idle
      BY <1>10, <2>2, SessionRunAssumption
         DEF SpawnGate, SessionRunAssumption
    <3>4. Uncut'
      BY <1>10 DEF SpawnGate, DriverInv, Uncut
    <3> QED
      BY <3>1, <3>2, <3>3, <3>4 DEF OneDriver
  <2> QED
    BY <2>1, <2>2
<1>11. CASE SpawnLaunch(c)
  <2> DEFINE l == CHOOSE k \in Loops : At(k, "unborn")
  <2>1. l \in Loops
    BY <1>11 DEF SpawnLaunch
  <2>2. \A k \in Loops : loop'[k] = IF k = l THEN LoopAt("ready", cmd[c].msg)
                                             ELSE loop[k]
    BY <1>11, <2>1 DEF SpawnLaunch, DriverInv, TypeInv, TypeOK
  <2>3. /\ \A d \in Cmds \ {c} : cmd'[d] = cmd[d]
        /\ cmd'[c].pc = "handle"
    BY <1>11, <1>t DEF SpawnLaunch, CmdState
  <2>4. \A k \in Loops : ~Driver(k)
    BY <1>11 DEF SpawnLaunch, OneDriver, DriverInv
  <2> HIDE DEF l
  <2>5. \A k \in Loops : Driver(k)' <=> k = l
    BY <2>2, <2>4 DEF Driver, LoopAt
  <2>6. \A d \in Cmds : ~CmdAt(d, "launch")'
    BY <1>11, <2>3 DEF SpawnLaunch, OneDriver, DriverInv
  <2>7. active' # Idle
    BY <1>11 DEF SpawnLaunch, OneDriver, DriverInv
  <2>8. Uncut'
    BY <2>2 DEF Uncut, DriverInv, LoopAt
  <2> QED
    BY <2>1, <2>5, <2>6, <2>7, <2>8 DEF OneDriver
<1>12. CASE SpawnStore(c)
  BY <1>12, <1>e, CmdAside DEF SpawnStore
<1> QED
  BY <1>1, <1>2, <1>3, <1>4, <1>5, <1>6, <1>7, <1>8, <1>9, <1>10, <1>11,
     <1>12, CmdStep(c) DEF CmdStep

LEMMA UserDriver ==
  ASSUME NoStops, DriverInv, NEW c \in Cmds, User(c)
  PROVE  Uncut' /\ OneDriver'
<1> USE DEF db, handle, CmdAt
<1>t. cmd \in [Cmds -> CmdState]
  BY DEF DriverInv, TypeInv, TypeOK
<1>i. ASSUME NEW op, NEW m, NEW i, NEW pc, Issue(c, op, m, i, pc)
      PROVE  /\ \A d \in Cmds \ {c} : cmd'[d] = cmd[d]
             /\ cmd[c].pc = "idle" /\ cmd'[c].pc = pc /\ op \in Ops
  BY <1>i, <1>t DEF Issue, NoCmd
<1>1. CASE \E m \in Msgs : SendMessage(c, m)
  BY <1>1, <1>i, CmdAside DEF SendMessage
<1>2. CASE \E m \in Msgs : GuideMessage(c, m)
  BY <1>2, <1>i, CmdAside DEF GuideMessage
<1>3. CASE \E m \in Msgs : DeleteQueued(c, m)
  BY <1>3, <1>i, CmdAside DEF DeleteQueued
<1>4. CASE \E m \in Msgs : EditMessage(c, m)
  BY <1>4, <1>i, CmdAside DEF EditMessage
<1>5. CASE \E op \in {"stop", "retry"} : Stop(c, op)
  BY <1>5, <1>i DEF Stop, NoStops
<1>6. CASE ContinueTurn(c)
  BY <1>6, <1>i, CmdAside DEF ContinueTurn
<1> QED
  BY <1>1, <1>2, <1>3, <1>4, <1>5, <1>6, User(c) DEF User

LEMMA NextDriver ==
  ASSUME NoStops, DriverInv, [Next]_vars
  PROVE  DriverInv'
<1>1. CASE UNCHANGED vars
  BY <1>1 DEF vars, db, handle, DriverInv, TypeInv, TypeOK, LoopLocals,
     CmdLocals, At, Uncut, OneDriver, Driver, CmdAt
<1>2. CASE \E l \in Loops : LoopMove(l)
  BY <1>2, LoopStepType, LoopStepDriver DEF DriverInv
<1>3. CASE \E c \in Cmds : CmdStep(c)
  BY <1>3, CmdStepType, CmdStepDriver DEF DriverInv
<1>4. CASE \E c \in Cmds : User(c)
  BY <1>4, UserType, UserDriver DEF DriverInv
<1> QED
  BY <1>1, <1>2, <1>3, <1>4 DEF Next, LoopMove

LEMMA InitDriver == Init => DriverInv
<1> SUFFICES ASSUME Init PROVE DriverInv
  OBVIOUS
<1>1. TypeInv
  BY InitType
<1>2. Uncut /\ \A l \in Loops : ~Driver(l)
  BY DEF Init, Uncut, Driver, LoopAt
<1>3. active = Idle /\ \A c \in Cmds : ~CmdAt(c, "launch")
  BY DEF Init, CmdAt, NoCmd
<1> QED
  BY <1>1, <1>2, <1>3 DEF DriverInv, OneDriver

\* As long as nobody stops or retries, however many threads send, guide,
\* delete, edit and continue at once, at most one loop drives the session and
\* active_run tells exactly whether one does: the promise written in
\* spawn_session_task ("never start a second run_loop concurrently").
THEOREM OneDriverAlways == NoStops => (Spec => []OneDriver)
<1> SUFFICES ASSUME NoStops PROVE Spec => []OneDriver
  OBVIOUS
<1>1. DriverInv /\ [Next]_vars => DriverInv'
  BY NextDriver
<1>2. DriverInv => OneDriver
  BY DEF DriverInv
<1> QED
  BY InitDriver, <1>1, <1>2, PTL DEF Spec

(***************************************************************************)
(* The rows of runs. A loop keeps its row while it is in a run, so with no *)
(* loop aborted that every running row has its loop is inductive too.      *)
(***************************************************************************)

RowsInv == DriverInv /\ RunningRunsAreDriven

\* No row is written, and every loop in a run stays in it.
LEMMA RowsKept ==
  ASSUME RunningRunsAreDriven, runs' = runs,
         \A l \in Loops : InRun(l) => InRun(l)' /\ loop'[l].run = loop[l].run
  PROVE  RunningRunsAreDriven'
BY DEF RunningRunsAreDriven

\* A loop ends its run by writing its row.
LEMMA RowClosed ==
  ASSUME RunningRunsAreDriven, NEW l \in Loops,
         NEW s, s # "running", SetStatus(loop[l].run, s),
         \A r \in DOMAIN runs : runs[r] \in RunRow,
         \A k \in Loops \ {l} : loop'[k] = loop[k]
  PROVE  RunningRunsAreDriven'
<1>1. DOMAIN runs' = DOMAIN runs
  BY DEF SetStatus
<1>2. \A r \in DOMAIN runs : runs'[r].status = "running"
                               => runs[r].status = "running" /\ r # loop[l].run
  BY DEF SetStatus, RunRow
<1>3. ASSUME NEW r \in DOMAIN runs, runs'[r].status = "running"
      PROVE  \E k \in Loops : loop'[k].run = r /\ InRun(k)'
  <2>1. PICK k \in Loops : loop[k].run = r /\ InRun(k)
    BY <1>2, <1>3 DEF RunningRunsAreDriven
  <2>2. k # l
    BY <1>2, <1>3, <2>1
  <2> QED
    BY <2>1, <2>2 DEF InRun
<1> QED
  BY <1>1, <1>3 DEF RunningRunsAreDriven

\* Closing every open row leaves none to be driven.
LEMMA RowsClosed ==
  ASSUME NEW s, s # "running", CloseOpen(s),
         \A r \in DOMAIN runs : runs[r] \in RunRow
  PROVE  RunningRunsAreDriven'
<1>1. DOMAIN runs' = DOMAIN runs
  BY DEF CloseOpen
<1>2. \A r \in DOMAIN runs : runs'[r].status # "running"
  BY DEF CloseOpen, RunRow
<1> QED
  BY <1>1, <1>2 DEF RunningRunsAreDriven

LEMMA RowTypes ==
  ASSUME TypeInv
  PROVE  \A r \in DOMAIN runs : runs[r] \in RunRow
<1>1. runs \in Seq(RunRow)
  BY DEF TypeInv, TypeOK
<1> QED
  BY <1>1, ElementOfSeq

LEMMA LoopStepRows ==
  ASSUME RowsInv, NEW l \in Loops, LoopMove(l)
  PROVE  RunningRunsAreDriven'
<1> USE DEF db, handle, At
<1> DEFINE Stays == /\ \A k \in Loops \ {l} : loop'[k] = loop[k]
                    /\ InRun(l) => InRun(l)' /\ loop'[l].run = loop[l].run
<1>t. /\ loop \in [Loops -> LoopState] /\ loop[l] \in LoopState
      /\ TypeInv /\ RunningRunsAreDriven
      /\ ~loop[l].cancelled
  BY DEF RowsInv, DriverInv, TypeInv, TypeOK, Uncut
<1>r. \A r \in DOMAIN runs : runs[r] \in RunRow
  BY <1>t, RowTypes
<1>k. ASSUME Stays, runs' = runs
      PROVE  RunningRunsAreDriven'
  BY <1>k, <1>t, RowsKept DEF InRun
<1>g. ASSUME NEW pc, Goto(l, pc)
      PROVE  /\ \A k \in Loops \ {l} : loop'[k] = loop[k]
             /\ loop'[l].pc = pc /\ loop'[l].run = loop[l].run
  BY <1>g, <1>t DEF Goto, LoopState
<1>1. CASE Begin(l) \/ PickTrigger(l) \/ PopNothing(l) \/ PopFails(l)
             \/ CreateRunFails(l) \/ ClearActive(l)
  <2>1. Stays /\ runs' = runs
    BY <1>1, <1>g DEF Begin, PickTrigger, PopNothing, PopFails, CreateRunFails,
       ClearActive, InRun
  <2> QED
    BY <2>1, <1>k
<1>2. CASE PopQueued(l)
  <2>1. Stays /\ runs' = runs
    BY <1>2, <1>t DEF PopQueued, InRun, LoopState
  <2> QED
    BY <2>1, <1>k
<1>3. CASE CreateRun(l)
  <2>1. runs \in Seq(RunRow) /\ Len(runs) \in Nat
    BY <1>t, LenProperties DEF TypeInv, TypeOK
  <2>2. /\ DOMAIN runs' = 1 .. Len(runs) + 1
        /\ \A r \in 1 .. Len(runs) : runs'[r] = runs[r]
    BY <1>3, <2>1, AppendProperties DEF CreateRun
  <2>3. /\ \A k \in Loops \ {l} : loop'[k] = loop[k]
        /\ loop'[l].run = Len(runs) + 1 /\ InRun(l)' /\ ~InRun(l)
    BY <1>3, <1>t DEF CreateRun, InRun, LoopState
  <2>4. ASSUME NEW r \in 1 .. Len(runs) + 1, runs'[r].status = "running"
        PROVE  \E k \in Loops : loop'[k].run = r /\ InRun(k)'
    <3>1. CASE r = Len(runs) + 1
      BY <2>3, <3>1
    <3>2. CASE r # Len(runs) + 1
      <4>1. r \in 1 .. Len(runs) /\ r \in DOMAIN runs
        BY <2>1, <3>2, LenProperties
      <4>2. runs[r].status = "running"
        BY <2>2, <2>4, <4>1
      <4>3. PICK k \in Loops : loop[k].run = r /\ InRun(k)
        BY <4>1, <4>2, <1>t DEF RunningRunsAreDriven
      <4>4. k # l
        BY <2>3, <4>3
      <4> QED
        BY <2>3, <4>3, <4>4 DEF InRun
    <3> QED
      BY <3>1, <3>2
  <2> QED
    BY <2>2, <2>4 DEF RunningRunsAreDriven
<1>4. CASE MarkActive(l)
  <2>1. Stays /\ runs' = runs
    BY <1>4, <1>t DEF MarkActive, InRun, LoopState
  <2> QED
    BY <2>1, <1>k
<1>5. CASE BuildContext(l)
  <2>1. Stays /\ runs' = runs
    BY <1>5, <1>t DEF BuildContext, InRun, LoopState
  <2> QED
    BY <2>1, <1>k
<1>6. CASE ToolRound(l) \/ StepsGranted(l)
  <2>1. Stays /\ runs' = runs
    BY <1>6, <1>t DEF ToolRound, StepsGranted, InRun, LoopState
  <2> QED
    BY <2>1, <1>k
<1>7. CASE \/ \E o \in AllOutcomes : Return(l, o)
           \/ ReachLimit(l) \/ StepsRefused(l)
  <2>1. Stays /\ runs' = runs
    BY <1>7, <1>g DEF Return, ReachLimit, StepsRefused, InRun
  <2> QED
    BY <2>1, <1>k
<1>8. CASE RecordDone(l)
  <2>1. \A k \in Loops \ {l} : loop'[k] = loop[k]
    BY <1>8, <1>t DEF RecordDone
  <2> QED
    BY <1>8, <2>1, <1>r, <1>t, RowClosed DEF RecordDone
<1>9. CASE RecordFailed(l)
  BY <1>9, <1>g, <1>r, <1>t, RowClosed DEF RecordFailed
<1>10. CASE Sweep(l)
  BY <1>10, <1>r, RowsClosed DEF Sweep
<1>11. CASE Drop(l)
  BY <1>11, <1>t DEF Drop
<1> QED
  BY <1>1, <1>2, <1>3, <1>4, <1>5, <1>6, <1>7, <1>8, <1>9, <1>10, <1>11,
     LoopMove(l) DEF LoopMove, LoopStep

LEMMA CmdStepRows ==
  ASSUME RowsInv, NEW c \in Cmds, CmdStep(c)
  PROVE  RunningRunsAreDriven'
<1> USE DEF db, handle
<1>t. TypeInv /\ RunningRunsAreDriven /\ loop \in [Loops -> LoopState]
  BY DEF RowsInv, DriverInv, TypeInv, TypeOK
<1>1. CASE CancelOpenRuns(c)
  BY <1>1, <1>t, RowTypes, RowsClosed DEF CancelOpenRuns
<1>2. CASE SpawnLaunch(c)
  <2> DEFINE l == CHOOSE k \in Loops : At(k, "unborn")
  <2>1. l \in Loops /\ At(l, "unborn")
    BY <1>2 DEF SpawnLaunch
  <2>2. \A k \in Loops \ {l} : loop'[k] = loop[k]
    BY <1>2, <1>t DEF SpawnLaunch
  <2>3. runs' = runs
    BY <1>2 DEF SpawnLaunch
  <2> HIDE DEF l
  <2>4. ~InRun(l)
    BY <2>1 DEF InRun, At
  <2> QED
    BY <2>1, <2>2, <2>3, <2>4, <1>t, RowsKept DEF InRun
<1>3. CASE CmdStep(c) /\ ~CancelOpenRuns(c) /\ ~SpawnLaunch(c)
  <2>1. loop' = loop /\ runs' = runs
    BY <1>3 DEF CmdStep, InsertQueued, InsertDirect, DequeueGuided,
       GuideCheck, RemoveQueued, ChooseLast, Truncate, PrepareContinue,
       SpawnGate, SpawnStore
  <2> QED
    BY <2>1, <1>t, RowsKept DEF InRun
<1> QED
  BY <1>1, <1>2, <1>3, CmdStep(c)

LEMMA UserRows ==
  ASSUME NoStops, RowsInv, NEW c \in Cmds, User(c)
  PROVE  RunningRunsAreDriven'
<1>1. loop' = loop /\ runs' = runs
  BY DEF User, SendMessage, GuideMessage, DeleteQueued, EditMessage, Stop,
     ContinueTurn, Issue, NoStops, db, handle
<1> QED
  BY <1>1, RowsKept DEF RowsInv, InRun

\* As long as nobody stops or retries, a row of runs that says running is
\* being executed by a loop: finish_run is reached on every way out of
\* run_once, and fail_open_runs never has to close a row behind a live loop.
THEOREM RunningRunsAlways == NoStops => (Spec => []RunningRunsAreDriven)
<1> SUFFICES ASSUME NoStops PROVE Spec => []RunningRunsAreDriven
  OBVIOUS
<1>1. Init => RowsInv
  BY InitDriver DEF RowsInv, RunningRunsAreDriven, Init
<1>2. RowsInv /\ [Next]_vars => RowsInv'
  <2> SUFFICES ASSUME RowsInv, [Next]_vars PROVE RowsInv'
    OBVIOUS
  <2>1. DriverInv'
    BY NextDriver DEF RowsInv
  <2>2. CASE UNCHANGED vars
    <3>1. loop' = loop /\ runs' = runs
      BY <2>2 DEF vars, db
    <3> QED
      BY <2>1, <3>1, RowsKept DEF RowsInv, InRun
  <2>3. CASE \E l \in Loops : LoopMove(l)
    BY <2>1, <2>3, LoopStepRows DEF RowsInv
  <2>4. CASE \E c \in Cmds : CmdStep(c)
    BY <2>1, <2>4, CmdStepRows DEF RowsInv
  <2>5. CASE \E c \in Cmds : User(c)
    BY <2>1, <2>5, UserRows DEF RowsInv
  <2> QED
    BY <2>1, <2>2, <2>3, <2>4, <2>5, [Next]_vars DEF RowsInv, Next, LoopMove
<1>3. RowsInv => RunningRunsAreDriven
  BY DEF RowsInv
<1> QED
  BY <1>1, <1>2, <1>3, PTL DEF Spec

(***************************************************************************)
(* No run reopens: the rows of runs only ever grow in number or close.     *)
(***************************************************************************)

LoneRows ==
  \A r \in DOMAIN runs : runs[r].status # "running"
                           => runs'[r].status # "running"

LEMMA StatusCloses ==
  ASSUME NEW r, NEW s, s # "running",
         \A i \in DOMAIN runs : runs[i] \in RunRow,
         SetStatus(r, s) \/ CloseOpen(s)
  PROVE  LoneRows
<1>1. CASE SetStatus(r, s)
  BY <1>1 DEF SetStatus, RunRow, LoneRows
<1>2. CASE CloseOpen(s)
  BY <1>2 DEF CloseOpen, LoneRows
<1> QED
  BY <1>1, <1>2

\* A run that ended is never shown as running again, whatever commands,
\* stops and rewinds race for it: finish_run, fail_open_runs and
\* cancel_open_runs write final statuses only, create_run only new rows.
THEOREM RunsStayClosed == Spec => RunsNeverReopen
<1>1. TypeOK /\ [Next]_vars => [LoneRows]_vars
  <2> SUFFICES ASSUME TypeOK, Next PROVE LoneRows
    BY DEF vars, db
  <2>1. runs \in Seq(RunRow) /\ \A r \in DOMAIN runs : runs[r] \in RunRow
    BY ElementOfSeq DEF TypeOK
  <2>2. CASE runs' = runs
    BY <2>2 DEF LoneRows
  <2>3. CASE \E l \in Loops : CreateRun(l)
    BY <2>1, <2>3, AppendProperties DEF CreateRun, LoneRows
  <2>4. CASE \E l \in Loops : RecordDone(l) \/ RecordFailed(l) \/ Sweep(l)
    BY <2>1, <2>4, StatusCloses DEF RecordDone, RecordFailed, Sweep
  <2>5. CASE \E c \in Cmds : CancelOpenRuns(c)
    BY <2>1, <2>5, StatusCloses DEF CancelOpenRuns
  <2>6. \/ runs' = runs
        \/ \E l \in Loops : CreateRun(l)
        \/ \E l \in Loops : RecordDone(l) \/ RecordFailed(l) \/ Sweep(l)
        \/ \E c \in Cmds : CancelOpenRuns(c)
    <3>1. ASSUME NEW l \in Loops, LoopMove(l)
          PROVE  runs' = runs \/ CreateRun(l) \/ RecordDone(l)
                 \/ RecordFailed(l) \/ Sweep(l)
      BY <3>1 DEF LoopMove, LoopStep, Begin, PickTrigger, PopQueued, PopNothing,
         PopFails, CreateRunFails, MarkActive, BuildContext, ToolRound,
         ReachLimit, StepsGranted, StepsRefused, Return, ClearActive, Drop, db
    <3>2. ASSUME NEW c \in Cmds, CmdStep(c)
          PROVE  runs' = runs \/ CancelOpenRuns(c)
      BY <3>2 DEF CmdStep, InsertQueued, InsertDirect, DequeueGuided,
         GuideCheck, RemoveQueued, ChooseLast, Truncate, PrepareContinue,
         SpawnGate, SpawnLaunch, SpawnStore, db
    <3>3. ASSUME NEW c \in Cmds, User(c)
          PROVE  runs' = runs
      BY <3>3 DEF User, SendMessage, GuideMessage, DeleteQueued, EditMessage,
         Stop, ContinueTurn, db
    <3> QED
      BY <3>1, <3>2, <3>3 DEF Next, LoopMove
  <2> QED
    BY <2>2, <2>3, <2>4, <2>5, <2>6
<1> QED
  BY TypeCorrect, <1>1, PTL DEF Spec, RunsNeverReopen, LoneRows

(***************************************************************************)
(* The line. A message is in one place only: about to be typed in by a     *)
(* command, waiting in the queue, or out of it, in the stream or deleted.  *)
(* It comes out of the queue for good, and whatever a command spawns a loop*)
(* for, and whatever a loop executes, is out.                              *)
(***************************************************************************)

Once(s) == \A i, j \in DOMAIN s : s[i] = s[j] => i = j
Out == ToSet(stream) \cup removed
Coming(c) == cmd[c].pc \in {"enqueue", "append"}

QueueOnce == Once(queue)
QueueApart == ToSet(queue) \cap Out = {}
ComingApart ==
  \A c \in Cmds : Coming(c) =>
    /\ cmd[c].msg \notin ToSet(queue) \cup Out
    /\ \A d \in Cmds : Coming(d) /\ cmd[d].msg = cmd[c].msg => d = c
NamedAt(c) ==
  /\ cmd[c].pc \notin {"cancelRuns", "choose"}
  /\ cmd[c].pc \in {"dequeue", "remove"} => cmd[c].msg \in ToSet(queue) \cup Out
  /\ cmd[c].pc \in {"guideCheck", "truncate", "gate", "launch"} => cmd[c].msg \in Out
Named == \A c \in Cmds : NamedAt(c)
TrigAt(l) ==
  /\ loop[l].pc = "ready" \/ Executing(l) => loop[l].trig \in Out
  /\ loop[l].pc = "pick" => loop[l].trig \in Out \cup {NoMsg}
TrigOut == \A l \in Loops : TrigAt(l)

Line == QueueOnce /\ QueueApart /\ ComingApart /\ Named /\ TrigOut

\* A queue without its head, without any one message, or with one more.
LEMMA HeadLeaves ==
  ASSUME NEW S, NEW s \in Seq(S), s # <<>>, Once(s)
  PROVE  /\ Head(s) \in ToSet(s) /\ ToSet(Tail(s)) = ToSet(s) \ {Head(s)}
         /\ Once(Tail(s))
<1>1. /\ Len(s) \in Nat /\ DOMAIN s = 1 .. Len(s) /\ Len(s) # 0
      /\ Head(s) = s[1]
  BY LenProperties, EmptySeq, HeadTailProperties
<1>2. /\ DOMAIN Tail(s) = 1 .. (Len(s) - 1)
      /\ \A i \in 1 .. (Len(s) - 1) : Tail(s)[i] = s[i + 1]
  BY <1>1, HeadTailProperties, LenProperties
<1>3. Once(Tail(s))
  <2>1. \A i, j \in 1 .. (Len(s) - 1) : s[i + 1] = s[j + 1] => i = j
    BY <1>1 DEF Once
  <2> QED
    BY <1>2, <2>1 DEF Once
<1>4. ToSet(Tail(s)) \subseteq ToSet(s) \ {Head(s)}
  <2> SUFFICES ASSUME NEW i \in 1 .. (Len(s) - 1)
               PROVE  s[i + 1] \in ToSet(s) /\ s[i + 1] # s[1]
    BY <1>1, <1>2 DEF ToSet
  <2>1. i + 1 \in DOMAIN s /\ i + 1 # 1 /\ 1 \in DOMAIN s
    BY <1>1
  <2> QED
    BY <2>1 DEF ToSet, Once
<1>5. ToSet(s) \ {Head(s)} \subseteq ToSet(Tail(s))
  <2> SUFFICES ASSUME NEW i \in 1 .. Len(s), s[i] # s[1]
               PROVE  s[i] \in ToSet(Tail(s))
    BY <1>1 DEF ToSet
  <2>1. i - 1 \in 1 .. (Len(s) - 1) /\ (i - 1) + 1 = i
    BY <1>1
  <2> QED
    BY <1>2, <2>1 DEF ToSet
<1>6. Head(s) \in ToSet(s)
  BY <1>1 DEF ToSet
<1> QED
  BY <1>3, <1>4, <1>5, <1>6

LEMMA OneLeaves ==
  ASSUME NEW S, NEW s \in Seq(S), NEW i \in DOMAIN s, Once(s)
  PROVE  ToSet(RemoveAt(s, i)) = ToSet(s) \ {s[i]} /\ Once(RemoveAt(s, i))
<1> DEFINE t == RemoveAt(s, i)
<1>1. Len(s) \in Nat /\ DOMAIN s = 1 .. Len(s) /\ i \in 1 .. Len(s)
  BY LenProperties
<1> DEFINE u == SubSeq(s, 1, i - 1)
           v == SubSeq(s, i + 1, Len(s))
<1>2. /\ u \in Seq(S) /\ Len(u) = i - 1
      /\ \A j \in 1 .. (i - 1) : u[j] = s[j]
  BY <1>1, SubSeqProperties
<1>3. /\ v \in Seq(S) /\ Len(v) = Len(s) - i
      /\ \A j \in 1 .. (Len(s) - i) : v[j] = s[j + i]
  BY <1>1, SubSeqProperties
<1>4. /\ t \in Seq(S) /\ Len(t) = Len(s) - 1
      /\ \A j \in 1 .. (Len(s) - 1) : t[j] = IF j < i THEN s[j] ELSE s[j + 1]
  <2>1. t = u \o v
    BY DEF RemoveAt
  <2> HIDE DEF t, u, v
  <2>a. /\ t \in Seq(S) /\ Len(t) = Len(u) + Len(v)
        /\ \A j \in 1 .. (Len(u) + Len(v)) : t[j] = IF j <= Len(u) THEN u[j] ELSE v[j - Len(u)]
    BY <1>2, <1>3, <2>1, ConcatProperties
  <2>b. Len(u) + Len(v) = Len(s) - 1
    BY <1>1, <1>2, <1>3
  <2>2. /\ t \in Seq(S) /\ Len(t) = Len(s) - 1
        /\ \A j \in 1 .. (Len(s) - 1) : t[j] = IF j <= i - 1 THEN u[j] ELSE v[j - (i - 1)]
    BY <1>2, <2>a, <2>b
  <2>3. ASSUME NEW j \in 1 .. (Len(s) - 1)
        PROVE  t[j] = IF j < i THEN s[j] ELSE s[j + 1]
    <3>1. CASE j < i
      BY <1>1, <1>2, <2>2, <3>1
    <3>2. CASE ~(j < i)
      <4>1. j - (i - 1) \in 1 .. (Len(s) - i) /\ (j - (i - 1)) + i = j + 1
        BY <1>1, <3>2
      <4>2. t[j] = v[j - (i - 1)]
        BY <1>1, <2>2, <3>2
      <4> QED
        BY <1>3, <3>2, <4>1, <4>2
    <3> QED
      BY <3>1, <3>2
  <2> QED
    BY <2>2, <2>3
<1>5. DOMAIN t = 1 .. (Len(s) - 1)
  BY <1>4, LenProperties
<1> HIDE DEF t, u, v
<1> DEFINE at(j) == IF j < i THEN j ELSE j + 1
<1>6. \A j \in DOMAIN t : at(j) \in DOMAIN s /\ at(j) # i /\ t[j] = s[at(j)]
  BY <1>1, <1>4, <1>5
<1>7. \A j, k \in DOMAIN t : at(j) = at(k) => j = k
  BY <1>1, <1>5
<1>8. \A k \in DOMAIN s \ {i} : \E j \in DOMAIN t : at(j) = k
  <2> SUFFICES ASSUME NEW k \in DOMAIN s, k # i
               PROVE  \E j \in DOMAIN t : at(j) = k
    OBVIOUS
  <2>1. CASE k < i
    BY <1>1, <1>5, <2>1
  <2>2. CASE k > i
    <3>1. k - 1 \in DOMAIN t /\ at(k - 1) = k
      BY <1>1, <1>5, <2>2
    <3> QED
      BY <3>1
  <2> QED
    BY <1>1, <2>1, <2>2
<1> HIDE DEF at
<1>9. Once(t)
  BY <1>6, <1>7 DEF Once
<1>10. ToSet(t) = ToSet(s) \ {s[i]}
  BY <1>6, <1>8 DEF ToSet, Once
<1> QED
  BY <1>9, <1>10 DEF t

LEMMA OneJoins ==
  ASSUME NEW S, NEW s \in Seq(S), NEW m \in S
  PROVE  /\ ToSet(Append(s, m)) = ToSet(s) \cup {m}
         /\ Once(s) /\ m \notin ToSet(s) => Once(Append(s, m))
<1> DEFINE t == Append(s, m)
<1>1. /\ Len(s) \in Nat /\ DOMAIN s = 1 .. Len(s)
      /\ DOMAIN t = 1 .. (Len(s) + 1) /\ t[Len(s) + 1] = m
      /\ \A i \in 1 .. Len(s) : t[i] = s[i]
  BY AppendProperties, LenProperties
<1> HIDE DEF t
<1>2. \A i \in DOMAIN t : i \in DOMAIN s \/ i = Len(s) + 1
  BY <1>1
<1>3. DOMAIN s \subseteq DOMAIN t /\ Len(s) + 1 \in DOMAIN t
  BY <1>1
<1>4. ToSet(t) = ToSet(s) \cup {m}
  BY <1>1, <1>2, <1>3 DEF ToSet
<1>5. Once(s) /\ m \notin ToSet(s) => Once(t)
  BY <1>1, <1>2, <1>3 DEF Once, ToSet
<1> QED
  BY <1>4, <1>5 DEF t

LEMMA TypesAre ==
  ASSUME TypeInv
  PROVE  /\ queue \in Seq(Msgs) /\ stream \in Seq(Msgs) /\ removed \subseteq Msgs
         /\ ToSet(queue) \subseteq Msgs /\ Out \subseteq Msgs
         /\ cmd \in [Cmds -> CmdState] /\ loop \in [Loops -> LoopState]
BY ElementOfSeq DEF TypeInv, TypeOK, ToSet, Out

\* A step of a command or a user. It may bring a message that no other one is
\* about to type in.
LEMMA CmdMoves ==
  ASSUME Line, NEW c \in Cmds, \A d \in Cmds \ {c} : cmd'[d] = cmd[d],
         Out \subseteq Out', ToSet(queue) \subseteq ToSet(queue') \cup Out',
         \A m \in ToSet(queue') \cup Out' :
           m \in ToSet(queue) \cup Out \/ \A d \in Cmds \ {c} : Coming(d) => cmd[d].msg # m,
         Coming(c)' => /\ cmd'[c].msg \notin ToSet(queue') \cup Out'
                       /\ \A d \in Cmds \ {c} : Coming(d) => cmd[d].msg # cmd'[c].msg,
         NamedAt(c)'
  PROVE  ComingApart' /\ Named'
<1>1. \A d \in Cmds \ {c} : Coming(d)' <=> Coming(d)
  BY DEF Coming
<1>2. ComingApart'
  <2>1. ASSUME NEW e \in Cmds, Coming(e)'
        PROVE  /\ cmd'[e].msg \notin ToSet(queue') \cup Out'
               /\ \A d \in Cmds : Coming(d)' /\ cmd'[d].msg = cmd'[e].msg => d = e
    <3>1. CASE e = c
      BY <1>1, <2>1, <3>1
    <3>2. CASE e # c
      <4>1. Coming(e) /\ cmd'[e] = cmd[e]
        BY <1>1, <2>1, <3>2
      <4>2. cmd[e].msg \notin ToSet(queue') \cup Out'
        BY <3>2, <4>1 DEF Line, ComingApart
      <4>3. ASSUME NEW d \in Cmds, Coming(d)', cmd'[d].msg = cmd[e].msg
            PROVE  d = e
        <5>1. CASE d = c
          BY <3>2, <4>1, <4>3, <5>1
        <5>2. CASE d # c
          BY <1>1, <4>1, <4>3, <5>2 DEF Line, ComingApart
        <5> QED
          BY <5>1, <5>2
      <4> QED
        BY <4>1, <4>2, <4>3
    <3> QED
      BY <3>1, <3>2
  <2> QED
    BY <2>1 DEF ComingApart
<1>3. Named'
  <2>1. ASSUME NEW d \in Cmds \ {c} PROVE NamedAt(d)'
    BY <2>1 DEF Line, Named, NamedAt
  <2> QED
    BY <2>1 DEF Named
<1> QED
  BY <1>2, <1>3

\* The loops are left alone.
LEMMA LoopsRest ==
  ASSUME Line, loop' = loop, Out \subseteq Out'
  PROVE  TrigOut'
BY DEF Line, TrigOut, TrigAt, Executing, InRun

\* A step of one loop.
LEMMA LoopMoves ==
  ASSUME Line, NEW l \in Loops, \A k \in Loops \ {l} : loop'[k] = loop[k],
         Out \subseteq Out', TrigAt(l)'
  PROVE  TrigOut'
<1>1. ASSUME NEW k \in Loops \ {l} PROVE TrigAt(k)'
  BY <1>1 DEF Line, TrigOut, TrigAt, Executing, InRun
<1> QED
  BY <1>1 DEF TrigOut

\* The messages stay where they are.
LEMMA MessagesRest ==
  ASSUME Line, UNCHANGED <<queue, stream, removed, cmd>>
  PROVE  QueueOnce' /\ QueueApart' /\ ComingApart' /\ Named'
BY DEF Line, QueueOnce, QueueApart, ComingApart, Named, NamedAt, Coming, Out, Once

LEMMA LoopStepLine ==
  ASSUME TypeInv, Line, NEW l \in Loops, LoopMove(l)
  PROVE  Line'
<1> USE DEF db, handle, At
<1>t. loop \in [Loops -> LoopState] /\ loop[l] \in LoopState /\ TrigAt(l)
  BY TypesAre DEF Line, TrigOut
<1> DEFINE Rests == UNCHANGED <<queue, stream, removed, cmd>>
           Alone == \A k \in Loops \ {l} : loop'[k] = loop[k]
<1>r. ASSUME Rests, Alone, TrigAt(l)' PROVE Line'
  <2>1. Out' = Out
    BY <1>r DEF Out
  <2> QED
    BY <1>r, <2>1, MessagesRest, LoopMoves DEF Line
<1>k. ASSUME NEW pc, Goto(l, pc)
      PROVE  Alone /\ loop'[l].pc = pc /\ loop'[l].trig = loop[l].trig
  BY <1>k, <1>t DEF Goto, LoopState
<1>o. Rests => Out' = Out
  BY DEF Out
<1>1. CASE Begin(l) \/ PickTrigger(l) \/ PopNothing(l) \/ PopFails(l)
             \/ CreateRunFails(l) \/ RecordFailed(l) \/ ClearActive(l)
  <2>1. Rests /\ Alone
    BY <1>1, <1>k DEF Begin, PickTrigger, PopNothing, PopFails, CreateRunFails,
         RecordFailed, ClearActive
  <2>2. TrigAt(l)'
    <3>1. loop'[l].trig = loop[l].trig
      BY <1>1, <1>k DEF Begin, PickTrigger, PopNothing, PopFails, CreateRunFails,
         RecordFailed, ClearActive
    <3>2. \/ loop'[l].pc = "pick" /\ loop[l].pc = "ready"
          \/ loop'[l].pc = "create" /\ loop[l].pc = "pick" /\ loop[l].trig # NoMsg
          \/ loop'[l].pc \in {"broke", "clear", "sweep"}
      BY <1>1, <1>k DEF Begin, PickTrigger, PopNothing, PopFails, CreateRunFails,
         RecordFailed, ClearActive
    <3> QED
      BY <1>t, <1>o, <2>1, <3>1, <3>2 DEF TrigAt, Executing, InRun
  <2> QED
    BY <1>r, <2>1, <2>2
<1>2. CASE \/ CreateRun(l) \/ MarkActive(l) \/ BuildContext(l) \/ ToolRound(l)
           \/ ReachLimit(l) \/ StepsGranted(l) \/ StepsRefused(l)
           \/ \E o \in AllOutcomes : Return(l, o)
  <2>1. Rests
    BY <1>2 DEF CreateRun, MarkActive, BuildContext, ToolRound, ReachLimit,
       StepsGranted, StepsRefused, Return
  <2>2. Executing(l) /\ Executing(l)' /\ Alone /\ loop'[l].trig = loop[l].trig
    <3>1. CASE CreateRun(l)
      BY <1>t, <3>1 DEF CreateRun, Executing, InRun, LoopState
    <3>2. CASE MarkActive(l)
      BY <1>t, <3>2 DEF MarkActive, Executing, InRun, LoopState
    <3>3. CASE BuildContext(l)
      BY <1>t, <3>3 DEF BuildContext, Executing, InRun, LoopState
    <3>4. CASE ToolRound(l)
      BY <1>t, <3>4 DEF ToolRound, Executing, InRun, LoopState
    <3>5. CASE \E o \in AllOutcomes : Return(l, o)
      BY <1>k, <3>5 DEF Return, Executing, InRun
    <3>6. CASE ReachLimit(l) \/ StepsRefused(l)
      BY <1>k, <3>6 DEF ReachLimit, StepsRefused, Executing, InRun
    <3>7. CASE StepsGranted(l)
      BY <1>t, <3>7 DEF StepsGranted, Executing, InRun, LoopState
    <3> QED
      BY <1>2, <3>1, <3>2, <3>3, <3>4, <3>5, <3>6, <3>7
  <2>3. TrigAt(l)'
    BY <1>t, <1>o, <2>1, <2>2 DEF TrigAt, Executing, InRun
  <2> QED
    BY <1>r, <2>1, <2>2, <2>3
<1>3. CASE RecordDone(l) \/ Sweep(l) \/ Drop(l)
  <2>1. Rests
    BY <1>3 DEF RecordDone, Sweep, Drop
  <2>2. Alone /\ loop'[l].pc \in {"pick", "dead"} /\ loop'[l].trig = NoMsg
    BY <1>3, <1>t DEF RecordDone, Sweep, Drop, EndLoop, LoopAt
  <2>3. TrigAt(l)'
    BY <2>2 DEF TrigAt, Executing, InRun
  <2> QED
    BY <1>r, <2>1, <2>2, <2>3
<1>4. CASE PopQueued(l)
  <2> DEFINE m == Head(queue)
  <2>1. /\ queue \in Seq(Msgs) /\ stream \in Seq(Msgs) /\ queue # <<>> /\ m \in Msgs
        /\ queue' = Tail(queue) /\ stream' = Append(stream, m) /\ removed' = removed /\ cmd' = cmd
    BY <1>4, TypesAre, HeadTailProperties DEF PopQueued
  <2>2. /\ m \in ToSet(queue) /\ ToSet(queue') = ToSet(queue) \ {m} /\ QueueOnce'
    BY <2>1, HeadLeaves DEF Line, QueueOnce
  <2>3. Out' = Out \cup {m}
    BY <2>1, OneJoins DEF Out
  <2>4. Alone /\ loop'[l].pc = "create" /\ loop'[l].trig = m
    BY <1>4, <1>t DEF PopQueued, LoopState
  <2> HIDE DEF m
  <2>5. QueueApart'
    BY <2>2, <2>3 DEF Line, QueueApart
  <2>6. ToSet(queue') \cup Out' = ToSet(queue) \cup Out
    BY <2>2, <2>3
  <2>7. ComingApart'
    BY <2>1, <2>6 DEF Line, ComingApart, Coming
  <2>8. Named'
    BY <2>1, <2>3, <2>6 DEF Line, Named, NamedAt
  <2>9. TrigAt(l)'
    BY <2>3, <2>4 DEF TrigAt
  <2>10. TrigOut'
    BY <2>3, <2>4, <2>9, LoopMoves
  <2> QED
    BY <2>2, <2>5, <2>7, <2>8, <2>10 DEF Line
<1> QED
  BY <1>1, <1>2, <1>3, <1>4, LoopMove(l) DEF LoopMove, LoopStep

LEMMA CmdStepLine ==
  ASSUME TypeInv, Line, NEW c \in Cmds, CmdStep(c)
  PROVE  Line'
<1> USE DEF db, handle, CmdAt
<1> DEFINE m == cmd[c].msg
           Alone == \A d \in Cmds \ {c} : cmd'[d] = cmd[d]
<1>t. /\ cmd \in [Cmds -> CmdState] /\ cmd[c] \in CmdState /\ m \in Msgs \cup {NoMsg}
      /\ NamedAt(c) /\ queue \in Seq(Msgs) /\ stream \in Seq(Msgs)
  BY TypesAre DEF Line, Named, CmdState
<1>p. QueueOnce /\ QueueApart
  BY DEF Line
<1>g. ASSUME NEW pc, CmdGoto(c, pc)
      PROVE  Alone /\ cmd'[c].pc = pc /\ cmd'[c].msg = m
  BY <1>g, <1>t DEF CmdGoto, CmdState
<1>e. ASSUME CmdEnd(c) PROVE Alone /\ cmd'[c].pc = "idle"
  BY <1>e, <1>t DEF CmdEnd, NoCmd
<1>i. ASSUME cmd'[c].pc \in {"idle", "handle"} PROVE ~Coming(c)' /\ NamedAt(c)'
  BY <1>i DEF Coming, NamedAt
<1>n. ASSUME Coming(c)
      PROVE  /\ m \in Msgs /\ m \notin ToSet(queue) \cup Out
             /\ \A d \in Cmds \ {c} : Coming(d) => cmd[d].msg # m
  BY <1>n, <1>t DEF Coming, Line, ComingApart, TypeInv, CmdLocals
<1> HIDE DEF m
\* The messages stay, and the command goes on or ends.
<1>r. ASSUME UNCHANGED <<queue, stream, removed, loop>>, Alone, ~Coming(c)', NamedAt(c)'
      PROVE  Line'
  <2>1. Out' = Out /\ queue' = queue
    BY <1>r DEF Out
  <2>2. ComingApart' /\ Named'
    <3>1. ToSet(queue') \cup Out' = ToSet(queue) \cup Out
      BY <2>1
    <3> QED
      BY <1>r, <2>1, <3>1, CmdMoves
  <2>3. QueueOnce' /\ QueueApart'
    BY <1>p, <2>1 DEF QueueOnce, QueueApart
  <2>4. TrigOut'
    BY <1>r, <2>1, LoopsRest
  <2> QED
    BY <2>2, <2>3, <2>4 DEF Line
\* One comes out of the queue, or does not wait there any more.
<1>l. ASSUME NEW pc \in {"guideCheck", "idle"}, cmd'[c].pc = pc, loop' = loop, Alone,
             pc = "guideCheck" => cmd'[c].msg = m,
             m \in ToSet(queue) \cup Out, Out' \in {Out, Out \cup {m}},
             \/ queue' = queue /\ m \notin ToSet(queue) /\ Out' = Out
             \/ /\ \E i \in DOMAIN queue : queue[i] = m /\ queue' = RemoveAt(queue, i)
                /\ Out' = Out \cup {m}
      PROVE  Line'
  <2>1. QueueOnce' /\ QueueApart' /\ ToSet(queue) \subseteq ToSet(queue') \cup Out'
    <3>1. CASE queue' = queue /\ Out' = Out
      BY <1>p, <3>1 DEF QueueOnce, QueueApart
    <3>2. CASE /\ \E i \in DOMAIN queue : queue[i] = m /\ queue' = RemoveAt(queue, i)
               /\ Out' = Out \cup {m}
      <4>1. PICK i \in DOMAIN queue : queue[i] = m /\ queue' = RemoveAt(queue, i)
        BY <3>2
      <4>2. ToSet(queue') = ToSet(queue) \ {m} /\ Once(queue')
        BY <1>t, <1>p, <4>1, OneLeaves DEF QueueOnce
      <4> QED
        BY <1>p, <3>2, <4>2 DEF QueueOnce, QueueApart
    <3> QED
      BY <1>l, <3>1, <3>2
  <2>2. ToSet(queue') \cup Out' \subseteq ToSet(queue) \cup Out
    <3>1. CASE queue' = queue /\ Out' = Out
      BY <3>1
    <3>2. CASE /\ \E i \in DOMAIN queue : queue[i] = m /\ queue' = RemoveAt(queue, i)
               /\ Out' = Out \cup {m}
      <4>1. PICK i \in DOMAIN queue : queue[i] = m /\ queue' = RemoveAt(queue, i)
        BY <3>2
      <4>2. ToSet(queue') = ToSet(queue) \ {m}
        BY <1>t, <1>p, <4>1, OneLeaves DEF QueueOnce
      <4> QED
        BY <1>l, <3>2, <4>2
    <3> QED
      BY <1>l, <3>1, <3>2
  <2>3. m \in Out'
    BY <1>l
  <2>4. ~Coming(c)' /\ NamedAt(c)'
    BY <1>l, <2>3 DEF Coming, NamedAt
  <2>5. Out \subseteq Out'
    BY <1>l
  <2>6. ComingApart' /\ Named'
    BY <1>l, <2>1, <2>2, <2>4, <2>5, CmdMoves
  <2>7. TrigOut'
    BY <1>l, <2>5, LoopsRest
  <2> QED
    BY <2>1, <2>6, <2>7 DEF Line
<1>1. CASE InsertQueued(c)
  <2>1. /\ Coming(c) /\ queue' = Append(queue, m) /\ loop' = loop /\ Out' = Out
        /\ Alone /\ cmd'[c].pc = "idle"
    BY <1>1, <1>e DEF InsertQueued, Coming, Out, m
  <2>2. ToSet(queue') = ToSet(queue) \cup {m} /\ QueueOnce'
    BY <1>t, <1>p, <1>n, <2>1, OneJoins DEF QueueOnce
  <2>3. QueueApart'
    BY <1>n, <1>p, <2>1, <2>2 DEF QueueApart
  <2>4. ComingApart' /\ Named'
    BY <1>i, <1>n, <2>1, <2>2, CmdMoves
  <2> QED
    BY <2>1, <2>2, <2>3, <2>4, LoopsRest DEF Line
<1>2. CASE InsertDirect(c)
  <2>1. /\ Coming(c) /\ stream' = Append(stream, m) /\ loop' = loop /\ queue' = queue
        /\ removed' = removed /\ Alone /\ cmd'[c].pc = "gate" /\ cmd'[c].msg = m
    BY <1>2, <1>g DEF InsertDirect, Coming, m
  <2>2. Out' = Out \cup {m}
    BY <1>t, <1>n, <2>1, OneJoins DEF Out
  <2>3. QueueOnce' /\ QueueApart'
    BY <1>n, <1>p, <2>1, <2>2 DEF QueueOnce, QueueApart
  <2>4. ~Coming(c)' /\ NamedAt(c)'
    BY <2>1, <2>2 DEF Coming, NamedAt
  <2>5. ComingApart' /\ Named'
    BY <1>n, <2>1, <2>2, <2>4, CmdMoves
  <2> QED
    BY <2>1, <2>2, <2>3, <2>5, LoopsRest DEF Line
<1>3. CASE DequeueGuided(c)
  <2>1. /\ cmd'[c].pc = "guideCheck" /\ cmd'[c].msg = m /\ Alone /\ loop' = loop
        /\ m \in ToSet(queue) \cup Out /\ removed' = removed
    BY <1>3, <1>g, <1>t DEF DequeueGuided, NamedAt, m
  <2>2. CASE m \notin ToSet(queue) /\ UNCHANGED <<queue, stream>>
    <3>1. Out' = Out
      BY <2>1, <2>2 DEF Out
    <3> QED
      BY <1>l, <2>1, <2>2, <3>1
  <2>3. CASE /\ \E i \in DOMAIN queue : queue[i] = m /\ queue' = RemoveAt(queue, i)
             /\ stream' = Append(stream, m)
    <3>1. m \in Msgs
      BY <2>3, <1>t, ElementOfSeq
    <3>2. Out' = Out \cup {m}
      BY <1>t, <2>1, <2>3, <3>1, OneJoins DEF Out
    <3> QED
      BY <1>l, <2>1, <2>3, <3>2
  <2> QED
    BY <1>3, <2>2, <2>3 DEF DequeueGuided, m
<1>4. CASE GuideCheck(c)
  <2>1. /\ UNCHANGED <<queue, stream, removed, loop>> /\ Alone
        /\ cmd'[c].pc = "idle" \/ (cmd'[c].pc = "gate" /\ cmd'[c].msg = m /\ cmd[c].pc = "guideCheck")
    BY <1>4, <1>g, <1>e DEF GuideCheck
  <2>2. ~Coming(c)' /\ NamedAt(c)'
    BY <1>t, <2>1 DEF Coming, NamedAt, Out, m
  <2> QED
    BY <1>r, <2>1, <2>2
<1>5. CASE RemoveQueued(c)
  <2>1. /\ cmd'[c].pc = "idle" /\ Alone /\ loop' = loop /\ m \in ToSet(queue) \cup Out
        /\ stream' = stream
    BY <1>5, <1>e, <1>t DEF RemoveQueued, NamedAt, m
  <2>2. CASE m \notin ToSet(queue) /\ UNCHANGED <<queue, removed>>
    <3>1. Out' = Out
      BY <2>1, <2>2 DEF Out
    <3> QED
      BY <1>l, <2>1, <2>2, <3>1
  <2>3. CASE /\ \E i \in DOMAIN queue : queue[i] = m /\ queue' = RemoveAt(queue, i)
             /\ removed' = removed \cup {m}
    <3>1. Out' = Out \cup {m}
      BY <2>1, <2>3 DEF Out
    <3> QED
      BY <1>l, <2>1, <2>3, <3>1
  <2> QED
    BY <1>5, <2>2, <2>3 DEF RemoveQueued, m
<1>6. CASE CancelOpenRuns(c) \/ ChooseLast(c)
  BY <1>6, <1>t DEF CancelOpenRuns, ChooseLast, NamedAt
<1>7. CASE Truncate(c)
  <2>1. /\ queue' = queue /\ loop' = loop /\ Alone /\ cmd'[c].pc = "gate" /\ cmd'[c].msg = m
        /\ m \in Out
    BY <1>7, <1>g, <1>t DEF Truncate, NamedAt, m
  <2>2. Out' = Out
    <3> DEFINE kept == [i \in {j \in DOMAIN stream : j <= cmd[c].pos} |-> stream[i]]
    <3>1. stream' = kept /\ removed' = removed \cup (ToSet(stream) \ ToSet(kept))
      BY <1>7 DEF Truncate
    <3>2. ToSet(kept) \subseteq ToSet(stream)
      BY DEF ToSet
    <3> HIDE DEF kept
    <3> QED
      BY <3>1, <3>2 DEF Out
  <2>3. ~Coming(c)' /\ NamedAt(c)'
    BY <2>1, <2>2 DEF Coming, NamedAt
  <2>4. ComingApart' /\ Named'
    BY <2>1, <2>2, <2>3, CmdMoves
  <2>5. QueueOnce' /\ QueueApart'
    BY <1>p, <2>1, <2>2 DEF QueueOnce, QueueApart
  <2> QED
    BY <2>1, <2>2, <2>4, <2>5, LoopsRest DEF Line
<1>8. CASE PrepareContinue(c)
  <2>0. queue' = queue /\ removed' = removed /\ loop' = loop
    BY <1>8 DEF PrepareContinue
  <2>1. CASE /\ stream # <<>> /\ UNCHANGED stream
             /\ cmd' = [cmd EXCEPT ![c].pc = "gate", ![c].msg = Last(stream)]
    <3>1. Last(stream) \in Out
      BY <1>t, <2>1, LenProperties, EmptySeq DEF Last, Out, ToSet
    <3>2. /\ Alone /\ cmd'[c].pc = "gate" /\ cmd'[c].msg = Last(stream)
          /\ Out' = Out
      BY <1>t, <2>0, <2>1 DEF CmdState, Out
    <3>3. ~Coming(c)' /\ NamedAt(c)'
      BY <3>1, <3>2 DEF Coming, NamedAt
    <3> QED
      BY <1>r, <2>0, <2>1, <3>2, <3>3
  <2>2. CASE \E x \in Msgs \ Typed :
               /\ cmd' = [cmd EXCEPT ![c].pc = "gate", ![c].msg = x]
               /\ stream' = Append(stream, x)
    <3>1. PICK x \in Msgs \ Typed :
               /\ cmd' = [cmd EXCEPT ![c].pc = "gate", ![c].msg = x]
               /\ stream' = Append(stream, x)
      BY <2>2
    <3>2. Alone /\ cmd'[c].pc = "gate" /\ cmd'[c].msg = x
      BY <1>t, <3>1 DEF CmdState
    <3>3. x \notin ToSet(queue) \cup Out /\ \A d \in Cmds : Coming(d) => cmd[d].msg # x
      BY DEF Typed, Out, Coming
    <3>4. Out' = Out \cup {x}
      BY <1>t, <2>0, <3>1, OneJoins DEF Out
    <3>5. ~Coming(c)' /\ NamedAt(c)'
      BY <3>2, <3>4 DEF Coming, NamedAt
    <3>6. ComingApart' /\ Named'
      BY <2>0, <3>2, <3>3, <3>4, <3>5, CmdMoves
    <3>7. QueueOnce' /\ QueueApart'
      BY <1>p, <2>0, <3>3, <3>4 DEF QueueOnce, QueueApart
    <3> QED
      BY <2>0, <3>4, <3>6, <3>7, LoopsRest DEF Line
  <2> QED
    BY <1>8, <2>1, <2>2 DEF PrepareContinue
<1>9. CASE SpawnGate(c)
  <2>1. /\ UNCHANGED <<queue, stream, removed, loop>> /\ Alone
        /\ cmd'[c].pc = "idle" \/ (cmd'[c].pc = "launch" /\ cmd'[c].msg = m /\ cmd[c].pc = "gate")
    BY <1>9, <1>g, <1>e DEF SpawnGate
  <2>2. ~Coming(c)' /\ NamedAt(c)'
    BY <1>t, <2>1 DEF Coming, NamedAt, Out, m
  <2> QED
    BY <1>r, <2>1, <2>2
<1>10. CASE SpawnLaunch(c)
  <2>1. PICK l \in Loops : l = CHOOSE k \in Loops : At(k, "unborn")
    BY <1>10 DEF SpawnLaunch
  <2>2. /\ queue' = queue /\ Out' = Out /\ Alone /\ cmd'[c].pc = "handle" /\ m \in Out
        /\ loop' = [loop EXCEPT ![l] = LoopAt("ready", m)]
    BY <1>10, <1>t, <2>1 DEF SpawnLaunch, CmdState, NamedAt, Out, m
  <2>a. ~Coming(c)' /\ NamedAt(c)'
    BY <1>i, <2>2
  <2>3. ComingApart' /\ Named'
    BY <2>2, <2>a, CmdMoves
  <2>4. /\ \A k \in Loops \ {l} : loop'[k] = loop[k]
        /\ loop'[l].pc = "ready" /\ loop'[l].trig = m
    BY <2>1, <2>2, TypesAre DEF LoopAt
  <2>5. TrigAt(l)'
    <3>1. loop'[l].trig \in Out'
      BY <2>2, <2>4
    <3>2. loop'[l].pc # "pick"
      BY <2>4
    <3> QED
      BY <3>1, <3>2 DEF TrigAt
  <2>6. TrigOut'
    BY <2>1, <2>2, <2>4, <2>5, LoopMoves
  <2>7. QueueOnce' /\ QueueApart'
    BY <1>p, <2>2 DEF QueueOnce, QueueApart
  <2> QED
    BY <2>3, <2>6, <2>7 DEF Line
<1>11. CASE SpawnStore(c)
  <2>1. UNCHANGED <<queue, stream, removed, loop>> /\ Alone /\ cmd'[c].pc = "idle"
    BY <1>11, <1>e DEF SpawnStore
  <2> QED
    BY <1>i, <1>r, <2>1
<1> QED
  BY <1>1, <1>2, <1>3, <1>4, <1>5, <1>6, <1>7, <1>8, <1>9, <1>10, <1>11, CmdStep(c) DEF CmdStep

LEMMA UserLine ==
  ASSUME NoStops, TypeInv, Line, NEW c \in Cmds, User(c)
  PROVE  Line'
<1> USE DEF db, handle, CmdAt
<1> DEFINE Alone == \A d \in Cmds \ {c} : cmd'[d] = cmd[d]
<1>t. cmd \in [Cmds -> CmdState] /\ QueueOnce /\ QueueApart
  BY TypesAre DEF Line
<1>i. ASSUME NEW op, NEW m, NEW i, NEW pc, Issue(c, op, m, i, pc)
      PROVE  Alone /\ cmd'[c].pc = pc /\ cmd'[c].msg = m /\ op \in Ops
  BY <1>i, <1>t DEF Issue, NoCmd
<1>r. ASSUME UNCHANGED <<queue, stream, removed, loop>>, Alone,
             Coming(c)' => /\ cmd'[c].msg \notin ToSet(queue) \cup Out
                           /\ \A d \in Cmds \ {c} : Coming(d) => cmd[d].msg # cmd'[c].msg,
             NamedAt(c)'
      PROVE  Line'
  <2>1. Out' = Out /\ queue' = queue
    BY <1>r DEF Out
  <2>2. ComingApart' /\ Named'
    <3>1. ToSet(queue') \cup Out' = ToSet(queue) \cup Out
      BY <2>1
    <3> QED
      BY <1>r, <2>1, <3>1, CmdMoves
  <2>3. QueueOnce' /\ QueueApart'
    BY <1>t, <2>1 DEF QueueOnce, QueueApart
  <2> QED
    BY <1>r, <2>1, <2>2, <2>3, LoopsRest DEF Line
<1>1. CASE \E m \in Msgs : SendMessage(c, m)
  <2>1. PICK m \in Msgs : SendMessage(c, m)
    BY <1>1
  <2>2. m \notin ToSet(queue) \cup Out /\ \A d \in Cmds : Coming(d) => cmd[d].msg # m
    BY <2>1 DEF SendMessage, Typed, Out, Coming
  <2>3. /\ UNCHANGED <<queue, stream, removed, loop>> /\ Alone
        /\ cmd'[c].pc \in {"enqueue", "append"} /\ cmd'[c].msg = m
    BY <1>i, <2>1 DEF SendMessage
  <2>4. NamedAt(c)'
    BY <2>3 DEF NamedAt
  <2> QED
    BY <1>r, <2>2, <2>3, <2>4
<1>2. CASE \E m \in Msgs : GuideMessage(c, m) \/ DeleteQueued(c, m)
  <2>1. PICK m \in Msgs : GuideMessage(c, m) \/ DeleteQueued(c, m)
    BY <1>2
  <2>2. /\ UNCHANGED <<queue, stream, removed, loop>> /\ Alone /\ m \in ToSet(queue)
        /\ cmd'[c].pc \in {"dequeue", "remove"} /\ cmd'[c].msg = m
    BY <1>i, <2>1 DEF GuideMessage, DeleteQueued
  <2>3. ~Coming(c)' /\ NamedAt(c)'
    BY <2>2 DEF Coming, NamedAt, Out
  <2> QED
    BY <1>r, <2>2, <2>3
<1>3. CASE \E m \in Msgs : EditMessage(c, m)
  <2>1. PICK m \in Msgs, i \in DOMAIN stream :
          EditMessage(c, m) /\ stream[i] = m /\ Issue(c, "edit", m, i, "truncate")
    BY <1>3 DEF EditMessage
  <2>2. /\ UNCHANGED <<queue, stream, removed, loop>> /\ Alone
        /\ cmd'[c].pc = "truncate" /\ cmd'[c].msg = m
    BY <1>i, <2>1 DEF EditMessage
  <2>3. m \in Out'
    BY <2>1, <2>2 DEF Out, ToSet
  <2>4. ~Coming(c)' /\ NamedAt(c)'
    BY <2>2, <2>3 DEF Coming, NamedAt
  <2> QED
    BY <1>r, <2>2, <2>4
<1>4. CASE \E op \in {"stop", "retry"} : Stop(c, op)
  BY <1>4, <1>i DEF Stop, NoStops
<1>5. CASE ContinueTurn(c)
  <2>1. UNCHANGED <<queue, stream, removed, loop>> /\ Alone /\ cmd'[c].pc = "prepare"
    BY <1>5, <1>i DEF ContinueTurn
  <2>2. ~Coming(c)' /\ NamedAt(c)'
    BY <2>1 DEF Coming, NamedAt
  <2> QED
    BY <1>r, <2>1, <2>2
<1> QED
  BY <1>1, <1>2, <1>3, <1>4, <1>5, User(c) DEF User

LEMMA InitLine == Init => Line
<1> SUFFICES ASSUME Init PROVE Line
  OBVIOUS
<1>1. QueueOnce /\ QueueApart /\ ToSet(queue) \cup Out = {}
  BY DEF Init, QueueOnce, QueueApart, Once, ToSet, Out
<1>2. ComingApart /\ Named
  BY DEF Init, ComingApart, Named, NamedAt, Coming, NoCmd
<1>3. TrigOut
  BY DEF Init, TrigOut, TrigAt, Executing, InRun, LoopAt
<1> QED
  BY <1>1, <1>2, <1>3 DEF Line

LEMMA NextLine ==
  ASSUME NoStops, TypeInv, Line, [Next]_vars
  PROVE  Line'
<1>1. CASE UNCHANGED vars
  <2>1. UNCHANGED <<queue, stream, removed, cmd, loop>>
    BY <1>1 DEF vars, db
  <2>2. Out' = Out
    BY <2>1 DEF Out
  <2> QED
    BY <2>1, <2>2, MessagesRest, LoopsRest DEF Line
<1>2. CASE Next
  BY <1>2, LoopStepLine, CmdStepLine, UserLine DEF Next, LoopMove
<1> QED
  BY <1>1, <1>2

(***************************************************************************)
(* The session as a serial executor. One loop executes at most, so what it *)
(* executes is what the session does now, and each step of the code is a   *)
(* step of SerialExecutor, or none.                                        *)
(***************************************************************************)

SerialInv == DriverInv /\ Line

LEMMA NextSerial ==
  ASSUME NoStops, SerialInv, [Next]_vars
  PROVE  SerialInv'
BY NextDriver, NextLine DEF SerialInv, DriverInv

\* Who executes drives, so there is one; what is executed is its message.
LEMMA CurrentIs ==
  ASSUME SerialInv
  PROVE  /\ \A l \in Loops : Executing(l) => Driver(l) /\ Current = loop[l].trig /\ Current \in Msgs
         /\ (\A l \in Loops : ~Executing(l)) => Current = NoMsg
<1>1. \A l \in Loops : Executing(l) => Driver(l)
  BY DEF SerialInv, DriverInv, Uncut, Executing, InRun, Driver
<1>2. \A k, l \in Loops : Executing(k) /\ Executing(l) => k = l
  BY <1>1 DEF SerialInv, DriverInv, OneDriver
<1>3. ASSUME NEW l \in Loops, Executing(l)
      PROVE  Current = loop[l].trig /\ Current \in Msgs
  <2>1. PICK k \in Loops : k = (CHOOSE x \in Loops : Executing(x)) /\ Executing(k)
    BY <1>3
  <2>2. Current = loop[k].trig /\ k = l
    BY <1>2, <1>3, <2>1 DEF Current
  <2>3. loop[l].trig \in Out /\ Out \subseteq Msgs
    BY <1>3, TypesAre DEF SerialInv, DriverInv, Line, TrigOut, TrigAt
  <2> QED
    BY <2>2, <2>3
<1>4. (\A l \in Loops : ~Executing(l)) => Current = NoMsg
  BY DEF Current
<1> QED
  BY <1>1, <1>3, <1>4

LEMMA CurrentNext ==
  ASSUME SerialInv'
  PROVE  /\ \A l \in Loops : Executing(l)' => Current' = loop'[l].trig
         /\ (\A l \in Loops : ~Executing(l)') => Current' = NoMsg
<1>1. \A l \in Loops : Executing(l)' => Driver(l)'
  BY DEF SerialInv, DriverInv, Uncut, Executing, InRun, Driver
<1>2. \A k, l \in Loops : Executing(k)' /\ Executing(l)' => k = l
  BY <1>1 DEF SerialInv, DriverInv, OneDriver
<1>3. ASSUME NEW l \in Loops, Executing(l)'
      PROVE  Current' = loop'[l].trig
  <2>1. PICK k \in Loops : k = (CHOOSE x \in Loops : Executing(x)') /\ Executing(k)'
    BY <1>3
  <2>2. Current' = loop'[k].trig /\ k = l
    BY <1>2, <1>3, <2>1 DEF Current
  <2> QED
    BY <2>2
<1>4. (\A l \in Loops : ~Executing(l)') => Current' = NoMsg
  BY DEF Current
<1> QED
  BY <1>3, <1>4

\* Nobody takes up or lays down a message.
LEMMA CurrentKept ==
  ASSUME SerialInv, SerialInv',
         \A l \in Loops : /\ Executing(l)' <=> Executing(l)
                          /\ Executing(l) => loop'[l].trig = loop[l].trig
  PROVE  Current' = Current
<1>1. CASE \E l \in Loops : Executing(l)
  <2>1. PICK l \in Loops : Executing(l) /\ Executing(l)'
    BY <1>1
  <2>2. Current = loop[l].trig
    BY <2>1, CurrentIs
  <2>3. Current' = loop'[l].trig
    BY <2>1, CurrentNext
  <2> QED
    BY <2>1, <2>2, <2>3
<1>2. CASE \A l \in Loops : ~Executing(l)
  <2>1. Current = NoMsg
    BY <1>2, CurrentIs
  <2>2. \A l \in Loops : ~Executing(l)'
    BY <1>2
  <2>3. Current' = NoMsg
    BY <2>2, CurrentNext
  <2> QED
    BY <2>1, <2>3
<1> QED
  BY <1>1, <1>2

\* The driver, not executing, begins to: nobody was.
LEMMA CurrentComes ==
  ASSUME SerialInv, SerialInv', NEW l \in Loops, Driver(l), ~Executing(l), Executing(l)'
  PROVE  Current = NoMsg /\ Current' = loop'[l].trig
<1>1. \A k \in Loops : ~Executing(k)
  BY CurrentIs DEF SerialInv, DriverInv, OneDriver
<1>2. Current = NoMsg
  BY <1>1, CurrentIs
<1> QED
  BY <1>2, CurrentNext

\* The one that executes is done.
LEMMA CurrentGoes ==
  ASSUME SerialInv, SerialInv', NEW l \in Loops, Executing(l), ~Executing(l)',
         \A k \in Loops \ {l} : loop'[k] = loop[k]
  PROVE  Current # NoMsg /\ Current' = NoMsg
<1>1. Current # NoMsg
  BY CurrentIs, SessionRunAssumption DEF SessionRunAssumption
<1>2. \A k \in Loops \ {l} : ~Executing(k)
  BY CurrentIs DEF SerialInv, DriverInv, OneDriver
<1>3. \A k \in Loops : ~Executing(k)'
  BY <1>2 DEF Executing, InRun
<1> QED
  BY <1>1, <1>3, CurrentNext

SerialStep == [Serial!Next]_<<queue, Current>>

LEMMA LoopStepSerial ==
  ASSUME SerialInv, SerialInv', NEW l \in Loops, LoopMove(l)
  PROVE  SerialStep
<1> USE DEF db, handle, At
<1>t. /\ loop \in [Loops -> LoopState] /\ loop[l] \in LoopState /\ ~loop[l].cancelled
      /\ queue \in Seq(Msgs)
  BY TypesAre DEF SerialInv, DriverInv, Uncut
<1> DEFINE Alone == \A k \in Loops \ {l} : loop'[k] = loop[k]
<1>k. ASSUME NEW pc, Goto(l, pc)
      PROVE  Alone /\ loop'[l].pc = pc /\ loop'[l].trig = loop[l].trig
  BY <1>k, <1>t DEF Goto, LoopState
<1>s. ASSUME queue' = queue, Alone, Executing(l)' <=> Executing(l),
             Executing(l) => loop'[l].trig = loop[l].trig
      PROVE  SerialStep
  <2>1. \A k \in Loops \ {l} : Executing(k)' <=> Executing(k)
    BY <1>s DEF Executing, InRun
  <2>2. Current' = Current
    BY <1>s, <2>1, CurrentKept
  <2> QED
    BY <1>s, <2>2 DEF SerialStep
<1>1. CASE Begin(l) \/ PopNothing(l) \/ PopFails(l) \/ ClearActive(l)
  <2>1. /\ queue' = queue /\ Alone
        /\ loop[l].pc \in {"ready", "pick", "clear", "broke"}
        /\ loop'[l].pc \in {"pick", "clear", "broke", "sweep"}
    BY <1>1, <1>k DEF Begin, PopNothing, PopFails, ClearActive
  <2>2. ~Executing(l) /\ ~Executing(l)'
    BY <2>1 DEF Executing, InRun
  <2> QED
    BY <1>s, <2>1, <2>2
<1>2. CASE Sweep(l)
  <2>1. queue' = queue /\ Alone /\ loop[l].pc = "sweep" /\ loop'[l].pc = "dead"
    BY <1>2, <1>t DEF Sweep, EndLoop, LoopAt
  <2>2. ~Executing(l) /\ ~Executing(l)'
    BY <2>1 DEF Executing, InRun
  <2> QED
    BY <1>s, <2>1, <2>2
<1>3. CASE \/ CreateRun(l) \/ MarkActive(l) \/ BuildContext(l) \/ ToolRound(l)
           \/ ReachLimit(l) \/ StepsGranted(l) \/ StepsRefused(l)
           \/ \E o \in AllOutcomes : Return(l, o)
  <2>1. queue' = queue
    BY <1>3 DEF CreateRun, MarkActive, BuildContext, ToolRound, ReachLimit,
       StepsGranted, StepsRefused, Return
  <2>2. Executing(l) /\ Executing(l)' /\ Alone /\ loop'[l].trig = loop[l].trig
    <3>1. CASE CreateRun(l)
      BY <1>t, <3>1 DEF CreateRun, Executing, InRun, LoopState
    <3>2. CASE MarkActive(l)
      BY <1>t, <3>2 DEF MarkActive, Executing, InRun, LoopState
    <3>3. CASE BuildContext(l)
      BY <1>t, <3>3 DEF BuildContext, Executing, InRun, LoopState
    <3>4. CASE ToolRound(l)
      BY <1>t, <3>4 DEF ToolRound, Executing, InRun, LoopState
    <3>5. CASE \E o \in AllOutcomes : Return(l, o)
      BY <1>k, <3>5 DEF Return, Executing, InRun
    <3>6. CASE ReachLimit(l) \/ StepsRefused(l)
      BY <1>k, <3>6 DEF ReachLimit, StepsRefused, Executing, InRun
    <3>7. CASE StepsGranted(l)
      BY <1>t, <3>7 DEF StepsGranted, Executing, InRun, LoopState
    <3> QED
      BY <1>3, <3>1, <3>2, <3>3, <3>4, <3>5, <3>6, <3>7
  <2> QED
    BY <1>s, <2>1, <2>2
<1>4. CASE CreateRunFails(l) \/ RecordFailed(l) \/ RecordDone(l)
  <2>1. queue' = queue /\ loop[l].pc \in {"create", "failed", "finished"}
    BY <1>4 DEF CreateRunFails, RecordFailed, RecordDone
  <2>2. Alone /\ loop'[l].pc \in {"clear", "broke", "pick"}
    BY <1>4, <1>k, <1>t DEF CreateRunFails, RecordFailed, RecordDone, LoopAt
  <2>3. Executing(l) /\ ~Executing(l)'
    BY <2>1, <2>2 DEF Executing, InRun
  <2>4. Current # NoMsg /\ Current' = NoMsg
    BY <2>2, <2>3, CurrentGoes
  <2>5. Serial!Finish
    BY <2>1, <2>4 DEF Serial!Finish
  <2> QED
    BY <2>5 DEF SerialStep, Serial!Next
<1>5. CASE PickTrigger(l)
  <2>1. /\ queue' = queue /\ loop[l].pc = "pick" /\ loop[l].trig # NoMsg
        /\ loop'[l].pc = "create" /\ loop'[l].trig = loop[l].trig
    BY <1>5, <1>k DEF PickTrigger
  <2>2. Driver(l) /\ ~Executing(l) /\ Executing(l)'
    BY <1>t, <2>1 DEF Driver, Executing, InRun
  <2>3. Current = NoMsg /\ Current' = loop[l].trig
    BY <2>1, <2>2, CurrentComes
  <2>4. loop[l].trig \in Msgs /\ loop[l].trig \notin ToSet(queue)
    BY <2>1, TypesAre DEF SerialInv, DriverInv, Line, TrigOut, TrigAt, QueueApart
  <2>5. Serial!StartDirect(loop[l].trig)
    BY <2>1, <2>3, <2>4 DEF Serial!StartDirect, Serial!ToSet, ToSet
  <2> QED
    BY <2>4, <2>5 DEF SerialStep, Serial!Next
<1>6. CASE PopQueued(l)
  <2>1. /\ queue # <<>> /\ queue' = Tail(queue) /\ loop[l].pc = "pick"
        /\ loop'[l].pc = "create" /\ loop'[l].trig = Head(queue)
    BY <1>6, <1>t DEF PopQueued, LoopState
  <2>2. Driver(l) /\ ~Executing(l) /\ Executing(l)'
    BY <1>t, <2>1 DEF Driver, Executing, InRun
  <2>3. Current = NoMsg /\ Current' = Head(queue)
    BY <2>1, <2>2, CurrentComes
  <2>4. Serial!StartHead
    BY <2>1, <2>3 DEF Serial!StartHead
  <2> QED
    BY <2>4 DEF SerialStep, Serial!Next
<1>7. CASE Drop(l)
  BY <1>7, <1>t DEF Drop
<1> QED
  BY <1>1, <1>2, <1>3, <1>4, <1>5, <1>6, <1>7, LoopMove(l) DEF LoopMove, LoopStep

\* A command or a user executes nothing itself, and touches the queue only as
\* SerialExecutor lets it.
LEMMA CmdSerial ==
  ASSUME NoStops, SerialInv, SerialInv', NEW c \in Cmds, CmdStep(c) \/ User(c)
  PROVE  SerialStep
<1> USE DEF db, handle, CmdAt
<1>1. Current' = Current
  <2>1. CASE SpawnLaunch(c)
    <3>1. PICK l \in Loops : /\ loop[l].pc = "unborn"
                             /\ loop' = [loop EXCEPT ![l] = LoopAt("ready", cmd[c].msg)]
      BY <2>1 DEF SpawnLaunch, At
    <3>2. /\ \A k \in Loops \ {l} : loop'[k] = loop[k]
          /\ loop'[l].pc = "ready"
      BY <3>1, TypesAre DEF SerialInv, DriverInv, LoopAt
    <3>3. ~Executing(l) /\ ~Executing(l)'
      BY <3>1, <3>2 DEF Executing, InRun
    <3>4. \A k \in Loops \ {l} : Executing(k)' <=> Executing(k)
      BY <3>2 DEF Executing, InRun
    <3> QED
      BY <3>2, <3>3, <3>4, CurrentKept
  <2>2. CASE ~SpawnLaunch(c)
    <3>1. loop' = loop
      <4>1. CASE CmdStep(c)
        BY <2>2, <4>1 DEF CmdStep, InsertQueued, InsertDirect, DequeueGuided, GuideCheck,
           RemoveQueued, CancelOpenRuns, ChooseLast, Truncate, PrepareContinue, SpawnGate,
           SpawnStore
      <4>2. CASE User(c)
        BY <4>2 DEF User, SendMessage, GuideMessage, DeleteQueued, EditMessage, Stop,
           ContinueTurn, Issue, NoStops
      <4> QED
        BY <4>1, <4>2
    <3>2. \A k \in Loops : Executing(k)' <=> Executing(k)
      BY <3>1 DEF Executing, InRun
    <3> QED
      BY <3>1, <3>2, CurrentKept
  <2> QED
    BY <2>1, <2>2
<1>2. CASE InsertQueued(c)
  <2>1. cmd[c].msg \in Msgs
    BY <1>2, TypesAre DEF SerialInv, DriverInv, TypeInv, CmdLocals, CmdState, InsertQueued
  <2>2. Serial!Enqueue(cmd[c].msg)
    BY <1>1, <1>2 DEF Serial!Enqueue, InsertQueued
  <2> QED
    BY <2>1, <2>2 DEF SerialStep, Serial!Next
<1>3. CASE DequeueGuided(c) \/ RemoveQueued(c)
  <2>1. CASE queue' = queue
    BY <1>1, <2>1 DEF SerialStep
  <2>2. CASE \E i \in DOMAIN queue : queue' = RemoveAt(queue, i)
    <3>1. Serial!Leave
      BY <1>1, <2>2 DEF Serial!Leave, Serial!RemoveAt, RemoveAt
    <3> QED
      BY <3>1 DEF SerialStep, Serial!Next
  <2> QED
    BY <1>3, <2>1, <2>2 DEF DequeueGuided, RemoveQueued
<1>4. CASE ~InsertQueued(c) /\ ~DequeueGuided(c) /\ ~RemoveQueued(c)
  <2>1. queue' = queue
    <3>1. CASE CmdStep(c)
      BY <1>4, <3>1 DEF CmdStep, InsertDirect, GuideCheck, CancelOpenRuns, ChooseLast,
         Truncate, PrepareContinue, SpawnGate, SpawnLaunch, SpawnStore
    <3>2. CASE User(c)
      BY <3>2 DEF User, SendMessage, GuideMessage, DeleteQueued, EditMessage, Stop,
         ContinueTurn
    <3> QED
      BY <3>1, <3>2
  <2> QED
    BY <1>1, <2>1 DEF SerialStep
<1> QED
  BY <1>2, <1>3, <1>4

LEMMA NextIsSerial ==
  ASSUME NoStops, SerialInv, SerialInv', [Next]_vars
  PROVE  SerialStep
<1>1. CASE UNCHANGED vars
  <2>1. queue' = queue /\ loop' = loop
    BY <1>1 DEF vars, db
  <2>2. \A k \in Loops : Executing(k)' <=> Executing(k)
    BY <2>1 DEF Executing, InRun
  <2>3. Current' = Current
    BY <2>1, <2>2, CurrentKept
  <2> QED
    BY <2>1, <2>3 DEF SerialStep
<1>2. CASE Next
  BY <1>2, LoopStepSerial, CmdSerial DEF Next, LoopMove
<1> QED
  BY <1>1, <1>2

\* As long as nobody stops or retries, the session executes one message at a
\* time, the queued ones in the order in which they were queued, whatever is
\* sent, guided, deleted, edited and continued meanwhile and however a run
\* ends: run_loop, pop_queued and spawn_session_task implement SerialExecutor.
THEOREM SerialAlways == NoStops => (Spec => ExecutesSerially)
<1> SUFFICES ASSUME NoStops PROVE Spec => ExecutesSerially
  OBVIOUS
<1>1. Init => SerialInv
  BY InitDriver, InitLine DEF SerialInv
<1>2. SerialInv /\ [Next]_vars => SerialInv'
  BY NextSerial
<1>3. Init => Serial!Init
  <2> SUFFICES ASSUME Init PROVE Serial!Init
    OBVIOUS
  <2>1. SerialInv /\ \A l \in Loops : ~Executing(l)
    BY <1>1 DEF Init, Executing, InRun, LoopAt
  <2>2. Current = NoMsg
    BY <2>1, CurrentIs
  <2> QED
    BY <2>2 DEF Serial!Init, Init
<1>4. SerialInv /\ SerialInv' /\ [Next]_vars => [Serial!Next]_<<queue, Current>>
  BY NextIsSerial DEF SerialStep
<1> QED
  BY <1>1, <1>2, <1>3, <1>4, PTL DEF Spec, ExecutesSerially, Serial!Spec

(***************************************************************************)
(* A failure holds the queue. A loop in a run wrote the last row, and one  *)
(* that looks for work without a trigger has not written a failure there:  *)
(* it comes from a run it recorded as done.                                *)
(***************************************************************************)

LastFailed == runs # <<>> /\ Last(runs).status = "failed"
LatestAt(l) ==
  /\ InRun(l) => runs # <<>> /\ loop[l].run = Len(runs)
  /\ loop[l].pc = "pick" /\ loop[l].trig = NoMsg => ~LastFailed
Latest == \A l \in Loops : LatestAt(l)

LatestInv == SerialInv /\ Latest

\* Closing the open rows neither adds a row nor makes the last one a failure.
LEMMA ClosingKeepsLast ==
  ASSUME runs \in Seq(RunRow), NEW s \in Statuses, s # "failed", CloseOpen(s)
  PROVE  /\ Len(runs') = Len(runs) /\ (runs' = <<>> <=> runs = <<>>)
         /\ LastFailed' => LastFailed
<1>1. /\ runs' \in Seq(RunRow) /\ DOMAIN runs' = DOMAIN runs
  BY CloseOpenType
<1>2. /\ DOMAIN runs = 1 .. Len(runs) /\ Len(runs) \in Nat
      /\ DOMAIN runs' = 1 .. Len(runs') /\ Len(runs') \in Nat
  BY <1>1, LenProperties
<1>3. Len(runs') = Len(runs)
  BY <1>1, <1>2
<1>4. runs' = <<>> <=> runs = <<>>
  BY <1>1, <1>3, EmptySeq
<1>5. ASSUME LastFailed' PROVE LastFailed
  <2>1. /\ runs # <<>> /\ runs'[Len(runs)].status = "failed"
    BY <1>3, <1>4, <1>5 DEF LastFailed, Last
  <2>2. Len(runs) \in DOMAIN runs
    BY <1>2, <2>1, EmptySeq
  <2>3. runs[Len(runs)] \in RunRow
    BY <2>2, ElementOfSeq
  <2>4. runs[Len(runs)].status = "failed"
    BY <2>1, <2>2, <2>3 DEF CloseOpen, RunRow
  <2> QED
    BY <2>1, <2>4 DEF LastFailed, Last
<1> QED
  BY <1>3, <1>4, <1>5

\* While a loop drives, no other one is in a run or looks for work.
LEMMA OthersIdle ==
  ASSUME LatestInv, NEW l \in Loops, Driver(l), NEW k \in Loops \ {l}, loop'[k] = loop[k]
  PROVE  LatestAt(k)'
<1>1. ~Driver(k) /\ ~loop[k].cancelled
  BY DEF LatestInv, SerialInv, DriverInv, OneDriver, Uncut
<1> QED
  BY <1>1 DEF LatestAt, Driver, InRun

LEMMA LoopStepLatest ==
  ASSUME LatestInv, NEW l \in Loops, LoopMove(l)
  PROVE  Latest'
<1> USE DEF db, handle, At
<1>t. /\ loop \in [Loops -> LoopState] /\ loop[l] \in LoopState /\ ~loop[l].cancelled
      /\ runs \in Seq(RunRow) /\ Len(runs) \in Nat /\ LatestAt(l)
  BY TypesAre, LenProperties
     DEF LatestInv, SerialInv, DriverInv, Uncut, TypeInv, TypeOK, Latest
<1> DEFINE Alone == \A k \in Loops \ {l} : loop'[k] = loop[k]
<1>k. ASSUME NEW pc, Goto(l, pc)
      PROVE  /\ Alone /\ loop'[l].pc = pc /\ loop'[l].trig = loop[l].trig
             /\ loop'[l].run = loop[l].run
  BY <1>k, <1>t DEF Goto, LoopState
<1>s. ASSUME loop[l].pc \notin {"unborn", "sweep", "dead"}, Alone, LatestAt(l)'
      PROVE  Latest'
  BY <1>s, <1>t, OthersIdle DEF Driver, Latest
<1>1. CASE Sweep(l)
  <2>1. /\ Len(runs') = Len(runs) /\ (runs' = <<>> <=> runs = <<>>)
        /\ LastFailed' => LastFailed
    BY <1>1, <1>t, ClosingKeepsLast, Names DEF Sweep
  <2>2. Alone /\ loop'[l].pc = "dead"
    BY <1>1, <1>t DEF Sweep, EndLoop, LoopAt
  <2>3. ASSUME NEW k \in Loops PROVE LatestAt(k)'
    BY <2>1, <2>2 DEF LatestInv, Latest, LatestAt, InRun
  <2> QED
    BY <2>3 DEF Latest
<1>2. CASE Begin(l)
  <2>1. loop[l].pc = "ready" /\ loop[l].trig # NoMsg
    <3>1. loop[l].pc = "ready"
      BY <1>2 DEF Begin
    <3>2. loop[l].trig \in Msgs
      BY <3>1, TypesAre DEF LatestInv, SerialInv, DriverInv, Line, TrigOut, TrigAt
    <3> QED
      BY <3>1, <3>2, SessionRunAssumption DEF SessionRunAssumption
  <2>2. Alone /\ loop'[l].pc = "pick" /\ loop'[l].trig = loop[l].trig
    BY <1>2, <1>k DEF Begin
  <2>3. LatestAt(l)'
    BY <2>1, <2>2 DEF LatestAt, InRun
  <2> QED
    BY <1>s, <2>1, <2>2, <2>3
<1>3. CASE \/ PickTrigger(l) \/ PopQueued(l) \/ PopNothing(l) \/ PopFails(l)
           \/ CreateRunFails(l) \/ ClearActive(l) \/ RecordFailed(l)
  <2>1. loop[l].pc \in {"pick", "create", "clear", "broke", "failed"}
    BY <1>3 DEF PickTrigger, PopQueued, PopNothing, PopFails, CreateRunFails, ClearActive,
       RecordFailed
  <2>2. Alone /\ loop'[l].pc \in {"create", "clear", "broke", "sweep"}
    <3>1. CASE PopQueued(l)
      BY <1>t, <3>1 DEF PopQueued, LoopState
    <3>2. CASE ~PopQueued(l)
      BY <1>3, <1>k, <3>2 DEF PickTrigger, PopNothing, PopFails, CreateRunFails, ClearActive,
         RecordFailed
    <3> QED
      BY <3>1, <3>2
  <2>3. LatestAt(l)'
    BY <2>2 DEF LatestAt, InRun
  <2> QED
    BY <1>s, <2>1, <2>2, <2>3
<1>4. CASE CreateRun(l)
  <2> DEFINE row == [trig |-> loop[l].trig, status |-> "running"]
  <2>1. loop[l].pc = "create" /\ runs' = Append(runs, row)
    BY <1>4 DEF CreateRun
  <2>2. Alone /\ loop'[l].pc = "mark" /\ loop'[l].run = Len(runs) + 1
    BY <1>4, <1>t DEF CreateRun, LoopState
  <2>a. loop[l].trig \in Msgs
    BY <2>1, TypesAre DEF LatestInv, SerialInv, DriverInv, Line, TrigOut, TrigAt, Executing
  <2>3. row \in RunRow
    BY <2>a, Names DEF RunRow
  <2>4. Len(runs') = Len(runs) + 1 /\ runs' # <<>>
    BY <1>t, <2>1, <2>3, AppendProperties
  <2>5. LatestAt(l)'
    BY <2>2, <2>4 DEF LatestAt
  <2> QED
    BY <1>s, <2>1, <2>2, <2>5
<1>5. CASE \/ MarkActive(l) \/ BuildContext(l) \/ ToolRound(l)
           \/ ReachLimit(l) \/ StepsGranted(l) \/ StepsRefused(l)
           \/ \E o \in AllOutcomes : Return(l, o)
  <2>1. runs' = runs /\ InRun(l)
    BY <1>5 DEF MarkActive, BuildContext, ToolRound, ReachLimit, StepsGranted, StepsRefused,
       Return, InRun
  <2>2. Alone /\ InRun(l)' /\ loop'[l].run = loop[l].run
    <3>1. CASE MarkActive(l)
      BY <1>t, <3>1 DEF MarkActive, InRun, LoopState
    <3>2. CASE BuildContext(l)
      BY <1>t, <3>2 DEF BuildContext, InRun, LoopState
    <3>3. CASE ToolRound(l)
      BY <1>t, <3>3 DEF ToolRound, InRun, LoopState
    <3>4. CASE \E o \in AllOutcomes : Return(l, o)
      BY <1>k, <3>4 DEF Return, InRun
    <3>5. CASE ReachLimit(l) \/ StepsRefused(l)
      BY <1>k, <3>5 DEF ReachLimit, StepsRefused, InRun
    <3>6. CASE StepsGranted(l)
      BY <1>t, <3>6 DEF StepsGranted, InRun, LoopState
    <3> QED
      BY <1>5, <3>1, <3>2, <3>3, <3>4, <3>5, <3>6
  <2>3. LatestAt(l)'
    BY <1>t, <2>1, <2>2 DEF LatestAt, InRun
  <2> QED
    BY <1>s, <2>1, <2>2, <2>3 DEF InRun
<1>6. CASE RecordDone(l)
  <2>1. loop[l].pc = "finished" /\ SetStatus(loop[l].run, "done")
    BY <1>6 DEF RecordDone
  <2>2. Alone /\ loop'[l].pc = "pick"
    BY <1>6, <1>t DEF RecordDone, LoopAt
  <2>3. runs # <<>> /\ loop[l].run = Len(runs)
    BY <1>t, <2>1 DEF LatestAt, InRun
  <2>4. Len(runs) \in DOMAIN runs /\ runs[Len(runs)] \in RunRow
    BY <1>t, <2>3, LenProperties, EmptySeq, ElementOfSeq
  <2>5. runs' \in Seq(RunRow) /\ Len(runs') = Len(runs)
    <3>1. runs' \in Seq(RunRow) /\ DOMAIN runs' = DOMAIN runs
      BY <1>t, <2>1, SetStatusType, Names
    <3> QED
      BY <1>t, <3>1, LenProperties
  <2>6. runs'[Len(runs)].status = "done"
    BY <2>1, <2>3, <2>4 DEF SetStatus, RunRow
  <2>7. ~LastFailed'
    BY <2>5, <2>6 DEF LastFailed, Last
  <2>8. LatestAt(l)'
    BY <2>2, <2>7 DEF LatestAt, InRun
  <2> QED
    BY <1>s, <2>1, <2>2, <2>8
<1>7. CASE Drop(l)
  BY <1>7, <1>t DEF Drop
<1> QED
  BY <1>1, <1>2, <1>3, <1>4, <1>5, <1>6, <1>7, LoopMove(l) DEF LoopMove, LoopStep

LEMMA CmdLatest ==
  ASSUME NoStops, LatestInv, NEW c \in Cmds, CmdStep(c) \/ User(c)
  PROVE  Latest'
<1> USE DEF db, handle, CmdAt
<1>1. cmd[c].pc # "cancelRuns"
  BY DEF LatestInv, SerialInv, Line, Named, NamedAt
<1>2. runs' = runs
  <2>1. CASE CmdStep(c)
    BY <1>1, <2>1 DEF CmdStep, InsertQueued, InsertDirect, DequeueGuided, GuideCheck,
       RemoveQueued, CancelOpenRuns, ChooseLast, Truncate, PrepareContinue, SpawnGate,
       SpawnLaunch, SpawnStore
  <2>2. CASE User(c)
    BY <2>2 DEF User, SendMessage, GuideMessage, DeleteQueued, EditMessage, Stop,
       ContinueTurn
  <2> QED
    BY <2>1, <2>2
<1>3. CASE SpawnLaunch(c)
  <2>1. PICK l \in Loops : loop' = [loop EXCEPT ![l] = LoopAt("ready", cmd[c].msg)]
    BY <1>3 DEF SpawnLaunch, At
  <2>2. (\A k \in Loops \ {l} : loop'[k] = loop[k]) /\ loop'[l].pc = "ready"
    BY <2>1, TypesAre DEF LatestInv, SerialInv, DriverInv, LoopAt
  <2> QED
    BY <1>2, <2>2 DEF LatestInv, Latest, LatestAt, LastFailed, InRun
<1>4. CASE ~SpawnLaunch(c)
  <2>1. loop' = loop
    <3>1. CASE CmdStep(c)
      BY <1>4, <3>1 DEF CmdStep, InsertQueued, InsertDirect, DequeueGuided, GuideCheck,
         RemoveQueued, CancelOpenRuns, ChooseLast, Truncate, PrepareContinue, SpawnGate,
         SpawnStore
    <3>2. CASE User(c)
      BY <3>2 DEF User, SendMessage, GuideMessage, DeleteQueued, EditMessage, Stop,
         ContinueTurn, Issue, NoStops
    <3> QED
      BY <3>1, <3>2
  <2> QED
    BY <1>2, <2>1 DEF LatestInv, Latest, LatestAt, LastFailed, InRun
<1> QED
  BY <1>3, <1>4

HeldStep ==
  \A l \in Loops :
    At(l, "pick") /\ loop'[l].pc = "create" /\ queue' # queue
      => runs = <<>> \/ Last(runs).status # "failed"

\* Only PopQueued takes a message out of the queue to run it.
LEMMA PopsHeld ==
  ASSUME NoStops, LatestInv, Next
  PROVE  HeldStep
<1> USE DEF db, handle
<1> SUFFICES ASSUME NEW l \in Loops, At(l, "pick"), loop'[l].pc = "create", queue' # queue
             PROVE  loop[l].trig = NoMsg
  BY DEF HeldStep, LatestInv, Latest, LatestAt, LastFailed, At
<1>t. loop \in [Loops -> LoopState] /\ Uncut
  BY TypesAre DEF LatestInv, SerialInv, DriverInv
<1>1. CASE \E k \in Loops : LoopMove(k)
  <2>1. PICK k \in Loops : LoopMove(k)
    BY <1>1
  <2>2. PopQueued(k)
    BY <2>1 DEF LoopMove, LoopStep, Begin, PickTrigger, PopNothing, PopFails, CreateRun,
       CreateRunFails, MarkActive, BuildContext, ToolRound, ReachLimit, StepsGranted,
       StepsRefused, Return, RecordDone, RecordFailed, ClearActive, Sweep, Drop
  <2>3. k = l
    BY <1>t, <2>2 DEF PopQueued, At
  <2> QED
    BY <2>2, <2>3 DEF PopQueued
<1>2. CASE \E c \in Cmds : CmdStep(c) \/ User(c)
  <2>1. PICK c \in Cmds : CmdStep(c) \/ User(c)
    BY <1>2
  <2>2. loop' = loop
    <3>1. CASE CmdStep(c)
      <4>1. InsertQueued(c) \/ DequeueGuided(c) \/ RemoveQueued(c)
        BY <3>1 DEF CmdStep, InsertDirect, GuideCheck, CancelOpenRuns, ChooseLast, Truncate,
           PrepareContinue, SpawnGate, SpawnLaunch, SpawnStore
      <4> QED
        BY <4>1 DEF InsertQueued, DequeueGuided, RemoveQueued
    <3>2. CASE User(c)
      BY <3>2 DEF User, SendMessage, GuideMessage, DeleteQueued, EditMessage, Stop,
         ContinueTurn, Issue, NoStops
    <3> QED
      BY <2>1, <3>1, <3>2
  <2> QED
    BY <2>2 DEF At
<1> QED
  BY <1>1, <1>2 DEF Next, LoopMove

\* As long as nobody stops or retries, a loop that takes a queued message
\* does not do so behind a failure: run_loop breaks out on Failed, and only a
\* new command of the user spawns the next loop, with a trigger of its own.
THEOREM FailureHoldsAlways == NoStops => (Spec => FailureHoldsQueue)
<1> SUFFICES ASSUME NoStops PROVE Spec => FailureHoldsQueue
  OBVIOUS
<1>1. Init => LatestInv
  BY InitDriver, InitLine
     DEF LatestInv, SerialInv, Latest, LatestAt, LastFailed, InRun, Init, LoopAt
<1>2. LatestInv /\ [Next]_vars => LatestInv'
  <2> SUFFICES ASSUME LatestInv, [Next]_vars PROVE LatestInv'
    OBVIOUS
  <2>1. SerialInv'
    BY NextSerial DEF LatestInv
  <2>2. ASSUME UNCHANGED vars PROVE Latest'
    BY <2>2 DEF LatestInv, Latest, LatestAt, LastFailed, InRun, vars, db
  <2>3. ASSUME Next PROVE Latest'
    BY <2>3, LoopStepLatest, CmdLatest DEF Next, LoopMove
  <2>4. Latest'
    BY <2>2, <2>3
  <2> QED
    BY <2>1, <2>4 DEF LatestInv
<1>3. LatestInv /\ [Next]_vars => [HeldStep]_vars
  BY PopsHeld
<1> QED
  BY <1>1, <1>2, <1>3, PTL DEF Spec, FailureHoldsQueue, HeldStep
=============================================================================

---------------------------- MODULE LongTaskProofs ----------------------------
(* Theorems about LongTask, for any tasks, daemons, threads and bounds.      *)
EXTENDS LongTask, TLAPS

(***************************************************************************)
(* The invariant. Behind a registered channel is a daemon of that task, so *)
(* who hears of an end hears of his own task's; a daemon past its first    *)
(* write has a copy that says running; only one on its way out has pushed  *)
(* after it was told.                                                      *)
(***************************************************************************)
ControlOK ==
  \A t \in Tasks : control[t] # None =>
    daemon[control[t]].pc # "gone" /\ daemon[control[t]].task = t

HeardOK ==
  \A d \in Daemons :
    daemon[d].heard \in {"Cancel", "Complete"} \/ daemon[d].pc = "finish"
      => daemon[d].task \in ended

CopyOK ==
  \A d \in Daemons :
    daemon[d].pc \notin {"gone", "init", "leave"} => daemon[d].copy.st = "running"

WayOut == {"top", "pauseCheck", "pauseWrite", "leave"}
LateOK ==
  \A d \in Daemons :
    late[d] = 0 \/ (late[d] = 1 /\ daemon[d].heard # "Running" /\ daemon[d].pc \in WayOut)

\* What a restart does not undo.
RowsOK == UndrivenWasEnded /\ CompletedIsArchived

Inv == TypeOK /\ ControlOK /\ HeardOK /\ CopyOK /\ LateOK /\ RowsOK

LEMMA Records ==
  ASSUME LongTaskAssumption
  PROVE  NoRow \in Row /\ Gone \in Daemon /\ Idle \in Proc /\ 0 \in 0..2
BY DEF LongTaskAssumption, NoRow, Gone, Idle, Row, Status, Daemon, DaemonPcs, Signals,
       Proc, ProcPcs, Ops

\* A table that stays, of daemons that neither go nor change their task.
LEMMA ControlKept ==
  ASSUME Inv, control' = control,
         \A e \in Daemons : /\ daemon'[e].task = daemon[e].task
                            /\ daemon[e].pc # "gone" => daemon'[e].pc # "gone"
  PROVE  ControlOK'
<1>1. \A u \in Tasks : control[u] # None => control[u] \in Daemons
  BY DEF Inv, TypeOK
<1> QED
  BY <1>1 DEF Inv, ControlOK

(***************************************************************************)
(* Steps of a daemon.                                                      *)
(***************************************************************************)

\* A daemon that only moves on: it stays one that drives its task, unless that
\* is not running, or over.
LEMMA Moves ==
  ASSUME Inv, NEW d \in Daemons, NEW pc \in DaemonPcs \ {"gone", "init", "finish"},
         daemon[d].pc \notin {"gone", "init", "leave"},
         Goto(d, pc), UNCHANGED <<row, saved, newest, control, proc, ended, late, cmds>>,
         on' \in BOOLEAN, last' \in {"user", "goal", "confirm", "other"},
         late[d] = 0 \/ pc \in WayOut,
         pc = "leave" => row[daemon[d].task].st # "running" \/ daemon[d].task \in ended
  PROVE  Inv'
<1>0. control' = control /\ ended' = ended /\ late' = late
  OBVIOUS
<1>1. /\ daemon \in [Daemons -> Daemon] /\ daemon[d] \in Daemon
      /\ daemon' = [daemon EXCEPT ![d].pc = pc]
  BY DEF Inv, TypeOK, Goto
<1>2. /\ daemon' \in [Daemons -> Daemon] /\ daemon'[d] = [daemon[d] EXCEPT !.pc = pc]
      /\ \A e \in Daemons \ {d} : daemon'[e] = daemon[e]
  BY <1>1 DEF Daemon
<1>3. /\ daemon'[d].pc = pc /\ daemon'[d].task = daemon[d].task
      /\ daemon'[d].copy = daemon[d].copy /\ daemon'[d].heard = daemon[d].heard
  BY <1>1, <1>2 DEF Daemon
<1>4. TypeOK'
  BY <1>2, <1>3 DEF Inv, TypeOK, At, Is
<1>5. ControlOK'
  <2>1. \A e \in Daemons : /\ daemon'[e].task = daemon[e].task
                           /\ daemon[e].pc # "gone" => daemon'[e].pc # "gone"
    BY <1>2, <1>3
  <2> QED
    BY <1>0, <2>1, ControlKept
<1>8. HeardOK'
  BY <1>0, <1>2, <1>3 DEF Inv, HeardOK
<1>9. CopyOK'
  <2>1. daemon'[d].copy.st = "running"
    BY <1>3 DEF Inv, CopyOK
  <2> QED
    BY <1>2, <2>1 DEF Inv, CopyOK
<1>6. LateOK'
  <2>1. \A e \in Daemons \ {d} : daemon'[e] = daemon[e] /\ late'[e] = late[e]
    BY <1>0, <1>2
  <2>2. late'[d] = 0 \/ (late'[d] = 1 /\ daemon'[d].heard # "Running" /\ daemon'[d].pc \in WayOut)
    BY <1>0, <1>3 DEF Inv, LateOK
  <2> QED
    BY <2>1, <2>2 DEF Inv, LateOK
<1>7. RowsOK'
  <2>1. CompletedIsArchived'
    BY <1>0 DEF Inv, RowsOK, CompletedIsArchived
  <2>2. \A u \in Tasks : ToBeDriven(u) => ToBeDriven(u)'
    BY <1>0 DEF ToBeDriven, Procs, At, Task
  <2>3. \A e \in Daemons \ {d}, u \in Tasks : Drives(e, u) => Drives(e, u)'
    BY <1>2 DEF Drives, At, Task, MyTask
  <2>4. \A u \in Tasks : Drives(d, u) => Drives(d, u)' \/ row[u].st # "running" \/ u \in ended
    BY <1>3 DEF Drives, At, Task, MyTask
  <2>5. UndrivenWasEnded'
    BY <1>0, <2>2, <2>3, <2>4 DEF Inv, RowsOK, UndrivenWasEnded
  <2> QED
    BY <2>1, <2>5 DEF RowsOK
<1> QED
  BY <1>4, <1>5, <1>6, <1>7, <1>8, <1>9 DEF Inv

\* A row, written by who may: the one written is not made completed, it is
\* driven or over if it says running, and so are the other ones as before.
Driven(t) == (\E d \in Daemons : Drives(d, t)) \/ ToBeDriven(t)

LEMMA RowWritten ==
  ASSUME TypeOK, RowsOK, NEW t \in Tasks, NEW r \in Row, Write(t, r),
         r.st # "completed", ended \subseteq ended',
         \A u \in Tasks \ {t} : saved'[u] = saved[u],
         \A u \in Tasks \ {t} : Driven(u) => Driven(u)',
         r.st = "running" => Driven(t)' \/ t \in ended'
  PROVE  RowsOK'
<1>1. row'[t] = r /\ \A u \in Tasks \ {t} : row'[u] = row[u]
  BY DEF TypeOK, Write
<1>2. UndrivenWasEnded'
  BY <1>1 DEF RowsOK, UndrivenWasEnded, Driven
<1>3. CompletedIsArchived'
  BY <1>1 DEF RowsOK, CompletedIsArchived
<1> QED
  BY <1>2, <1>3 DEF RowsOK

LEMMA RowTyped ==
  ASSUME TypeOK, NEW t \in Tasks, NEW r \in Row, Write(t, r)
  PROVE  row' \in [Tasks -> Row] /\ newest' \in Tasks \cup {None}
BY DEF TypeOK, Write

\* The daemon's write of its copy.
LEMMA Saves ==
  ASSUME LongTaskAssumption, Inv, NEW d \in Daemons,
         NEW st \in {"running", "paused"}, NEW pc \in {"top", "leave"},
         Save(d, st, pc), daemon[d].pc \in {"init", "pauseWrite"},
         st = "running" <=> pc = "top"
  PROVE  Inv'
<1> DEFINE t == daemon[d].task
<1>1. /\ daemon \in [Daemons -> Daemon] /\ daemon[d] \in Daemon /\ t \in Tasks
      /\ daemon' = [daemon EXCEPT ![d].pc = pc, ![d].copy.st = st]
  BY DEF Inv, TypeOK, Save
<1>2. daemon[d].copy \in Row /\ Copy(d, st) \in Row /\ Copy(d, st).st = st
  BY <1>1 DEF Daemon, Row, Status, Copy
<1>3. /\ daemon' \in [Daemons -> Daemon]
      /\ daemon'[d] = [daemon[d] EXCEPT !.pc = pc, !.copy = Copy(d, st)]
      /\ \A e \in Daemons \ {d} : daemon'[e] = daemon[e]
  BY <1>1, <1>2 DEF Daemon, DaemonPcs, Copy
<1>4. /\ daemon'[d].pc = pc /\ daemon'[d].task = t /\ daemon'[d].heard = daemon[d].heard
      /\ daemon'[d].copy.st = st
  BY <1>1, <1>2, <1>3 DEF Daemon
<1>5. TypeOK'
  <2>1. row' \in [Tasks -> Row] /\ newest' \in Tasks \cup {None}
    BY <1>1, <1>2, RowTyped DEF Inv, Save, MyTask
  <2> QED
    BY <1>1, <1>3, <1>4, <2>1 DEF Inv, TypeOK, At, Is, Save, session
<1>6. ControlOK'
  <2>1. control' = control
    BY DEF Save
  <2>2. \A e \in Daemons : /\ daemon'[e].task = daemon[e].task
                           /\ daemon[e].pc # "gone" => daemon'[e].pc # "gone"
    BY <1>3, <1>4
  <2> QED
    BY <2>1, <2>2, ControlKept
<1>7. HeardOK' /\ CopyOK' /\ LateOK'
  <2>1. ended' = ended /\ late' = late
    BY DEF Save
  <2>2. HeardOK'
    BY <1>3, <1>4, <2>1 DEF Inv, HeardOK
  <2>3. CopyOK'
    <3>1. pc = "leave" \/ st = "running"
      OBVIOUS
    <3>2. daemon'[d].pc = "leave" \/ daemon'[d].copy.st = "running"
      BY <1>4, <3>1
    <3> QED
      BY <1>3, <3>2 DEF Inv, CopyOK
  <2>4. LateOK'
    <3>1. \A e \in Daemons \ {d} : daemon'[e] = daemon[e]
      BY <1>3
    <3>2. late'[d] = 0 \/ (late'[d] = 1 /\ daemon'[d].heard # "Running" /\ daemon'[d].pc \in WayOut)
      BY <1>4, <2>1 DEF Inv, LateOK, WayOut
    <3> QED
      BY <2>1, <3>1, <3>2 DEF Inv, LateOK
  <2> QED
    BY <2>2, <2>3, <2>4
<1>8. RowsOK'
  <2>1. /\ Write(t, Copy(d, st)) /\ ended' = ended /\ saved' = saved /\ proc' = proc
    BY DEF Save, MyTask
  <2>2. \A u \in Tasks \ {t} : Driven(u) => Driven(u)'
    BY <1>3, <1>4, <2>1 DEF Driven, Drives, ToBeDriven, MyTask, At, Task
  <2>3. st = "running" => Driven(t)'
    BY <1>4 DEF Driven, Drives, MyTask
  <2> QED
    BY <1>1, <1>2, <2>1, <2>2, <2>3, RowWritten DEF Inv
<1> QED
  BY <1>5, <1>6, <1>7, <1>8 DEF Inv

\* A daemon that is gone leaves no channel of its own behind.
LEMMA Goes ==
  ASSUME LongTaskAssumption, Inv, NEW d \in Daemons, daemon[d].pc # "gone",
         daemon' = [daemon EXCEPT ![d] = Gone], late' = [late EXCEPT ![d] = 0],
         control' \in [Tasks -> Daemons \cup {None}],
         \A t \in Tasks : control'[t] \in {control[t], None} /\ control'[t] # d,
         row' \in [Tasks -> Row], newest' \in Tasks \cup {None},
         saved' \in [Tasks -> SUBSET (1..MaxStep)],
         UNCHANGED <<proc, on, last, cmds>>, ended' \in SUBSET Tasks,
         ended \subseteq ended', RowsOK'
  PROVE  Inv'
<1>1. /\ daemon' \in [Daemons -> Daemon] /\ daemon'[d] = Gone
      /\ \A e \in Daemons \ {d} : daemon'[e] = daemon[e]
  BY Records DEF Inv, TypeOK
<1>2. Gone.pc = "gone" /\ Gone.heard = "Running"
  BY DEF Gone
<1>3. late' \in [Daemons -> 0..2] /\ late'[d] = 0 /\ \A e \in Daemons \ {d} : late'[e] = late[e]
  BY Records DEF Inv, TypeOK
<1>4. TypeOK'
  BY <1>1, <1>2, <1>3 DEF Inv, TypeOK, At, Is
<1>5. ControlOK'
  BY <1>1 DEF Inv, TypeOK, ControlOK
<1>6. HeardOK'
  BY <1>1, <1>2 DEF Inv, HeardOK
<1>7. CopyOK'
  BY <1>1, <1>2 DEF Inv, CopyOK
<1>8. LateOK'
  BY <1>1, <1>3 DEF Inv, LateOK
<1> QED
  BY <1>4, <1>5, <1>6, <1>7, <1>8 DEF Inv

\* The tasks of other daemons, and of threads, are driven as before.
LEMMA OthersDriven ==
  ASSUME TypeOK, NEW d \in Daemons, UNCHANGED proc,
         daemon' = [daemon EXCEPT ![d] = Gone]
  PROVE  \A u \in Tasks : Driven(u) /\ ~Drives(d, u) => Driven(u)'
<1>1. \A e \in Daemons \ {d} : daemon'[e] = daemon[e]
  BY DEF TypeOK
<1> QED
  BY <1>1 DEF Driven, Drives, ToBeDriven, MyTask, At, Task

\* A signal changes what one daemon has heard, and that one is of the task.
LEMMA ToldFacts ==
  ASSUME Inv, NEW t \in Tasks, NEW s \in Signals
  PROVE  /\ Told(t, s) \in [Daemons -> Daemon]
         /\ \A e \in Daemons :
              /\ Told(t, s)[e].pc = daemon[e].pc /\ Told(t, s)[e].task = daemon[e].task
              /\ Told(t, s)[e].copy = daemon[e].copy
              /\ \/ Told(t, s)[e].heard = daemon[e].heard
                 \/ Told(t, s)[e].heard = s /\ daemon[e].task = t
<1>1. daemon \in [Daemons -> Daemon]
  BY DEF Inv, TypeOK
<1>2. CASE control[t] = None
  BY <1>1, <1>2 DEF Told
<1>3. CASE control[t] # None
  <2>1. control[t] \in Daemons /\ daemon[control[t]].task = t
    BY <1>3 DEF Inv, TypeOK, ControlOK
  <2>2. Told(t, s) = [daemon EXCEPT ![control[t]].heard = s]
    BY <1>3 DEF Told
  <2>3. \A e \in Daemons : Told(t, s)[e] = IF e = control[t] THEN [daemon[e] EXCEPT !.heard = s] ELSE daemon[e]
    BY <1>1, <2>1, <2>2
  <2>4. \A r \in Daemon : /\ [r EXCEPT !.heard = s] \in Daemon
                          /\ [r EXCEPT !.heard = s].pc = r.pc /\ [r EXCEPT !.heard = s].task = r.task
                          /\ [r EXCEPT !.heard = s].copy = r.copy /\ [r EXCEPT !.heard = s].heard = s
    BY DEF Daemon
  <2>5. \A e \in Daemons : daemon[e] \in Daemon
    BY <1>1
  <2>6. Told(t, s) \in [Daemons -> Daemon]
    BY <1>1, <2>1, <2>2, <2>4
  <2>7. ASSUME NEW e \in Daemons
        PROVE  /\ Told(t, s)[e].pc = daemon[e].pc /\ Told(t, s)[e].task = daemon[e].task
               /\ Told(t, s)[e].copy = daemon[e].copy
               /\ \/ Told(t, s)[e].heard = daemon[e].heard
                  \/ Told(t, s)[e].heard = s /\ daemon[e].task = t
    <3>1. CASE e = control[t]
      <4>1. Told(t, s)[e] = [daemon[e] EXCEPT !.heard = s] /\ daemon[e] \in Daemon
        BY <2>3, <2>5, <3>1
      <4>2. daemon[e].task = t
        BY <2>1, <3>1
      <4> QED
        BY <2>4, <4>1, <4>2
    <3>2. CASE e # control[t]
      BY <2>3, <3>2
    <3> QED
      BY <3>1, <3>2
  <2> QED
    BY <2>6, <2>7
<1> QED
  BY <1>2, <1>3

\* A daemon that is done takes its channel out of the table, and nobody else's
\* task is disturbed.
LEMMA GoesFacts ==
  ASSUME LongTaskAssumption, Inv, NEW d \in Daemons,
         daemon' = [daemon EXCEPT ![d] = Gone], UNCHANGED proc,
         control' = [t \in Tasks |-> IF control[t] = d THEN None ELSE control[t]]
  PROVE  /\ control' \in [Tasks -> Daemons \cup {None}]
         /\ \A t \in Tasks : control'[t] \in {control[t], None} /\ control'[t] # d
         /\ \A u \in Tasks \ {daemon[d].task} : Driven(u) => Driven(u)'
<1>1. \A u \in Tasks \ {daemon[d].task} : ~Drives(d, u)
  BY DEF Drives, MyTask
<1>2. \A u \in Tasks \ {daemon[d].task} : Driven(u) => Driven(u)'
  BY <1>1, OthersDriven DEF Inv
<1> QED
  BY <1>2 DEF LongTaskAssumption, Inv, TypeOK

LEMMA DaemonSteps ==
  ASSUME LongTaskAssumption, Inv, NEW d \in Daemons, DaemonStep(d)
  PROVE  Inv'
<1> DEFINE t == daemon[d].task
<1>1. daemon \in [Daemons -> Daemon] /\ daemon[d] \in Daemon
  BY DEF Inv, TypeOK
<1>2. daemon[d].pc # "gone" => t \in Tasks
  BY DEF Inv, TypeOK
<1>3. on \in BOOLEAN /\ last \in {"user", "goal", "confirm", "other"}
  BY DEF Inv, TypeOK
<1>4. CASE Announce(d)
  BY <1>4, Saves DEF Announce, Is
<1>5. CASE Hear(d)
  <2>1. /\ daemon[d].heard \in Signals /\ t \in Tasks
        /\ daemon[d].heard \in {"Cancel", "Complete"} => t \in ended
    BY <1>1, <1>2, <1>5 DEF Hear, Is, Daemon, Inv, HeardOK
  <2>2. late[d] = 0 \/ daemon[d].heard # "Running"
    BY DEF Inv, LateOK
  <2>3. PICK pc \in {"status", "pauseCheck", "leave"} :
           /\ Goto(d, pc)
           /\ pc = "status" => daemon[d].heard = "Running"
           /\ pc = "leave" => daemon[d].heard \in {"Cancel", "Complete"}
    BY <1>5, <2>1 DEF Hear, Signals
  <2>4. pc \in DaemonPcs \ {"gone", "init", "finish"}
    BY DEF DaemonPcs
  <2> QED
    BY <1>3, <1>5, <2>1, <2>2, <2>3, <2>4, Moves DEF Hear, Is, WayOut, session
<1>6. CASE CheckOver(d)
  <2>1. PICK pc \in {"leave", "pauseWrite"} :
           Goto(d, pc) /\ (pc = "leave" => Over(row[t].st))
    BY <1>6 DEF CheckOver, MyTask
  <2>2. pc \in DaemonPcs \ {"gone", "init", "finish"}
    BY DEF DaemonPcs
  <2> QED
    BY <1>3, <1>6, <2>1, <2>2, Moves DEF CheckOver, Is, Over, WayOut, session
<1>7. CASE WritePaused(d)
  BY <1>7, Saves DEF WritePaused, Is
<1>8. CASE Leave(d)
  <2>1. daemon[d].pc = "leave"
    BY <1>8 DEF Leave, Is
  <2>2. RowsOK'
    <3>1. /\ row' = row /\ saved' = saved /\ ended' = ended /\ proc' = proc
          /\ daemon' = [daemon EXCEPT ![d] = Gone]
      BY <1>8 DEF Leave
    <3>2. \A u \in Tasks : ~Drives(d, u)
      BY <2>1 DEF Drives
    <3>3. \A u \in Tasks : Driven(u) => Driven(u)'
      BY <3>1, <3>2, OthersDriven DEF Inv
    <3> QED
      BY <3>1, <3>3 DEF Inv, RowsOK, UndrivenWasEnded, CompletedIsArchived, Driven
  <2>3. \A u \in Tasks : control'[u] \in {control[u], None} /\ control'[u] # d
    <3>1. control' = [control EXCEPT ![t] = None]
      BY <1>8 DEF Leave, MyTask
    <3>2. \A u \in Tasks : control[u] = d => u = t
      BY DEF LongTaskAssumption, Inv, ControlOK
    <3> QED
      BY <3>1, <3>2 DEF LongTaskAssumption, Inv, TypeOK
  <2> QED
    BY <1>8, <2>1, <2>2, <2>3, Goes DEF Leave, Inv, TypeOK, session
<1>9. CASE ReadStatus(d)
  <2>1. PICK pc \in {"leave", "overBudget", "active"} :
           Goto(d, pc) /\ (pc = "leave" => row[t].st \in Stopped)
    BY <1>9 DEF ReadStatus, MyTask
  <2>2. pc \in DaemonPcs \ {"gone", "init", "finish"}
    BY DEF DaemonPcs
  <2>3. late[d] = 0
    BY <1>9 DEF ReadStatus, Is, Inv, LateOK, WayOut
  <2> QED
    BY <1>3, <1>9, <2>1, <2>2, <2>3, Moves DEF ReadStatus, Is, Stopped, session
<1>10. CASE OverBudget(d) \/ AwaitConfirmation(d)
  <2>1. PICK pc \in {"overBudget", "confirm"} : SuspendAt(d, pc)
    BY <1>10 DEF OverBudget, AwaitConfirmation
  <2>2. /\ Write(t, Copy(d, "paused")) /\ daemon[d].pc = pc
        /\ daemon' = [daemon EXCEPT ![d] = Gone] /\ late' = [late EXCEPT ![d] = 0]
        /\ control' = [u \in Tasks |-> IF control[u] = d THEN None ELSE control[u]]
        /\ saved' = saved /\ proc' = proc /\ on' = on /\ last' = last /\ ended' = ended
        /\ cmds' = cmds
    BY <2>1 DEF SuspendAt, MyTask, Is, session
  <2>3. Copy(d, "paused") \in Row /\ Copy(d, "paused").st = "paused"
    BY <1>1 DEF Daemon, Row, Status, Copy
  <2>4. t \in Tasks
    BY <1>2, <2>2
  <2>5. RowsOK'
    BY <2>2, <2>3, <2>4, GoesFacts, RowWritten DEF Inv
  <2>6. row' \in [Tasks -> Row] /\ newest' \in Tasks \cup {None}
    BY <2>2, <2>3, <2>4, RowTyped DEF Inv
  <2> QED
    BY <2>2, <2>5, <2>6, Goes, GoesFacts DEF Inv, TypeOK
<1>11. CASE LookAtSession(d)
  <2>1. PICK pc \in {"judge", "top"} : Goto(d, pc)
    BY <1>11 DEF LookAtSession
  <2>2. pc \in DaemonPcs \ {"gone", "init", "finish"}
    BY DEF DaemonPcs
  <2>3. late[d] = 0
    BY <1>11 DEF LookAtSession, Is, Inv, LateOK, WayOut
  <2> QED
    BY <1>3, <1>11, <2>1, <2>2, <2>3, Moves DEF LookAtSession, Is, session
<1>12. CASE Judge(d)
  <2>1. PICK pc \in {"declare", "confirm", "push"} : Goto(d, pc)
    BY <1>12 DEF Judge
  <2>2. pc \in DaemonPcs \ {"gone", "init", "finish"}
    BY DEF DaemonPcs
  <2>3. late[d] = 0
    BY <1>12 DEF Judge, Is, Inv, LateOK, WayOut
  <2> QED
    BY <1>3, <1>12, <2>1, <2>2, <2>3, Moves DEF Judge, Is, session
<1>13. CASE Declare(d)
  <2> DEFINE told == Told(t, "Complete")
  <2>1. /\ daemon' = [told EXCEPT ![d].pc = "finish"] /\ ended' = ended \cup {t}
        /\ daemon[d].pc = "declare" /\ t \in Tasks
    BY <1>2, <1>13 DEF Declare, MyTask, Is
  <2>2. /\ told \in [Daemons -> Daemon] /\ told[d] \in Daemon
        /\ \A e \in Daemons :
             /\ told[e].pc = daemon[e].pc /\ told[e].task = daemon[e].task
             /\ told[e].copy = daemon[e].copy
             /\ \/ told[e].heard = daemon[e].heard
                \/ told[e].heard = "Complete" /\ daemon[e].task = t
    <3>1. "Complete" \in Signals
      BY DEF Signals
    <3> HIDE DEF told
    <3>2. told = Told(t, "Complete")
      BY DEF told
    <3> QED
      BY <2>1, <3>1, <3>2, ToldFacts
  <2>3. /\ daemon' \in [Daemons -> Daemon] /\ daemon'[d] = [told[d] EXCEPT !.pc = "finish"]
        /\ \A e \in Daemons \ {d} : daemon'[e] = told[e]
    BY <2>1, <2>2 DEF Daemon, DaemonPcs
  <2>4. /\ daemon'[d].pc = "finish" /\ daemon'[d].task = t
        /\ daemon'[d].copy = daemon[d].copy
    BY <2>2, <2>3 DEF Daemon
  <2>5. \A e \in Daemons \ {d} :
           /\ daemon'[e].pc = daemon[e].pc /\ daemon'[e].task = daemon[e].task
           /\ daemon'[e].copy = daemon[e].copy
           /\ \/ daemon'[e].heard = daemon[e].heard
              \/ daemon'[e].heard = "Complete" /\ daemon[e].task = t
    <3> HIDE DEF told
    <3> QED
      BY <2>2, <2>3
  <2>6. /\ row' = row /\ saved' = saved /\ newest' = newest /\ control' = control
        /\ proc' = proc /\ on' = on /\ last' = last /\ late' = late /\ cmds' = cmds
    BY <1>13 DEF Declare, session
  <2>7. TypeOK'
    BY <2>1, <2>3, <2>4, <2>5, <2>6 DEF Inv, TypeOK, At, Is
  <2>8. ControlOK'
    <3>1. \A u \in Tasks : control[u] # None => control[u] \in Daemons
      BY DEF Inv, TypeOK
    <3> QED
      BY <2>4, <2>5, <2>6, <3>1 DEF Inv, ControlOK
  <2>9. HeardOK'
    BY <2>1, <2>4, <2>5 DEF Inv, HeardOK
  <2>10. CopyOK'
    BY <2>1, <2>4, <2>5 DEF Inv, CopyOK
  <2>11. LateOK'
    <3>1. late[d] = 0
      BY <2>1 DEF Inv, LateOK, WayOut
    <3> QED
      BY <2>5, <2>6, <3>1 DEF Inv, LateOK
  <2>12. RowsOK'
    BY <2>1, <2>4, <2>5, <2>6 DEF Inv, RowsOK, UndrivenWasEnded, CompletedIsArchived, Drives,
       MyTask, ToBeDriven, At, Task
  <2> QED
    BY <2>7, <2>8, <2>9, <2>10, <2>11, <2>12 DEF Inv
<1>14. CASE Finish(d)
  <2>1. /\ row' = [row EXCEPT ![t] = [row[t] EXCEPT !.st = "completed"]] /\ newest' = t
        /\ saved' = [saved EXCEPT ![t] = @ \cup {row[t].step}] /\ ended' = ended \cup {t}
        /\ daemon' = [daemon EXCEPT ![d] = Gone] /\ late' = [late EXCEPT ![d] = 0]
        /\ control' = [u \in Tasks |-> IF control[u] = d THEN None ELSE control[u]]
        /\ proc' = proc /\ on' = on /\ last' = last /\ cmds' = cmds
        /\ daemon[d].pc = "finish" /\ t \in Tasks
    BY <1>2, <1>14 DEF Finish, Completed, Write, MyTask, Is, session
  <2>2. /\ row[t] \in Row /\ [row[t] EXCEPT !.st = "completed"] \in Row
        /\ [row[t] EXCEPT !.st = "completed"].step = row[t].step
    BY <2>1 DEF Inv, TypeOK, Row, Status
  <2>3. row' \in [Tasks -> Row] /\ saved' \in [Tasks -> SUBSET (1..MaxStep)]
    BY <2>1, <2>2 DEF Inv, TypeOK, Row
  <2>4. RowsOK'
    <3>1. \A u \in Tasks \ {t} : Driven(u) => Driven(u)'
      BY <2>1, GoesFacts
    <3>2. /\ row'[t].step \in saved'[t]
          /\ \A u \in Tasks \ {t} : row'[u] = row[u] /\ saved'[u] = saved[u]
      BY <2>1, <2>2 DEF Inv, TypeOK
    <3> QED
      BY <2>1, <3>1, <3>2 DEF Inv, RowsOK, UndrivenWasEnded, CompletedIsArchived, Driven
  <2> QED
    <3>1. /\ control' \in [Tasks -> Daemons \cup {None}]
          /\ \A u \in Tasks : control'[u] \in {control[u], None} /\ control'[u] # d
      BY <2>1, GoesFacts
    <3>2. ended' \in SUBSET Tasks /\ ended \subseteq ended' /\ newest' \in Tasks \cup {None}
      BY <2>1 DEF Inv, TypeOK
    <3> QED
      BY <2>1, <2>3, <2>4, <3>1, <3>2, Goes
<1>15. CASE Push(d)
  <2>1. PICK r \in Row :
           /\ r.st = "running" /\ Write(t, r)
           /\ daemon' = [daemon EXCEPT ![d].pc = "pulse", ![d].copy = r]
    <3>1. daemon[d].copy \in Row /\ daemon[d].copy.st = "running"
      BY <1>1, <1>15 DEF Push, Is, Daemon, Inv, CopyOK
    <3>2. \A n \in 1..MaxStep : /\ [daemon[d].copy EXCEPT !.step = n] \in Row
                                /\ [daemon[d].copy EXCEPT !.step = n].st = "running"
      BY <3>1 DEF Row
    <3>3. (IF daemon[d].copy.step < MaxStep THEN daemon[d].copy.step + 1 ELSE MaxStep) \in 1..MaxStep
      BY <3>1 DEF Row, LongTaskAssumption
    <3> QED
      BY <1>15, <3>2, <3>3 DEF Push, MyTask
  <2>2. /\ saved' = saved /\ control' = control /\ proc' = proc /\ on' = on /\ last' = last
        /\ ended' = ended /\ late' = late /\ cmds' = cmds /\ daemon[d].pc = "push" /\ t \in Tasks
    BY <1>2, <1>15 DEF Push, Is, session
  <2>3. /\ daemon' \in [Daemons -> Daemon]
        /\ daemon'[d].pc = "pulse" /\ daemon'[d].task = t /\ daemon'[d].heard = daemon[d].heard
        /\ daemon'[d].copy = r
        /\ \A e \in Daemons \ {d} : daemon'[e] = daemon[e]
    BY <1>1, <2>1 DEF Daemon, DaemonPcs
  <2>4. TypeOK'
    <3>1. row' \in [Tasks -> Row] /\ newest' \in Tasks \cup {None}
      BY <2>1, <2>2, RowTyped DEF Inv
    <3> QED
      BY <2>2, <2>3, <3>1 DEF Inv, TypeOK, At, Is
  <2>5. ControlOK'
    <3>1. \A u \in Tasks : control[u] # None => control[u] \in Daemons
      BY DEF Inv, TypeOK
    <3> QED
      BY <2>2, <2>3, <3>1 DEF Inv, ControlOK
  <2>6. HeardOK'
    BY <2>2, <2>3 DEF Inv, HeardOK
  <2>7. CopyOK'
    BY <2>1, <2>3 DEF Inv, CopyOK
  <2>8. LateOK'
    <3>1. late[d] = 0
      BY <2>2 DEF Inv, LateOK, WayOut
    <3> QED
      BY <2>2, <2>3, <3>1 DEF Inv, LateOK
  <2>9. RowsOK'
    <3>1. Driven(t)' /\ \A u \in Tasks \ {t} : Driven(u) => Driven(u)'
      BY <2>2, <2>3 DEF Driven, Drives, ToBeDriven, MyTask, At, Task
    <3>2. TypeOK /\ RowsOK /\ ended \subseteq ended' /\ r.st # "completed"
      BY <2>1, <2>2 DEF Inv
    <3>3. \A u \in Tasks \ {t} : saved'[u] = saved[u]
      BY <2>2
    <3> QED
      BY <2>1, <2>2, <2>3, <3>1, <3>2, <3>3, RowWritten
  <2> QED
    BY <2>4, <2>5, <2>6, <2>7, <2>8, <2>9 DEF Inv
<1>16. CASE Pulse(d)
  <2>1. /\ daemon' = [daemon EXCEPT ![d].pc = "top"] /\ daemon[d].pc = "pulse" /\ t \in Tasks
        /\ late' = [late EXCEPT ![d] = IF daemon[d].heard # "Running" /\ @ < 2 THEN @ + 1 ELSE @]
        /\ row' = row /\ saved' = saved /\ newest' = newest /\ control' = control
        /\ proc' = proc /\ ended' = ended /\ cmds' = cmds
        /\ on' \in BOOLEAN /\ last' \in {"user", "goal", "confirm", "other"}
    BY <1>2, <1>3, <1>16 DEF Pulse, Goto, Is, Drive
  <2>2. late[d] = 0
    BY <2>1 DEF Inv, LateOK, WayOut
  <2>3. /\ late' \in [Daemons -> 0..2] /\ \A e \in Daemons \ {d} : late'[e] = late[e]
        /\ late'[d] = IF daemon[d].heard # "Running" THEN 1 ELSE 0
    BY <2>1, <2>2 DEF Inv, TypeOK
  <2>4. /\ daemon' \in [Daemons -> Daemon]
        /\ daemon'[d].pc = "top" /\ daemon'[d].task = t /\ daemon'[d].heard = daemon[d].heard
        /\ daemon'[d].copy = daemon[d].copy
        /\ \A e \in Daemons \ {d} : daemon'[e] = daemon[e]
    BY <1>1, <2>1 DEF Daemon, DaemonPcs
  <2>5. TypeOK'
    BY <2>1, <2>3, <2>4 DEF Inv, TypeOK, At, Is
  <2>6. ControlOK'
    <3>1. \A u \in Tasks : control[u] # None => control[u] \in Daemons
      BY DEF Inv, TypeOK
    <3> QED
      BY <2>1, <2>4, <3>1 DEF Inv, ControlOK
  <2>7. HeardOK'
    BY <2>1, <2>4 DEF Inv, HeardOK
  <2>8. CopyOK'
    BY <2>1, <2>4 DEF Inv, CopyOK
  <2>9. LateOK'
    BY <2>3, <2>4 DEF Inv, LateOK, WayOut
  <2>10. RowsOK'
    BY <2>1, <2>4 DEF Inv, RowsOK, UndrivenWasEnded, CompletedIsArchived, Drives, MyTask,
       ToBeDriven, At, Task
  <2> QED
    BY <2>5, <2>6, <2>7, <2>8, <2>9, <2>10 DEF Inv
<1> QED
  BY <1>4, <1>5, <1>6, <1>7, <1>8, <1>9, <1>10, <1>11, <1>12, <1>13, <1>14, <1>15, <1>16
     DEF DaemonStep

(***************************************************************************)
(* Steps of the threads and of the agent's tool.                           *)
(***************************************************************************)

\* Nobody but perhaps one daemon hears something, of a task that is over if it
\* is an end.
Hears == \/ daemon' = daemon
         \/ \E t \in Tasks, s \in Signals \ {"Running"} :
              daemon' = Told(t, s) /\ (s # "Pause" => t \in ended')

LEMMA HearsFacts ==
  ASSUME Inv, Hears, UNCHANGED <<control, late>>, ended \subseteq ended'
  PROVE  /\ daemon' \in [Daemons -> Daemon]
         /\ \A d \in Daemons : /\ daemon'[d].pc = daemon[d].pc
                               /\ daemon'[d].task = daemon[d].task
         /\ ControlOK' /\ HeardOK' /\ CopyOK' /\ LateOK'
<1>1. CASE daemon' = daemon
  <2>1. daemon' \in [Daemons -> Daemon]
    BY <1>1 DEF Inv, TypeOK
  <2>2. ControlOK' /\ CopyOK' /\ LateOK'
    BY <1>1 DEF Inv, ControlOK, CopyOK, LateOK
  <2>3. HeardOK'
    BY <1>1 DEF Inv, HeardOK
  <2> QED
    BY <1>1, <2>1, <2>2, <2>3
<1>2. CASE \E t \in Tasks, s \in Signals \ {"Running"} :
             daemon' = Told(t, s) /\ (s # "Pause" => t \in ended')
  <2>1. PICK t \in Tasks, s \in Signals \ {"Running"} :
               daemon' = Told(t, s) /\ (s # "Pause" => t \in ended')
    BY <1>2
  <2>2. /\ daemon' \in [Daemons -> Daemon]
        /\ \A d \in Daemons :
             /\ daemon'[d].pc = daemon[d].pc /\ daemon'[d].task = daemon[d].task
             /\ daemon'[d].copy = daemon[d].copy
             /\ \/ daemon'[d].heard = daemon[d].heard
                \/ daemon'[d].heard = s /\ daemon[d].task = t
    BY <2>1, ToldFacts
  <2>3. ControlOK'
    BY <2>2, ControlKept
  <2>4. HeardOK'
    BY <2>1, <2>2 DEF Inv, HeardOK
  <2>5. CopyOK'
    BY <2>2 DEF Inv, CopyOK
  <2>6. LateOK'
    BY <2>2 DEF Inv, LateOK
  <2> QED
    BY <2>2, <2>3, <2>4, <2>5, <2>6
<1> QED
  BY <1>1, <1>2 DEF Hears

\* A thread that goes on. Its task stays to be driven if it was.
LEMMA ThreadGoesOn ==
  ASSUME LongTaskAssumption, Inv, NEW p \in Procs, NEW r \in Proc,
         proc' = [proc EXCEPT ![p] = r],
         HasTask(r) => r.task \in Tasks,
         Hears, UNCHANGED <<control, late>>,
         row' \in [Tasks -> Row], saved' \in [Tasks -> SUBSET (1..MaxStep)],
         newest' \in Tasks \cup {None}, ended' \in SUBSET Tasks, ended \subseteq ended',
         on' \in BOOLEAN, last' \in {"user", "goal", "confirm", "other"},
         cmds' \in 0..MaxCmds, RowsOK'
  PROVE  Inv'
<1>1. /\ daemon' \in [Daemons -> Daemon]
      /\ \A d \in Daemons : daemon'[d].pc = daemon[d].pc /\ daemon'[d].task = daemon[d].task
      /\ ControlOK' /\ HeardOK' /\ CopyOK' /\ LateOK'
  BY HearsFacts
<1>2. /\ proc' \in [Procs -> Proc] /\ proc'[p] = r
      /\ \A q \in Procs \ {p} : proc'[q] = proc[q]
  BY DEF Inv, TypeOK
<1>3. TypeOK'
  BY <1>1, <1>2 DEF Inv, TypeOK
<1> QED
  BY <1>1, <1>3 DEF Inv

LEMMA StillDriven ==
  ASSUME Inv, NEW p \in Procs, NEW r \in Proc, proc' = [proc EXCEPT ![p] = r],
         \A d \in Daemons : /\ daemon'[d].pc = daemon[d].pc
                            /\ daemon'[d].task = daemon[d].task,
         proc[p].pc # "register" \/ (r.pc = "register" /\ r.task = proc[p].task)
  PROVE  \A u \in Tasks : Driven(u) => Driven(u)'
<1>1. /\ proc'[p] = r /\ \A q \in Procs \ {p} : proc'[q] = proc[q]
  BY DEF Inv, TypeOK
<1> QED
  BY <1>1 DEF Driven, Drives, ToBeDriven, MyTask, At, Task

\* A section that writes no row.
LEMMA Quiet ==
  ASSUME LongTaskAssumption, Inv, NEW p \in Procs, NEW r \in Proc,
         proc' = [proc EXCEPT ![p] = r], proc[p].pc # "register",
         HasTask(r) => r.task \in Tasks,
         Hears, UNCHANGED <<row, saved, newest, control, late>>,
         ended' \in SUBSET Tasks, ended \subseteq ended',
         on' \in BOOLEAN, last' \in {"user", "goal", "confirm", "other"},
         cmds' \in 0..MaxCmds
  PROVE  Inv'
<1>1. /\ row' = row /\ saved' = saved /\ newest' = newest
  OBVIOUS
<1>2. \A d \in Daemons : daemon'[d].pc = daemon[d].pc /\ daemon'[d].task = daemon[d].task
  BY HearsFacts
<1>3. \A u \in Tasks : Driven(u) => Driven(u)'
  BY <1>2, StillDriven
<1>4. RowsOK'
  BY <1>1, <1>3 DEF Inv, RowsOK, UndrivenWasEnded, CompletedIsArchived, Driven
<1>5. /\ row' \in [Tasks -> Row] /\ saved' \in [Tasks -> SUBSET (1..MaxStep)]
      /\ newest' \in Tasks \cup {None}
  BY <1>1 DEF Inv, TypeOK
<1> QED
  BY <1>4, <1>5, ThreadGoesOn

\* A section that writes the row of t, not as completed.
LEMMA Writes ==
  ASSUME LongTaskAssumption, Inv, NEW p \in Procs, NEW r \in Proc,
         proc' = [proc EXCEPT ![p] = r],
         HasTask(r) => r.task \in Tasks,
         NEW t \in Tasks, NEW x \in Row, Write(t, x), x.st # "completed",
         x.st = "running" => r.pc = "register" /\ r.task = t,
         proc[p].pc = "register" => r.pc = "register" /\ r.task = proc[p].task,
         Hears, UNCHANGED <<control, late>>,
         saved' \in [Tasks -> SUBSET (1..MaxStep)],
         \A u \in Tasks \ {t} : saved'[u] = saved[u],
         ended' \in SUBSET Tasks, ended \subseteq ended',
         on' \in BOOLEAN, last' \in {"user", "goal", "confirm", "other"},
         cmds' \in 0..MaxCmds
  PROVE  Inv'
<1>1. \A d \in Daemons : daemon'[d].pc = daemon[d].pc /\ daemon'[d].task = daemon[d].task
  BY HearsFacts
<1>2. \A u \in Tasks : Driven(u) => Driven(u)'
  BY <1>1, StillDriven
<1>3. x.st = "running" => Driven(t)'
  <2>1. proc'[p] = r
    BY DEF Inv, TypeOK
  <2> QED
    BY <2>1 DEF Driven, ToBeDriven, At, Task
<1>4. RowsOK'
  <2>1. \A u \in Tasks \ {t} : Driven(u) => Driven(u)'
    BY <1>2
  <2> QED
    BY <1>3, <2>1, RowWritten DEF Inv
<1>5. row' \in [Tasks -> Row] /\ newest' \in Tasks \cup {None}
  BY RowTyped DEF Inv
<1> QED
  BY <1>4, <1>5, ThreadGoesOn

\* What a thread may be made.
LEMMA ProcTyped ==
  ASSUME LongTaskAssumption, Inv, NEW p \in Procs
  PROVE  /\ proc[p] \in Proc
         /\ \A pc \in ProcPcs, op \in Ops, t \in Tasks \cup {None}, c \in Row, cp \in 0..MaxStep :
              [pc |-> pc, op |-> op, task |-> t, copy |-> c, cp |-> cp] \in Proc
         /\ Idle \in Proc /\ Idle.pc = "idle" /\ ~HasTask(Idle)
         /\ NoRow \in Row /\ row \in [Tasks -> Row]
         /\ \A t \in Tasks, st \in Status :
              [row[t] EXCEPT !.st = st] \in Row /\ [row[t] EXCEPT !.st = st].st = st
BY Records DEF Inv, TypeOK, Proc, Idle, Row, HasTask

LEMMA ProcAt ==
  ASSUME NEW q \in Proc
  PROVE  \A pc \in ProcPcs :
           /\ [q EXCEPT !.pc = pc] \in Proc
           /\ [q EXCEPT !.pc = pc].pc = pc /\ [q EXCEPT !.pc = pc].op = q.op
           /\ [q EXCEPT !.pc = pc].task = q.task
BY DEF Proc

LEMMA ProcHalts ==
  ASSUME NEW q \in Proc
  PROVE  /\ [q EXCEPT !.pc = "abort", !.op = "halt"] \in Proc
         /\ [q EXCEPT !.pc = "abort", !.op = "halt"].pc = "abort"
         /\ [q EXCEPT !.pc = "abort", !.op = "halt"].op = "halt"
BY DEF Proc, ProcPcs, Ops

LEMMA ProcRegisters ==
  ASSUME NEW q \in Proc, NEW t \in Tasks, NEW c \in Row
  PROVE  /\ [q EXCEPT !.pc = "register", !.task = t, !.copy = c] \in Proc
         /\ [q EXCEPT !.pc = "register", !.task = t, !.copy = c].pc = "register"
         /\ [q EXCEPT !.pc = "register", !.task = t, !.copy = c].task = t
BY DEF Proc, ProcPcs

\* The first section of a command that only reads.
LEMMA Calls ==
  ASSUME LongTaskAssumption, Inv, NEW p \in Procs, NEW op \in Ops,
         NEW pc \in {"signal", "abort", "create", "register", "drive"},
         NEW t \in Tasks \cup {None}, NEW c \in Row, NEW cp \in 0..MaxStep,
         pc \in {"signal", "register"} \/ op = "rollback" => t \in Tasks,
         Call(p, op, pc, t, c, cp), Reads
  PROVE  Inv'
<1> DEFINE r == [pc |-> pc, op |-> op, task |-> t, copy |-> c, cp |-> cp]
<1>1. r \in Proc /\ r.pc = pc /\ r.task = t /\ (HasTask(r) => t \in Tasks)
  BY ProcTyped DEF ProcPcs, HasTask
<1>2. proc' = [proc EXCEPT ![p] = r] /\ proc[p].pc # "register"
  BY DEF Call, At
<1>3. /\ Hears /\ row' = row /\ saved' = saved /\ newest' = newest /\ control' = control
      /\ late' = late /\ ended' = ended /\ on' = on /\ last' = last
  BY DEF Call, Reads, Hears, session
<1>4. cmds' \in 0..MaxCmds
  BY DEF Call, Inv, TypeOK, LongTaskAssumption
<1>5. /\ ended' \in SUBSET Tasks /\ ended \subseteq ended'
      /\ on' \in BOOLEAN /\ last' \in {"user", "goal", "confirm", "other"}
  BY <1>3 DEF Inv, TypeOK
<1> HIDE DEF r
<1> QED
  BY <1>1, <1>2, <1>3, <1>4, <1>5, Quiet

LEMMA Commands ==
  ASSUME LongTaskAssumption, Inv, NEW p \in Procs, Command(p)
  PROVE  Inv'
<1>1. /\ NoRow \in Row /\ \A t \in Tasks : row[t] \in Row
      /\ \A t \in Tasks : saved[t] \subseteq 0..MaxStep
      /\ 0 \in 0..MaxStep
  BY ProcTyped DEF Inv, TypeOK, LongTaskAssumption
<1>2. CASE StartTask(p)
  BY <1>1, <1>2, Calls DEF StartTask, Ops
<1>3. CASE PauseTask(p) \/ CompleteTask(p) \/ CancelTask(p)
  BY <1>1, <1>3, Calls DEF PauseTask, CompleteTask, CancelTask, Ops
<1>4. CASE RollBack(p)
  BY <1>1, <1>4, Calls DEF RollBack, Ops
<1>5. CASE StopSession(p)
  <2>1. ASSUME NEW t \in Tasks, Call(p, "stop", "signal", t, NoRow, 0), Reads
        PROVE  Inv'
    BY <1>1, <2>1, Calls DEF Ops
  <2>2. ASSUME Call(p, "halt", "abort", None, NoRow, 0), Reads
        PROVE  Inv'
    BY <1>1, <2>2, Calls DEF Ops
  <2> QED
    BY <1>5, <2>1, <2>2 DEF StopSession
<1>6. CASE ContinueSession(p)
  <2>1. ASSUME newest \in Tasks, Call(p, "continue", "register", newest, NoRow, 0), Reads
        PROVE  Inv'
    BY <1>1, <2>1, Calls DEF Ops
  <2>2. ASSUME Call(p, "continue", "drive", None, NoRow, 0), Reads
        PROVE  Inv'
    BY <1>1, <2>2, Calls DEF Ops
  <2> QED
    BY <1>6, <2>1, <2>2 DEF ContinueSession
<1>7. CASE ResumeTask(p)
  <2>1. PICK t \in Tasks :
          /\ Call(p, "resume", "register", t, [row[t] EXCEPT !.st = "running"], 0)
          /\ Write(t, [row[t] EXCEPT !.st = "running"])
          /\ ended' = ended
    BY <1>7 DEF ResumeTask
  <2> DEFINE x == [row[t] EXCEPT !.st = "running"]
             r == [pc |-> "register", op |-> "resume", task |-> t, copy |-> x, cp |-> 0]
  <2>2. x \in Row /\ x.st = "running"
    BY ProcTyped DEF Status
  <2>3. r \in Proc /\ r.pc = "register" /\ r.task = t
    BY <1>1, <2>2, ProcTyped DEF ProcPcs, Ops
  <2>4. proc' = [proc EXCEPT ![p] = r] /\ proc[p].pc # "register" /\ Write(t, x)
    BY <2>1 DEF Call, At
  <2>5. /\ Hears /\ saved' = saved /\ control' = control
        /\ late' = late /\ ended' = ended /\ on' = on /\ last' = last
    BY <2>1 DEF Call, Hears, session
  <2>6. cmds' \in 0..MaxCmds
    BY <2>1 DEF Call, Inv, TypeOK, LongTaskAssumption
  <2>7. /\ ended' \in SUBSET Tasks /\ ended \subseteq ended'
        /\ on' \in BOOLEAN /\ last' \in {"user", "goal", "confirm", "other"}
        /\ saved' \in [Tasks -> SUBSET (1..MaxStep)]
        /\ \A u \in Tasks \ {t} : saved'[u] = saved[u]
    BY <2>5 DEF Inv, TypeOK
  <2> HIDE DEF r, x
  <2> QED
    BY <2>2, <2>3, <2>4, <2>5, <2>6, <2>7, Writes
<1> QED
  BY <1>2, <1>3, <1>4, <1>5, <1>6, <1>7 DEF Command

\* A thread that changes no row and starts no daemon.
LEMMA QuietSteps ==
  ASSUME LongTaskAssumption, Inv, NEW p \in Procs,
         Signal(p) \/ Abort(p) \/ DriveSession(p)
  PROVE  Inv'
<1>1. /\ proc[p] \in Proc /\ Idle \in Proc /\ Idle.pc = "idle" /\ ~HasTask(Idle)
      /\ \A pc \in {"mark", "coop"} :
           /\ [proc[p] EXCEPT !.pc = pc] \in Proc
           /\ [proc[p] EXCEPT !.pc = pc].pc = pc
           /\ [proc[p] EXCEPT !.pc = pc].op = proc[p].op
           /\ [proc[p] EXCEPT !.pc = pc].task = proc[p].task
  <2>1. "mark" \in ProcPcs /\ "coop" \in ProcPcs /\ proc[p] \in Proc
    BY ProcTyped DEF ProcPcs
  <2>2. \A pc \in ProcPcs : /\ [proc[p] EXCEPT !.pc = pc] \in Proc
                            /\ [proc[p] EXCEPT !.pc = pc].pc = pc
                            /\ [proc[p] EXCEPT !.pc = pc].op = proc[p].op
                            /\ [proc[p] EXCEPT !.pc = pc].task = proc[p].task
    BY <2>1, ProcAt
  <2> QED
    BY <2>1, <2>2, ProcTyped
<1>2. /\ ended \in SUBSET Tasks /\ on \in BOOLEAN /\ cmds \in 0..MaxCmds
      /\ last \in {"user", "goal", "confirm", "other"}
      /\ HasTask(proc[p]) => proc[p].task \in Tasks
  BY DEF Inv, TypeOK
<1>3. proc \in [Procs -> Proc]
  BY DEF Inv, TypeOK
<1>4. CASE Signal(p)
  <2>1. /\ proc' = [proc EXCEPT ![p] = [proc[p] EXCEPT !.pc = "mark"]]
        /\ proc[p].pc = "signal" /\ Task(p) \in Tasks /\ Task(p) = proc[p].task
    BY <1>2, <1>4 DEF Signal, PGoto, At, Task, HasTask
  <2>2. SignalOf(proc[p].op) \in Signals \ {"Running"}
    BY DEF SignalOf, Signals
  <2>3. Hears /\ ended' \in SUBSET Tasks /\ ended \subseteq ended'
    BY <1>2, <1>4, <2>1, <2>2 DEF Signal, Hears
  <2>4. UNCHANGED <<row, saved, newest, control, late, on, last, cmds>>
    BY <1>4 DEF Signal, session
  <2> QED
    BY <1>1, <1>2, <2>1, <2>3, <2>4, Quiet
<1>5. CASE Abort(p)
  <2>1. /\ proc' = [proc EXCEPT ![p] = [proc[p] EXCEPT !.pc = "coop"]]
        /\ proc[p].pc = "abort" /\ on' = FALSE /\ Hears
        /\ UNCHANGED <<row, saved, newest, control, late, last, cmds, ended>>
    BY <1>5 DEF Abort, PGoto, At, Hears
  <2>2. HasTask([proc[p] EXCEPT !.pc = "coop"]) => proc[p].task \in Tasks
    BY <1>1, <1>2 DEF HasTask
  <2> QED
    BY <1>1, <1>2, <2>1, <2>2, Quiet
<1>6. CASE DriveSession(p)
  <2>1. /\ proc' = [proc EXCEPT ![p] = Idle]
        /\ proc[p].pc = "drive" /\ Hears
        /\ on' \in BOOLEAN /\ last' \in {"user", "goal", "confirm", "other"}
        /\ UNCHANGED <<row, saved, newest, control, late, cmds, ended>>
    BY <1>2, <1>6 DEF DriveSession, Drive, Return, At, Hears
  <2> QED
    BY <1>1, <1>2, <2>1, Quiet
<1> QED
  BY <1>4, <1>5, <1>6

\* A thread that writes a row.
LEMMA MarkSteps ==
  ASSUME LongTaskAssumption, Inv, NEW p \in Procs, Mark(p)
  PROVE  Inv'
<1> DEFINE t == proc[p].task
           x == [row[t] EXCEPT !.st = StatusOf(proc[p].op)]
           r == [proc[p] EXCEPT !.pc = "abort"]
<1>1. proc[p].pc = "mark" /\ t \in Tasks
  BY DEF Mark, At, HasTask, Inv, TypeOK
<1>2. StatusOf(proc[p].op) \in Status \ {"running", "completed"}
  BY DEF StatusOf, Status
<1>3. x \in Row /\ x.st \notin {"running", "completed"}
  BY <1>1, <1>2, ProcTyped
<1>4. /\ r \in Proc /\ r.pc = "abort" /\ r.task = t
      /\ proc' = [proc EXCEPT ![p] = r]
  BY ProcTyped, ProcAt DEF ProcPcs, Mark, PGoto
<1>5. Write(t, x) /\ ended' \in SUBSET Tasks /\ ended \subseteq ended'
  BY <1>1 DEF Mark, Task, Inv, TypeOK
<1>6. /\ Hears /\ UNCHANGED <<saved, control, late, on, last, cmds>>
  BY DEF Mark, Hears, session
<1>7. /\ on' \in BOOLEAN /\ last' \in {"user", "goal", "confirm", "other"}
      /\ cmds' \in 0..MaxCmds /\ saved' \in [Tasks -> SUBSET (1..MaxStep)]
      /\ \A u \in Tasks \ {t} : saved'[u] = saved[u]
  BY <1>6 DEF Inv, TypeOK
<1> HIDE DEF x, r
<1> QED
  BY <1>1, <1>3, <1>4, <1>5, <1>6, <1>7, Writes

LEMMA RewriteSteps ==
  ASSUME LongTaskAssumption, Inv, NEW p \in Procs, Rewrite(p)
  PROVE  Inv'
<1> DEFINE t == proc[p].task
           x == [proc[p].copy EXCEPT !.st = "paused"]
<1>1. proc[p].pc = "rewrite" /\ t \in Tasks
  BY DEF Rewrite, At, HasTask, Inv, TypeOK
<1>3. x \in Row /\ x.st = "paused"
  <2>1. proc[p].copy \in Row
    BY ProcTyped DEF Proc
  <2> QED
    BY <2>1 DEF Row, Status
<1>4. Idle \in Proc /\ Idle.pc = "idle" /\ ~HasTask(Idle) /\ proc' = [proc EXCEPT ![p] = Idle]
  BY ProcTyped DEF Rewrite, Return
<1>5. Write(t, x)
  BY DEF Rewrite, Task
<1>6. /\ Hears /\ UNCHANGED <<control, late, on, last, cmds, ended>>
  BY DEF Rewrite, Hears, session
<1>7. /\ on' \in BOOLEAN /\ last' \in {"user", "goal", "confirm", "other"}
      /\ cmds' \in 0..MaxCmds /\ ended' \in SUBSET Tasks /\ ended \subseteq ended'
  BY <1>6 DEF Inv, TypeOK
<1>8. /\ saved' \in [Tasks -> SUBSET (1..MaxStep)]
      /\ \A u \in Tasks \ {t} : saved'[u] = saved[u]
  BY <1>1 DEF Rewrite, Task, Inv, TypeOK
<1> HIDE DEF x
<1> QED
  BY <1>1, <1>3, <1>4, <1>5, <1>6, <1>7, <1>8, Writes

LEMMA CreateSteps ==
  ASSUME LongTaskAssumption, Inv, NEW p \in Procs, Create(p)
  PROVE  Inv'
<1> DEFINE x == [st |-> "running", step |-> 1]
<1>1. PICK t \in Tasks :
        /\ Write(t, x)
        /\ proc' = [proc EXCEPT ![p] = [@ EXCEPT !.pc = "register", !.task = t, !.copy = x]]
  BY DEF Create
<1> DEFINE r == [proc[p] EXCEPT !.pc = "register", !.task = t, !.copy = x]
<1>2. x \in Row /\ x.st = "running"
  BY DEF Row, Status, LongTaskAssumption
<1>3. r \in Proc /\ r.pc = "register" /\ r.task = t /\ proc' = [proc EXCEPT ![p] = r]
  <2>1. proc[p] \in Proc /\ t \in Tasks /\ proc' = [proc EXCEPT ![p] = r]
    BY <1>1, ProcTyped
  <2>2. /\ [proc[p] EXCEPT !.pc = "register", !.task = t, !.copy = x] \in Proc
        /\ [proc[p] EXCEPT !.pc = "register", !.task = t, !.copy = x].pc = "register"
        /\ [proc[p] EXCEPT !.pc = "register", !.task = t, !.copy = x].task = t
    <3> HIDE DEF x
    <3> QED
      BY <1>2, <2>1 DEF Proc, ProcPcs
  <2> QED
    BY <2>1, <2>2
<1>4. proc[p].pc = "create"
  BY DEF Create, At
<1>5. /\ Hears /\ UNCHANGED <<saved, control, late, on, cmds, ended>> /\ last' = "user"
  BY DEF Create, Hears
<1>6. /\ on' \in BOOLEAN /\ last' \in {"user", "goal", "confirm", "other"}
      /\ cmds' \in 0..MaxCmds /\ ended' \in SUBSET Tasks /\ ended \subseteq ended'
      /\ saved' \in [Tasks -> SUBSET (1..MaxStep)]
      /\ \A u \in Tasks \ {t} : saved'[u] = saved[u]
  BY <1>5 DEF Inv, TypeOK
<1> HIDE DEF x, r
<1> QED
  BY <1>1, <1>2, <1>3, <1>4, <1>5, <1>6, Writes

LEMMA ResumeLatestSteps ==
  ASSUME LongTaskAssumption, Inv, NEW p \in Procs, ResumeLatest(p)
  PROVE  Inv'
<1> DEFINE t == proc[p].task
           x == [row[t] EXCEPT !.st = "running"]
           r == [proc[p] EXCEPT !.op = "resume", !.copy = x]
<1>1. proc[p].pc = "register" /\ t \in Tasks
  BY DEF ResumeLatest, At, HasTask, Inv, TypeOK
<1>2. x \in Row /\ x.st = "running"
  BY <1>1, ProcTyped DEF Status
<1>3. r \in Proc /\ r.pc = "register" /\ r.task = t
  <2>1. proc[p] \in Proc /\ "resume" \in Ops /\ x \in Row
    BY <1>2, ProcTyped DEF Ops
  <2> HIDE DEF x
  <2> QED
    BY <1>1, <2>1 DEF Proc
<1>4. proc' = [proc EXCEPT ![p] = r] /\ Write(t, x)
  BY DEF ResumeLatest, Task
<1>5. /\ Hears /\ UNCHANGED <<saved, control, late, on, last, cmds, ended>>
  BY DEF ResumeLatest, Hears, session
<1>6. /\ on' \in BOOLEAN /\ last' \in {"user", "goal", "confirm", "other"}
      /\ cmds' \in 0..MaxCmds /\ ended' \in SUBSET Tasks /\ ended \subseteq ended'
      /\ saved' \in [Tasks -> SUBSET (1..MaxStep)]
      /\ \A u \in Tasks \ {t} : saved'[u] = saved[u]
  BY <1>5 DEF Inv, TypeOK
<1> HIDE DEF x, r
<1> QED
  BY <1>1, <1>2, <1>3, <1>4, <1>5, <1>6, Writes

LEMMA CooperateSteps ==
  ASSUME LongTaskAssumption, Inv, NEW p \in Procs, Cooperate(p)
  PROVE  Inv'
<1>1. PICK r \in Proc :
        /\ proc' = [proc EXCEPT ![p] = r]
        /\ r.pc \in {"create", "rewrite", "abort", "idle"}
        /\ HasTask(r) => r.task \in Tasks
  <2>1. \A pc \in ProcPcs : /\ [proc[p] EXCEPT !.pc = pc] \in Proc
                            /\ [proc[p] EXCEPT !.pc = pc].pc = pc
                            /\ [proc[p] EXCEPT !.pc = pc].op = proc[p].op
                            /\ [proc[p] EXCEPT !.pc = pc].task = proc[p].task
    BY ProcTyped, ProcAt
  <2>2. /\ [proc[p] EXCEPT !.pc = "abort", !.op = "halt"] \in Proc
        /\ [proc[p] EXCEPT !.pc = "abort", !.op = "halt"].pc = "abort"
        /\ [proc[p] EXCEPT !.pc = "abort", !.op = "halt"].op = "halt"
    BY ProcTyped, ProcHalts
  <2>4. Idle \in Proc /\ Idle.pc = "idle" /\ ~HasTask(Idle)
    BY ProcTyped
  <2>5. "create" \in ProcPcs /\ "rewrite" \in ProcPcs
    BY DEF ProcPcs
  <2>6. proc' = [proc EXCEPT ![p] =
          CASE proc[p].op = "start" -> [proc[p] EXCEPT !.pc = "create"]
            [] proc[p].op = "rollback" -> [proc[p] EXCEPT !.pc = "rewrite"]
            [] proc[p].op = "stop" -> [proc[p] EXCEPT !.pc = "abort", !.op = "halt"]
            [] OTHER -> Idle]
    BY DEF Cooperate, AfterStop
  <2>7. CASE proc[p].op = "start"
    BY <2>1, <2>5, <2>6, <2>7 DEF HasTask
  <2>8. CASE proc[p].op = "rollback"
    <3>1. proc[p].task \in Tasks
      BY <2>8 DEF Inv, TypeOK, HasTask
    <3> QED
      BY <2>1, <2>5, <2>6, <2>8, <3>1 DEF HasTask
  <2>9. CASE proc[p].op = "stop"
    BY <2>2, <2>6, <2>9 DEF HasTask
  <2>10. CASE proc[p].op \notin {"start", "rollback", "stop"}
    BY <2>4, <2>6, <2>10
  <2> QED
    BY <2>7, <2>8, <2>9, <2>10
<1>2. /\ saved' = saved /\ control' = control /\ late' = late /\ ended' = ended /\ cmds' = cmds
      /\ proc[p].pc = "coop"
      /\ UNCHANGED <<on, last>> \/ (on' = TRUE /\ last' = "user")
  BY DEF Cooperate, At, session
<1>3. /\ on' \in BOOLEAN /\ last' \in {"user", "goal", "confirm", "other"}
      /\ cmds' \in 0..MaxCmds /\ ended' \in SUBSET Tasks /\ ended \subseteq ended'
      /\ saved' \in [Tasks -> SUBSET (1..MaxStep)]
  BY <1>2 DEF Inv, TypeOK
<1>4. CASE UNCHANGED <<row, newest, daemon>>
  <2>1. Hears /\ row' = row /\ newest' = newest
    BY <1>4 DEF Hears
  <2> QED
    BY <1>1, <1>2, <1>3, <2>1, Quiet
<1>5. ASSUME NEW t \in Tasks, Interrupt(t)
      PROVE  Inv'
  <2> DEFINE x == [row[t] EXCEPT !.st = "interrupted"]
  <2>1. x \in Row /\ x.st = "interrupted"
    BY ProcTyped DEF Status
  <2>2. Hears /\ Write(t, x)
    BY <1>5 DEF Interrupt, Hears, Signals
  <2>3. \A u \in Tasks \ {t} : saved'[u] = saved[u]
    BY <1>2
  <2> HIDE DEF x
  <2> QED
    BY <1>1, <1>2, <1>3, <2>1, <2>2, <2>3, Writes
<1> QED
  BY <1>4, <1>5 DEF Cooperate

LEMMA MarkCompletedSteps ==
  ASSUME LongTaskAssumption, Inv, NEW p \in Procs, MarkCompleted(p)
  PROVE  Inv'
<1> DEFINE t == proc[p].task
<1>1. /\ row' = [row EXCEPT ![t] = [row[t] EXCEPT !.st = "completed"]] /\ newest' = t
      /\ saved' = [saved EXCEPT ![t] = @ \cup {row[t].step}] /\ ended' = ended \cup {t}
      /\ proc' = [proc EXCEPT ![p] = Idle]
      /\ control' = control /\ daemon' = daemon /\ late' = late /\ on' = on /\ last' = last
      /\ cmds' = cmds /\ proc[p].pc = "mark"
  BY DEF MarkCompleted, Completed, Write, Task, Return, At, session
<1>2. t \in Tasks
  BY <1>1 DEF Inv, TypeOK, HasTask
<1>3. /\ row[t] \in Row /\ [row[t] EXCEPT !.st = "completed"] \in Row
      /\ [row[t] EXCEPT !.st = "completed"].step = row[t].step
  BY <1>2 DEF Inv, TypeOK, Row, Status
<1>4. row' \in [Tasks -> Row] /\ saved' \in [Tasks -> SUBSET (1..MaxStep)]
  BY <1>1, <1>2, <1>3 DEF Inv, TypeOK, Row
<1>5. RowsOK'
  <2>1. \A d \in Daemons : daemon'[d].pc = daemon[d].pc /\ daemon'[d].task = daemon[d].task
    BY <1>1
  <2>2. \A u \in Tasks : Driven(u) => Driven(u)'
    BY <1>1, <2>1, StillDriven, ProcTyped
  <2>3. /\ row'[t].step \in saved'[t]
        /\ \A u \in Tasks \ {t} : row'[u] = row[u] /\ saved'[u] = saved[u]
    BY <1>1, <1>2, <1>3 DEF Inv, TypeOK
  <2> QED
    BY <1>1, <2>2, <2>3 DEF Inv, RowsOK, UndrivenWasEnded, CompletedIsArchived, Driven
<1>6. /\ Hears /\ ended' \in SUBSET Tasks /\ ended \subseteq ended'
      /\ newest' \in Tasks \cup {None} /\ on' \in BOOLEAN /\ cmds' \in 0..MaxCmds
      /\ last' \in {"user", "goal", "confirm", "other"}
  BY <1>1, <1>2 DEF Hears, Inv, TypeOK
<1>7. Idle \in Proc /\ ~HasTask(Idle)
  BY ProcTyped
<1>8. control' = control /\ late' = late /\ proc' = [proc EXCEPT ![p] = Idle]
  BY <1>1
<1> QED
  BY <1>4, <1>5, <1>6, <1>7, <1>8, ThreadGoesOn

\* A new daemon at a place nobody's channel leads to.
LEMMA RegisterSteps ==
  ASSUME LongTaskAssumption, Inv, NEW p \in Procs, Register(p)
  PROVE  Inv'
<1> DEFINE t == proc[p].task
<1>1. proc[p].pc = "register" /\ t \in Tasks /\ proc[p] \in Proc
  BY DEF Register, At, HasTask, Inv, TypeOK
<1>2. PICK d \in Daemons :
        /\ daemon[d].pc = "gone"
        /\ control' = [control EXCEPT ![t] = d]
        /\ daemon' = [daemon EXCEPT ![d] =
             [pc |-> "init", task |-> t, copy |-> proc[p].copy, heard |-> "Running"]]
  BY DEF Register, Is, Task
<1>3. /\ UNCHANGED <<row, saved, newest, last, ended, late, cmds>> /\ on' \in BOOLEAN
      /\ proc' = [proc EXCEPT ![p] = Idle] \/ proc' = [proc EXCEPT ![p].pc = "drive"]
  BY DEF Register, Return, PGoto, Inv, TypeOK
<1>4. [pc |-> "init", task |-> t, copy |-> proc[p].copy, heard |-> "Running"] \in Daemon
  BY <1>1 DEF Daemon, DaemonPcs, Signals, Proc
<1>5. /\ daemon' \in [Daemons -> Daemon]
      /\ daemon'[d].pc = "init" /\ daemon'[d].task = t /\ daemon'[d].heard = "Running"
      /\ \A e \in Daemons \ {d} : daemon'[e] = daemon[e]
  BY <1>2, <1>4 DEF Inv, TypeOK
<1>6. /\ proc' \in [Procs -> Proc]
      /\ \A q \in Procs \ {p} : proc'[q] = proc[q]
      /\ HasTask(proc'[p]) => proc'[p].task = t
  <2>1. "drive" \in ProcPcs /\ Idle \in Proc /\ ~HasTask(Idle)
    BY ProcTyped DEF ProcPcs
  <2>2. /\ [proc[p] EXCEPT !.pc = "drive"] \in Proc
        /\ [proc[p] EXCEPT !.pc = "drive"].task = t
    BY <1>1, <2>1, ProcAt
  <2>3. CASE proc' = [proc EXCEPT ![p] = Idle]
    BY <2>1, <2>3 DEF Inv, TypeOK
  <2>4. CASE proc' = [proc EXCEPT ![p].pc = "drive"]
    <3>1. proc' = [proc EXCEPT ![p] = [proc[p] EXCEPT !.pc = "drive"]]
      BY <2>4
    <3> HIDE <2>4
    <3> QED
      BY <2>2, <3>1 DEF Inv, TypeOK
  <2> QED
    BY <1>3, <2>3, <2>4
<1>7. TypeOK'
  <2>1. control' \in [Tasks -> Daemons \cup {None}]
    BY <1>1, <1>2 DEF Inv, TypeOK
  <2>2. \A q \in Procs : HasTask(proc'[q]) => proc'[q].task \in Tasks
    BY <1>1, <1>6 DEF Inv, TypeOK
  <2>3. \A e \in Daemons : daemon'[e].pc # "gone" => daemon'[e].task \in Tasks
    BY <1>1, <1>5 DEF Inv, TypeOK
  <2> QED
    BY <1>3, <1>5, <1>6, <2>1, <2>2, <2>3 DEF Inv, TypeOK
<1>8. ControlOK'
  <2>1. \A u \in Tasks : control[u] # None => control[u] \in Daemons \ {d}
    BY <1>2 DEF Inv, TypeOK, ControlOK
  <2>2. control'[t] = d /\ \A u \in Tasks \ {t} : control'[u] = control[u]
    BY <1>1, <1>2 DEF Inv, TypeOK
  <2> QED
    BY <1>5, <2>1, <2>2 DEF Inv, ControlOK
<1>9. HeardOK'
  BY <1>3, <1>5 DEF Inv, HeardOK
<1>10. CopyOK'
  BY <1>5 DEF Inv, CopyOK
<1>11. LateOK'
  <2>1. late[d] = 0
    BY <1>2 DEF Inv, LateOK, WayOut
  <2> QED
    BY <1>3, <1>5, <2>1 DEF Inv, LateOK
<1>12. RowsOK'
  <2>1. \A u \in Tasks : u = t => Driven(u)'
    BY <1>5 DEF Driven, Drives, MyTask
  <2>2. \A u \in Tasks \ {t} : Driven(u) => Driven(u)'
    BY <1>2, <1>5, <1>6 DEF Driven, Drives, ToBeDriven, MyTask, At, Task
  <2> QED
    BY <1>3, <2>1, <2>2 DEF Inv, RowsOK, UndrivenWasEnded, CompletedIsArchived, Driven
<1> QED
  BY <1>7, <1>8, <1>9, <1>10, <1>11, <1>12 DEF Inv

(***************************************************************************)
(* The session, a restart, and the theorems.                               *)
(***************************************************************************)
LEMMA SessionSteps ==
  ASSUME LongTaskAssumption, Inv, EndRun \/ SendMessage
  PROVE  Inv'
<1>1. /\ UNCHANGED <<row, saved, newest, control, daemon, proc, ended, late, cmds>>
      /\ on' \in BOOLEAN /\ last' \in {"user", "goal", "confirm", "other"}
  BY DEF EndRun, SendMessage
<1>2. TypeOK'
  BY <1>1 DEF Inv, TypeOK
<1>3. ControlOK' /\ HeardOK' /\ CopyOK' /\ LateOK'
  BY <1>1 DEF Inv, ControlOK, HeardOK, CopyOK, LateOK
<1>4. RowsOK'
  BY <1>1 DEF Inv, RowsOK, UndrivenWasEnded, CompletedIsArchived, Drives, MyTask, ToBeDriven,
     At, Task
<1> QED
  BY <1>2, <1>3, <1>4 DEF Inv

LEMMA CrashSteps ==
  ASSUME LongTaskAssumption, Inv, Crash
  PROVE  Inv'
<1>1. /\ saved' = saved /\ newest' = newest /\ last' = last /\ ended' = ended /\ on' = FALSE
      /\ row' = [t \in Tasks |-> IF row[t].st = "running"
                                   THEN [row[t] EXCEPT !.st = "interrupted"] ELSE row[t]]
      /\ cmds < MaxCmds /\ cmds' = cmds + 1
  BY DEF Crash
<1>2. /\ \A d \in Daemons : daemon'[d] = Gone /\ late'[d] = 0
      /\ \A t \in Tasks : control'[t] = None
      /\ \A p \in Procs : proc'[p] = Idle
      /\ daemon' \in [Daemons -> Daemon] /\ late' \in [Daemons -> 0..2]
      /\ control' \in [Tasks -> Daemons \cup {None}] /\ proc' \in [Procs -> Proc]
  BY Records DEF Crash
<1>3. /\ Gone.pc = "gone" /\ Gone.heard = "Running" /\ ~HasTask(Idle)
  BY DEF Gone, Idle, HasTask
<1>4. \A t \in Tasks : row'[t] \in Row /\ row'[t].st # "running"
                       /\ (row'[t].st = "completed" => row'[t] = row[t])
  BY <1>1 DEF Inv, TypeOK, Row, Status
<1>5. row' \in [Tasks -> Row] /\ cmds' \in 0..MaxCmds
  BY <1>1, <1>4 DEF Inv, TypeOK, LongTaskAssumption
<1>6. TypeOK'
  BY <1>1, <1>2, <1>3, <1>5 DEF Inv, TypeOK
<1>7. ControlOK' /\ HeardOK' /\ CopyOK' /\ LateOK'
  BY <1>2, <1>3 DEF ControlOK, HeardOK, CopyOK, LateOK
<1>8. RowsOK'
  BY <1>1, <1>4 DEF Inv, RowsOK, UndrivenWasEnded, CompletedIsArchived
<1> QED
  BY <1>6, <1>7, <1>8 DEF Inv

LEMMA InitInv ==
  ASSUME LongTaskAssumption, Init
  PROVE  Inv
<1>1. /\ Gone.pc = "gone" /\ Gone.heard = "Running" /\ ~HasTask(Idle)
      /\ NoRow.st = "none"
  BY DEF Gone, Idle, HasTask, NoRow
<1>2. TypeOK
  <2>1. NoRow \in Row /\ Gone \in Daemon /\ Idle \in Proc /\ 0 \in 0..2 /\ 0 \in 0..MaxCmds
    BY Records DEF LongTaskAssumption
  <2>2. /\ row \in [Tasks -> Row] /\ saved \in [Tasks -> SUBSET (1..MaxStep)]
        /\ newest \in Tasks \cup {None} /\ control \in [Tasks -> Daemons \cup {None}]
        /\ daemon \in [Daemons -> Daemon] /\ proc \in [Procs -> Proc]
        /\ late \in [Daemons -> 0..2] /\ cmds \in 0..MaxCmds
    BY <2>1 DEF Init
  <2>3. /\ \A d \in Daemons : daemon[d].pc = "gone"
        /\ \A p \in Procs : ~HasTask(proc[p])
    BY <1>1 DEF Init
  <2>4. on \in BOOLEAN /\ last \in {"user", "goal", "confirm", "other"} /\ ended \subseteq Tasks
    BY DEF Init
  <2> QED
    BY <2>2, <2>3, <2>4 DEF TypeOK
<1>3. ControlOK /\ HeardOK /\ CopyOK /\ LateOK
  BY <1>1 DEF Init, ControlOK, HeardOK, CopyOK, LateOK
<1>4. RowsOK
  BY <1>1 DEF Init, RowsOK, UndrivenWasEnded, CompletedIsArchived
<1> QED
  BY <1>2, <1>3, <1>4 DEF Inv

LEMMA StepInv ==
  ASSUME LongTaskAssumption, Inv, [Next]_vars
  PROVE  Inv'
<1>1. ASSUME NEW d \in Daemons, DaemonStep(d)
      PROVE  Inv'
  BY <1>1, DaemonSteps
<1>2. ASSUME NEW p \in Procs, Command(p) \/ ProcStep(p)
      PROVE  Inv'
  BY <1>2, Commands, QuietSteps, MarkSteps, MarkCompletedSteps, CooperateSteps, CreateSteps,
     RegisterSteps, ResumeLatestSteps, RewriteSteps DEF ProcStep
<1>3. CASE EndRun \/ SendMessage
  BY <1>3, SessionSteps
<1>4. CASE Crash
  BY <1>4, CrashSteps
<1>5. CASE UNCHANGED vars
  <2>1. UNCHANGED <<row, saved, newest, control, daemon, proc, on, last, ended, late, cmds>>
    BY <1>5 DEF vars
  <2>2. TypeOK'
    BY <2>1 DEF Inv, TypeOK
  <2>3. ControlOK' /\ HeardOK' /\ CopyOK' /\ LateOK'
    BY <2>1 DEF Inv, ControlOK, HeardOK, CopyOK, LateOK
  <2>4. RowsOK'
    BY <2>1 DEF Inv, RowsOK, UndrivenWasEnded, CompletedIsArchived, Drives, MyTask, ToBeDriven,
       At, Task
  <2> QED
    BY <2>2, <2>3, <2>4 DEF Inv
<1> QED
  BY <1>1, <1>2, <1>3, <1>4, <1>5 DEF Next

LEMMA Invariance ==
  ASSUME LongTaskAssumption
  PROVE  Spec => []Inv
<1>1. Init => Inv
  BY InitInv
<1>2. Inv /\ [Next]_vars => Inv'
  BY StepInv
<1> QED
  BY <1>1, <1>2, PTL DEF Spec

\* Rows, copies and channels are what their tables may hold, and whoever works
\* on a task has one (task/mod.rs).
THEOREM TypeCorrect ==
  ASSUME LongTaskAssumption
  PROVE  Spec => []TypeOK
<1>1. Inv => TypeOK
  BY DEF Inv
<1> QED
  BY <1>1, Invariance, PTL

\* A row that says running with nobody to execute it is of a task that was once
\* cancelled or completed: no pause, stop, rollback, budget, restart or
\* replacement of a daemon leaves one.
THEOREM RunningIsDriven ==
  ASSUME LongTaskAssumption
  PROVE  Spec => []UndrivenWasEnded
<1>1. Inv => UndrivenWasEnded
  BY DEF Inv, RowsOK
<1> QED
  BY <1>1, Invariance, PTL

\* A daemon that has been told to leave pushes the session on at most once
\* more, however signals, commands and rounds interleave.
THEOREM PushesOnce ==
  ASSUME LongTaskAssumption
  PROVE  Spec => []ToldPushesOnce
<1>1. Inv => ToldPushesOnce
  BY DEF Inv, LateOK, ToldPushesOnce
<1> QED
  BY <1>1, Invariance, PTL

\* A completed task keeps the checkpoint of its last step.
THEOREM Archived ==
  ASSUME LongTaskAssumption
  PROVE  Spec => []CompletedIsArchived
<1>1. Inv => CompletedIsArchived
  BY DEF Inv, RowsOK
<1> QED
  BY <1>1, Invariance, PTL
=============================================================================

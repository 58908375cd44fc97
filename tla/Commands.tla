------------------------------ MODULE Commands ------------------------------
(***************************************************************************)
(* Commands a session runs in a shell, one at a time: run_command          *)
(* (tools/command.rs), the table AppState.running_commands, the stop of    *)
(* the session (agent.rs), which works the table off and then aborts the   *)
(* run, and kill_command (commands.rs), which takes an entry out of the    *)
(* table and kills its process number later.                               *)
(*                                                                         *)
(* A run that is aborted goes on to its next await: until then a doomed    *)
(* command may start, be listed and end like any other, beside one of the  *)
(* session's next run.                                                     *)
(*                                                                         *)
(* A process number is free again once its process is waited for. A kill   *)
(* ends the shell. What the shell started is not followed: whether a kill  *)
(* finds it is up to the system (see the README).                          *)
(***************************************************************************)
EXTENDS Naturals, FiniteSets

CONSTANTS Events,   \* calls of run_command
          Pids, Killers, None

CommandsAssumption ==
  /\ None \notin Events \cup Pids
  /\ None \notin [owner : Events \cup {None}, alive : BOOLEAN]

VARIABLES cmd,      \* run_command of each event
          proc,     \* what has a process number
          table,    \* running_commands
          killer,   \* kill_command
          told,     \* kill signals sent
          stop,     \* stop_session: it holds the table's lock in its "sweep"
          doomed,   \* calls whose run is aborted
          late      \* history: commands started after the sweep that meant their run

vars == <<cmd, proc, table, killer, told, stop, doomed, late>>
stopping == <<stop, doomed, late>>

Idle == [pc |-> "idle", pid |-> None]
UnderWay == {"loop", "leave", "wait"}

Running == {e \in Events : cmd[e].pc \in UnderWay}

TypeOK ==
  /\ \A e \in Events : /\ cmd[e].pc \in UnderWay \cup {"idle", "done"}
                       /\ cmd[e].pc \in UnderWay =>
                            proc[cmd[e].pid] # None /\ proc[cmd[e].pid].owner = e
  /\ \A p \in Pids : proc[p] = None \/ proc[p] \in [owner : Events \cup {None}, alive : BOOLEAN]
  /\ table \subseteq Events /\ told \subseteq Events
  /\ stop \in {"no", "sweep", "abort"} /\ doomed \subseteq Events /\ late \subseteq Events
  /\ Cardinality(Running \ doomed) <= 1
  /\ killer \in [Killers -> Events \cup {None}]

Init ==
  /\ cmd = [e \in Events |-> Idle] /\ proc = [p \in Pids |-> None]
  /\ table = {} /\ killer = [k \in Killers |-> None]
  /\ stop = "no" /\ doomed = {} /\ late = {}
  /\ told = {}

Alive(p) == proc[p] # None /\ proc[p].alive
Root(e) == cmd[e].pid

----------------------------------------------------------------------------
(* Processes                                                               *)

\* kill_process_tree, start_kill of the child, and a shell that ends by itself
Dies(p) == proc' = IF Alive(p) THEN [proc EXCEPT ![p].alive = FALSE] ELSE proc

Exits(e) ==
  /\ cmd[e].pc \in UnderWay /\ Alive(Root(e)) /\ Dies(Root(e))
  /\ UNCHANGED <<cmd, table, killer, told, stopping>>

\* other programs take and leave numbers
OtherStarts(p) ==
  /\ proc[p] = None /\ proc' = [proc EXCEPT ![p] = [owner |-> None, alive |-> TRUE]]
  /\ UNCHANGED <<cmd, table, killer, told, stopping>>
Freed(p) ==
  /\ proc[p] # None
  /\ \/ proc[p].owner = None
     \/ proc[p].owner # None /\ cmd[proc[p].owner].pc = "done" /\ ~proc[p].alive
  /\ proc' = [proc EXCEPT ![p] = None]
  /\ UNCHANGED <<cmd, table, killer, told, stopping>>

----------------------------------------------------------------------------
(* run_command                                                             *)

\* One at a time in a run. The entry is made before the first await.
Start(e, p) ==
  /\ cmd[e].pc = "idle" /\ proc[p] = None /\ stop # "sweep"
  /\ e \in doomed \/ Running \subseteq doomed
  /\ cmd' = [cmd EXCEPT ![e] = [pc |-> "loop", pid |-> p]]
  /\ proc' = [proc EXCEPT ![p] = [owner |-> e, alive |-> TRUE]]
  /\ table' = table \cup {e}
  /\ late' = IF stop = "abort" \/ e \in doomed THEN late \cup {e} ELSE late
  /\ UNCHANGED <<killer, told, stop, doomed>>

Goes(e, pc) == cmd' = [cmd EXCEPT ![e].pc = pc]

\* The pipes are closed: by the shell, and by what it started.
PipesClose(e) ==
  /\ cmd[e].pc = "loop" /\ Goes(e, "leave")
  /\ UNCHANGED <<proc, table, killer, told, stopping>>

Told(e) ==
  /\ cmd[e].pc = "loop" /\ e \in told
  /\ Goes(e, "leave") /\ Dies(Root(e))
  /\ UNCHANGED <<table, killer, told, stopping>>

\* the deadline, or more than 512 KB of output
Limit(e) ==
  /\ cmd[e].pc = "loop" /\ Goes(e, "leave") /\ Dies(Root(e))
  /\ UNCHANGED <<table, killer, told, stopping>>

Unlist(e) == table' = table \ {e}

Unregister(e) ==
  /\ cmd[e].pc = "leave" /\ stop # "sweep" /\ Goes(e, "wait")
  /\ Unlist(e)
  /\ UNCHANGED <<proc, killer, told, stopping>>

Waited(e) ==
  /\ cmd[e].pc = "wait" /\ ~Alive(Root(e))
  /\ Goes(e, "done") /\ proc' = [proc EXCEPT ![Root(e)] = None]
  /\ UNCHANGED <<table, killer, told, stopping>>

\* 3 seconds
WaitedEnough(e) ==
  /\ cmd[e].pc = "wait" /\ Alive(Root(e))
  /\ Goes(e, "done") /\ Dies(Root(e))
  /\ UNCHANGED <<table, killer, told, stopping>>

\* ProcessTreeGuard, and kill_on_drop of the child
Drop(p) == Dies(p)

\* An aborted run is dropped at an await of the call: in the loop, or where it
\* waits for the shell. The entry is nobody's business then.
Aborted(e) ==
  /\ e \in doomed /\ cmd[e].pc \in {"loop", "wait"}
  /\ Goes(e, "done") /\ Drop(Root(e))
  /\ UNCHANGED <<table, killer, told, stopping>>

----------------------------------------------------------------------------
(* stop_session                                                            *)

StopBegins ==
  /\ stop = "no" /\ stop' = "sweep"
  /\ UNCHANGED <<cmd, proc, table, killer, told, doomed, late>>

\* what is listed is killed, and the command told
Strike(e) ==
  /\ Dies(Root(e)) /\ told' = told \cup {e}

Listed == table

SweepTakes(e) ==
  /\ stop = "sweep" /\ e \in Listed /\ table' = table \ {e}
  /\ Strike(e)
  /\ UNCHANGED <<cmd, killer, stopping>>

SweepEnds ==
  /\ stop = "sweep" /\ Listed = {} /\ stop' = "abort"
  /\ UNCHANGED <<cmd, proc, table, killer, told, doomed, late>>

\* The run is in a call, or about to make one, or neither.
Abort ==
  /\ stop = "abort" /\ stop' = "no"
  /\ \/ Running \subseteq doomed /\ UNCHANGED doomed
     \/ \E e \in Events :
          /\ cmd[e].pc # "done" /\ Running \subseteq doomed \cup {e}
          /\ doomed' = doomed \cup {e}
  /\ UNCHANGED <<cmd, proc, table, killer, told, late>>

----------------------------------------------------------------------------
(* kill_command                                                            *)

\* Without an entry only a row of the catalog is mended.
Take(k, e) ==
  /\ killer[k] = None /\ stop # "sweep" /\ e \in table
  /\ killer' = [killer EXCEPT ![k] = e] /\ table' = table \ {e}
  /\ UNCHANGED <<cmd, proc, told, stopping>>

KillTaken(k) ==
  /\ killer[k] # None /\ killer' = [killer EXCEPT ![k] = None]
  /\ Strike(killer[k])
  /\ UNCHANGED <<cmd, table, stopping>>

----------------------------------------------------------------------------

Next ==
  \/ \E e \in Events :
       \/ \E p \in Pids : Start(e, p)
       \/ Exits(e) \/ PipesClose(e) \/ Told(e) \/ Limit(e)
       \/ Unregister(e) \/ Waited(e) \/ WaitedEnough(e) \/ Aborted(e) \/ SweepTakes(e)
  \/ StopBegins \/ SweepEnds \/ Abort
  \/ \E p \in Pids : OtherStarts(p) \/ Freed(p)
  \/ \E k \in Killers : KillTaken(k) \/ \E e \in Events : Take(k, e)

Spec == Init /\ [][Next]_vars

----------------------------------------------------------------------------

\* A process number the table shows is that of the event's own shell, so the
\* sweep, which kills under the table's lock, hits no other; but for what a run
\* started after the sweep that meant it: dropped, the run leaves the entry, and
\* the number may go to another. (kill_command kills when it has let go of the
\* table: nothing is said of what has the number by then.)
EntryIsOwn ==
  \A e \in table \ late : proc[Root(e)] # None /\ proc[Root(e)].owner = e

\* A shell that lives can be reached: its call is not over, and while the call
\* reads its output the shell is listed, or in the hands of a kill_command, or
\* the call is told to end it. No stop, abort, limit or kill loses a shell.
ShellIsHeld ==
  \A p \in Pids : Alive(p) /\ proc[p].owner # None =>
    LET e == proc[p].owner
    IN /\ cmd[e].pc \in UnderWay /\ Root(e) = p
       /\ cmd[e].pc = "loop" => e \in table \cup told \/ \E k \in Killers : killer[k] = e
=============================================================================

-------------------------------- MODULE Mcp --------------------------------
(***************************************************************************)
(* MCP servers: the manager (mcp/mod.rs), the client and its wrapper for   *)
(* the registry of tools (client.rs) and the transport over the pipes of   *)
(* the server's process (transport.rs).                                    *)
(*                                                                         *)
(* A server has one tool here, registered under the server's name.  Its    *)
(* command may be a wrapper (npx, cmd.exe /c): the process that serves is  *)
(* then a child of the one that is killed, and an "orphan" afterwards.     *)
(* An instance is a client with its process; pending requests are kept per *)
(* instance.  Rows of the configuration are inputs.                        *)
(***************************************************************************)
EXTENDS Naturals, Sequences, FiniteSets, Functions

CONSTANTS Servers, Names,
          Ops,      \* commands, and the start of the program, at the manager
          Callers,  \* calls of tools
          None,
          MaxSpawn, \* processes
          MaxId     \* requests

McpAssumption == MaxSpawn \in Nat /\ MaxId \in Nat /\ None \notin Servers \cup Ops

VARIABLES inst,      \* the instances, by the order of their spawns
          clients,   \* McpManager.clients: server to instance, 0 for none
          registry,  \* name of a tool to instance
          lock,      \* the holder of the write lock of clients
          op, call,
          pending,   \* requests that wait, of all the instances
          lost,      \* instances whose start or test failed after the spawn
          overlapped \* servers that two commands worked on at once

vars == <<inst, clients, registry, lock, op, call, pending, lost, overlapped>>
manager == <<inst, clients, registry, lock, op, lost, overlapped>>
requests == <<call, pending>>

Instances == 1 .. Len(inst)
IdleOp == [pc |-> "idle", kind |-> "stop", server |-> None, name |-> None, at |-> 0]
IdleCall == [pc |-> "idle", at |-> 0, id |-> 0, answer |-> 0]

TypeOK ==
  /\ Len(inst) <= MaxSpawn
  /\ \A i \in Instances :
       /\ inst[i].state \in {"alive", "dead", "orphan"} /\ inst[i].wraps \in BOOLEAN
       /\ inst[i].server \in Servers \cup {None} /\ inst[i].ids \in 0 .. MaxId
  /\ clients \in [Servers -> 0 .. Len(inst)] /\ registry \in [Names -> 0 .. Len(inst)]
  /\ lock \in Ops \cup {None} /\ lost \subseteq Instances /\ overlapped \subseteq Servers
  /\ \A o \in Ops : op[o].at \in 0 .. Len(inst)
       /\ op[o].pc \in {"idle", "stop", "kill", "unlist", "spawn", "init", "list", "register", "insert"}
       /\ (op[o].pc \in {"kill", "unlist"} => lock = o)
  /\ \A c \in Callers : call[c].pc \in {"idle", "waits", "done"} /\ call[c].answer \in 0 .. MaxId
  /\ \A p, q \in pending : p.at = q.at /\ p.id = q.id => p = q

Init ==
  /\ inst = << >> /\ clients = [s \in Servers |-> 0] /\ registry = [n \in Names |-> 0]
  /\ lock = None /\ op = [o \in Ops |-> IdleOp] /\ call = [c \in Callers |-> IdleCall]
  /\ pending = {} /\ lost = {} /\ overlapped = {}

----------------------------------------------------------------------------
(* start_server, stop_server, test_connection                              *)

Goto(o, pc) == op' = [op EXCEPT ![o].pc = pc]
Ends(o) == op' = [op EXCEPT ![o] = IdleOp]

\* wrong: a server that is saved again is started beside the old one
FirstStepNew(kind) == IF kind = "stop" THEN "stop" ELSE "spawn"

\* start_server stops first; a test has no server
FirstStep(kind) == IF kind = "test" THEN "spawn" ELSE "stop"

AnyName == CHOOSE n \in Names : TRUE

\* save, delete, test, reload and the start of the program
Begin(o, kind, s, name) ==
  /\ op[o].pc = "idle" /\ (kind = "test") = (s = None)
  /\ kind # "start" => name = AnyName
  /\ op' = [op EXCEPT ![o] = [pc |-> FirstStep(kind), kind |-> kind, server |-> s,
                              name |-> name, at |-> 0]]
  /\ overlapped' = IF \E p \in Ops : op[p].pc # "idle" /\ op[p].server = s
                   THEN overlapped \cup ({s} \ {None}) ELSE overlapped
  /\ UNCHANGED <<inst, clients, registry, lock, lost, requests>>

\* after the stop: a disabled server is not started
AfterStop(o) == IF op[o].kind = "start" THEN Goto(o, "spawn") ELSE Ends(o)

StopNone(o) ==
  /\ op[o].pc = "stop" /\ lock = None /\ clients[op[o].server] = 0
  /\ AfterStop(o)
  /\ UNCHANGED <<inst, clients, registry, lock, lost, overlapped, requests>>

\* the lock is held over the two awaits that follow
StopTakes(o) ==
  LET s == op[o].server IN
  /\ op[o].pc = "stop" /\ lock = None /\ clients[s] # 0
  /\ lock' = o /\ clients' = [clients EXCEPT ![s] = 0]
  /\ op' = [op EXCEPT ![o].pc = "kill", ![o].at = clients[s]]
  /\ UNCHANGED <<inst, registry, lost, overlapped, requests>>

Killed(i) ==
  [inst EXCEPT ![i].state = IF @ = "alive" /\ inst[i].wraps THEN "orphan"
                            ELSE IF @ = "orphan" THEN @ ELSE "dead"]

Kill(o) ==
  /\ op[o].pc = "kill" /\ inst' = Killed(op[o].at)
  /\ Goto(o, "unlist")
  /\ UNCHANGED <<clients, registry, lock, lost, overlapped, requests>>

\* The tools to unregister are asked from the process that was just killed. An
\* orphan may answer.
Unlist(o) ==
  LET i == op[o].at IN
  /\ op[o].pc = "unlist" /\ lock' = None
  /\ \/ /\ inst[i].state = "orphan"
        /\ registry' = [registry EXCEPT ![inst[i].name] = 0]
     \/ UNCHANGED registry
  /\ AfterStop(o)
  /\ UNCHANGED <<inst, clients, lost, overlapped, requests>>

Spawn(o) ==
  /\ op[o].pc = "spawn" /\ Len(inst) < MaxSpawn
  /\ \E wraps \in BOOLEAN :
       inst' = Append(inst, [state |-> "alive", wraps |-> wraps, server |-> op[o].server,
                             name |-> op[o].name, ids |-> 0])
  /\ op' = [op EXCEPT ![o].pc = "init", ![o].at = Len(inst')]
  /\ UNCHANGED <<clients, registry, lock, lost, overlapped, requests>>

SpawnFails(o) ==
  /\ op[o].pc = "spawn" /\ Ends(o)
  /\ UNCHANGED <<inst, clients, registry, lock, lost, overlapped, requests>>

\* initialize, then tools/list
Answers(o) ==
  /\ op[o].pc \in {"init", "list"} /\ inst[op[o].at].state = "alive"
  /\ IF op[o].pc = "list" /\ op[o].kind = "test"
     THEN inst' = Killed(op[o].at) /\ Ends(o)
     ELSE UNCHANGED inst /\ Goto(o, IF op[o].pc = "init" THEN "list" ELSE "register")
  /\ UNCHANGED <<clients, registry, lock, lost, overlapped, requests>>

\* an error or 20 seconds: the client is dropped, its process is not killed
Fails(o) ==
  /\ op[o].pc \in {"init", "list"}
  /\ lost' = lost \cup {op[o].at} /\ Ends(o)
  /\ UNCHANGED <<inst, clients, registry, lock, overlapped, requests>>

\* the last one to register a name has it
Put(n, i) == registry' = [registry EXCEPT ![n] = i]

Register(o) ==
  /\ op[o].pc = "register" /\ Put(op[o].name, op[o].at)
  /\ Goto(o, "insert")
  /\ UNCHANGED <<inst, clients, lock, lost, overlapped, requests>>

Insert(o) ==
  /\ op[o].pc = "insert" /\ lock = None
  /\ clients' = [clients EXCEPT ![op[o].server] = op[o].at]
  /\ Ends(o)
  /\ UNCHANGED <<inst, registry, lock, lost, overlapped, requests>>

\* A process ends by itself; an orphan, or one whose client is dropped, at the
\* latest when its input is closed, if it minds.
Exits(i) ==
  /\ inst[i].state \in {"alive", "orphan"} /\ inst' = [inst EXCEPT ![i].state = "dead"]
  /\ UNCHANGED <<clients, registry, lock, op, lost, overlapped, requests>>

----------------------------------------------------------------------------
(* send_request, for a call of a tool                                      *)

Asked == FoldFunction(LAMBDA r, n : r.ids + n, 0, inst)

Send(c, n) ==
  LET i == registry[n] IN
  /\ call[c].pc # "waits" /\ i # 0 /\ Asked < MaxId
  /\ LET id == inst[i].ids + 1 IN
     /\ inst' = [inst EXCEPT ![i].ids = id]
     /\ pending' = pending \cup {[at |-> i, id |-> id, caller |-> c]}
     /\ call' = [call EXCEPT ![c] =
          IF inst[i].state = "dead" THEN IdleCall
          ELSE [pc |-> "waits", at |-> i, id |-> id, answer |-> 0]]
  /\ UNCHANGED <<clients, registry, lock, op, lost, overlapped>>

\* an answer is for the request with its id, if that one still waits
Match(i, id) == {p \in pending : p.at = i /\ p.id = id}

\* A server answers in any order, and may answer twice.
Answer(i, id) ==
  /\ inst[i].state \in {"alive", "orphan"} /\ id \in 1 .. inst[i].ids
  /\ \E p \in Match(i, id) :
       /\ pending' = pending \ {p}
       /\ call' = IF call[p.caller].pc = "waits" /\ call[p.caller].at = i /\ call[p.caller].id = p.id
                  THEN [call EXCEPT ![p.caller].pc = "done", ![p.caller].answer = id] ELSE call
  /\ UNCHANGED manager

\* 120 seconds
TimesOut(c) ==
  /\ call[c].pc = "waits"
  /\ pending' = {p \in pending : p.at # call[c].at \/ p.id # call[c].id}
  /\ call' = [call EXCEPT ![c] = IdleCall]
  /\ UNCHANGED manager

\* the run of the caller is stopped: the request stays listed
Aborts(c) ==
  /\ call[c].pc = "waits" /\ call' = [call EXCEPT ![c] = IdleCall]
  /\ UNCHANGED <<manager, pending>>

----------------------------------------------------------------------------

Next ==
  \/ \E o \in Ops, k \in {"start", "stop", "test"}, s \in Servers \cup {None}, n \in Names :
       Begin(o, k, s, n)
  \/ \E o \in Ops :
       \/ StopNone(o) \/ StopTakes(o) \/ Kill(o) \/ Unlist(o)
       \/ Spawn(o) \/ SpawnFails(o) \/ Answers(o) \/ Fails(o) \/ Register(o) \/ Insert(o)
  \/ \E i \in Instances : Exits(i)
  \/ \E c \in Callers, n \in Names : Send(c, n)
  \/ \E i \in Instances, id \in 1 .. MaxId : Answer(i, id)
  \/ \E c \in Callers : TimesOut(c) \/ Aborts(c)

Spec == Init /\ [][Next]_vars

----------------------------------------------------------------------------

\* A process that runs is the manager's: it is the client of its server, or a
\* command is about to make it that or to kill it. Others are what a failed
\* start left, what two commands at once for one server left, and children of
\* killed wrappers.
Held(i) == \/ \E s \in Servers : clients[s] = i
           \/ \E o \in Ops : op[o].at = i
ProcessesAreHeld ==
  \A i \in Instances :
    inst[i].state = "alive" /\ i \notin lost /\ inst[i].server \notin overlapped => Held(i)

\* After a restart the tool reaches the new process, though the tools of the
\* old one are still registered: when no name is shared, what is registered
\* for the client of a server is that client.
Sole(i) == \A j \in Instances : inst[j].name = inst[i].name => inst[j].server = inst[i].server
ToolReachesClient ==
  \A s \in Servers \ overlapped :
    clients[s] # 0 /\ Sole(clients[s]) => registry[inst[clients[s]].name] = clients[s]

\* Whatever is late, answered twice or given up, a caller gets its own answer.
AnswersAreOwn ==
  \A c \in Callers : call[c].answer # 0 => call[c].answer = call[c].id
=============================================================================

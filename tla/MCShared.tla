----------------------------- MODULE MCShared -----------------------------
(* Components that serve all sessions, for TLC, side by side: the databases, *)
(* the plan board, MCP servers, running commands, the browsers and the state *)
(* they save. They share no state; the first state says which of them a      *)
(* behaviour is about, and the variables of the others are None in it. (The  *)
(* module of the largest is extended and not instantiated: TLC evaluates it  *)
(* faster.)                                                                  *)
EXTENDS Storage, TLC

CONSTANTS Blank, o1, o2, t1, t2, k1, k2, s1, s2, s3

CONSTANTS
  Users,                                     \* who works at servers and browsers
  Servers, Names, Callers, MaxSpawn, MaxId,  \* of Mcp
  Events, Pids, Killers,                     \* of Commands
  Keys, MaxChromes, MaxPages, MaxCalls,      \* of Browser
  Visitors, Sites, Tokens, Torn, MaxScripts, \* of BrowserStorage
  Planners, Plans, PlanParent, MaxLog, MaxBeside, MaxClock  \* of PlanBoard

VARIABLES part,
  disk, active, todos, log, running, clock, crossed, aside, shown, back,
  inst, clients, registry, call, pending, lost, overlapped,
  cmd, table, killer, told, stop, doomed, late,
  chrome, daemon, sessions, calls, raced, let_go,
  file, hand, wanted,
  lock, op, page  \* of two

ofStorage == <<cat, hot, cold, rows, known, pool, base, dir, turning, boot, written, broken,
               split, removed, switched, ops>>
ofPlans == <<disk, active, todos, log, running, clock, crossed, aside, shown, back>>
ofMcp == <<inst, clients, registry, call, pending, lost, overlapped>>
ofCommands == <<cmd, table, killer, told, stop, doomed, late>>
ofBrowser == <<chrome, daemon, sessions, calls, raced, let_go>>
ofState == <<file, hand, wanted>>

\* Two sessions of an older version, the second a child of the first, and one
\* made while the program runs.
Family == [s \in Sessions |-> IF s = s2 THEN s1 ELSE None]

\* The plans of a session and its child.
Plan == INSTANCE PlanBoard WITH Sessions <- Planners, Parent <- PlanParent
Couple == [s \in {s1, s2} |-> IF s = s2 THEN s1 ELSE None]
Lengths == [s \in {s1, s2} |-> IF s = s1 THEN 5 ELSE 3]

\* Servers that commands start, stop and test, and callers of their tools;
\* commands in shells; sessions whose tools and commands use the browsers, and
\* the logins of their pages.
Server == INSTANCE Mcp WITH Ops <- Users
Shell == INSTANCE Commands
Pages == INSTANCE Browser WITH Ops <- Users

Login == INSTANCE BrowserStorage WITH Keys <- Visitors, Hands <- Users

ASSUME PartsAssumption ==
  /\ StorageAssumption /\ Plan!PlanAssumption /\ Server!McpAssumption
  /\ Shell!CommandsAssumption /\ Pages!BrowserAssumption
  /\ Login!BrowserStorageAssumption

Symmetry == Permutations({o1, o2}) \cup Permutations({t1, t2})
              \cup Permutations({k1, k2})

NoStorage ==
  /\ cat = None /\ hot = None /\ cold = None /\ rows = None /\ known = None
  /\ pool = None /\ base = None /\ dir = None /\ turning = None /\ boot = None
  /\ written = None /\ broken = None /\ split = None /\ removed = None /\ switched = None /\ ops = None
NoPlans ==
  /\ disk = None /\ active = None /\ todos = None /\ log = None /\ running = None
  /\ clock = None /\ crossed = None /\ aside = None /\ shown = None /\ back = None
NoMcp ==
  /\ inst = None /\ clients = None /\ registry = None /\ call = None
  /\ pending = None /\ lost = None /\ overlapped = None
NoCommands ==
  /\ cmd = None /\ table = None /\ killer = None /\ told = None
  /\ stop = None /\ doomed = None /\ late = None
NoBrowser ==
  /\ chrome = None /\ daemon = None /\ sessions = None /\ calls = None
  /\ raced = None /\ let_go = None
NoState == file = None /\ hand = None /\ wanted = None
NoLock == lock = None /\ op = None

PartsInit ==
  \/ /\ part = "storage" /\ Init
     /\ NoPlans /\ NoMcp /\ NoCommands /\ NoBrowser /\ NoState /\ NoLock /\ page = None
  \/ /\ part = "plans" /\ Plan!Init /\ proc = None
     /\ NoStorage /\ NoMcp /\ NoCommands /\ NoBrowser /\ NoState /\ NoLock /\ page = None
  \/ /\ part = "mcp" /\ Server!Init /\ proc = None
     /\ NoStorage /\ NoPlans /\ NoCommands /\ NoBrowser /\ NoState /\ page = None
  \/ /\ part = "commands" /\ Shell!Init
     /\ NoStorage /\ NoPlans /\ NoMcp /\ NoBrowser /\ NoState /\ NoLock /\ page = None
  \/ /\ part = "browser" /\ Pages!Init /\ proc = None
     /\ NoStorage /\ NoPlans /\ NoMcp /\ NoCommands /\ NoState
  \/ /\ part = "login" /\ Login!Init /\ proc = None
     /\ NoStorage /\ NoPlans /\ NoMcp /\ NoCommands /\ NoBrowser /\ NoLock

PartsNext ==
  \/ /\ part = "storage" /\ Next
     /\ UNCHANGED <<part, ofPlans, ofMcp, ofCommands, ofBrowser, ofState, lock, op, page>>
  \/ /\ part = "plans" /\ Plan!Next
     /\ UNCHANGED <<part, ofStorage, ofMcp, ofCommands, ofBrowser, ofState>>
     /\ UNCHANGED <<proc, lock, op, page>>
  \/ /\ part = "mcp" /\ Server!Next
     /\ UNCHANGED <<part, ofStorage, ofPlans, ofCommands, ofBrowser, ofState, proc, page>>
  \/ /\ part = "commands" /\ Shell!Next
     /\ UNCHANGED <<part, ofStorage, ofPlans, ofMcp, ofBrowser, ofState, lock, op, page>>
  \/ /\ part = "browser" /\ Pages!Next
     /\ UNCHANGED <<part, ofStorage, ofPlans, ofMcp, ofCommands, ofState, proc>>
  \/ /\ part = "login" /\ Login!Next
     /\ UNCHANGED <<part, ofStorage, ofPlans, ofMcp, ofCommands, ofBrowser>>
     /\ UNCHANGED <<proc, lock, op>>

partVars == <<part, ofStorage, ofPlans, ofMcp, ofCommands, ofBrowser, ofState, proc, lock,
          op, page>>
PartsSpec == PartsInit /\ [][PartsNext]_partVars

-----------------------------------------------------------------------------
(* The variables of each component keep their types.                         *)
PartsTypeOK ==
  /\ part = "storage" => TypeOK
  /\ part = "plans" => Plan!TypeOK
  /\ part = "mcp" => Server!TypeOK
  /\ part = "commands" => Shell!TypeOK
  /\ part = "browser" => Pages!TypeOK
  /\ part = "login" => Login!TypeOK

(* Whatever is archived, restored, migrated, forked and cut short, a          *)
(* session's rows are in the one file its reads go to; and a page sent to a   *)
(* site finds the local storage that was saved for it, but for the cases      *)
(* NavigatedIsRestored names.                                                 *)
SavedIsThere ==
  /\ part = "storage" => RowsReadable /\ RowsHeld
  /\ part = "login" => Login!NavigatedIsRestored

(* Unless it names or overwrites the plan of another session, a session finds *)
(* its own or its parent's only; as long as agents only create, switch to,    *)
(* step and complete plans, it has none in progress beside the active one;    *)
(* and a new message, with nothing withdrawn, has an empty board. No more is  *)
(* said of a board after a revert than BoardGoesBack says.                    *)
PlansHold ==
  part = "plans" => Plan!Isolated /\ Plan!OneInProgress /\ Plan!BoardIsOfTurn


(* What is started is held where a later stop finds it, and nothing else is   *)
(* there: server processes, with their tools and answers, shell commands,     *)
(* browsers and their sessions.                                               *)
StartedIsHeld ==
  /\ part = "mcp" =>
       Server!ProcessesAreHeld /\ Server!ToolReachesClient /\ Server!AnswersAreOwn
  /\ part = "commands" => Shell!EntryIsOwn /\ Shell!ShellIsHeld
  /\ part = "browser" => Pages!BrowsersAreHeld /\ Pages!ListedIsOpen
=============================================================================

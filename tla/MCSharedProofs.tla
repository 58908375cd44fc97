--------------------------- MODULE MCSharedProofs ---------------------------
(* Theorems about MCShared, for any servers, commands, processes, browsers,  *)
(* users and bounds: what is started is held. A part of the system is what   *)
(* it was at the start, and the invariant of that part is kept by the steps  *)
(* of its module. (MCSavedProofs has the other parts.)                       *)
EXTENDS MCShared, Sequences, TLAPS

(***************************************************************************)
(* Commands. A command that runs has its process number to itself. It is   *)
(* listed while it runs, unless it came late; or a kill has taken it off.  *)
(* Nothing is listed between a sweep and the abort, and of what an abort   *)
(* has doomed, but what is late.                                           *)
(***************************************************************************)
CmdRec == [pc : Shell!UnderWay \cup {"idle", "done"}, pid : Pids \cup {None}]
ProcRec == [owner : Events \cup {None}, alive : BOOLEAN]

ShellTyped ==
  /\ cmd \in [Events -> CmdRec] /\ proc \in [Pids -> ProcRec \cup {None}]
  /\ killer \in [Killers -> Events \cup {None}]
  /\ table \subseteq Events /\ told \subseteq Events /\ late \subseteq Events
  /\ stop \in {"no", "sweep", "abort"}

Taken(e) == \E k \in Killers : killer[k] = e
HasNumber(e) == cmd[e].pc # "idle" \/ e \in table \/ Taken(e) => cmd[e].pid \in Pids
OwnsNumber(e) ==
  cmd[e].pc \in Shell!UnderWay => proc[cmd[e].pid] # None /\ proc[cmd[e].pid].owner = e
Reachable(e) == cmd[e].pc = "loop" => e \in table \cup told \/ Taken(e)
\* What an event has is its number; and it has none that lives when it is done.
Owned(p) ==
  proc[p] # None /\ proc[p].owner # None =>
    LET e == proc[p].owner
    IN cmd[e].pc # "idle" /\ cmd[e].pid = p /\ (proc[p].alive => cmd[e].pc # "done")
ListedRuns == \A e \in table \ late : cmd[e].pc \in {"loop", "leave"}

ShellInv ==
  /\ ShellTyped
  /\ \A e \in Events : HasNumber(e) /\ OwnsNumber(e) /\ Reachable(e)
  /\ \A p \in Pids : Owned(p)
  /\ ListedRuns
  /\ stop = "abort" => table \subseteq late
  /\ table \cap doomed \subseteq late

(***************************************************************************)
(* Servers. Unless two commands worked on a server at once, one at most    *)
(* does, and while it works on it past its stop the server has no client.  *)
(***************************************************************************)
InstRec == [state : {"alive", "dead", "orphan"}, wraps : BOOLEAN,
            server : Servers \cup {None}, name : Names, ids : Nat]
OpPcs == {"idle", "stop", "kill", "unlist", "spawn", "init", "list", "register", "insert"}
OpRec == [pc : OpPcs, kind : {"start", "stop", "test"}, server : Servers \cup {None},
          name : Names \cup {None}, at : Nat]

ServerTyped ==
  /\ inst \in Seq(InstRec)
  /\ clients \in [Servers -> Nat] /\ registry \in [Names -> Nat]
  /\ op \in [Users -> OpRec] /\ lock \in Users \cup {None}
  /\ overlapped \subseteq Servers
  /\ \A s \in Servers : clients[s] # 0 =>
       clients[s] \in Server!Instances /\ inst[clients[s]].server = s

\* The instance that an operation has, for a server or for a test.
HasPcs == {"kill", "unlist", "init", "list", "register", "insert"}
HoldsPcs == HasPcs \ {"unlist"}
PastStop == HasPcs \cup {"spawn"}
OpOK(o) ==
  /\ op[o].pc # "idle" => op[o].name \in Names /\ (op[o].kind = "test" <=> op[o].server = None)
  /\ op[o].pc \in {"stop", "kill", "unlist", "register", "insert"} => op[o].kind # "test"
  /\ op[o].pc \in PastStop \ {"kill", "unlist"} => op[o].kind # "stop"
  /\ op[o].pc \in {"kill", "unlist"} => lock = o
  /\ op[o].pc \in HasPcs =>
       op[o].at \in Server!Instances /\ inst[op[o].at].server = op[o].server
  /\ op[o].pc \in {"init", "list", "register", "insert"} => inst[op[o].at].name = op[o].name

WorksOn(o, s) == op[o].pc # "idle" /\ op[o].server = s
OneWorks ==
  \A s \in Servers \ overlapped : \A o, p \in Users : WorksOn(o, s) /\ WorksOn(p, s) => o = p
NoClientMeanwhile ==
  \A o \in Users : op[o].pc \in PastStop /\ op[o].server \in Servers \ overlapped =>
    clients[op[o].server] = 0
HeldBy(i) ==
  \/ inst[i].server \in Servers /\ clients[inst[i].server] = i
  \/ \E o \in Users : op[o].pc \in HoldsPcs /\ op[o].at = i
AliveIsHeld ==
  \A i \in Server!Instances :
    inst[i].state = "alive" /\ i \notin lost /\ inst[i].server \notin overlapped => HeldBy(i)
RegisteredFirst ==
  \A o \in Users :
    /\ op[o].pc = "insert" /\ op[o].server \notin overlapped /\ Server!Sole(op[o].at)
    => registry[op[o].name] = op[o].at

ServerInv ==
  /\ ServerTyped /\ \A o \in Users : OpOK(o)
  /\ OneWorks /\ NoClientMeanwhile /\ AliveIsHeld
  /\ RegisteredFirst /\ Server!ToolReachesClient

\* What a caller waits for, or was told.
IsCall(r) == r = [pc |-> r.pc, at |-> r.at, id |-> r.id, answer |-> r.answer]
AnswersInv ==
  /\ call = [c \in Callers |-> call[c]] /\ \A c \in Callers : IsCall(call[c])
  /\ \A p \in pending : p.caller \in Callers
  /\ Server!AnswersAreOwn

(***************************************************************************)
(* Browsers. A page belongs to one session, or to one operation that makes *)
(* or closes it. A browser belongs to the daemon, to a session, or to the  *)
(* operation that has just started it or is to close it.                   *)
(***************************************************************************)
ChromeRec == [kind : {"daemon", "window"}, state : {"alive", "cut", "dead"}]
PageRec == [at : Nat, state : {"context", "open", "closed"}]
SesRec == [cdp : Nat, page : Nat]
Ensuring == {"check", "stop", "spawn", "child", "cdp", "send"}
UserPcs == Ensuring \cup {"idle", "find", "get", "close", "window", "insert", "closing", "use"}
UserRec == [pc : UserPcs, kind : {"navigate", "open", "look", "close"}, key : Keys \cup {None},
            window : BOOLEAN, got : Nat, ses : SesRec, back : {"end", "launch"},
            call : {"none", "root", "context", "target", "attach", "close", "dispose"}]

PagesTyped ==
  /\ chrome \in Seq(ChromeRec) /\ page \in Seq(PageRec)
  /\ daemon \in [child : Nat, cdp : Nat]
  /\ daemon.child \in 0 .. Len(chrome) /\ daemon.cdp \in 0 .. Len(chrome)
  /\ sessions \in [Keys -> SesRec] /\ op \in [Users -> UserRec]
  /\ lock \in Users \cup {None} /\ raced \in BOOLEAN

IsPage(n) == n \in 1 .. Len(page)
Whole(s) == s.cdp \in Pages!Chromes /\ IsPage(s.page)
Listing(k) == sessions[k] # Pages!NoSession
\* what a user is about: a page that is made, that is there, that is closed
Makes(r) == r.call \in {"target", "attach"} \/ r.pc = "insert"
Opened(r) == r.call = "attach" \/ r.pc = "insert"
Closes(r) == r.call \in {"close", "dispose"}
UserOK(o) ==
  /\ op[o].pc # "idle" => op[o].key \in Keys
  /\ op[o].pc \in Ensuring => op[o].call # "none"
  /\ op[o].pc \notin Ensuring \cup {"closing"} => op[o].call \in {"none", "root"}
  /\ op[o].pc = "closing" => op[o].call = "close"
  /\ op[o].got \in 0 .. Len(chrome)
  /\ op[o].pc = "child" => op[o].got # 0
  /\ op[o].call = "context" => op[o].ses.cdp \in Pages!Chromes
  /\ Makes(op[o]) \/ Closes(op[o]) => Whole(op[o].ses)
  /\ Closes(op[o]) => lock = o
UsersOK == \A o \in Users : UserOK(o)

ListedApart ==
  \A k \in Keys : Listing(k) =>
    /\ Whole(sessions[k]) /\ page[sessions[k].page].state = "open"
    /\ \A j \in Keys : Listing(j) /\ sessions[j].page = sessions[k].page => j = k
UsedApart ==
  \A o \in Users : Makes(op[o]) \/ Closes(op[o]) =>
    \A k \in Keys : Listing(k) => sessions[k].page # op[o].ses.page
MadeApart ==
  \A o, p \in Users :
    Makes(op[o]) /\ (Makes(op[p]) \/ Closes(op[p])) /\ op[o].ses.page = op[p].ses.page => o = p
MadeOpen == \A o \in Users : Opened(op[o]) => page[op[o].ses.page].state = "open"
PagesApart == ListedApart /\ UsedApart /\ MadeApart /\ MadeOpen

StartPcs == {"stop", "spawn", "child", "cdp"}
StartsAlone ==
  ~raced => /\ \A o, p \in Users : op[o].pc \in StartPcs /\ op[p].pc \in StartPcs => o = p
            /\ \A o \in Users : op[o].pc \in {"spawn", "child"} => daemon.child = 0
DaemonHeld ==
  ~raced => \A i \in Pages!Chromes :
    Pages!Runs(i) /\ i \notin let_go /\ chrome[i].kind = "daemon" =>
      daemon.child = i \/ \E o \in Users : op[o].pc = "child" /\ op[o].got = i
WindowHeld ==
  \A i \in Pages!Chromes :
    Pages!Runs(i) /\ i \notin let_go /\ chrome[i].kind = "window" =>
      \/ \E k \in Keys : sessions[k].cdp = i
      \/ \E o \in Users : op[o].pc \in {"insert", "closing"} /\ op[o].ses.cdp = i

PagesInv ==
  /\ PagesTyped /\ UsersOK /\ PagesApart
  /\ StartsAlone /\ DaemonHeld /\ WindowHeld

(***************************************************************************)
(* Commands, step by step.                                                 *)
(***************************************************************************)
LEMMA ShellTypes ==
  ASSUME ShellInv
  PROVE  /\ ShellTyped /\ None \notin ProcRec /\ None \notin Events /\ None \notin Pids
         /\ proc \in [Pids -> ProcRec \cup {None}] /\ cmd \in [Events -> CmdRec]
         /\ Shell!UnderWay = {"loop", "leave", "wait"}
BY PartsAssumption DEF ShellInv, ShellTyped, ProcRec, Shell!CommandsAssumption, Shell!UnderWay

\* No number changes hands, and no process comes to life.
NumbersKept ==
  \A q \in Pids : /\ proc[q] # None => proc'[q] # None /\ proc'[q].owner = proc[q].owner
                  /\ proc'[q] # None => proc[q] # None /\ (proc'[q].alive => proc[q].alive)

LEMMA DiesKeeps ==
  ASSUME ShellInv, NEW p \in Pids, Shell!Dies(p)
  PROVE  /\ proc' \in [Pids -> ProcRec \cup {None}] /\ NumbersKept
         /\ proc[p] # None => ~proc'[p].alive
<1>t. None \notin ProcRec /\ proc \in [Pids -> ProcRec \cup {None}]
  BY ShellTypes
<1>1. CASE ~Shell!Alive(p)
  <2>1. proc' = proc
    BY <1>1 DEF Shell!Dies
  <2> QED
    BY <1>t, <1>1, <2>1 DEF NumbersKept, Shell!Alive
<1>2. CASE Shell!Alive(p)
  <2> DEFINE r == [proc[p] EXCEPT !.alive = FALSE]
  <2>1. proc[p] \in ProcRec
    BY <1>t, <1>2 DEF Shell!Alive
  <2>2. r \in ProcRec /\ r.owner = proc[p].owner /\ ~r.alive
    BY <2>1 DEF ProcRec
  <2>3. proc' = [proc EXCEPT ![p] = r]
    BY <1>2 DEF Shell!Dies
  <2> HIDE DEF r
  <2>4. proc' \in [Pids -> ProcRec \cup {None}] /\ proc'[p] = r
        /\ \A q \in Pids \ {p} : proc'[q] = proc[q]
    BY <1>t, <2>2, <2>3
  <2> QED
    BY <1>t, <1>2, <2>1, <2>2, <2>4 DEF NumbersKept, Shell!Alive
<1> QED
  BY <1>1, <1>2

\* A command moves on: the others stay, and so does its number.
MovesTo(e, pc) == cmd' = [cmd EXCEPT ![e] = [pc |-> pc, pid |-> cmd[e].pid]]
Stays == cmd' = cmd

LEMMA CommandMoves ==
  ASSUME ShellInv, NEW e \in Events, NEW pc \in {"loop", "leave", "wait", "done"},
         MovesTo(e, pc), cmd[e].pc \in Shell!UnderWay, pc = "loop" => cmd[e].pc = "loop",
         proc' \in [Pids -> ProcRec \cup {None}],
         NumbersKept \/ (pc = "done" /\ proc' = [proc EXCEPT ![cmd[e].pid] = None]),
         pc = "done" => proc'[cmd[e].pid] = None \/ ~proc'[cmd[e].pid].alive,
         table' \subseteq table, \A f \in table \ {e} : f \in table',
         pc = "loop" => UNCHANGED table, pc \in {"wait", "done"} => e \notin table' \/ e \in late,
         UNCHANGED <<killer, told, late, stop, doomed>>
  PROVE  ShellInv'
<1> DEFINE r == [pc |-> pc, pid |-> cmd[e].pid]
<1>t. /\ ShellTyped /\ None \notin ProcRec /\ None \notin Events
      /\ Shell!UnderWay = {"loop", "leave", "wait"} /\ cmd \in [Events -> CmdRec]
      /\ proc \in [Pids -> ProcRec \cup {None}]
  BY ShellTypes
<1>1. cmd[e].pid \in Pids
  BY <1>t DEF ShellInv, HasNumber
<1>2. r \in CmdRec
  BY <1>t, <1>1 DEF CmdRec
<1>3. cmd' \in [Events -> CmdRec] /\ cmd'[e] = r /\ \A f \in Events \ {e} : cmd'[f] = cmd[f]
  BY <1>t, <1>2 DEF MovesTo
<1>4. ShellTyped'
  BY <1>3, <1>t DEF ShellTyped
<1>5. \A f \in Events : HasNumber(f)'
  BY <1>1, <1>3, <1>t DEF ShellInv, HasNumber, Taken, ShellTyped
<1>own. proc[cmd[e].pid] # None /\ proc[cmd[e].pid].owner = e
  BY <1>t DEF ShellInv, OwnsNumber
<1>6. ASSUME NEW f \in Events PROVE OwnsNumber(f)'
  <2> SUFFICES ASSUME cmd'[f].pc \in Shell!UnderWay
               PROVE  proc'[cmd'[f].pid] # None /\ proc'[cmd'[f].pid].owner = f
    BY <1>t DEF OwnsNumber, Shell!UnderWay
  <2>1. cmd[f].pc \in Shell!UnderWay /\ cmd'[f].pid = cmd[f].pid /\ (f = e => pc # "done")
    BY <1>3, <1>t
  <2>2. cmd[f].pid \in Pids /\ proc[cmd[f].pid] # None /\ proc[cmd[f].pid].owner = f
    BY <2>1, <1>t DEF ShellInv, HasNumber, OwnsNumber
  <2>3. CASE NumbersKept
    BY <2>1, <2>2, <2>3 DEF NumbersKept
  <2>4. CASE pc = "done" /\ proc' = [proc EXCEPT ![cmd[e].pid] = None]
    BY <1>t, <1>own, <2>1, <2>2, <2>4
  <2> QED
    BY <2>3, <2>4
<1>7. ASSUME NEW f \in Events PROVE Reachable(f)'
  <2> SUFFICES ASSUME cmd'[f].pc = "loop" PROVE f \in table' \cup told' \/ Taken(f)'
    BY DEF Reachable
  <2>1. cmd[f].pc = "loop" /\ (f = e => pc = "loop")
    BY <1>3
  <2>2. f \in table \cup told \/ Taken(f)
    BY <2>1 DEF ShellInv, Reachable
  <2>3. f \in table => f \in table'
    BY <2>1
  <2> QED
    BY <2>2, <2>3 DEF Taken
<1>8. ASSUME NEW p \in Pids PROVE Owned(p)'
  <2> SUFFICES ASSUME proc'[p] # None, proc'[p].owner # None
               PROVE  /\ cmd'[proc'[p].owner].pc # "idle" /\ cmd'[proc'[p].owner].pid = p
                      /\ proc'[p].alive => cmd'[proc'[p].owner].pc # "done"
    BY DEF Owned
  <2>1. proc[p] # None /\ proc'[p].owner = proc[p].owner /\ (proc'[p].alive => proc[p].alive)
    BY <1>t, <1>1 DEF NumbersKept
  <2>2. proc[p].owner \in Events
    BY <1>t, <2>1 DEF ProcRec
  <2>3. /\ cmd[proc[p].owner].pc # "idle" /\ cmd[proc[p].owner].pid = p
        /\ proc[p].alive => cmd[proc[p].owner].pc # "done"
    BY <2>1 DEF ShellInv, Owned
  <2>4. proc[p].owner = e /\ pc = "done" => ~proc'[p].alive
    BY <2>3
  <2> QED
    BY <1>3, <2>1, <2>2, <2>3, <2>4
<1>9. ListedRuns'
  BY <1>3, <1>t DEF ShellInv, ListedRuns, ShellTyped
<1>10. (stop' = "abort" => table' \subseteq late') /\ table' \cap doomed' \subseteq late'
  BY DEF ShellInv
<1> QED
  BY <1>4, <1>5, <1>6, <1>7, <1>8, <1>9, <1>10 DEF ShellInv

\* The commands stay where they are; a number goes to another program, or back.
LEMMA CommandsStay ==
  ASSUME ShellInv, UNCHANGED <<cmd, late>>, proc' \in [Pids -> ProcRec \cup {None}],
         NEW p \in Pids,
         \/ NumbersKept
         \/ /\ \A q \in Pids \ {p} : proc'[q] = proc[q]
            /\ proc[p] = None \/ proc[p].owner = None \/ cmd[proc[p].owner].pc = "done"
            /\ proc'[p] = None \/ proc'[p].owner = None,
         ShellTyped', table' \subseteq table, told \subseteq told',
         \A f \in Events : f \in table \/ Taken(f) => f \in table' \cup told' \/ Taken(f)',
         \A f \in Events : Taken(f)' => f \in table \/ Taken(f),
         stop' = "abort" => stop = "abort" \/ table = {},
         table' \cap doomed' \subseteq late
  PROVE  ShellInv'
<1>t. /\ ShellTyped /\ None \notin ProcRec /\ None \notin Events
      /\ Shell!UnderWay = {"loop", "leave", "wait"} /\ cmd \in [Events -> CmdRec]
      /\ proc \in [Pids -> ProcRec \cup {None}]
  BY ShellTypes
<1>1. \A f \in Events : HasNumber(f)'
  BY DEF ShellInv, HasNumber
<1>2. ASSUME NEW f \in Events PROVE OwnsNumber(f)'
  <2> SUFFICES ASSUME cmd[f].pc \in Shell!UnderWay
               PROVE  proc'[cmd[f].pid] # None /\ proc'[cmd[f].pid].owner = f
    BY DEF OwnsNumber, Shell!UnderWay
  <2>1. cmd[f].pid \in Pids /\ proc[cmd[f].pid] # None /\ proc[cmd[f].pid].owner = f
    BY <1>t DEF ShellInv, HasNumber, OwnsNumber
  <2>2. f # None /\ cmd[f].pc # "done"
    BY <1>t
  <2> QED
    BY <2>1, <2>2 DEF NumbersKept
<1>3. \A f \in Events : Reachable(f)'
  BY DEF ShellInv, Reachable
<1>4. ASSUME NEW q \in Pids PROVE Owned(q)'
  <2> SUFFICES ASSUME proc'[q] # None, proc'[q].owner # None PROVE Owned(q)'
    BY DEF Owned
  <2>1. proc[q] # None /\ proc'[q].owner = proc[q].owner /\ (proc'[q].alive => proc[q].alive)
    BY DEF NumbersKept
  <2> QED
    BY <2>1 DEF ShellInv, Owned
<1>5. /\ ListedRuns' /\ (stop' = "abort" => table' \subseteq late')
      /\ table' \cap doomed' \subseteq late'
  BY DEF ShellInv, ListedRuns
<1> QED
  BY <1>1, <1>2, <1>3, <1>4, <1>5 DEF ShellInv

LEMMA StartKeeps ==
  ASSUME ShellInv, NEW e \in Events, NEW p \in Pids, Shell!Start(e, p)
  PROVE  ShellInv'
<1> DEFINE r == [pc |-> "loop", pid |-> p]
           q == [owner |-> e, alive |-> TRUE]
<1>1. /\ ShellTyped /\ None \notin ProcRec /\ None \notin Events
      /\ Shell!UnderWay = {"loop", "leave", "wait"} /\ cmd \in [Events -> CmdRec]
      /\ proc \in [Pids -> ProcRec \cup {None}]
  BY ShellTypes
<1>2. r \in CmdRec /\ q \in ProcRec
  BY <1>1 DEF CmdRec, ProcRec
<1>3. /\ cmd' \in [Events -> CmdRec] /\ cmd'[e] = r
      /\ \A f \in Events \ {e} : cmd'[f] = cmd[f]
  BY <1>1, <1>2 DEF Shell!Start
<1>4. /\ proc' \in [Pids -> ProcRec \cup {None}] /\ proc'[p] = q /\ q # None
      /\ \A x \in Pids \ {p} : proc'[x] = proc[x]
  BY <1>1, <1>2 DEF Shell!Start
<1>5. /\ table' = table \cup {e} /\ late \subseteq late' /\ late' \subseteq late \cup {e}
      /\ stop = "abort" \/ e \in doomed => e \in late'
      /\ proc[p] = None /\ cmd[e].pc = "idle"
      /\ UNCHANGED <<killer, told, stop, doomed>>
  BY DEF Shell!Start
<1>6. ShellTyped'
  BY <1>1, <1>3, <1>4, <1>5 DEF ShellTyped
<1>7. \A f \in Events : HasNumber(f)' /\ Reachable(f)'
  BY <1>3, <1>5 DEF ShellInv, HasNumber, Reachable, Taken
<1>8. ASSUME NEW f \in Events PROVE OwnsNumber(f)'
  <2>1. CASE f = e
    BY <1>3, <1>4, <2>1 DEF OwnsNumber
  <2>2. CASE f # e
    <3> SUFFICES ASSUME cmd[f].pc \in Shell!UnderWay
                 PROVE  proc'[cmd[f].pid] # None /\ proc'[cmd[f].pid].owner = f
      BY <1>3, <2>2 DEF OwnsNumber, Shell!UnderWay
    <3>1. cmd[f].pid \in Pids /\ proc[cmd[f].pid] # None /\ proc[cmd[f].pid].owner = f
      BY <1>1 DEF ShellInv, HasNumber, OwnsNumber
    <3> QED
      BY <1>4, <1>5, <3>1
  <2> QED
    BY <2>1, <2>2
<1>9. ASSUME NEW x \in Pids PROVE Owned(x)'
  <2>1. CASE x = p
    BY <1>3, <1>4, <2>1 DEF Owned
  <2>2. CASE x # p
    <3> SUFFICES ASSUME proc[x] # None, proc[x].owner # None
                 PROVE  /\ cmd'[proc[x].owner].pc # "idle" /\ cmd'[proc[x].owner].pid = x
                        /\ proc[x].alive => cmd'[proc[x].owner].pc # "done"
      BY <1>4, <2>2 DEF Owned
    <3>1. proc[x].owner \in Events
      BY <1>1 DEF ProcRec
    <3>2. /\ cmd[proc[x].owner].pc # "idle" /\ cmd[proc[x].owner].pid = x
          /\ proc[x].alive => cmd[proc[x].owner].pc # "done"
      BY DEF ShellInv, Owned
    <3> QED
      BY <1>3, <1>5, <3>1, <3>2
  <2> QED
    BY <2>1, <2>2
<1>10. /\ ListedRuns' /\ (stop' = "abort" => table' \subseteq late')
       /\ table' \cap doomed' \subseteq late'
  BY <1>1, <1>3, <1>5 DEF ShellInv, ShellTyped, ListedRuns
<1> QED
  BY <1>6, <1>7, <1>8, <1>9, <1>10 DEF ShellInv

LEMMA CommandIs ==
  ASSUME ShellInv, NEW e \in Events, NEW pc
  PROVE  Shell!Goes(e, pc) => MovesTo(e, pc)
<1>1. cmd[e] \in CmdRec
  BY ShellTypes
<1>2. [cmd[e] EXCEPT !.pc = pc] = [pc |-> pc, pid |-> cmd[e].pid]
  BY <1>1 DEF CmdRec
<1> QED
  BY <1>2 DEF Shell!Goes, MovesTo

LEMMA RunSteps ==
  ASSUME ShellInv, NEW e \in Events,
         \/ Shell!PipesClose(e) \/ Shell!Told(e) \/ Shell!Limit(e) \/ Shell!Unregister(e)
         \/ Shell!Waited(e) \/ Shell!WaitedEnough(e) \/ Shell!Aborted(e)
  PROVE  ShellInv'
<1>t. /\ proc \in [Pids -> ProcRec \cup {None}] /\ None \notin ProcRec
      /\ Shell!UnderWay = {"loop", "leave", "wait"} /\ None \notin Events
  BY ShellTypes
<1>k. UNCHANGED proc => NumbersKept
  BY DEF NumbersKept
<1>n. cmd[e].pc \in Shell!UnderWay => cmd[e].pid \in Pids /\ proc[cmd[e].pid] # None
  BY <1>t DEF ShellInv, HasNumber, OwnsNumber
<1>d. cmd[e].pc \in Shell!UnderWay /\ Shell!Dies(cmd[e].pid) =>
        /\ proc' \in [Pids -> ProcRec \cup {None}] /\ NumbersKept
        /\ ~proc'[cmd[e].pid].alive
  BY <1>n, DiesKeeps
<1>1. CASE Shell!PipesClose(e)
  <2>1. MovesTo(e, "leave") /\ cmd[e].pc = "loop" /\ UNCHANGED <<proc, table, killer, told, late, stop, doomed>>
    BY <1>1, CommandIs DEF Shell!PipesClose, Shell!stopping
  <2> QED
    BY <1>t, <1>k, <2>1, CommandMoves
<1>2. CASE Shell!Told(e) \/ Shell!Limit(e)
  <2>1. MovesTo(e, "leave") /\ cmd[e].pc = "loop" /\ Shell!Dies(cmd[e].pid)
        /\ UNCHANGED <<table, killer, told, late, stop, doomed>>
    BY <1>2, CommandIs DEF Shell!Told, Shell!Limit, Shell!Root, Shell!stopping
  <2> QED
    BY <1>t, <1>d, <2>1, CommandMoves
<1>3. CASE Shell!Unregister(e)
  <2>1. MovesTo(e, "wait") /\ cmd[e].pc = "leave" /\ table' = table \ {e}
        /\ UNCHANGED <<proc, killer, told, late, stop, doomed>>
    BY <1>3, CommandIs DEF Shell!Unregister, Shell!Unlist, Shell!stopping
  <2> QED
    BY <1>t, <1>k, <2>1, CommandMoves
<1>4. CASE Shell!Waited(e)
  <2>1. MovesTo(e, "done") /\ cmd[e].pc = "wait" /\ proc' = [proc EXCEPT ![cmd[e].pid] = None]
        /\ UNCHANGED <<table, killer, told, late, stop, doomed>>
    BY <1>4, CommandIs DEF Shell!Waited, Shell!Root, Shell!stopping
  <2>2. e \notin table' \/ e \in late
    BY <2>1 DEF ShellInv, ListedRuns
  <2>3. proc' \in [Pids -> ProcRec \cup {None}] /\ proc'[cmd[e].pid] = None
    BY <1>t, <1>n, <2>1
  <2> QED
    BY <1>t, <2>1, <2>2, <2>3, CommandMoves
<1>5. CASE Shell!WaitedEnough(e)
  <2>1. MovesTo(e, "done") /\ cmd[e].pc = "wait" /\ Shell!Dies(cmd[e].pid)
        /\ UNCHANGED <<table, killer, told, late, stop, doomed>>
    BY <1>5, CommandIs DEF Shell!WaitedEnough, Shell!Root, Shell!stopping
  <2>2. e \notin table' \/ e \in late
    BY <2>1 DEF ShellInv, ListedRuns
  <2> QED
    BY <1>t, <1>d, <2>1, <2>2, CommandMoves
<1>6. CASE Shell!Aborted(e)
  <2>1. MovesTo(e, "done") /\ cmd[e].pc \in {"loop", "wait"} /\ Shell!Dies(cmd[e].pid)
        /\ UNCHANGED <<table, killer, told, late, stop, doomed>>
    BY <1>6, CommandIs DEF Shell!Aborted, Shell!Drop, Shell!Root, Shell!stopping
  <2>2. e \notin table' \/ e \in late
    BY <1>6, <2>1 DEF Shell!Aborted, ShellInv
  <2> QED
    BY <1>t, <1>d, <2>1, <2>2, CommandMoves
<1> QED
  BY <1>1, <1>2, <1>3, <1>4, <1>5, <1>6

LEMMA ProcessesOnly ==
  ASSUME ShellInv, UNCHANGED <<cmd, table, killer, told, stop, doomed, late>>,
         proc' \in [Pids -> ProcRec \cup {None}], NEW p \in Pids,
         \/ NumbersKept
         \/ /\ \A q \in Pids \ {p} : proc'[q] = proc[q]
            /\ proc[p] = None \/ proc[p].owner = None \/ cmd[proc[p].owner].pc = "done"
            /\ proc'[p] = None \/ proc'[p].owner = None
  PROVE  ShellInv'
<1>1. ShellTyped /\ ShellTyped' /\ (table \cap doomed \subseteq late)
  BY DEF ShellInv, ShellTyped
<1>2. \A f \in Events : Taken(f)' <=> Taken(f)
  BY DEF Taken
<1> QED
  BY <1>1, <1>2, CommandsStay

LEMMA ProcessSteps ==
  ASSUME ShellInv, NEW p \in Pids,
         Shell!OtherStarts(p) \/ Shell!Freed(p) \/ \E e \in Events : Shell!Exits(e)
  PROVE  ShellInv'
<1>t. /\ ShellTyped /\ proc \in [Pids -> ProcRec \cup {None}]
      /\ None \notin ProcRec /\ None \notin Events
      /\ Shell!UnderWay = {"loop", "leave", "wait"}
  BY ShellTypes
<1>0. UNCHANGED <<cmd, table, killer, told, stop, doomed, late>>
  BY DEF Shell!OtherStarts, Shell!Freed, Shell!Exits, Shell!stopping
<1>1. CASE Shell!OtherStarts(p)
  <2>1. proc[p] = None /\ proc' = [proc EXCEPT ![p] = [owner |-> None, alive |-> TRUE]]
    BY <1>1 DEF Shell!OtherStarts
  <2>2. [owner |-> None, alive |-> TRUE] \in ProcRec
    BY DEF ProcRec
  <2>3. /\ proc' \in [Pids -> ProcRec \cup {None}] /\ proc'[p].owner = None
        /\ \A q \in Pids \ {p} : proc'[q] = proc[q]
    BY <1>t, <2>1, <2>2
  <2> QED
    BY <1>t, <1>0, <2>1, <2>3, ProcessesOnly
<1>2. CASE Shell!Freed(p)
  <2>1. /\ proc' = [proc EXCEPT ![p] = None]
        /\ proc[p].owner = None \/ cmd[proc[p].owner].pc = "done"
    BY <1>2 DEF Shell!Freed
  <2>2. /\ proc' \in [Pids -> ProcRec \cup {None}] /\ proc'[p] = None
        /\ \A q \in Pids \ {p} : proc'[q] = proc[q]
    BY <1>t, <2>1
  <2> QED
    BY <1>0, <2>1, <2>2, ProcessesOnly
<1>3. ASSUME NEW e \in Events, Shell!Exits(e) PROVE ShellInv'
  <2>1. Shell!Dies(cmd[e].pid) /\ cmd[e].pc \in Shell!UnderWay
    BY <1>3 DEF Shell!Exits, Shell!Root
  <2>2. cmd[e].pid \in Pids
    BY <1>t, <2>1 DEF ShellInv, HasNumber
  <2> QED
    BY <1>0, <2>1, <2>2, DiesKeeps, ProcessesOnly
<1> QED
  BY <1>1, <1>2, <1>3

\* The stop and the user: an entry goes to who kills, and then the call is told.
LEMMA StrikeKeeps ==
  ASSUME ShellInv, NEW e \in Events, cmd[e].pid \in Pids, Shell!Strike(e),
         UNCHANGED <<cmd, late, stop, doomed>>, table' \subseteq table,
         killer' \in [Killers -> Events \cup {None}],
         \A k \in Killers : killer'[k] \in {killer[k], None},
         \A f \in Events \ {e} : f \in table \/ Taken(f) => f \in table' \/ Taken(f)'
  PROVE  ShellInv'
<1>t. ShellTyped /\ None \notin Events /\ table \cap doomed \subseteq late
  BY ShellTypes DEF ShellInv
<1>1. Shell!Dies(cmd[e].pid) /\ told' = told \cup {e}
  BY DEF Shell!Strike, Shell!Root
<1>2. proc' \in [Pids -> ProcRec \cup {None}] /\ NumbersKept
  BY <1>1, DiesKeeps
<1>3. ShellTyped'
  BY <1>t, <1>1, <1>2 DEF ShellTyped
<1>4. \A f \in Events : Taken(f)' => Taken(f)
  BY <1>t DEF Taken
<1>5. \A f \in Events : f \in table \/ Taken(f) => f \in table' \cup told' \/ Taken(f)'
  BY <1>1
<1>6. table' \cap doomed' \subseteq late
  BY <1>t
<1> QED
  BY <1>1, <1>2, <1>3, <1>4, <1>5, <1>6, CommandsStay

LEMMA StopSteps ==
  ASSUME ShellInv,
         \/ Shell!StopBegins \/ Shell!SweepEnds \/ Shell!Abort
         \/ (\E e \in Events : Shell!SweepTakes(e))
         \/ (\E k \in Killers : Shell!KillTaken(k) \/ \E e \in Events : Shell!Take(k, e))
  PROVE  ShellInv'
<1>t. ShellTyped /\ None \notin Events /\ table \cap doomed \subseteq late
  BY ShellTypes DEF ShellInv
<1>1. CASE Shell!StopBegins \/ Shell!SweepEnds \/ Shell!Abort
  <2>1. /\ UNCHANGED <<cmd, proc, table, killer, told, late>>
        /\ stop' = "sweep" \/ (stop' = "abort" /\ table = {}) \/ stop' = "no"
        /\ doomed' = doomed \/ stop = "abort"
    BY <1>1 DEF Shell!StopBegins, Shell!SweepEnds, Shell!Abort, Shell!Listed
  <2>2. ShellTyped' /\ \A f \in Events : Taken(f)' <=> Taken(f)
    BY <1>t, <2>1 DEF ShellTyped, Taken
  <2>3. table' \cap doomed' \subseteq late'
    BY <1>t, <2>1 DEF ShellInv
  <2>4. \A e \in Events : HasNumber(e)' /\ OwnsNumber(e)' /\ Reachable(e)'
    BY <2>1 DEF ShellInv, HasNumber, OwnsNumber, Reachable, Taken
  <2>5. \A p \in Pids : Owned(p)'
    BY <2>1 DEF ShellInv, Owned
  <2> QED
    BY <2>1, <2>2, <2>3, <2>4, <2>5 DEF ShellInv, ListedRuns
<1>2. ASSUME NEW e \in Events, Shell!SweepTakes(e) PROVE ShellInv'
  <2>1. /\ e \in table /\ table' = table \ {e} /\ Shell!Strike(e)
        /\ UNCHANGED <<cmd, killer, late, stop, doomed>>
    BY <1>2 DEF Shell!SweepTakes, Shell!Listed, Shell!stopping
  <2>2. cmd[e].pid \in Pids
    BY <2>1 DEF ShellInv, HasNumber
  <2>3. \A f \in Events \ {e} : f \in table \/ Taken(f) => f \in table' \/ Taken(f)'
    BY <2>1 DEF Taken
  <2> QED
    BY <1>t, <2>1, <2>2, <2>3, StrikeKeeps DEF ShellTyped
<1>3. ASSUME NEW k \in Killers, Shell!KillTaken(k) PROVE ShellInv'
  <2> DEFINE e == killer[k]
  <2>1. /\ e # None /\ killer' = [killer EXCEPT ![k] = None] /\ Shell!Strike(e)
        /\ UNCHANGED <<cmd, table, late, stop, doomed>>
    BY <1>3 DEF Shell!KillTaken, Shell!stopping
  <2>2. e \in Events
    BY <1>t, <2>1 DEF ShellTyped
  <2>3. cmd[e].pid \in Pids
    BY <2>2 DEF ShellInv, HasNumber, Taken
  <2>4. killer' \in [Killers -> Events \cup {None}] /\ \A j \in Killers : killer'[j] \in {killer[j], None}
    BY <1>t, <2>1 DEF ShellTyped
  <2>5. \A f \in Events \ {e} : Taken(f) => Taken(f)'
    BY <1>t, <2>1 DEF Taken, ShellTyped
  <2> HIDE DEF e
  <2> QED
    BY <2>1, <2>2, <2>3, <2>4, <2>5, StrikeKeeps
<1>4. ASSUME NEW k \in Killers, NEW e \in Events, Shell!Take(k, e) PROVE ShellInv'
  <2>1. /\ e \in table /\ killer[k] = None /\ killer' = [killer EXCEPT ![k] = e]
        /\ table' = table \ {e} /\ UNCHANGED <<cmd, proc, told, late, stop, doomed>>
    BY <1>4 DEF Shell!Take, Shell!stopping
  <2>2. ShellTyped'
    BY <1>t, <2>1 DEF ShellTyped
  <2>3. Taken(e)' /\ \A f \in Events \ {e} : Taken(f)' <=> Taken(f)
    BY <1>t, <2>1 DEF Taken, ShellTyped
  <2>4. \A f \in Events : HasNumber(f)' /\ OwnsNumber(f)' /\ Reachable(f)'
    BY <2>1, <2>3 DEF ShellInv, HasNumber, OwnsNumber, Reachable
  <2>5. \A p \in Pids : Owned(p)'
    BY <2>1 DEF ShellInv, Owned
  <2> QED
    BY <2>1, <2>2, <2>4, <2>5 DEF ShellInv, ListedRuns
<1> QED
  BY <1>1, <1>2, <1>3, <1>4

LEMMA ShellInit == ASSUME Shell!Init PROVE ShellInv
<1>1. None \notin Events
  BY PartsAssumption DEF Shell!CommandsAssumption
<1>2. [pc |-> "idle", pid |-> None] \in CmdRec
  BY DEF CmdRec
<1>3. ShellTyped
  BY <1>2 DEF Shell!Init, Shell!Idle, ShellTyped
<1> QED
  BY <1>1, <1>3 DEF Shell!Init, Shell!Idle, Shell!UnderWay, ShellInv, HasNumber, OwnsNumber,
     Reachable, Owned, Taken, ListedRuns

LEMMA ShellNext == ASSUME ShellInv, Shell!Next PROVE ShellInv'
<1>1. ASSUME NEW e \in Events,
             \/ (\E p \in Pids : Shell!Start(e, p))
             \/ Shell!PipesClose(e) \/ Shell!Told(e) \/ Shell!Limit(e) \/ Shell!Unregister(e)
             \/ Shell!Waited(e) \/ Shell!WaitedEnough(e) \/ Shell!Aborted(e)
      PROVE  ShellInv'
  BY <1>1, StartKeeps, RunSteps
<1>2. ASSUME NEW e \in Events, Shell!Exits(e) PROVE ShellInv'
  <2>1. cmd[e].pid \in Pids
    BY <1>2, ShellTypes DEF Shell!Exits, ShellInv, HasNumber
  <2> QED
    BY <1>2, <2>1, ProcessSteps
<1> QED
  BY <1>1, <1>2, StopSteps, ProcessSteps DEF Shell!Next

LEMMA ShellRests ==
  ASSUME ShellInv, UNCHANGED <<ofCommands, proc>>
  PROVE  ShellInv'
BY DEF ofCommands, ShellInv, ShellTyped, HasNumber, OwnsNumber, Reachable, Owned, Taken, ListedRuns

LEMMA ShellHolds == ASSUME ShellInv PROVE Shell!EntryIsOwn /\ Shell!ShellIsHeld
<1>t. /\ ShellTyped /\ proc \in [Pids -> ProcRec \cup {None}] /\ cmd \in [Events -> CmdRec]
      /\ None \notin ProcRec /\ Shell!UnderWay = {"loop", "leave", "wait"}
  BY ShellTypes
<1>1. ASSUME NEW e \in table \ late
      PROVE  proc[cmd[e].pid] # None /\ proc[cmd[e].pid].owner = e
  <2>1. e \in Events /\ cmd[e].pc \in {"loop", "leave"}
    BY DEF ShellInv, ShellTyped, ListedRuns
  <2> QED
    BY <2>1, <1>t DEF ShellInv, OwnsNumber
<1>2. ASSUME NEW p \in Pids, proc[p] # None, proc[p].alive, proc[p].owner # None
      PROVE  LET e == proc[p].owner
             IN /\ cmd[e].pc \in Shell!UnderWay /\ cmd[e].pid = p
                /\ cmd[e].pc = "loop" => e \in table \cup told \/ Taken(e)
  <2> DEFINE e == proc[p].owner
  <2>1. e \in Events
    BY <1>t, <1>2 DEF ProcRec
  <2>2. cmd[e].pc # "idle" /\ cmd[e].pid = p /\ cmd[e].pc # "done"
    BY <1>2 DEF ShellInv, Owned
  <2>3. cmd[e].pc \in Shell!UnderWay \cup {"idle", "done"}
    BY <1>t, <2>1 DEF CmdRec
  <2> HIDE DEF e
  <2>4. cmd[e].pc = "loop" => e \in table \cup told \/ Taken(e)
    BY <2>1 DEF ShellInv, Reachable
  <2> QED
    BY <2>2, <2>3, <2>4 DEF e
<1> QED
  BY <1>1, <1>2 DEF Shell!EntryIsOwn, Shell!ShellIsHeld, Shell!Root, Shell!Alive, Taken

(***************************************************************************)
(* Sequences.                                                              *)
(***************************************************************************)
LEMMA PutAt ==
  ASSUME NEW X, NEW s \in Seq(X), NEW i \in 1 .. Len(s), NEW x \in X
  PROVE  /\ [s EXCEPT ![i] = x] \in Seq(X) /\ Len([s EXCEPT ![i] = x]) = Len(s)
         /\ [s EXCEPT ![i] = x][i] = x
         /\ \A j \in 1 .. Len(s) : j # i => [s EXCEPT ![i] = x][j] = s[j]
OBVIOUS

LEMMA PutLast ==
  ASSUME NEW X, NEW s \in Seq(X), NEW x \in X
  PROVE  /\ Append(s, x) \in Seq(X) /\ Len(Append(s, x)) = Len(s) + 1
         /\ Append(s, x)[Len(s) + 1] = x
         /\ \A j \in 1 .. Len(s) : Append(s, x)[j] = s[j]
OBVIOUS

LEMMA IsElement == ASSUME NEW X, NEW s \in Seq(X), NEW i \in 1 .. Len(s) PROVE s[i] \in X
OBVIOUS

(***************************************************************************)
(* Servers, step by step. Instances keep their server and name, and none   *)
(* comes back to life.                                                     *)
(***************************************************************************)
InstKept ==
  /\ inst' \in Seq(InstRec)
  /\ \A i \in Server!Instances :
       /\ i \in Server!Instances' /\ inst'[i].server = inst[i].server /\ inst'[i].name = inst[i].name
       /\ inst'[i].state = "alive" => inst[i].state = "alive"
SameInstances == InstKept /\ Server!Instances' = Server!Instances

LEMMA Unmoved == ASSUME inst \in Seq(InstRec), inst' = inst PROVE SameInstances
BY DEF SameInstances, InstKept, Server!Instances

SoleNext(i) ==
  \A j \in Server!Instances' : inst'[j].name = inst'[i].name => inst'[j].server = inst'[i].server

LEMMA SoleKept ==
  ASSUME InstKept, NEW i \in Server!Instances, SoleNext(i)
  PROVE  Server!Sole(i)
BY DEF InstKept, Server!Sole, SoleNext

\* One operation moves on, or ends.
MovesOp(o, r) ==
  /\ op' = [op EXCEPT ![o] = r] /\ r \in OpRec
  /\ r.pc # "idle" => op[o].pc # "idle" /\ r.server = op[o].server
  /\ lock' \in Users \cup {None} /\ (lock' = lock \/ lock \in {None, o})
  /\ overlapped' = overlapped /\ lost \subseteq lost'

LEMMA OthersOK ==
  ASSUME ServerInv, InstKept, NEW o \in Users, NEW r, MovesOp(o, r)
  PROVE  /\ op' \in [Users -> OpRec] /\ op'[o] = r
         /\ \A q \in Users \ {o} : op'[q] = op[q] /\ OpOK(q)'
         /\ OneWorks'
<1>1. op \in [Users -> OpRec] /\ None \notin Users
  BY PartsAssumption DEF ServerInv, ServerTyped, Server!McpAssumption
<1>2. op' \in [Users -> OpRec] /\ op'[o] = r /\ \A q \in Users \ {o} : op'[q] = op[q]
  BY <1>1 DEF MovesOp
<1>3. ASSUME NEW q \in Users \ {o} PROVE OpOK(q)'
  <2>1. OpOK(q) /\ (op[q].pc \in {"kill", "unlist"} => lock' = lock)
    BY <1>1 DEF ServerInv, OpOK, MovesOp
  <2>2. op[q].pc \in HasPcs =>
          /\ op[q].at \in Server!Instances' /\ inst'[op[q].at].server = inst[op[q].at].server
          /\ inst'[op[q].at].name = inst[op[q].at].name
    BY <2>1 DEF InstKept, OpOK
  <2> QED
    BY <1>2, <2>1, <2>2 DEF OpOK, HasPcs
<1>4. OneWorks'
  <2> SUFFICES ASSUME NEW s \in Servers \ overlapped', NEW p \in Users, NEW q \in Users,
                      WorksOn(p, s)', WorksOn(q, s)'
               PROVE  p = q
    BY DEF OneWorks
  <2>1. WorksOn(p, s) /\ WorksOn(q, s)
    BY <1>2 DEF WorksOn, MovesOp
  <2> QED
    BY <2>1 DEF ServerInv, OneWorks, MovesOp
<1> QED
  BY <1>2, <1>3, <1>4

\* Steps that leave the clients and the registry alone.
LEMMA QuietOp ==
  ASSUME ServerInv, SameInstances, NEW o \in Users, NEW r, MovesOp(o, r),
         UNCHANGED <<clients, registry>>, OpOK(o)', r.pc # "insert",
         r.pc \in PastStop /\ r.server \in Servers \ overlapped => clients[r.server] = 0,
         op[o].pc \in HoldsPcs => \/ r.pc \in HoldsPcs /\ r.at = op[o].at
                                  \/ op[o].at \in lost'
                                  \/ inst'[op[o].at].state # "alive"
  PROVE  ServerInv'
<1>1. /\ op' \in [Users -> OpRec] /\ op'[o] = r
      /\ \A q \in Users \ {o} : op'[q] = op[q] /\ OpOK(q)'
      /\ OneWorks'
  BY OthersOK DEF SameInstances
<1>2. ServerTyped'
  <2>1. ASSUME NEW s \in Servers, clients'[s] # 0
        PROVE  clients'[s] \in Server!Instances' /\ inst'[clients'[s]].server = s
    BY <2>1 DEF ServerInv, ServerTyped, SameInstances, InstKept
  <2>2. inst' \in Seq(InstRec)
    BY DEF SameInstances, InstKept
  <2>3. /\ clients' \in [Servers -> Nat] /\ registry' \in [Names -> Nat]
        /\ lock' \in Users \cup {None} /\ overlapped' \subseteq Servers
    BY DEF ServerInv, ServerTyped, MovesOp
  <2> QED
    BY <1>1, <2>1, <2>2, <2>3 DEF ServerTyped
<1>3. NoClientMeanwhile'
  BY <1>1 DEF ServerInv, NoClientMeanwhile, MovesOp
<1>4. AliveIsHeld'
  <2> SUFFICES ASSUME NEW i \in Server!Instances, inst'[i].state = "alive", i \notin lost',
                      inst'[i].server \notin overlapped
               PROVE  HeldBy(i)'
    BY DEF AliveIsHeld, SameInstances, MovesOp
  <2>1. HeldBy(i) /\ inst'[i].server = inst[i].server
    BY DEF ServerInv, AliveIsHeld, SameInstances, InstKept, MovesOp
  <2> QED
    BY <1>1, <2>1 DEF HeldBy
<1>5. RegisteredFirst' /\ Server!ToolReachesClient'
  <2>1. ASSUME NEW q \in Users, op'[q].pc = "insert", op'[q].server \notin overlapped,
               SoleNext(op'[q].at)
        PROVE  registry[op'[q].name] = op'[q].at
    <3>1. q # o /\ op'[q] = op[q]
      BY <1>1, <2>1
    <3>2. op[q].at \in Server!Instances
      BY <2>1, <3>1 DEF ServerInv, OpOK, HasPcs
    <3>3. Server!Sole(op[q].at)
      BY <2>1, <3>1, <3>2, SoleKept DEF SameInstances
    <3> QED
      BY <2>1, <3>1, <3>3 DEF ServerInv, RegisteredFirst
  <2>2. ASSUME NEW s \in Servers \ overlapped, clients[s] # 0, SoleNext(clients[s])
        PROVE  registry[inst'[clients[s]].name] = clients[s]
    <3>1. clients[s] \in Server!Instances
      BY <2>2 DEF ServerInv, ServerTyped
    <3>2. Server!Sole(clients[s]) /\ inst'[clients[s]].name = inst[clients[s]].name
      BY <2>2, <3>1, SoleKept DEF SameInstances, InstKept
    <3> QED
      BY <2>2, <3>2 DEF ServerInv, Server!ToolReachesClient
  <2> QED
    BY <2>1, <2>2 DEF RegisteredFirst, Server!ToolReachesClient, Server!Sole, SoleNext, MovesOp
<1> QED
  BY <1>1, <1>2, <1>3, <1>4, <1>5 DEF ServerInv

LEMMA InstanceIs ==
  ASSUME ServerInv, NEW i \in Server!Instances
  PROVE  /\ inst \in Seq(InstRec) /\ inst[i] \in InstRec /\ i \in 1 .. Len(inst)
         /\ inst[i].server \in Servers \cup {None} /\ inst[i].name \in Names
<1>1. inst \in Seq(InstRec) /\ i \in 1 .. Len(inst)
  BY DEF ServerInv, ServerTyped, Server!Instances
<1>2. inst[i] \in InstRec
  BY <1>1, IsElement
<1> QED
  BY <1>1, <1>2 DEF InstRec

\* Nothing but the state or the ids of an instance changes.
LEMMA ChangesOne ==
  ASSUME ServerInv, NEW i \in Server!Instances, NEW x \in InstRec,
         inst' = [inst EXCEPT ![i] = x], x.server = inst[i].server, x.name = inst[i].name,
         x.state = "alive" => inst[i].state = "alive"
  PROVE  SameInstances /\ inst'[i] = x
<1>1. inst \in Seq(InstRec) /\ i \in 1 .. Len(inst)
  BY InstanceIs
<1>2. /\ inst' \in Seq(InstRec) /\ Len(inst') = Len(inst) /\ inst'[i] = x
      /\ \A j \in 1 .. Len(inst) : j # i => inst'[j] = inst[j]
  BY <1>1, PutAt
<1> QED
  BY <1>2 DEF SameInstances, InstKept, Server!Instances

LEMMA KilledIs ==
  ASSUME ServerInv, NEW i \in Server!Instances, inst' = Server!Killed(i)
  PROVE  SameInstances /\ inst'[i].state # "alive"
<1> DEFINE st == IF inst[i].state = "alive" /\ inst[i].wraps THEN "orphan"
                 ELSE IF inst[i].state = "orphan" THEN "orphan" ELSE "dead"
           x == [inst[i] EXCEPT !.state = st]
<1>1. inst[i] \in InstRec
  BY InstanceIs
<1>2. st \in {"orphan", "dead"}
  OBVIOUS
<1>3. x \in InstRec /\ x.server = inst[i].server /\ x.name = inst[i].name /\ x.state = st
  <2> HIDE DEF st
  <2> QED
    BY <1>1, <1>2 DEF InstRec
<1>4. inst' = [inst EXCEPT ![i] = x]
  BY <1>1 DEF Server!Killed, InstRec
<1> HIDE DEF x, st
<1> QED
  BY <1>2, <1>3, <1>4, ChangesOne

\* Where an operation goes from where it is, and how it ends.
LEMMA GoesOn ==
  ASSUME ServerInv, NEW o \in Users
  PROVE  /\ op \in [Users -> OpRec] /\ op[o] \in OpRec /\ OpOK(o)
         /\ \A pc \in OpPcs : /\ [op[o] EXCEPT !.pc = pc] \in OpRec
                              /\ [op[o] EXCEPT !.pc = pc].pc = pc
                              /\ [op[o] EXCEPT !.pc = pc].kind = op[o].kind
                              /\ [op[o] EXCEPT !.pc = pc].server = op[o].server
                              /\ [op[o] EXCEPT !.pc = pc].name = op[o].name
                              /\ [op[o] EXCEPT !.pc = pc].at = op[o].at
         /\ Server!IdleOp \in OpRec /\ Server!IdleOp.pc = "idle"
<1>1. op \in [Users -> OpRec] /\ op[o] \in OpRec /\ OpOK(o)
  BY DEF ServerInv, ServerTyped
<1>2. Server!IdleOp \in OpRec /\ Server!IdleOp.pc = "idle"
  BY DEF Server!IdleOp, OpRec, OpPcs
<1>3. \A r \in OpRec, pc \in OpPcs :
        /\ [r EXCEPT !.pc = pc] \in OpRec
        /\ [r EXCEPT !.pc = pc].pc = pc /\ [r EXCEPT !.pc = pc].kind = r.kind
        /\ [r EXCEPT !.pc = pc].server = r.server
        /\ [r EXCEPT !.pc = pc].name = r.name /\ [r EXCEPT !.pc = pc].at = r.at
  BY DEF OpRec
<1> QED
  BY <1>1, <1>2, <1>3

\* What OpOK says of an operation that has ended, or that starts next.
LEMMA IdleOK ==
  ASSUME ServerInv, NEW o \in Users, op'[o].pc = "idle"
  PROVE  OpOK(o)'
BY DEF OpOK, HasPcs, PastStop

LEMMA AfterStopIs ==
  ASSUME ServerInv, NEW o \in Users, Server!AfterStop(o), op[o].pc \in {"stop", "unlist"},
         overlapped' = overlapped, UNCHANGED <<inst, lost>>,
         lock' \in Users \cup {None}, lock' = lock \/ lock \in {None, o}
  PROVE  \E r : /\ MovesOp(o, r) /\ r.pc \in {"idle", "spawn"} /\ OpOK(o)'
                /\ r.pc # "idle" => r.server = op[o].server
<1>1. CASE op[o].kind = "start"
  <2> DEFINE r == [op[o] EXCEPT !.pc = "spawn"]
  <2>1. op' = [op EXCEPT ![o] = r]
    BY <1>1 DEF Server!AfterStop, Server!Goto
  <2>2. r \in OpRec /\ r.pc = "spawn" /\ r.server = op[o].server /\ r.kind = op[o].kind /\ r.name = op[o].name
    BY GoesOn DEF OpPcs
  <2> HIDE DEF r
  <2>3. op'[o] = r
    BY <2>1, GoesOn
  <2>4. OpOK(o)'
    BY <1>1, <2>2, <2>3, GoesOn DEF OpOK, HasPcs, PastStop
  <2>5. MovesOp(o, r)
    BY <2>1, <2>2 DEF MovesOp
  <2> QED
    BY <2>2, <2>4, <2>5
<1>2. CASE op[o].kind # "start"
  <2>1. op' = [op EXCEPT ![o] = Server!IdleOp] /\ op'[o] = Server!IdleOp
    BY <1>2, GoesOn DEF Server!AfterStop, Server!Ends
  <2>2. OpOK(o)'
    BY <2>1, GoesOn, IdleOK
  <2>3. MovesOp(o, Server!IdleOp)
    BY <2>1, GoesOn DEF MovesOp
  <2> QED
    BY <2>2, <2>3, GoesOn
<1> QED
  BY <1>1, <1>2

LEMMA EndsKeeps ==
  ASSUME ServerInv, NEW o \in Users, Server!Ends(o), SameInstances,
         UNCHANGED <<clients, registry, lock, overlapped>>, lost \subseteq lost',
         op[o].pc \in HoldsPcs => op[o].at \in lost' \/ inst'[op[o].at].state # "alive"
  PROVE  ServerInv'
<1>1. op' = [op EXCEPT ![o] = Server!IdleOp] /\ op'[o] = Server!IdleOp
  BY GoesOn DEF Server!Ends
<1>2. OpOK(o)'
  BY <1>1, GoesOn, IdleOK
<1>3. MovesOp(o, Server!IdleOp)
  BY <1>1, GoesOn DEF MovesOp, ServerInv, ServerTyped
<1> QED
  BY <1>2, <1>3, GoesOn, QuietOp DEF PastStop, HasPcs, HoldsPcs

\* An operation that goes on with the instance it has.
LEMMA GotoKeeps ==
  ASSUME ServerInv, NEW o \in Users, NEW pc \in OpPcs, Server!Goto(o, pc), SameInstances,
         UNCHANGED <<clients, registry, lock, overlapped, lost>>,
         <<op[o].pc, pc>> \in {<<"kill", "unlist">>, <<"init", "list">>, <<"list", "register">>},
         pc = "register" => op[o].kind # "test",
         pc = "unlist" => inst'[op[o].at].state # "alive"
  PROVE  ServerInv'
<1> DEFINE r == [op[o] EXCEPT !.pc = pc]
<1>1. op' = [op EXCEPT ![o] = r]
  BY DEF Server!Goto
<1>2. /\ r \in OpRec /\ r.pc = pc /\ r.server = op[o].server /\ r.kind = op[o].kind
      /\ r.name = op[o].name /\ r.at = op[o].at
  BY GoesOn
<1> HIDE DEF r
<1>3. op'[o] = r
  BY <1>1, GoesOn
<1>4. op[o].at \in Server!Instances /\ op[o].pc \in HasPcs
  BY GoesOn DEF OpOK, HasPcs
<1>5. OpOK(o)'
  BY <1>2, <1>3, <1>4, GoesOn DEF OpOK, HasPcs, PastStop, SameInstances, InstKept
<1>6. MovesOp(o, r)
  BY <1>1, <1>2 DEF MovesOp, ServerInv, ServerTyped
<1>7. r.pc \in PastStop /\ r.server \in Servers \ overlapped => clients[r.server] = 0
  BY <1>2, <1>4 DEF ServerInv, NoClientMeanwhile, PastStop
<1>8. op[o].pc \in HoldsPcs => (r.pc \in HoldsPcs /\ r.at = op[o].at) \/ inst'[op[o].at].state # "alive"
  BY <1>2 DEF HoldsPcs, HasPcs
<1> QED
  BY <1>2, <1>5, <1>6, <1>7, <1>8, QuietOp

\* Only instances change, or nothing.
LEMMA InstancesMove ==
  ASSUME ServerInv, SameInstances, UNCHANGED <<clients, registry, lock, op, lost, overlapped>>
  PROVE  ServerInv'
<1>1. ServerTyped'
  <2>1. ASSUME NEW s \in Servers, clients'[s] # 0
        PROVE  clients'[s] \in Server!Instances' /\ inst'[clients'[s]].server = s
    BY <2>1 DEF ServerInv, ServerTyped, SameInstances, InstKept
  <2>2. inst' \in Seq(InstRec)
    BY DEF SameInstances, InstKept
  <2> QED
    BY <2>1, <2>2 DEF ServerInv, ServerTyped
<1>2. ASSUME NEW o \in Users PROVE OpOK(o)'
  <2>1. OpOK(o)
    BY DEF ServerInv
  <2> QED
    BY <2>1 DEF OpOK, SameInstances, InstKept, HasPcs
<1>3. OneWorks' /\ NoClientMeanwhile'
  BY DEF ServerInv, OneWorks, WorksOn, NoClientMeanwhile
<1>4. AliveIsHeld'
  <2> SUFFICES ASSUME NEW i \in Server!Instances, inst'[i].state = "alive", i \notin lost,
                      inst'[i].server \notin overlapped
               PROVE  HeldBy(i)'
    BY DEF AliveIsHeld, SameInstances
  <2>1. HeldBy(i) /\ inst'[i].server = inst[i].server
    BY DEF ServerInv, AliveIsHeld, SameInstances, InstKept
  <2> QED
    BY <2>1 DEF HeldBy
<1>5. RegisteredFirst'
  <2> SUFFICES ASSUME NEW o \in Users, op[o].pc = "insert", op[o].server \notin overlapped,
                      SoleNext(op[o].at)
               PROVE  registry[op[o].name] = op[o].at
    BY DEF RegisteredFirst, Server!Sole, SoleNext
  <2>1. op[o].at \in Server!Instances
    BY DEF ServerInv, OpOK, HasPcs
  <2>2. Server!Sole(op[o].at)
    BY <2>1, SoleKept DEF SameInstances
  <2> QED
    BY <2>2 DEF ServerInv, RegisteredFirst
<1>6. Server!ToolReachesClient'
  <2> SUFFICES ASSUME NEW s \in Servers \ overlapped, clients[s] # 0, SoleNext(clients[s])
               PROVE  registry[inst'[clients[s]].name] = clients[s]
    BY DEF Server!ToolReachesClient, Server!Sole, SoleNext
  <2>1. clients[s] \in Server!Instances
    BY DEF ServerInv, ServerTyped
  <2>2. Server!Sole(clients[s]) /\ inst'[clients[s]].name = inst[clients[s]].name
    BY <2>1, SoleKept DEF SameInstances, InstKept
  <2> QED
    BY <2>2 DEF ServerInv, Server!ToolReachesClient
<1> QED
  BY <1>1, <1>2, <1>3, <1>4, <1>5, <1>6 DEF ServerInv

LEMMA StopNoneKeeps ==
  ASSUME ServerInv, NEW o \in Users, Server!StopNone(o)
  PROVE  ServerInv'
<1>1. /\ op[o].pc = "stop" /\ clients[op[o].server] = 0 /\ Server!AfterStop(o)
      /\ UNCHANGED <<inst, clients, registry, lock, lost, overlapped>>
  BY DEF Server!StopNone
<1>2. SameInstances
  BY <1>1, Unmoved DEF ServerInv, ServerTyped
<1>3. lock' \in Users \cup {None}
  BY <1>1 DEF ServerInv, ServerTyped
<1>4. PICK r : /\ MovesOp(o, r) /\ r.pc \in {"idle", "spawn"} /\ OpOK(o)'
               /\ r.pc # "idle" => r.server = op[o].server
  BY <1>1, <1>3, AfterStopIs
<1>5. r.pc \in PastStop /\ r.server \in Servers \ overlapped => clients[r.server] = 0
  BY <1>1, <1>4 DEF PastStop, HasPcs
<1> QED
  BY <1>1, <1>2, <1>4, <1>5, QuietOp DEF HoldsPcs, HasPcs

\* The registry changes for one name, at the hands of an operation: no client of
\* another server that has the name to itself loses it.
LEMMA RegistryMoves ==
  ASSUME ServerInv, NEW o \in Users, NEW r, MovesOp(o, r), UNCHANGED <<inst, clients, lost>>,
         OpOK(o)', NEW v \in Nat, NEW n \in Names,
         op[o].pc \in {"unlist", "register"}, n = inst[op[o].at].name,
         registry' = [registry EXCEPT ![n] = v],
         r.pc \in PastStop => op[o].pc \in PastStop,
         op[o].pc = "register" => r.pc \in HoldsPcs /\ r.at = op[o].at,
         r.pc = "insert" => r.at = v /\ r.name = n
  PROVE  ServerInv'
<1> DEFINE i == op[o].at
<1>1. SameInstances
  BY Unmoved DEF ServerInv, ServerTyped
<1>2. /\ op' \in [Users -> OpRec] /\ op'[o] = r
      /\ \A q \in Users \ {o} : op'[q] = op[q] /\ OpOK(q)'
      /\ OneWorks'
  BY <1>1, OthersOK DEF SameInstances
<1>3. /\ i \in Server!Instances /\ inst[i].server = op[o].server
      /\ op[o].pc # "idle" /\ op[o].pc \in PastStop
  BY GoesOn DEF OpOK, HasPcs, PastStop
<1>4. registry \in [Names -> Nat] /\ \A m \in Names \ {n} : registry'[m] = registry[m]
  BY DEF ServerInv, ServerTyped
<1>5. ServerTyped'
  <2>1. ASSUME NEW s \in Servers, clients'[s] # 0
        PROVE  clients'[s] \in Server!Instances' /\ inst'[clients'[s]].server = s
    BY <2>1, <1>1 DEF ServerInv, ServerTyped, SameInstances
  <2>2. /\ clients' \in [Servers -> Nat] /\ registry' \in [Names -> Nat] /\ inst' \in Seq(InstRec)
        /\ lock' \in Users \cup {None} /\ overlapped' \subseteq Servers
    BY <1>4 DEF ServerInv, ServerTyped, MovesOp
  <2> QED
    BY <1>2, <2>1, <2>2 DEF ServerTyped
<1>6. NoClientMeanwhile'
  BY <1>2, <1>3 DEF ServerInv, NoClientMeanwhile, MovesOp, PastStop, HasPcs
<1>7. AliveIsHeld'
  <2> SUFFICES ASSUME NEW j \in Server!Instances, inst[j].state = "alive", j \notin lost,
                      inst[j].server \notin overlapped
               PROVE  HeldBy(j)'
    BY <1>1 DEF AliveIsHeld, SameInstances, MovesOp
  <2>1. HeldBy(j)
    BY DEF ServerInv, AliveIsHeld
  <2> QED
    BY <1>2, <2>1 DEF HeldBy, HoldsPcs, HasPcs
\* who has a name to itself is of the server the operation works on
<1>8. ASSUME NEW j \in Server!Instances, SoleNext(j), inst[j].name = n
      PROVE  inst[j].server = op[o].server
  BY <1>1, <1>3, <1>8 DEF SoleNext, SameInstances
<1>9. RegisteredFirst'
  <2> SUFFICES ASSUME NEW q \in Users, op'[q].pc = "insert", op'[q].server \notin overlapped,
                      SoleNext(op'[q].at)
               PROVE  registry'[op'[q].name] = op'[q].at
    BY DEF RegisteredFirst, Server!Sole, SoleNext, MovesOp
  <2>1. CASE q = o
    BY <1>2, <1>4, <2>1 DEF MovesOp
  <2>2. CASE q # o
    <3>1. op'[q] = op[q] /\ OpOK(q) /\ op[q].pc = "insert"
      BY <1>2, <2>2 DEF ServerInv
    <3>2. /\ op[q].at \in Server!Instances /\ inst[op[q].at].server = op[q].server
          /\ inst[op[q].at].name = op[q].name /\ op[q].name \in Names
          /\ op[q].kind # "test" /\ op[q].server # None
      BY <3>1 DEF OpOK, HasPcs
    <3>3. op[q].server \in Servers \ overlapped
      BY <3>1, <3>2 DEF ServerInv, ServerTyped, OpRec
    <3>4. op[q].name # n
      <4> SUFFICES ASSUME op[q].name = n PROVE FALSE
        OBVIOUS
      <4>1. op[o].server = op[q].server
        BY <1>8, <3>1, <3>2
      <4> QED
        BY <1>3, <2>2, <3>1, <3>3, <4>1 DEF ServerInv, OneWorks, WorksOn
    <3>5. Server!Sole(op[q].at)
      BY <1>1, <3>1, <3>2, SoleKept DEF SameInstances
    <3> QED
      BY <1>4, <3>1, <3>2, <3>4, <3>5 DEF ServerInv, RegisteredFirst
  <2> QED
    BY <2>1, <2>2
<1>10. Server!ToolReachesClient'
  <2> SUFFICES ASSUME NEW s \in Servers \ overlapped, clients[s] # 0, SoleNext(clients[s])
               PROVE  registry'[inst[clients[s]].name] = clients[s]
    BY DEF Server!ToolReachesClient, Server!Sole, SoleNext, MovesOp
  <2>1. /\ clients[s] \in Server!Instances /\ inst[clients[s]].server = s
        /\ inst[clients[s]].name \in Names
    BY InstanceIs DEF ServerInv, ServerTyped
  <2>2. Server!Sole(clients[s])
    BY <1>1, <2>1, SoleKept DEF SameInstances
  <2>3. registry[inst[clients[s]].name] = clients[s]
    BY <2>2 DEF ServerInv, Server!ToolReachesClient
  <2>4. inst[clients[s]].name # n
    <3> SUFFICES ASSUME inst[clients[s]].name = n PROVE FALSE
      OBVIOUS
    <3>1. op[o].server = s
      BY <1>8, <2>1
    <3> QED
      BY <1>3, <3>1 DEF ServerInv, NoClientMeanwhile
  <2> QED
    BY <1>4, <2>1, <2>3, <2>4
<1> QED
  BY <1>2, <1>5, <1>6, <1>7, <1>9, <1>10 DEF ServerInv

LEMMA StopTakesKeeps ==
  ASSUME ServerInv, NEW o \in Users, Server!StopTakes(o)
  PROVE  ServerInv'
<1> DEFINE s == op[o].server
           i == clients[s]
           r == [op[o] EXCEPT !.pc = "kill", !.at = i]
<1>0. /\ op[o].pc = "stop" /\ lock = None /\ i # 0 /\ lock' = o
      /\ clients' = [clients EXCEPT ![s] = 0] /\ op' = [op EXCEPT ![o] = r]
      /\ UNCHANGED <<inst, registry, lost, overlapped>>
  BY DEF Server!StopTakes
<1>1. op[o] \in OpRec /\ OpOK(o) /\ op[o].kind # "test" /\ s # None /\ s \in Servers
  BY <1>0, GoesOn DEF OpOK, OpRec
<1>2. clients \in [Servers -> Nat] /\ i \in Server!Instances /\ inst[i].server = s
  BY <1>0, <1>1 DEF ServerInv, ServerTyped
<1>3. /\ r \in OpRec /\ r.pc = "kill" /\ r.at = i /\ r.server = s /\ r.kind = op[o].kind
      /\ r.name = op[o].name
  <2>1. i \in Nat
    BY <1>1, <1>2
  <2> HIDE DEF i, s
  <2>2. r \in OpRec
    BY <1>1, <2>1 DEF OpRec, OpPcs
  <2>3. /\ r.pc = "kill" /\ r.at = i /\ r.server = op[o].server /\ r.kind = op[o].kind
        /\ r.name = op[o].name
    BY <1>1 DEF OpRec
  <2> QED
    BY <2>2, <2>3 DEF s
<1>4. SameInstances
  BY <1>0, Unmoved DEF ServerInv, ServerTyped
<1> HIDE DEF r
<1>5. MovesOp(o, r)
  BY <1>0, <1>3 DEF MovesOp
<1>6. /\ op' \in [Users -> OpRec] /\ op'[o] = r
      /\ \A q \in Users \ {o} : op'[q] = op[q] /\ OpOK(q)'
      /\ OneWorks'
  BY <1>4, <1>5, OthersOK DEF SameInstances
<1>7. OpOK(o)'
  BY <1>0, <1>1, <1>2, <1>3, <1>4, <1>6 DEF OpOK, HasPcs, PastStop, SameInstances
<1>8. clients' \in [Servers -> Nat] /\ clients'[s] = 0 /\ \A x \in Servers \ {s} : clients'[x] = clients[x]
  BY <1>0, <1>1, <1>2
<1>9. ServerTyped'
  <2>1. ASSUME NEW x \in Servers, clients'[x] # 0
        PROVE  clients'[x] \in Server!Instances' /\ inst'[clients'[x]].server = x
    BY <1>0, <1>4, <1>8, <2>1 DEF ServerInv, ServerTyped, SameInstances
  <2>2. /\ registry' \in [Names -> Nat] /\ inst' \in Seq(InstRec)
        /\ lock' \in Users \cup {None} /\ overlapped' \subseteq Servers
    BY <1>0 DEF ServerInv, ServerTyped
  <2> QED
    BY <1>6, <1>8, <2>1, <2>2 DEF ServerTyped
<1>10. NoClientMeanwhile'
  BY <1>0, <1>3, <1>6, <1>8 DEF ServerInv, NoClientMeanwhile
<1>11. AliveIsHeld'
  <2> SUFFICES ASSUME NEW j \in Server!Instances, inst[j].state = "alive", j \notin lost,
                      inst[j].server \notin overlapped
               PROVE  HeldBy(j)'
    BY <1>0, <1>4 DEF AliveIsHeld, SameInstances
  <2>1. HeldBy(j)
    BY DEF ServerInv, AliveIsHeld
  <2>2. CASE j = i
    BY <1>3, <1>6, <2>2 DEF HeldBy, HoldsPcs, HasPcs
  <2>3. CASE j # i
    BY <1>0, <1>6, <1>8, <2>1, <2>3 DEF HeldBy, HoldsPcs, HasPcs
  <2> QED
    BY <2>2, <2>3
<1>12. RegisteredFirst'
  BY <1>0, <1>3, <1>6 DEF ServerInv, RegisteredFirst, Server!Sole, Server!Instances
<1>13. Server!ToolReachesClient'
  BY <1>0, <1>8 DEF ServerInv, Server!ToolReachesClient, Server!Sole, Server!Instances
<1> QED
  BY <1>6, <1>7, <1>9, <1>10, <1>11, <1>12, <1>13 DEF ServerInv

LEMMA KillKeeps ==
  ASSUME ServerInv, NEW o \in Users, Server!Kill(o)
  PROVE  ServerInv'
<1>1. /\ op[o].pc = "kill" /\ inst' = Server!Killed(op[o].at) /\ Server!Goto(o, "unlist")
      /\ UNCHANGED <<clients, registry, lock, lost, overlapped>>
  BY DEF Server!Kill
<1>2. op[o].at \in Server!Instances
  BY <1>1, GoesOn DEF OpOK, HasPcs
<1>3. SameInstances /\ inst'[op[o].at].state # "alive"
  BY <1>1, <1>2, KilledIs
<1> QED
  BY <1>1, <1>3, GotoKeeps DEF OpPcs

LEMMA UnlistKeeps ==
  ASSUME ServerInv, NEW o \in Users, Server!Unlist(o)
  PROVE  ServerInv'
<1> DEFINE i == op[o].at
<1>1. /\ op[o].pc = "unlist" /\ lock' = None /\ Server!AfterStop(o)
      /\ registry' = [registry EXCEPT ![inst[i].name] = 0] \/ UNCHANGED registry
      /\ UNCHANGED <<inst, clients, lost, overlapped>>
  BY DEF Server!Unlist
<1>2. OpOK(o) /\ lock = o /\ i \in Server!Instances
  BY <1>1, GoesOn DEF OpOK, HasPcs
<1>3. SameInstances
  BY <1>1, Unmoved DEF ServerInv, ServerTyped
<1>4. PICK r : /\ MovesOp(o, r) /\ r.pc \in {"idle", "spawn"} /\ OpOK(o)'
               /\ r.pc # "idle" => r.server = op[o].server
  BY <1>1, <1>2, AfterStopIs
<1>5. CASE registry' = [registry EXCEPT ![inst[i].name] = 0]
  <2>1. inst[i].name \in Names
    BY <1>2, InstanceIs
  <2> QED
    BY <1>1, <1>4, <1>5, <2>1, RegistryMoves DEF PastStop, HasPcs
<1>6. CASE UNCHANGED registry
  <2>1. r.pc \in PastStop /\ r.server \in Servers \ overlapped => clients[r.server] = 0
    BY <1>1, <1>4 DEF ServerInv, NoClientMeanwhile, PastStop, HasPcs
  <2> QED
    BY <1>1, <1>3, <1>4, <1>6, <2>1, QuietOp DEF HoldsPcs
<1> QED
  BY <1>1, <1>5, <1>6

LEMMA AnswersKeeps ==
  ASSUME ServerInv, NEW o \in Users, Server!Answers(o)
  PROVE  ServerInv'
<1>1. /\ op[o].pc \in {"init", "list"} /\ UNCHANGED <<clients, registry, lock, lost, overlapped>>
  BY DEF Server!Answers
<1>2. op[o].at \in Server!Instances
  BY <1>1, GoesOn DEF OpOK, HasPcs
<1>3. CASE op[o].pc = "list" /\ op[o].kind = "test"
  <2>1. inst' = Server!Killed(op[o].at) /\ Server!Ends(o)
    BY <1>3 DEF Server!Answers
  <2>2. SameInstances /\ inst'[op[o].at].state # "alive"
    BY <1>2, <2>1, KilledIs
  <2> QED
    BY <1>1, <2>1, <2>2, EndsKeeps
<1>4. CASE ~(op[o].pc = "list" /\ op[o].kind = "test")
  <2> DEFINE pc == IF op[o].pc = "init" THEN "list" ELSE "register"
  <2>1. UNCHANGED inst /\ Server!Goto(o, pc)
    BY <1>4 DEF Server!Answers
  <2>2. SameInstances
    BY <2>1, Unmoved DEF ServerInv, ServerTyped
  <2>3. /\ pc \in OpPcs /\ (pc = "register" => op[o].kind # "test") /\ pc # "unlist"
        /\ <<op[o].pc, pc>> \in {<<"init", "list">>, <<"list", "register">>}
    BY <1>1, <1>4 DEF OpPcs
  <2> HIDE DEF pc
  <2> QED
    BY <1>1, <2>1, <2>2, <2>3, GotoKeeps
<1> QED
  BY <1>3, <1>4

LEMMA EndingSteps ==
  ASSUME ServerInv, NEW o \in Users, Server!SpawnFails(o) \/ Server!Fails(o)
  PROVE  ServerInv'
<1>1. SameInstances
  BY Unmoved DEF ServerInv, ServerTyped, Server!SpawnFails, Server!Fails
<1>2. CASE Server!SpawnFails(o)
  BY <1>1, <1>2, EndsKeeps DEF Server!SpawnFails, HoldsPcs, HasPcs
<1>3. CASE Server!Fails(o)
  BY <1>1, <1>3, EndsKeeps DEF Server!Fails
<1> QED
  BY <1>2, <1>3

LEMMA RegisterKeeps ==
  ASSUME ServerInv, NEW o \in Users, Server!Register(o)
  PROVE  ServerInv'
<1> DEFINE i == op[o].at
           n == op[o].name
           r == [op[o] EXCEPT !.pc = "insert"]
<1>1. /\ op[o].pc = "register" /\ registry' = [registry EXCEPT ![n] = i]
      /\ op' = [op EXCEPT ![o] = r] /\ UNCHANGED <<inst, clients, lock, lost, overlapped>>
  BY DEF Server!Register, Server!Put, Server!Goto
<1>2. /\ r \in OpRec /\ r.pc = "insert" /\ r.server = op[o].server /\ r.kind = op[o].kind
      /\ r.name = n /\ r.at = i
  BY GoesOn DEF OpPcs
<1> HIDE DEF r
<1>3. OpOK(o) /\ n \in Names /\ i \in Nat /\ inst[i].name = n /\ op'[o] = r
  BY <1>1, GoesOn DEF OpOK, OpRec
<1>4. SameInstances
  BY <1>1, Unmoved DEF ServerInv, ServerTyped
<1>5. OpOK(o)'
  BY <1>1, <1>2, <1>3, <1>4 DEF OpOK, HasPcs, PastStop, SameInstances, InstKept
<1>6. MovesOp(o, r)
  BY <1>1, <1>2 DEF MovesOp, ServerInv, ServerTyped
<1> QED
  BY <1>1, <1>2, <1>3, <1>5, <1>6, RegistryMoves DEF PastStop, HasPcs, HoldsPcs

LEMMA SpawnKeeps ==
  ASSUME ServerInv, NEW o \in Users, Server!Spawn(o)
  PROVE  ServerInv'
<1> DEFINE k == Len(inst) + 1
           r == [op[o] EXCEPT !.pc = "init", !.at = k]
<1>t. op[o] \in OpRec /\ OpOK(o) /\ inst \in Seq(InstRec) /\ Len(inst) \in Nat /\ op[o].pc = "spawn"
  BY GoesOn DEF ServerInv, ServerTyped, Server!Spawn
<1>1. PICK wraps \in BOOLEAN :
        inst' = Append(inst, [state |-> "alive", wraps |-> wraps, server |-> op[o].server,
                              name |-> op[o].name, ids |-> 0])
  BY DEF Server!Spawn
<1> DEFINE x == [state |-> "alive", wraps |-> wraps, server |-> op[o].server,
                 name |-> op[o].name, ids |-> 0]
<1>2. x \in InstRec
  BY <1>t DEF OpRec, OpOK, InstRec
<1>3. /\ inst' \in Seq(InstRec) /\ Len(inst') = k /\ inst'[k] = x
      /\ \A j \in 1 .. Len(inst) : inst'[j] = inst[j]
  BY <1>t, <1>1, <1>2, PutLast
<1>4. x.server = op[o].server /\ x.name = op[o].name
  OBVIOUS
<1> HIDE DEF x
<1>5. InstKept /\ Server!Instances' = Server!Instances \cup {k} /\ k \notin Server!Instances
  BY <1>t, <1>3 DEF InstKept, Server!Instances
<1>6. op' = [op EXCEPT ![o] = r] /\ UNCHANGED <<clients, registry, lock, lost, overlapped>>
  BY <1>3 DEF Server!Spawn
<1>7. /\ r \in OpRec /\ r.pc = "init" /\ r.at = k /\ r.server = op[o].server /\ r.kind = op[o].kind
      /\ r.name = op[o].name
  <2>1. k \in Nat
    BY <1>t
  <2> HIDE DEF k
  <2>2. r \in OpRec
    BY <1>t, <2>1 DEF OpRec, OpPcs
  <2>3. /\ r.pc = "init" /\ r.at = k /\ r.server = op[o].server /\ r.kind = op[o].kind
        /\ r.name = op[o].name
    BY <1>t DEF OpRec
  <2> QED
    BY <2>2, <2>3
<1> HIDE DEF r, k
<1>8. MovesOp(o, r)
  BY <1>6, <1>7, <1>t DEF MovesOp, ServerInv, ServerTyped
<1>9. /\ op' \in [Users -> OpRec] /\ op'[o] = r
      /\ \A q \in Users \ {o} : op'[q] = op[q] /\ OpOK(q)'
      /\ OneWorks'
  BY <1>5, <1>8, OthersOK
<1>10. OpOK(o)'
  BY <1>3, <1>4, <1>5, <1>7, <1>9, <1>t DEF OpOK, HasPcs, PastStop
<1>11. ServerTyped'
  <2>1. ASSUME NEW s \in Servers, clients'[s] # 0
        PROVE  clients'[s] \in Server!Instances' /\ inst'[clients'[s]].server = s
    BY <1>5, <1>6, <2>1 DEF ServerInv, ServerTyped, InstKept
  <2>2. /\ clients' \in [Servers -> Nat] /\ registry' \in [Names -> Nat]
        /\ lock' \in Users \cup {None} /\ overlapped' \subseteq Servers
    BY <1>6 DEF ServerInv, ServerTyped
  <2> QED
    BY <1>3, <1>9, <2>1, <2>2 DEF ServerTyped
<1>12. NoClientMeanwhile'
  BY <1>6, <1>7, <1>9, <1>t DEF ServerInv, NoClientMeanwhile, PastStop
<1>13. AliveIsHeld'
  <2> SUFFICES ASSUME NEW j \in Server!Instances', inst'[j].state = "alive", j \notin lost,
                      inst'[j].server \notin overlapped
               PROVE  HeldBy(j)'
    BY <1>6 DEF AliveIsHeld
  <2>1. CASE j = k
    BY <1>7, <1>9, <2>1 DEF HeldBy, HoldsPcs, HasPcs
  <2>2. CASE j # k
    <3>1. j \in Server!Instances /\ inst'[j] = inst[j]
      BY <1>3, <1>5, <2>2 DEF Server!Instances
    <3>2. HeldBy(j)
      BY <3>1 DEF ServerInv, AliveIsHeld
    <3> QED
      BY <1>6, <1>9, <1>t, <3>1, <3>2 DEF HeldBy, HoldsPcs, HasPcs
  <2> QED
    BY <2>1, <2>2
<1>14. RegisteredFirst'
  <2> SUFFICES ASSUME NEW q \in Users, op'[q].pc = "insert", op'[q].server \notin overlapped,
                      SoleNext(op'[q].at)
               PROVE  registry[op'[q].name] = op'[q].at
    BY <1>6 DEF RegisteredFirst, Server!Sole, SoleNext
  <2>1. op'[q] = op[q] /\ OpOK(q)
    BY <1>7, <1>9 DEF ServerInv
  <2>2. op[q].at \in Server!Instances
    BY <2>1 DEF OpOK, HasPcs
  <2>3. Server!Sole(op[q].at)
    BY <1>5, <2>1, <2>2, SoleKept
  <2> QED
    BY <2>1, <2>3 DEF ServerInv, RegisteredFirst
<1>15. Server!ToolReachesClient'
  <2> SUFFICES ASSUME NEW s \in Servers \ overlapped, clients[s] # 0, SoleNext(clients[s])
               PROVE  registry[inst'[clients[s]].name] = clients[s]
    BY <1>6 DEF Server!ToolReachesClient, Server!Sole, SoleNext
  <2>1. clients[s] \in Server!Instances
    BY DEF ServerInv, ServerTyped
  <2>2. Server!Sole(clients[s]) /\ inst'[clients[s]].name = inst[clients[s]].name
    BY <1>5, <2>1, SoleKept DEF InstKept
  <2> QED
    BY <2>2 DEF ServerInv, Server!ToolReachesClient
<1> QED
  BY <1>9, <1>10, <1>11, <1>12, <1>13, <1>14, <1>15 DEF ServerInv

LEMMA InsertKeeps ==
  ASSUME ServerInv, NEW o \in Users, Server!Insert(o)
  PROVE  ServerInv'
<1> DEFINE s == op[o].server
           i == op[o].at
<1>1. /\ op[o].pc = "insert" /\ clients' = [clients EXCEPT ![s] = i]
      /\ op' = [op EXCEPT ![o] = Server!IdleOp]
      /\ UNCHANGED <<inst, registry, lock, lost, overlapped>>
  BY DEF Server!Insert, Server!Ends
<1>2. op[o] \in OpRec /\ OpOK(o) /\ s # None /\ s \in Servers
  BY <1>1, GoesOn DEF OpOK, OpRec
<1>3. /\ i \in Server!Instances /\ inst[i].server = s /\ inst[i].name = op[o].name
      /\ i \in Nat /\ i # 0
  BY <1>1, <1>2 DEF OpOK, HasPcs, OpRec, Server!Instances
<1>4. SameInstances
  BY <1>1, Unmoved DEF ServerInv, ServerTyped
<1>5. MovesOp(o, Server!IdleOp)
  BY <1>1, GoesOn DEF MovesOp, ServerInv, ServerTyped
<1>6. /\ op' \in [Users -> OpRec] /\ op'[o] = Server!IdleOp /\ op'[o].pc = "idle"
      /\ \A q \in Users \ {o} : op'[q] = op[q] /\ OpOK(q)'
      /\ OneWorks'
  BY <1>4, <1>5, GoesOn, OthersOK DEF SameInstances
<1>7. OpOK(o)'
  BY <1>6, IdleOK
<1>8. /\ clients \in [Servers -> Nat] /\ clients' \in [Servers -> Nat]
      /\ clients'[s] = i /\ \A x \in Servers \ {s} : clients'[x] = clients[x]
  BY <1>1, <1>2, <1>3 DEF ServerInv, ServerTyped
<1>9. ServerTyped'
  <2>1. ASSUME NEW x \in Servers, clients'[x] # 0
        PROVE  clients'[x] \in Server!Instances' /\ inst'[clients'[x]].server = x
    BY <1>1, <1>3, <1>4, <1>8, <2>1 DEF ServerInv, ServerTyped, SameInstances
  <2>2. /\ registry' \in [Names -> Nat] /\ inst' \in Seq(InstRec)
        /\ lock' \in Users \cup {None} /\ overlapped' \subseteq Servers
    BY <1>1 DEF ServerInv, ServerTyped
  <2> QED
    BY <1>6, <1>8, <2>1, <2>2 DEF ServerTyped
\* nobody else works on the server
<1>10. s \notin overlapped => clients[s] = 0 /\ \A q \in Users \ {o} : op[q].pc # "idle" => op[q].server # s
  BY <1>1, <1>2 DEF ServerInv, NoClientMeanwhile, OneWorks, WorksOn, PastStop, HasPcs
<1>11. NoClientMeanwhile'
  <2> SUFFICES ASSUME NEW q \in Users, op'[q].pc \in PastStop, op'[q].server \in Servers \ overlapped
               PROVE  clients'[op'[q].server] = 0
    BY <1>1 DEF NoClientMeanwhile
  <2>1. q # o /\ op'[q] = op[q] /\ op[q].pc # "idle"
    BY <1>6 DEF PastStop, HasPcs
  <2>2. op[q].server # s /\ clients[op[q].server] = 0
    BY <1>10, <2>1 DEF ServerInv, NoClientMeanwhile
  <2> QED
    BY <1>8, <2>1, <2>2
<1>12. AliveIsHeld'
  <2> SUFFICES ASSUME NEW j \in Server!Instances, inst[j].state = "alive", j \notin lost,
                      inst[j].server \notin overlapped
               PROVE  HeldBy(j)'
    BY <1>1, <1>4 DEF AliveIsHeld, SameInstances
  <2>1. HeldBy(j)
    BY DEF ServerInv, AliveIsHeld
  <2>2. CASE j = i
    BY <1>1, <1>2, <1>3, <1>8, <2>2 DEF HeldBy
  <2>3. CASE j # i
    <3>1. j # 0
      BY DEF Server!Instances
    <3> QED
      BY <1>1, <1>6, <1>8, <1>10, <2>1, <2>3, <3>1 DEF HeldBy
  <2> QED
    BY <2>2, <2>3
<1>13. RegisteredFirst'
  BY <1>1, <1>6 DEF ServerInv, RegisteredFirst, Server!Sole, Server!Instances
<1>14. Server!ToolReachesClient'
  <2> SUFFICES ASSUME NEW x \in Servers \ overlapped, clients'[x] # 0, SoleNext(clients'[x])
               PROVE  registry[inst[clients'[x]].name] = clients'[x]
    BY <1>1 DEF Server!ToolReachesClient, Server!Sole, SoleNext
  <2>1. CASE x = s
    <3>1. Server!Sole(i)
      BY <1>3, <1>4, <1>8, <2>1, SoleKept DEF SameInstances
    <3>2. registry[op[o].name] = i
      BY <1>1, <2>1, <3>1 DEF ServerInv, RegisteredFirst
    <3> QED
      BY <1>3, <1>8, <2>1, <3>2
  <2>2. CASE x # s
    <3>1. clients'[x] = clients[x] /\ clients[x] \in Server!Instances
      BY <1>8, <2>2 DEF ServerInv, ServerTyped
    <3>2. Server!Sole(clients[x])
      BY <1>4, <3>1, SoleKept DEF SameInstances
    <3> QED
      BY <3>1, <3>2 DEF ServerInv, Server!ToolReachesClient
  <2> QED
    BY <2>1, <2>2
<1> QED
  BY <1>6, <1>7, <1>9, <1>11, <1>12, <1>13, <1>14 DEF ServerInv

LEMMA BeginKeeps ==
  ASSUME ServerInv, NEW o \in Users, NEW kind \in {"start", "stop", "test"},
         NEW s \in Servers \cup {None}, NEW n \in Names, Server!Begin(o, kind, s, n)
  PROVE  ServerInv'
<1> DEFINE r == [pc |-> Server!FirstStep(kind), kind |-> kind, server |-> s, name |-> n, at |-> 0]
<1>1. /\ op[o].pc = "idle" /\ (kind = "test" <=> s = None)
      /\ op' = [op EXCEPT ![o] = r]
      /\ UNCHANGED <<inst, clients, registry, lock, lost>>
  BY DEF Server!Begin
<1>2. /\ r.pc = IF kind = "test" THEN "spawn" ELSE "stop"
      /\ r.kind = kind /\ r.server = s /\ r.name = n /\ r \in OpRec
  BY DEF Server!FirstStep, OpRec, OpPcs
<1> HIDE DEF r
<1>3. /\ overlapped \subseteq overlapped' /\ overlapped' \subseteq Servers
      /\ s \notin overlapped' /\ s # None => \A q \in Users : op[q].pc # "idle" => op[q].server # s
  BY DEF Server!Begin, ServerInv, ServerTyped
<1>4. /\ op' \in [Users -> OpRec] /\ op'[o] = r /\ \A q \in Users \ {o} : op'[q] = op[q]
  BY <1>1, <1>2, GoesOn
<1>5. SameInstances
  BY <1>1, Unmoved DEF ServerInv, ServerTyped
<1>6. ASSUME NEW q \in Users PROVE OpOK(q)'
  <2>1. CASE q = o
    BY <1>1, <1>2, <1>4, <2>1 DEF OpOK, HasPcs, PastStop
  <2>2. CASE q # o
    BY <1>1, <1>4, <1>5, <2>2 DEF ServerInv, OpOK, SameInstances
  <2> QED
    BY <2>1, <2>2
<1>7. ServerTyped'
  <2>1. ASSUME NEW x \in Servers, clients'[x] # 0
        PROVE  clients'[x] \in Server!Instances' /\ inst'[clients'[x]].server = x
    BY <1>1, <1>5, <2>1 DEF ServerInv, ServerTyped, SameInstances
  <2>2. /\ clients' \in [Servers -> Nat] /\ registry' \in [Names -> Nat] /\ inst' \in Seq(InstRec)
        /\ lock' \in Users \cup {None}
    BY <1>1 DEF ServerInv, ServerTyped
  <2> QED
    BY <1>3, <1>4, <2>1, <2>2 DEF ServerTyped
<1>8. OneWorks'
  <2> SUFFICES ASSUME NEW x \in Servers \ overlapped', NEW p \in Users, NEW q \in Users,
                      WorksOn(p, x)', WorksOn(q, x)'
               PROVE  p = q
    BY DEF OneWorks
  <2>1. CASE p # o /\ q # o
    BY <1>3, <1>4, <2>1 DEF ServerInv, OneWorks, WorksOn
  <2>2. CASE p = o \/ q = o
    <3>1. x = s /\ s # None
      BY <1>2, <1>4, <2>2, PartsAssumption DEF WorksOn, Server!McpAssumption
    <3> QED
      BY <1>3, <1>4, <2>2, <3>1 DEF WorksOn
  <2> QED
    BY <2>1, <2>2
<1>9. NoClientMeanwhile'
  <2>1. None \notin Servers
    BY PartsAssumption DEF Server!McpAssumption
  <2> QED
    BY <1>1, <1>2, <1>3, <1>4, <2>1 DEF ServerInv, NoClientMeanwhile, PastStop, HasPcs
<1>10. AliveIsHeld'
  <2> SUFFICES ASSUME NEW j \in Server!Instances, inst[j].state = "alive", j \notin lost,
                      inst[j].server \notin overlapped'
               PROVE  HeldBy(j)'
    BY <1>1, <1>5 DEF AliveIsHeld, SameInstances
  <2>1. HeldBy(j)
    BY <1>3 DEF ServerInv, AliveIsHeld
  <2> QED
    BY <1>1, <1>4, <2>1 DEF HeldBy, HoldsPcs, HasPcs
<1>11. RegisteredFirst' /\ Server!ToolReachesClient'
  BY <1>1, <1>2, <1>3, <1>4 DEF ServerInv, RegisteredFirst, Server!ToolReachesClient, Server!Sole,
     Server!Instances
<1> QED
  BY <1>6, <1>7, <1>8, <1>9, <1>10, <1>11 DEF ServerInv

LEMMA RequestSteps ==
  ASSUME ServerInv,
         \/ (\E i \in Server!Instances : Server!Exits(i))
         \/ (\E c \in Callers, n \in Names : Server!Send(c, n))
         \/ (\E i \in Server!Instances, id \in 1 .. MaxId : Server!Answer(i, id))
         \/ (\E c \in Callers : Server!TimesOut(c) \/ Server!Aborts(c))
  PROVE  ServerInv'
<1>1. ASSUME NEW i \in Server!Instances, Server!Exits(i) PROVE ServerInv'
  <2> DEFINE x == [inst[i] EXCEPT !.state = "dead"]
  <2>1. /\ inst' = [inst EXCEPT ![i] = x]
        /\ UNCHANGED <<clients, registry, lock, op, lost, overlapped>>
    BY <1>1 DEF Server!Exits
  <2>2. x \in InstRec /\ x.server = inst[i].server /\ x.name = inst[i].name /\ x.state = "dead"
    BY InstanceIs DEF InstRec
  <2> HIDE DEF x
  <2> QED
    BY <2>1, <2>2, ChangesOne, InstancesMove
<1>2. ASSUME NEW c \in Callers, NEW n \in Names, Server!Send(c, n) PROVE ServerInv'
  <2> DEFINE i == registry[n]
  <2>0. /\ i # 0 /\ inst' = [inst EXCEPT ![i].ids = inst[i].ids + 1]
        /\ UNCHANGED <<clients, registry, lock, op, lost, overlapped>>
    BY <1>2 DEF Server!Send
  <2>1. CASE i \in Server!Instances
    <3> DEFINE x == [inst[i] EXCEPT !.ids = inst[i].ids + 1]
    <3>1. inst' = [inst EXCEPT ![i] = x]
      BY <2>0
    <3>2. inst[i] \in InstRec
      BY <2>1, InstanceIs
    <3>3. x \in InstRec /\ x.server = inst[i].server /\ x.name = inst[i].name /\ x.state = inst[i].state
      BY <3>2 DEF InstRec
    <3> HIDE DEF x
    <3> QED
      BY <2>0, <2>1, <3>1, <3>3, ChangesOne, InstancesMove
  <2>2. CASE i \notin Server!Instances
    <3>1. inst \in Seq(InstRec) /\ DOMAIN inst = Server!Instances
      BY DEF ServerInv, ServerTyped, Server!Instances
    <3>2. inst' = inst
      BY <2>0, <2>2, <3>1
    <3> QED
      BY <2>0, <3>1, <3>2, Unmoved, InstancesMove
  <2> QED
    BY <2>1, <2>2
<1>3. ASSUME UNCHANGED <<inst, clients, registry, lock, op, lost, overlapped>> PROVE ServerInv'
  BY <1>3, Unmoved, InstancesMove DEF ServerInv, ServerTyped
<1> QED
  BY <1>1, <1>2, <1>3 DEF Server!Answer, Server!TimesOut, Server!Aborts, Server!manager

\* A caller has no answer but to the request it made last.
LEMMA CallKeeps ==
  ASSUME AnswersInv, NEW c \in Callers, NEW r, IsCall(r), r.answer \in {0, r.id},
         call' = [call EXCEPT ![c] = r], \A p \in pending' : p.caller \in Callers
  PROVE  AnswersInv'
<1>1. call' = [d \in Callers |-> IF d = c THEN r ELSE call[d]]
  BY DEF AnswersInv
<1> QED
  BY <1>1 DEF AnswersInv, Server!AnswersAreOwn, IsCall

LEMMA AnswersStay ==
  ASSUME AnswersInv, UNCHANGED <<call, pending>>
  PROVE  AnswersInv'
BY DEF AnswersInv, Server!AnswersAreOwn

LEMMA IdleCallIs == IsCall(Server!IdleCall) /\ Server!IdleCall.answer = 0
BY DEF Server!IdleCall, IsCall

LEMMA AnswersNext ==
  ASSUME AnswersInv, Server!Next
  PROVE  AnswersInv'
<1>1. ASSUME NEW c \in Callers, NEW n \in Names, Server!Send(c, n) PROVE AnswersInv'
  <2> DEFINE i == registry[n]
             id == inst[i].ids + 1
             new == [at |-> i, id |-> id, caller |-> c]
             waits == [pc |-> "waits", at |-> i, id |-> id, answer |-> 0]
             r == IF inst[i].state = "dead" THEN Server!IdleCall ELSE waits
  <2>1. pending' = pending \cup {new} /\ call' = [call EXCEPT ![c] = r]
    BY <1>1 DEF Server!Send
  <2>2. new.caller = c
    OBVIOUS
  <2>3. IsCall(waits) /\ waits.answer = 0
    BY DEF IsCall
  <2> HIDE DEF new, waits
  <2>4. IsCall(r) /\ r.answer = 0
    BY <2>3, IdleCallIs
  <2>5. \A p \in pending' : p.caller \in Callers
    BY <2>1, <2>2 DEF AnswersInv
  <2> HIDE DEF r
  <2> QED
    BY <2>1, <2>4, <2>5, CallKeeps
<1>2. ASSUME NEW i, NEW id, Server!Answer(i, id) PROVE AnswersInv'
  <2>1. PICK p \in Server!Match(i, id) :
          /\ pending' = pending \ {p}
          /\ call' = IF call[p.caller].pc = "waits" /\ call[p.caller].at = i /\ call[p.caller].id = p.id
                     THEN [call EXCEPT ![p.caller].pc = "done", ![p.caller].answer = id] ELSE call
    BY <1>2 DEF Server!Answer
  <2>2. p \in pending /\ p.id = id /\ p.caller \in Callers
    BY <2>1 DEF Server!Match, AnswersInv
  <2>3. \A q \in pending' : q.caller \in Callers
    BY <2>1 DEF AnswersInv
  <2>4. CASE call' = call
    BY <2>3, <2>4 DEF AnswersInv, Server!AnswersAreOwn
  <2>5. CASE call' # call
    <3> DEFINE c == p.caller
               a == [call[c] EXCEPT !.pc = "done"]
               r == [a EXCEPT !.answer = id]
    <3>1. call[c].id = id /\ IsCall(call[c])
      BY <2>1, <2>2, <2>5 DEF AnswersInv
    <3>2. call' = [call EXCEPT ![c] = r]
      BY <2>1, <2>5
    <3>3. a = [pc |-> "done", at |-> call[c].at, id |-> id, answer |-> call[c].answer]
      BY <3>1 DEF IsCall
    <3> HIDE DEF a
    <3>4. r = [pc |-> "done", at |-> call[c].at, id |-> id, answer |-> id]
      BY <3>3
    <3>5. IsCall(r) /\ r.answer = r.id
      BY <3>4 DEF IsCall
    <3> HIDE DEF r
    <3> QED
      BY <2>2, <2>3, <3>2, <3>5, CallKeeps
  <2> QED
    BY <2>4, <2>5
<1>3. ASSUME NEW c \in Callers, Server!TimesOut(c) \/ Server!Aborts(c) PROVE AnswersInv'
  <2>1. call' = [call EXCEPT ![c] = Server!IdleCall] /\ pending' \subseteq pending
    BY <1>3 DEF Server!TimesOut, Server!Aborts
  <2>2. \A p \in pending' : p.caller \in Callers
    BY <2>1 DEF AnswersInv
  <2> QED
    BY <2>1, <2>2, IdleCallIs, CallKeeps
<1> QED
  BY <1>1, <1>2, <1>3, AnswersStay DEF Server!Next, Server!Begin, Server!StopNone, Server!StopTakes,
     Server!Kill, Server!Unlist, Server!Spawn, Server!SpawnFails, Server!Answers, Server!Fails,
     Server!Register, Server!Insert, Server!Exits, Server!requests

LEMMA ServerInit == ASSUME Server!Init PROVE ServerInv /\ AnswersInv
<1>1. Server!IdleOp \in OpRec /\ Server!IdleOp.pc = "idle"
  BY DEF Server!IdleOp, OpRec, OpPcs
<1>2. inst = << >> /\ Server!Instances = {} /\ inst \in Seq(InstRec)
  BY DEF Server!Init, Server!Instances
<1>3. \A o \in Users : op[o] = Server!IdleOp
  BY DEF Server!Init
<1>4. ServerTyped
  BY <1>1, <1>2 DEF Server!Init, ServerTyped
<1>5. \A o \in Users : OpOK(o)
  BY <1>1, <1>3 DEF OpOK, HasPcs, PastStop
<1>6. /\ OneWorks /\ NoClientMeanwhile /\ AliveIsHeld
      /\ RegisteredFirst /\ Server!ToolReachesClient
  BY <1>1, <1>2, <1>3 DEF Server!Init, OneWorks, WorksOn, NoClientMeanwhile, AliveIsHeld,
     RegisteredFirst, Server!ToolReachesClient, PastStop, HasPcs
<1>7. AnswersInv
  BY IdleCallIs DEF Server!Init, AnswersInv, Server!AnswersAreOwn
<1> QED
  BY <1>4, <1>5, <1>6, <1>7 DEF ServerInv

LEMMA ServerNext == ASSUME ServerInv, Server!Next PROVE ServerInv'
BY StopNoneKeeps, StopTakesKeeps, KillKeeps, UnlistKeeps, SpawnKeeps, EndingSteps, AnswersKeeps,
   RegisterKeeps, InsertKeeps, BeginKeeps, RequestSteps DEF Server!Next

LEMMA ServerRests ==
  ASSUME ServerInv, AnswersInv, UNCHANGED <<ofMcp, lock, op>>
  PROVE  ServerInv' /\ AnswersInv'
<1>1. SameInstances
  BY Unmoved DEF ofMcp, ServerInv, ServerTyped
<1> QED
  BY <1>1, InstancesMove, AnswersStay DEF ofMcp

LEMMA ServerHolds ==
  ASSUME ServerInv, AnswersInv
  PROVE  Server!ProcessesAreHeld /\ Server!ToolReachesClient /\ Server!AnswersAreOwn
<1>1. ASSUME NEW i \in Server!Instances, HeldBy(i) PROVE Server!Held(i)
  BY <1>1 DEF HeldBy, Server!Held
<1> QED
  BY <1>1 DEF ServerInv, AnswersInv, AliveIsHeld, Server!ProcessesAreHeld

(***************************************************************************)
(* Browsers, step by step. What there is grows, no browser comes back to   *)
(* life, and a step is of one user, who becomes r.                         *)
(***************************************************************************)
Grown ==
  /\ chrome' \in Seq(ChromeRec) /\ Len(chrome) <= Len(chrome')
  /\ \A i \in 1 .. Len(chrome) : /\ chrome'[i].kind = chrome[i].kind
                                 /\ chrome'[i].state # "dead" => chrome[i].state # "dead"
  /\ page' \in Seq(PageRec) /\ Len(page) <= Len(page')
UserNext(o, r) ==
  /\ r \in UserRec /\ op' = [op EXCEPT ![o] = r]
  /\ r.pc # "idle" => r.key \in Keys
  /\ r.pc \in Ensuring => r.call # "none"
  /\ r.pc \notin Ensuring \cup {"closing"} => r.call \in {"none", "root"}
  /\ r.pc = "closing" => r.call = "close"
  /\ r.got \in 0 .. Len(chrome')
  /\ r.pc = "child" => r.got # 0
  /\ r.call = "context" => r.ses.cdp \in 1 .. Len(chrome')
  /\ Makes(r) \/ Closes(r) => r.ses.cdp \in 1 .. Len(chrome') /\ r.ses.page \in 1 .. Len(page')
  /\ Closes(r) => lock' = o
  /\ lock' \in Users \cup {None} /\ (lock' = lock \/ lock \in {None, o})

LEMMA PagesAre ==
  ASSUME PagesInv
  PROVE  /\ chrome \in Seq(ChromeRec) /\ Len(chrome) \in Nat /\ Pages!Chromes = 1 .. Len(chrome)
         /\ page \in Seq(PageRec) /\ Len(page) \in Nat
         /\ sessions \in [Keys -> SesRec] /\ op \in [Users -> UserRec]
         /\ None \notin Users
BY PartsAssumption DEF PagesInv, PagesTyped, Pages!Chromes, Pages!BrowserAssumption

LEMMA UserIs ==
  ASSUME PagesInv, NEW o \in Users
  PROVE  /\ op[o] \in UserRec /\ op[o].ses \in SesRec /\ op[o].got \in Nat
         /\ op[o].pc \in UserPcs /\ UserOK(o)
         /\ op[o].key \in Keys \cup {None} /\ op[o].kind \in {"navigate", "open", "look", "close"}
BY DEF PagesInv, PagesTyped, UsersOK, UserRec

LEMMA UserMoves ==
  ASSUME PagesInv, NEW o \in Users, NEW r, UserNext(o, r)
  PROVE  op' \in [Users -> UserRec] /\ op'[o] = r /\ \A q \in Users \ {o} : op'[q] = op[q]
BY PagesAre DEF UserNext

LEMMA TypedNext ==
  ASSUME PagesInv, Grown, NEW o \in Users, NEW r, UserNext(o, r),
         daemon' \in [child : 0 .. Len(chrome'), cdp : 0 .. Len(chrome')],
         sessions' \in [Keys -> SesRec], raced' \in BOOLEAN
  PROVE  PagesTyped' /\ UsersOK'
<1>1. op' \in [Users -> UserRec] /\ op'[o] = r /\ \A q \in Users \ {o} : op'[q] = op[q]
  BY UserMoves
<1>2. Len(chrome) \in Nat /\ Len(page) \in Nat /\ Len(chrome') \in Nat /\ Len(page') \in Nat
  BY PagesAre DEF Grown
<1>3. PagesTyped'
  BY <1>1, <1>2 DEF PagesTyped, Grown, UserNext
<1>4. ASSUME NEW q \in Users PROVE UserOK(q)'
  <2>1. CASE q = o
    BY <1>1, <2>1 DEF UserNext, UserOK, Whole, IsPage, Pages!Chromes
  <2>2. CASE q # o
    <3>1. op'[q] = op[q] /\ UserOK(q)
      BY <1>1, <2>2 DEF PagesInv, UsersOK
    <3>2. Closes(op[q]) => lock' = q
      BY <2>2, <3>1, PagesAre DEF UserOK, UserNext
    <3>3. op[q].got \in 0 .. Len(chrome')
      BY <1>2, <3>1 DEF UserOK, Grown
    <3>4. \A i \in 1 .. Len(chrome) : i \in 1 .. Len(chrome')
      BY <1>2 DEF Grown
    <3>5. \A i \in 1 .. Len(page) : i \in 1 .. Len(page')
      BY <1>2 DEF Grown
    <3> QED
      BY <3>1, <3>2, <3>3, <3>4, <3>5 DEF UserOK, Whole, IsPage, Pages!Chromes
  <2> QED
    BY <2>1, <2>2
<1> QED
  BY <1>3, <1>4 DEF UsersOK

\* Starts of the daemon: a user who does not begin or go on with one.
LEMMA StartsNext ==
  ASSUME PagesInv, Grown, NEW o \in Users, NEW r, UserNext(o, r),
         r.pc \notin StartPcs, daemon' = daemon, raced' = raced, let_go \subseteq let_go',
         op[o].pc = "child" => op[o].got \in let_go',
         \A i \in 1 .. Len(chrome') : i \notin 1 .. Len(chrome) /\ chrome'[i].kind = "daemon" => i \in let_go'
  PROVE  StartsAlone' /\ DaemonHeld'
<1>1. op' \in [Users -> UserRec] /\ op'[o] = r /\ \A q \in Users \ {o} : op'[q] = op[q]
  BY UserMoves
<1>2. StartsAlone'
  BY <1>1 DEF PagesInv, StartsAlone, StartPcs
<1>3. DaemonHeld'
  <2> SUFFICES ASSUME ~raced, NEW i \in 1 .. Len(chrome'), chrome'[i].state # "dead", i \notin let_go',
                      chrome'[i].kind = "daemon"
               PROVE  daemon.child = i \/ \E q \in Users : op'[q].pc = "child" /\ op'[q].got = i
    BY DEF DaemonHeld, Pages!Chromes, Pages!Runs
  <2>1. i \in 1 .. Len(chrome) /\ i # 0 /\ chrome[i].kind = "daemon" /\ chrome[i].state # "dead"
    BY PagesAre DEF Grown
  <2>2. daemon.child = i \/ \E q \in Users : op[q].pc = "child" /\ op[q].got = i
    BY <2>1, PagesAre DEF PagesInv, DaemonHeld, Pages!Runs
  <2> QED
    BY <1>1, <2>2
<1> QED
  BY <1>2, <1>3

\* Windows: a user who does not let go of one.
LEMMA WindowsNext ==
  ASSUME PagesInv, Grown, NEW o \in Users, NEW r, UserNext(o, r),
         sessions' = sessions, let_go \subseteq let_go',
         op[o].pc \in {"insert", "closing"} => \/ Pages!Windows(op[o].ses.cdp) \subseteq let_go'
                                               \/ chrome'[op[o].ses.cdp].state = "dead",
         \A i \in 1 .. Len(chrome') : i \notin 1 .. Len(chrome) /\ chrome'[i].kind = "window" =>
           i \in let_go' \/ (r.pc = "insert" /\ r.ses.cdp = i)
  PROVE  WindowHeld'
<1>1. op' \in [Users -> UserRec] /\ op'[o] = r /\ \A q \in Users \ {o} : op'[q] = op[q]
  BY UserMoves
<1> SUFFICES ASSUME NEW i \in 1 .. Len(chrome'), chrome'[i].state # "dead", i \notin let_go',
                    chrome'[i].kind = "window"
             PROVE  \/ \E k \in Keys : sessions[k].cdp = i
                    \/ \E q \in Users : op'[q].pc \in {"insert", "closing"} /\ op'[q].ses.cdp = i
  BY DEF WindowHeld, Pages!Chromes, Pages!Runs
<1>2. CASE i \notin 1 .. Len(chrome)
  BY <1>1, <1>2
<1>3. CASE i \in 1 .. Len(chrome)
  <2>1. i # 0 /\ chrome[i].kind = "window" /\ chrome[i].state # "dead"
    BY <1>3, PagesAre DEF Grown
  <2>2. \/ \E k \in Keys : sessions[k].cdp = i
        \/ \E q \in Users : op[q].pc \in {"insert", "closing"} /\ op[q].ses.cdp = i
    BY <1>3, <2>1, PagesAre DEF PagesInv, WindowHeld, Pages!Runs
  <2>3. op[o].ses.cdp = i => i \in Pages!Windows(op[o].ses.cdp)
    BY <1>3, <2>1 DEF Pages!Windows, Pages!Chromes
  <2> QED
    BY <1>1, <2>2, <2>3
<1> QED
  BY <1>2, <1>3

\* Pages: a user who keeps the page he has, if any.
Keeps(o, r) ==
  /\ Makes(r) => Makes(op[o])
  /\ Closes(r) => Closes(op[o])
  /\ Opened(r) => Opened(op[o]) \/ page[r.ses.page].state = "open"
  /\ Makes(r) \/ Closes(r) => r.ses.page = op[o].ses.page

LEMMA PagesNext ==
  ASSUME PagesInv, Grown, NEW o \in Users, NEW r, UserNext(o, r), UNCHANGED <<page, sessions>>,
         Keeps(o, r)
  PROVE  PagesApart'
<1>1. op' \in [Users -> UserRec] /\ op'[o] = r /\ \A q \in Users \ {o} : op'[q] = op[q]
  BY UserMoves
<1>2. ListedApart'
  BY PagesAre DEF PagesInv, PagesApart, ListedApart, Listing, Whole, IsPage, Pages!Chromes, Grown
<1>3. UsedApart' /\ MadeApart' /\ MadeOpen'
  BY <1>1 DEF PagesInv, PagesApart, UsedApart, MadeApart, MadeOpen, Listing, Makes, Opened, Closes, Keeps
<1> QED
  BY <1>2, <1>3 DEF PagesApart


LEMMA SameGrows ==
  ASSUME PagesInv, UNCHANGED <<chrome, page>>
  PROVE  Grown
BY PagesAre DEF Grown

\* The steps that change nothing but what a user is about.
LEMMA Calm ==
  ASSUME PagesInv, UNCHANGED <<chrome, page, daemon, sessions, raced>>, let_go \subseteq let_go',
         NEW o \in Users, NEW r, UserNext(o, r), Keeps(o, r), r.pc \notin StartPcs,
         op[o].pc = "child" => op[o].got \in let_go',
         op[o].pc \in {"insert", "closing"} => Pages!Windows(op[o].ses.cdp) \subseteq let_go'
  PROVE  PagesInv'
<1>1. Grown
  BY SameGrows
<1>2. PagesTyped' /\ UsersOK'
  <2>1. daemon' \in [child : 0 .. Len(chrome'), cdp : 0 .. Len(chrome')]
    BY DEF PagesInv, PagesTyped
  <2>2. sessions' \in [Keys -> SesRec] /\ raced' \in BOOLEAN
    BY DEF PagesInv, PagesTyped
  <2> QED
    BY <1>1, <2>1, <2>2, TypedNext
<1>3. StartsAlone' /\ DaemonHeld'
  <2>1. \A i \in 1 .. Len(chrome') : i \in 1 .. Len(chrome)
    OBVIOUS
  <2> QED
    BY <1>1, <2>1, StartsNext
<1>4. WindowHeld'
  <2>1. \A i \in 1 .. Len(chrome') : i \in 1 .. Len(chrome)
    OBVIOUS
  <2> QED
    BY <1>1, <2>1, WindowsNext
<1>5. PagesApart'
  BY <1>1, PagesNext
<1> QED
  BY <1>2, <1>3, <1>4, <1>5 DEF PagesInv

LEMMA IdleIs ==
  ASSUME PagesInv, Grown, NEW o \in Users, op' = [op EXCEPT ![o] = Pages!IdleOp],
         lock' \in Users \cup {None}, lock' = lock \/ lock \in {None, o}
  PROVE  /\ UserNext(o, Pages!IdleOp) /\ Keeps(o, Pages!IdleOp)
         /\ Pages!IdleOp.pc = "idle" /\ Pages!IdleOp.call = "none"
<1>1. Pages!IdleOp \in UserRec
  BY DEF Pages!IdleOp, Pages!NoSession, UserRec, SesRec, UserPcs, Ensuring
<1>2. Len(chrome') \in Nat
  BY DEF Grown
<1> QED
  BY <1>1, <1>2 DEF UserNext, Keeps, Makes, Closes, Opened, Ensuring, Pages!IdleOp

\* BrowserSession::launch begins, for a user at his key.
LEMMA LaunchIs ==
  ASSUME PagesInv, Grown, NEW o \in Users, op[o].key \in Keys,
         op' = [op EXCEPT ![o] = Pages!Launching(op[o])],
         lock' \in Users \cup {None}, lock' = lock \/ lock \in {None, o}
  PROVE  \E r : /\ UserNext(o, r) /\ Keeps(o, r)
                /\ r.pc \in {"window", "check"} /\ r.call = "root"
<1> DEFINE r == Pages!Launching(op[o])
<1>1. /\ r \in UserRec /\ r.pc \in {"window", "check"} /\ r.call = "root"
      /\ r.got = 0 /\ r.key = op[o].key
  <2>1. Pages!NoSession \in SesRec
    BY DEF Pages!NoSession, SesRec
  <2>2. op[o] \in UserRec
    BY UserIs
  <2>3. r = [op[o] EXCEPT !.pc = IF op[o].window THEN "window" ELSE "check",
               !.call = "root", !.ses = Pages!NoSession, !.got = 0, !.back = "end"]
    BY DEF Pages!Launching
  <2>4. PICK w \in {"window", "check"} : w = IF op[o].window THEN "window" ELSE "check"
    OBVIOUS
  <2>5. r = [op[o] EXCEPT !.pc = w, !.call = "root", !.ses = Pages!NoSession, !.got = 0,
                          !.back = "end"]
    BY <2>3, <2>4
  <2>6. w \in UserPcs
    BY DEF UserPcs, Ensuring
  <2> HIDE DEF r
  <2>7. r \in UserRec
    BY <2>1, <2>2, <2>5, <2>6 DEF UserRec
  <2> QED
    BY <2>2, <2>5, <2>7 DEF UserRec
<1>2. Len(chrome') \in Nat
  BY DEF Grown
<1>3. op' = [op EXCEPT ![o] = r]
  OBVIOUS
<1> HIDE DEF r
<1>4. ~Makes(r) /\ ~Closes(r) /\ ~Opened(r)
  BY <1>1 DEF Makes, Closes, Opened
<1>5. UserNext(o, r)
  <2>1. r.got \in 0 .. Len(chrome')
    BY <1>1, <1>2
  <2>2. r.key \in Keys
    BY <1>1
  <2>3. lock' \in Users \cup {None} /\ (lock' = lock \/ lock \in {None, o})
    OBVIOUS
  <2> QED
    BY <1>1, <1>3, <1>4, <2>1, <2>2, <2>3, Zenon DEF UserNext
<1>6. Keeps(o, r)
  BY <1>4 DEF Keeps
<1> QED
  BY <1>1, <1>5, <1>6

LEMMA ClosedIs ==
  ASSUME PagesInv, Grown, NEW o \in Users, op[o].key \in Keys, lock \in {None, o},
         Pages!Closed(o)
  PROVE  \E r : /\ UserNext(o, r) /\ Keeps(o, r)
                /\ r.pc \in {"idle", "window", "check"} /\ r.call \in {"none", "root"}
<1>1. lock' \in Users \cup {None}
  BY DEF Pages!Closed
<1>2. op' = [op EXCEPT ![o] = IF op[o].back = "launch" THEN Pages!Launching(op[o]) ELSE Pages!IdleOp]
  BY PagesAre DEF Pages!Closed
<1>3. CASE op[o].back = "launch"
  <2>1. op' = [op EXCEPT ![o] = Pages!Launching(op[o])]
    BY <1>2, <1>3
  <2> QED
    BY <1>1, <2>1, LaunchIs
<1>4. CASE op[o].back # "launch"
  <2>1. op' = [op EXCEPT ![o] = Pages!IdleOp]
    BY <1>2, <1>4
  <2> QED
    BY <1>1, <2>1, IdleIs
<1> QED
  BY <1>3, <1>4

LEMMA FailedIs ==
  ASSUME PagesInv, Grown, NEW o \in Users, op[o].pc \in Ensuring, Pages!Failed(o)
  PROVE  \E r : /\ UserNext(o, r) /\ Keeps(o, r) /\ r.pc \in {"idle", "window", "check"}
<1>1. op[o].call \in {"root", "context", "target", "attach", "close", "dispose"} /\ op[o].key \in Keys
  BY UserIs DEF UserOK, UserRec, Ensuring
<1>2. CASE op[o].call \in Pages!LaunchCalls
  <2>1. op' = [op EXCEPT ![o] = Pages!IdleOp] /\ lock' = lock
    BY <1>2 DEF Pages!Failed, Pages!Ends
  <2>2. lock' \in Users \cup {None}
    BY <2>1 DEF PagesInv, PagesTyped
  <2> QED
    BY <2>1, <2>2, IdleIs
<1>3. CASE op[o].call = "close"
  <2> DEFINE r == [op[o] EXCEPT !.pc = "check", !.call = "dispose", !.got = 0]
  <2>1. op' = [op EXCEPT ![o] = r] /\ lock' = lock
    BY <1>3, PagesAre DEF Pages!Failed, Pages!Call, Pages!LaunchCalls
  <2>2. /\ r \in UserRec /\ r.pc = "check" /\ r.call = "dispose" /\ r.got = 0
        /\ r.ses = op[o].ses /\ r.key = op[o].key
    BY UserIs DEF UserRec, UserPcs, Ensuring
  <2> HIDE DEF r
  <2>3. lock = o /\ Whole(op[o].ses)
    BY <1>3, UserIs DEF UserOK, Closes
  <2>4. Len(chrome) \in Nat /\ Len(page) \in Nat /\ Len(chrome') \in Nat /\ Len(page') \in Nat
    BY PagesAre DEF Grown
  <2>5. UserNext(o, r)
    BY <1>1, <2>1, <2>2, <2>3, <2>4
    DEF UserNext, Makes, Closes, Ensuring, Whole, IsPage, Grown, Pages!Chromes
  <2>6. Keeps(o, r)
    BY <1>3, <2>2 DEF Keeps, Makes, Closes, Opened
  <2> QED
    BY <2>2, <2>5, <2>6
<1>4. CASE op[o].call = "dispose"
  <2>1. Pages!Closed(o)
    BY <1>4 DEF Pages!Failed, Pages!LaunchCalls
  <2>2. lock = o
    BY <1>4, UserIs DEF UserOK, Closes
  <2> QED
    BY <1>1, <2>1, <2>2, ClosedIs
<1> QED
  BY <1>1, <1>2, <1>3, <1>4 DEF Pages!LaunchCalls

LEMMA SendFailsNext ==
  ASSUME PagesInv, NEW o \in Users, Pages!SendFails(o)
  PROVE  PagesInv'
<1>1. op[o].pc \in {"check", "send"} /\ Pages!Failed(o)
      /\ UNCHANGED <<chrome, page, daemon, sessions, raced, let_go>>
  BY DEF Pages!SendFails, Pages!browser, Pages!history
<1>2. PICK r : UserNext(o, r) /\ Keeps(o, r) /\ r.pc \in {"idle", "window", "check"}
  BY <1>1, SameGrows, FailedIs DEF Ensuring
<1> QED
  BY <1>1, <1>2, Calm DEF StartPcs

\* Nothing but what o is about changes, and o is idle, or has got hold of nothing.
LEMMA EndsCalm ==
  ASSUME PagesInv, NEW o \in Users, op' = [op EXCEPT ![o] = Pages!IdleOp],
         UNCHANGED <<chrome, page, daemon, sessions, raced>>, let_go \subseteq let_go',
         lock' \in Users \cup {None}, lock' = lock \/ lock \in {None, o},
         op[o].pc = "child" => op[o].got \in let_go',
         op[o].pc \in {"insert", "closing"} => Pages!Windows(op[o].ses.cdp) \subseteq let_go'
  PROVE  PagesInv'
<1>1. /\ UserNext(o, Pages!IdleOp) /\ Keeps(o, Pages!IdleOp) /\ Pages!IdleOp.pc = "idle"
  BY SameGrows, IdleIs
<1>2. Pages!IdleOp.pc \notin StartPcs
  BY <1>1 DEF StartPcs
<1> QED
  BY <1>1, <1>2, Calm

\* A user who is about no page.
LEMMA GoesCalm ==
  ASSUME PagesInv, NEW o \in Users, NEW r \in UserRec, op' = [op EXCEPT ![o] = r],
         UNCHANGED <<chrome, page, daemon, sessions, raced, let_go>>,
         lock' \in Users \cup {None}, lock' = lock \/ lock \in {None, o},
         r.pc \in {"idle", "find", "get", "close", "use"}, r.call \in {"none", "root"},
         r.got \in 0 .. Len(chrome), r.pc # "idle" => r.key \in Keys,
         op[o].pc \notin {"child", "insert", "closing"}
  PROVE  PagesInv'
<1>1. ~Makes(r) /\ ~Closes(r) /\ ~Opened(r) /\ r.pc \notin Ensuring /\ r.pc \notin StartPcs
  BY DEF Makes, Closes, Opened, Ensuring, StartPcs
<1>2. r.got \in 0 .. Len(chrome')
  OBVIOUS
<1>3. r.call # "context" /\ r.pc # "closing" /\ r.pc # "child" /\ r.call \in {"none", "root"}
  OBVIOUS
<1>4. UserNext(o, r)
  BY <1>1, <1>2, <1>3, Zenon DEF UserNext
<1>5. Keeps(o, r)
  BY <1>1 DEF Keeps
<1> QED
  BY <1>1, <1>4, <1>5, Calm

LEMMA UsesCalm ==
  ASSUME PagesInv, NEW o \in Users, NEW s \in SesRec, Pages!Uses(o, s),
         UNCHANGED <<chrome, page, daemon, sessions, lock, raced, let_go>>,
         op[o].key \in Keys, op[o].pc \notin {"child", "insert", "closing"}
  PROVE  PagesInv'
<1> DEFINE r == [Pages!IdleOp EXCEPT !.pc = "use", !.kind = op[o].kind, !.key = op[o].key, !.ses = s]
<1>1. op' = [op EXCEPT ![o] = r]
  BY DEF Pages!Uses
<1>2. r \in UserRec /\ r.pc = "use" /\ r.call = "none" /\ r.got = 0 /\ r.key = op[o].key
  BY UserIs DEF Pages!IdleOp, Pages!NoSession, UserRec, UserPcs, Ensuring, SesRec
<1> HIDE DEF r
<1>3. lock' \in Users \cup {None} /\ lock' = lock
  BY DEF PagesInv, PagesTyped
<1>4. r.got \in 0 .. Len(chrome)
  BY <1>2, PagesAre
<1> QED
  BY <1>1, <1>2, <1>3, <1>4, GoesCalm

LEMMA BeginNext ==
  ASSUME PagesInv, NEW o \in Users, NEW kind \in {"navigate", "open", "look", "close"},
         NEW k \in Keys, NEW w \in BOOLEAN, Pages!Begin(o, kind, k, w)
  PROVE  PagesInv'
<1> DEFINE pc == CASE kind \in {"navigate", "open"} -> "find" [] kind = "look" -> "get" [] OTHER -> "close"
<1> DEFINE r == [op[o] EXCEPT !.pc = pc, !.kind = kind, !.key = k, !.window = w]
<1>1. pc \in {"find", "get", "close"}
  OBVIOUS
<1>2. op' = [op EXCEPT ![o] = r] /\ op[o].pc = "idle"
  BY PagesAre DEF Pages!Begin
<1> HIDE DEF pc
<1>3. r \in UserRec /\ r.pc = pc /\ r.key = k /\ r.call = op[o].call /\ r.got = op[o].got
  BY <1>1, UserIs DEF UserRec, UserPcs
<1> HIDE DEF r
<1>4. r.call \in {"none", "root"} /\ r.got \in 0 .. Len(chrome)
  BY <1>2, <1>3, UserIs DEF UserOK, Ensuring
<1>5. UNCHANGED <<chrome, page, daemon, sessions, raced, let_go>> /\ lock' = lock
  BY DEF Pages!Begin, Pages!browser
<1>6. lock' \in Users \cup {None}
  BY <1>5 DEF PagesInv, PagesTyped
<1> QED
  BY <1>1, <1>2, <1>3, <1>4, <1>5, <1>6, GoesCalm

LEMMA FindNotNext ==
  ASSUME PagesInv, NEW o \in Users, Pages!FindNot(o)
  PROVE  PagesInv'
<1> DEFINE r == [op[o] EXCEPT !.pc = "close", !.back = "launch"]
<1>1. op' = [op EXCEPT ![o] = r] /\ op[o].pc = "find"
  BY PagesAre DEF Pages!FindNot
<1>2. /\ r \in UserRec /\ r.pc = "close" /\ r.key = op[o].key
      /\ r.call = op[o].call /\ r.got = op[o].got
  BY UserIs DEF UserRec, UserPcs
<1> HIDE DEF r
<1>3. r.call \in {"none", "root"} /\ r.got \in 0 .. Len(chrome) /\ r.key \in Keys
  BY <1>1, <1>2, UserIs DEF UserOK, Ensuring
<1>4. UNCHANGED <<chrome, page, daemon, sessions, raced, let_go>> /\ lock' = lock
  BY DEF Pages!FindNot, Pages!browser, Pages!history
<1>5. lock' \in Users \cup {None}
  BY <1>4 DEF PagesInv, PagesTyped
<1> QED
  BY <1>1, <1>2, <1>3, <1>4, <1>5, GoesCalm

LEMMA FindNext ==
  ASSUME PagesInv, NEW o \in Users, Pages!Find(o)
  PROVE  PagesInv'
<1>1. op[o].pc = "find" /\ Pages!Uses(o, sessions[op[o].key])
      /\ UNCHANGED <<chrome, page, daemon, sessions, lock, raced, let_go>>
  BY DEF Pages!Find, Pages!browser, Pages!history
<1>2. op[o].key \in Keys
  BY <1>1, UserIs DEF UserOK
<1>3. sessions[op[o].key] \in SesRec
  BY <1>2, PagesAre
<1> QED
  BY <1>1, <1>2, <1>3, UsesCalm

LEMMA GetNext ==
  ASSUME PagesInv, NEW o \in Users, Pages!Get(o)
  PROVE  PagesInv'
<1> DEFINE own == sessions[op[o].key]
<1> DEFINE found == IF Pages!Alive(own) THEN {own} ELSE {s \in {sessions[k] : k \in Keys} : Pages!Alive(s)}
<1>1. /\ op[o].pc = "get" /\ UNCHANGED <<chrome, page, daemon, sessions, lock, raced, let_go>>
      /\ (\E s \in found : Pages!Uses(o, s)) \/ Pages!Ends(o)
  BY DEF Pages!Get, Pages!browser, Pages!history
<1>2. op[o].key \in Keys
  BY <1>1, UserIs DEF UserOK
<1>3. \A s \in found : s \in SesRec
  BY <1>2, PagesAre
<1> HIDE DEF found
<1>4. CASE \E s \in found : Pages!Uses(o, s)
  <2> PICK s \in found : Pages!Uses(o, s)
    BY <1>4
  <2> QED
    BY <1>1, <1>2, <1>3, UsesCalm
<1>5. CASE Pages!Ends(o)
  <2>1. op' = [op EXCEPT ![o] = Pages!IdleOp]
    BY <1>5 DEF Pages!Ends
  <2>2. lock' \in Users \cup {None}
    BY <1>1 DEF PagesInv, PagesTyped
  <2> QED
    BY <1>1, <2>1, <2>2, EndsCalm
<1> QED
  BY <1>1, <1>4, <1>5

LEMMA UsedNext ==
  ASSUME PagesInv, NEW o \in Users, Pages!Used(o)
  PROVE  PagesInv'
<1>1. /\ op[o].pc = "use" /\ op' = [op EXCEPT ![o] = Pages!IdleOp]
      /\ UNCHANGED <<chrome, page, daemon, sessions, lock, raced, let_go>>
  BY DEF Pages!Used, Pages!Ends, Pages!browser, Pages!history
<1>2. lock' \in Users \cup {None}
  BY <1>1 DEF PagesInv, PagesTyped
<1> QED
  BY <1>1, <1>2, EndsCalm

LEMMA UseFailsNext ==
  ASSUME PagesInv, NEW o \in Users, Pages!UseFails(o)
  PROVE  PagesInv'
<1> DEFINE r == [op[o] EXCEPT !.pc = "close", !.back = "end", !.ses = Pages!NoSession]
<1>1. /\ op[o].pc = "use" /\ UNCHANGED <<chrome, page, daemon, sessions, lock, raced, let_go>>
      /\ op' = [op EXCEPT ![o] = r] \/ op' = [op EXCEPT ![o] = Pages!IdleOp]
  BY PagesAre DEF Pages!UseFails, Pages!Ends, Pages!browser, Pages!history
<1>2. /\ r \in UserRec /\ r.pc = "close" /\ r.key = op[o].key
      /\ r.call = op[o].call /\ r.got = op[o].got
  BY UserIs DEF UserRec, UserPcs, Pages!NoSession, SesRec
<1> HIDE DEF r
<1>3. r.call \in {"none", "root"} /\ r.got \in 0 .. Len(chrome) /\ r.key \in Keys
  BY <1>1, <1>2, UserIs DEF UserOK, Ensuring
<1>4. lock' \in Users \cup {None}
  BY <1>1 DEF PagesInv, PagesTyped
<1>5. CASE op' = [op EXCEPT ![o] = r]
  BY <1>1, <1>2, <1>3, <1>4, <1>5, GoesCalm
<1>6. CASE op' = [op EXCEPT ![o] = Pages!IdleOp]
  BY <1>1, <1>4, <1>6, EndsCalm
<1> QED
  BY <1>1, <1>5, <1>6

LEMMA AbortNext ==
  ASSUME PagesInv, NEW o \in Users, Pages!Abort(o)
  PROVE  PagesInv'
<1> DEFINE givenUp == IF op[o].pc = "child" THEN {op[o].got}
                      ELSE IF op[o].pc = "insert" \/ lock = o THEN Pages!Windows(op[o].ses.cdp)
                      ELSE {}
<1>1. /\ op' = [op EXCEPT ![o] = Pages!IdleOp] /\ UNCHANGED <<chrome, page, daemon, sessions, raced>>
      /\ lock' = IF lock = o THEN None ELSE lock
      /\ let_go' = let_go \cup givenUp
  BY DEF Pages!Abort, Pages!Ends, Pages!browser
<1>2. lock' \in Users \cup {None} /\ (lock' = lock \/ lock \in {None, o})
  BY <1>1 DEF PagesInv, PagesTyped
<1>3. let_go \subseteq let_go'
  BY <1>1
<1>4. op[o].pc = "child" => op[o].got \in let_go'
  BY <1>1
<1>5. op[o].pc = "closing" => lock = o
  BY UserIs DEF UserOK, Closes
<1>6. op[o].pc \in {"insert", "closing"} => Pages!Windows(op[o].ses.cdp) \subseteq let_go'
  BY <1>1, <1>5
<1> HIDE DEF givenUp
<1> QED
  BY <1>1, <1>2, <1>3, <1>4, <1>6, EndsCalm

LEMMA ToIs ==
  ASSUME PagesInv, NEW o \in Users, Pages!To(o) # 0
  PROVE  op[o].pc \in {"check", "send"} /\ Pages!To(o) \in 1 .. Len(chrome) /\ op[o].key \in Keys
<1>1. op[o].pc \in {"check", "send"}
  BY DEF Pages!To
<1>2. daemon.cdp \in 0 .. Len(chrome) /\ op[o].got \in 0 .. Len(chrome) /\ Len(chrome) \in Nat
  BY UserIs, PagesAre DEF PagesInv, PagesTyped, UserOK
<1>3. Pages!To(o) = daemon.cdp \/ Pages!To(o) = op[o].got
  BY DEF Pages!To
<1>4. op[o].key \in Keys
  BY <1>1, UserIs DEF UserOK
<1> QED
  BY <1>1, <1>2, <1>3, <1>4

LEMMA RootNext ==
  ASSUME PagesInv, NEW o \in Users, Pages!Root(o)
  PROVE  PagesInv'
<1> DEFINE i == Pages!To(o)
<1> DEFINE s == [op[o].ses EXCEPT !.cdp = i]
<1> DEFINE r == [op[o] EXCEPT !.pc = "check", !.call = "context", !.ses = s, !.got = 0]
<1>1. /\ op' = [op EXCEPT ![o] = [op[o] EXCEPT !.pc = "check", !.call = "context", !.ses.cdp = i, !.got = 0]]
      /\ UNCHANGED <<chrome, page, daemon, sessions, lock, raced, let_go>>
  <2>1. op' = [op EXCEPT ![o].pc = "check", ![o].call = "context", ![o].ses.cdp = i, ![o].got = 0]
        /\ UNCHANGED <<chrome, page, daemon, sessions, lock, raced, let_go>>
    BY DEF Pages!Root, Pages!browser, Pages!history
  <2> HIDE DEF i
  <2> QED
    BY <2>1, UserIs, PagesAre DEF UserRec, SesRec
<1>2. op[o].pc \in {"check", "send"} /\ i \in 1 .. Len(chrome) /\ op[o].key \in Keys
  BY ToIs DEF Pages!Root
<1> HIDE DEF i
<1>3. s \in SesRec /\ s.cdp = i
  <2>1. i \in Nat
    BY <1>2, PagesAre
  <2>2. op[o].ses \in SesRec
    BY UserIs
  <2> QED
    BY <2>1, <2>2 DEF SesRec
<1>4. [op[o] EXCEPT !.pc = "check", !.call = "context", !.ses.cdp = i, !.got = 0] = r
  BY UserIs DEF UserRec
<1>5. op' = [op EXCEPT ![o] = r]
  BY <1>1, <1>4
<1> HIDE DEF s
<1>6. /\ r \in UserRec /\ r.pc = "check" /\ r.call = "context" /\ r.ses = s
      /\ r.got = 0 /\ r.key = op[o].key
  BY <1>3, UserIs DEF UserRec, UserPcs, Ensuring
<1> HIDE DEF r
<1>7. ~Makes(r) /\ ~Closes(r) /\ ~Opened(r) /\ r.pc \notin StartPcs
  BY <1>6 DEF Makes, Closes, Opened, StartPcs
<1>8. lock' \in Users \cup {None} /\ lock' = lock
  BY <1>1 DEF PagesInv, PagesTyped
<1>9. r.got \in 0 .. Len(chrome') /\ r.ses.cdp \in 1 .. Len(chrome') /\ r.key \in Keys
  BY <1>1, <1>2, <1>3, <1>6, PagesAre
<1>10. r.pc \in Ensuring /\ r.call # "none" /\ r.pc # "closing" /\ r.pc # "child"
  BY <1>6 DEF Ensuring
<1>11. UserNext(o, r)
  BY <1>5, <1>6, <1>7, <1>8, <1>9, <1>10, Zenon DEF UserNext
<1>12. Keeps(o, r)
  BY <1>7 DEF Keeps
<1> QED
  BY <1>1, <1>2, <1>7, <1>11, <1>12, Calm

LEMMA AttachNext ==
  ASSUME PagesInv, NEW o \in Users, Pages!Attach(o)
  PROVE  PagesInv'
<1> DEFINE r == [op[o] EXCEPT !.pc = "insert", !.call = "none", !.got = 0]
<1>1. /\ op' = [op EXCEPT ![o] = r] /\ op[o].call = "attach" /\ Pages!To(o) # 0
      /\ UNCHANGED <<chrome, page, daemon, sessions, lock, raced, let_go>>
  BY PagesAre DEF Pages!Attach, Pages!Has, Pages!Linked, Pages!browser, Pages!history
<1>2. op[o].pc \in {"check", "send"} /\ op[o].key \in Keys
  BY <1>1, ToIs
<1>3. /\ r \in UserRec /\ r.pc = "insert" /\ r.call = "none" /\ r.ses = op[o].ses
      /\ r.got = 0 /\ r.key = op[o].key
  BY UserIs DEF UserRec, UserPcs
<1> HIDE DEF r
<1>4. Makes(op[o]) /\ Opened(op[o]) /\ ~Closes(r) /\ r.pc \notin StartPcs /\ r.pc \notin Ensuring
  BY <1>1, <1>3 DEF Makes, Closes, Opened, StartPcs, Ensuring
<1>5. lock' \in Users \cup {None} /\ lock' = lock
  BY <1>1 DEF PagesInv, PagesTyped
<1>6. r.ses.cdp \in 1 .. Len(chrome') /\ r.ses.page \in 1 .. Len(page') /\ r.got \in 0 .. Len(chrome')
  BY <1>1, <1>3, <1>4, UserIs, PagesAre DEF UserOK, Whole, IsPage
<1>7. r.key \in Keys /\ r.call # "context" /\ r.call \in {"none", "root"} /\ r.pc # "closing" /\ r.pc # "child"
  BY <1>2, <1>3
<1>8. UserNext(o, r)
  BY <1>1, <1>3, <1>4, <1>5, <1>6, <1>7, Zenon DEF UserNext
<1>9. Keeps(o, r)
  BY <1>3, <1>4 DEF Keeps
<1> QED
  BY <1>1, <1>2, <1>4, <1>8, <1>9, Calm

\* o takes the session of k out of the list, to close it.
LEMMA UnlistNext ==
  ASSUME PagesInv, NEW o \in Users, NEW r, UserNext(o, r), NEW k \in Keys, Listing(k),
         UNCHANGED <<chrome, page, daemon, raced, let_go>>, Pages!Unlist(k),
         r.ses = sessions[k], ~Makes(r), r.pc \notin StartPcs,
         chrome[sessions[k].cdp].kind = "window" => r.pc = "closing",
         op[o].pc \notin {"child", "insert", "closing"}
  PROVE  PagesInv'
<1>1. op' \in [Users -> UserRec] /\ op'[o] = r /\ \A q \in Users \ {o} : op'[q] = op[q]
  BY UserMoves
<1>2. /\ sessions' \in [Keys -> SesRec] /\ sessions'[k] = Pages!NoSession
      /\ \A j \in Keys \ {k} : sessions'[j] = sessions[j]
  BY PagesAre DEF Pages!Unlist, Pages!NoSession, SesRec
<1>3. Grown /\ \A i \in 1 .. Len(chrome') : i \in 1 .. Len(chrome)
  BY SameGrows
<1>4. PagesTyped' /\ UsersOK'
  <2>1. daemon' \in [child : 0 .. Len(chrome'), cdp : 0 .. Len(chrome')] /\ raced' \in BOOLEAN
    BY DEF PagesInv, PagesTyped
  <2> QED
    BY <1>2, <1>3, <2>1, TypedNext
<1>5. StartsAlone' /\ DaemonHeld'
  BY <1>3, StartsNext
<1>6. WindowHeld'
  <2> SUFFICES ASSUME NEW i \in 1 .. Len(chrome), chrome[i].state # "dead", i \notin let_go,
                      chrome[i].kind = "window"
               PROVE  \/ \E j \in Keys : sessions'[j].cdp = i
                      \/ \E q \in Users : op'[q].pc \in {"insert", "closing"} /\ op'[q].ses.cdp = i
    BY DEF WindowHeld, Pages!Chromes, Pages!Runs
  <2>1. \/ \E j \in Keys : sessions[j].cdp = i
        \/ \E q \in Users : op[q].pc \in {"insert", "closing"} /\ op[q].ses.cdp = i
    BY PagesAre DEF PagesInv, WindowHeld, Pages!Runs
  <2>2. CASE sessions[k].cdp = i
    BY <1>1, <2>2
  <2>3. CASE \E j \in Keys \ {k} : sessions[j].cdp = i
    BY <1>2, <2>3
  <2>4. CASE \E q \in Users : op[q].pc \in {"insert", "closing"} /\ op[q].ses.cdp = i
    BY <1>1, <2>4
  <2> QED
    BY <2>1, <2>2, <2>3, <2>4
<1>7. ListedApart'
  <2>1. \A j \in Keys : Listing(j)' => j # k /\ Listing(j) /\ sessions'[j] = sessions[j]
    BY <1>2 DEF Listing
  <2>2. \A s : Whole(s)' <=> Whole(s)
    BY DEF Whole, IsPage, Pages!Chromes
  <2> QED
    BY <2>1, <2>2 DEF PagesInv, PagesApart, ListedApart
<1>8. \A j \in Keys : Listing(j)' => Listing(j) /\ j # k /\ sessions'[j] = sessions[j]
  BY <1>2 DEF Listing, Pages!NoSession
<1>9. \A j \in Keys \ {k} : Listing(j) => sessions[j].page # sessions[k].page
  BY DEF PagesInv, PagesApart, ListedApart
<1>10. UsedApart'
  BY <1>1, <1>8, <1>9 DEF PagesInv, PagesApart, UsedApart, Listing, Makes, Closes
<1>11. MadeApart'
  BY <1>1 DEF PagesInv, PagesApart, UsedApart, MadeApart, Listing, Makes, Closes
<1>12. MadeOpen'
  BY <1>1 DEF PagesInv, PagesApart, MadeOpen, Opened, Makes
<1> QED
  BY <1>4, <1>5, <1>6, <1>7, <1>10, <1>11, <1>12 DEF PagesInv, PagesApart

LEMMA CloseNext ==
  ASSUME PagesInv, NEW o \in Users, Pages!Close(o)
  PROVE  PagesInv'
<1> DEFINE k == op[o].key
<1> DEFINE s == sessions[k]
<1>1. /\ op[o].pc = "close" /\ lock = None /\ UNCHANGED <<chrome, page, daemon, raced, let_go>>
      /\ IF s = Pages!NoSession
         THEN Pages!Closed(o) /\ sessions' = sessions
         ELSE /\ Pages!Unlist(k) /\ lock' = o
              /\ op' = [op EXCEPT ![o] = [op[o] EXCEPT
                         !.pc = IF Pages!Windowed(s) THEN "closing" ELSE "check",
                         !.call = "close", !.ses = s]]
  BY PagesAre DEF Pages!Close, Pages!browser, Pages!history
<1>2. k \in Keys /\ s \in SesRec
  BY <1>1, UserIs, PagesAre DEF UserOK
<1>3. CASE s = Pages!NoSession
  <2>1. PICK r : UserNext(o, r) /\ Keeps(o, r) /\ r.pc \in {"idle", "window", "check"}
    BY <1>1, <1>2, <1>3, SameGrows, ClosedIs
  <2>2. r.pc \notin StartPcs
    BY <2>1 DEF StartPcs
  <2> QED
    BY <1>1, <1>3, <2>1, <2>2, Calm
<1>4. CASE s # Pages!NoSession
  <2> DEFINE pc == IF Pages!Windowed(s) THEN "closing" ELSE "check"
  <2> DEFINE r == [op[o] EXCEPT !.pc = pc, !.call = "close", !.ses = s]
  <2>1. op' = [op EXCEPT ![o] = r] /\ lock' = o /\ Pages!Unlist(k)
    BY <1>1, <1>4
  <2>2. pc \in {"closing", "check"} /\ (chrome[s.cdp].kind = "window" => pc = "closing")
    BY DEF Pages!Windowed
  <2>3. Listing(k) /\ s.cdp \in 1 .. Len(chrome) /\ s.page \in 1 .. Len(page)
    BY <1>2, <1>4, PagesAre DEF Listing, PagesInv, PagesApart, ListedApart, Whole, IsPage
  <2>4. op[o].got \in 0 .. Len(chrome)
    BY UserIs DEF UserOK
  <2> HIDE DEF pc, s, k
  <2>5. /\ r \in UserRec /\ r.pc = pc /\ r.call = "close" /\ r.ses = s
        /\ r.got = op[o].got /\ r.key = op[o].key
    BY <1>2, <2>2, UserIs DEF UserRec, UserPcs, Ensuring
  <2> HIDE DEF r
  <2>6. r.pc \notin StartPcs /\ ~Makes(r) /\ r.pc # "child"
        /\ (r.pc \in Ensuring => r.call # "none") /\ r.pc \in Ensuring \cup {"closing"}
    BY <2>2, <2>5 DEF StartPcs, Makes, Ensuring
  <2>7. r.got \in 0 .. Len(chrome') /\ r.ses.cdp \in 1 .. Len(chrome') /\ r.ses.page \in 1 .. Len(page')
    BY <1>1, <2>3, <2>4, <2>5
  <2>8. r.key \in Keys
    BY <1>2, <2>5 DEF k
  <2>9. UserNext(o, r)
    BY <1>1, <2>1, <2>5, <2>6, <2>7, <2>8, Zenon DEF UserNext
  <2>10. r.ses = sessions[k] /\ (chrome[sessions[k].cdp].kind = "window" => r.pc = "closing")
    BY <2>2, <2>5 DEF s
  <2> QED
    BY <1>1, <1>2, <2>1, <2>3, <2>6, <2>9, <2>10, UnlistNext
<1> QED
  BY <1>3, <1>4

\* o puts the session it has made into the list.
LEMMA InsertNext ==
  ASSUME PagesInv, NEW o \in Users, Pages!Insert(o)
  PROVE  PagesInv'
<1> DEFINE k == op[o].key
<1> DEFINE s == op[o].ses
<1> DEFINE r == [Pages!IdleOp EXCEPT !.pc = "use", !.kind = op[o].kind, !.key = op[o].key, !.ses = s]
<1>1. /\ op[o].pc = "insert" /\ lock = None /\ sessions' = [sessions EXCEPT ![k] = s]
      /\ let_go' = let_go \cup Pages!Windows(sessions[k].cdp)
      /\ op' = [op EXCEPT ![o] = r] /\ UNCHANGED <<chrome, page, daemon, lock, raced>>
  BY DEF Pages!Insert, Pages!Uses, Pages!browser
<1>2. /\ k \in Keys /\ s \in SesRec /\ s.cdp \in 1 .. Len(chrome) /\ s.page \in 1 .. Len(page)
      /\ Makes(op[o]) /\ Opened(op[o]) /\ ~Closes(op[o])
  BY <1>1, UserIs, PagesAre DEF UserOK, Makes, Opened, Closes, Whole, IsPage, Ensuring
<1>3. /\ r \in UserRec /\ r.pc = "use" /\ r.call = "none" /\ r.got = 0 /\ r.key = k
  BY UserIs DEF Pages!IdleOp, Pages!NoSession, UserRec, UserPcs, Ensuring, SesRec
<1> HIDE DEF r
<1>4. ~Makes(r) /\ ~Closes(r) /\ ~Opened(r) /\ r.pc \notin StartPcs /\ r.pc \notin Ensuring
  BY <1>3 DEF Makes, Closes, Opened, StartPcs, Ensuring
<1>5. r.got \in 0 .. Len(chrome') /\ r.key \in Keys /\ r.call # "context" /\ r.pc # "closing" /\ r.pc # "child"
  BY <1>1, <1>2, <1>3, PagesAre
<1>6. lock' \in Users \cup {None} /\ lock' = lock /\ r.call \in {"none", "root"}
  BY <1>1, <1>3 DEF PagesInv, PagesTyped
<1>7. UserNext(o, r)
  BY <1>1, <1>3, <1>4, <1>5, <1>6, Zenon DEF UserNext
<1>8. op' \in [Users -> UserRec] /\ op'[o] = r /\ \A q \in Users \ {o} : op'[q] = op[q]
  BY <1>7, UserMoves
<1>9. /\ sessions' \in [Keys -> SesRec] /\ sessions'[k] = s
      /\ \A j \in Keys \ {k} : sessions'[j] = sessions[j]
  BY <1>1, <1>2, PagesAre
<1>10. Grown /\ (\A i \in 1 .. Len(chrome') : i \in 1 .. Len(chrome)) /\ let_go \subseteq let_go'
  BY <1>1, SameGrows
<1>11. PagesTyped' /\ UsersOK'
  <2>1. daemon' \in [child : 0 .. Len(chrome'), cdp : 0 .. Len(chrome')] /\ raced' \in BOOLEAN
    BY <1>1 DEF PagesInv, PagesTyped
  <2> QED
    BY <1>7, <1>9, <1>10, <2>1, TypedNext
<1>12. StartsAlone' /\ DaemonHeld'
  BY <1>1, <1>4, <1>7, <1>10, StartsNext
<1>13. WindowHeld'
  <2> SUFFICES ASSUME NEW i \in 1 .. Len(chrome), chrome[i].state # "dead", i \notin let_go',
                      chrome[i].kind = "window"
               PROVE  \/ \E j \in Keys : sessions'[j].cdp = i
                      \/ \E q \in Users : op'[q].pc \in {"insert", "closing"} /\ op'[q].ses.cdp = i
    BY <1>1 DEF WindowHeld, Pages!Chromes, Pages!Runs
  <2>1. \/ \E j \in Keys : sessions[j].cdp = i
        \/ \E q \in Users : op[q].pc \in {"insert", "closing"} /\ op[q].ses.cdp = i
    BY <1>10, PagesAre DEF PagesInv, WindowHeld, Pages!Runs
  <2>2. sessions[k].cdp # i
    BY <1>1 DEF Pages!Windows, Pages!Chromes
  <2>3. CASE \E j \in Keys : sessions[j].cdp = i
    BY <1>9, <2>2, <2>3
  <2>4. CASE \E q \in Users : op[q].pc \in {"insert", "closing"} /\ op[q].ses.cdp = i
    BY <1>2, <1>8, <1>9, <2>4
  <2> QED
    BY <2>1, <2>3, <2>4
<1>14. \A j \in Keys \ {k} : Listing(j)' => Listing(j) /\ sessions'[j] = sessions[j]
  BY <1>9 DEF Listing, Pages!NoSession
<1>15. \A j \in Keys \ {k} : Listing(j) => sessions[j].page # s.page
  BY <1>2 DEF PagesInv, PagesApart, UsedApart
<1>16. page[s.page].state = "open"
  BY <1>2 DEF PagesInv, PagesApart, MadeOpen
<1>17. \A q \in Users \ {o} : Makes(op[q]) \/ Closes(op[q]) => op[q].ses.page # s.page
  BY <1>2 DEF PagesInv, PagesApart, MadeApart
<1> HIDE DEF s, k
<1>18. ListedApart'
  <2> SUFFICES ASSUME NEW j \in Keys, Listing(j)'
               PROVE  /\ Whole(sessions'[j]) /\ page[sessions'[j].page].state = "open"
                      /\ \A n \in Keys : Listing(n)' /\ sessions'[n].page = sessions'[j].page => n = j
    BY <1>1 DEF ListedApart, Whole, IsPage, Pages!Chromes
  <2>1. CASE j = k
    BY <1>2, <1>9, <1>14, <1>15, <1>16, <2>1 DEF Whole, IsPage, Pages!Chromes
  <2>2. CASE j # k
    BY <1>9, <1>14, <1>15, <2>2 DEF PagesInv, PagesApart, ListedApart
  <2> QED
    BY <2>1, <2>2
<1>19. UsedApart'
  BY <1>4, <1>8, <1>9, <1>14, <1>17 DEF PagesInv, PagesApart, UsedApart, Listing, Makes, Closes
<1>20. MadeApart'
  BY <1>4, <1>8 DEF PagesInv, PagesApart, MadeApart, Makes, Closes
<1>21. MadeOpen'
  BY <1>1, <1>4, <1>8 DEF PagesInv, PagesApart, MadeOpen, Opened
<1> QED
  BY <1>11, <1>12, <1>13, <1>18, <1>19, <1>20, <1>21 DEF PagesInv, PagesApart

\* A user on the way to his request, who goes on within ensure_running.
Ensured(o, pc, got) == [op[o] EXCEPT !.pc = pc, !.got = got]

LEMMA EnsuredIs ==
  ASSUME PagesInv, NEW o \in Users, NEW pc \in Ensuring, NEW got \in Nat
  PROVE  LET r == Ensured(o, pc, got) IN
         /\ r \in UserRec /\ r.pc = pc /\ r.got = got /\ r.call = op[o].call
         /\ r.ses = op[o].ses /\ r.key = op[o].key
<1>1. pc \in UserPcs
  BY DEF UserPcs
<1> QED
  BY <1>1, UserIs DEF UserRec, Ensured

LEMMA EnsuresIs ==
  ASSUME PagesInv, Grown, NEW o \in Users, op[o].pc \in Ensuring,
         NEW r \in UserRec, op' = [op EXCEPT ![o] = r], lock' = lock,
         r.pc \in Ensuring, r.got \in 0 .. Len(chrome'), r.pc = "child" => r.got # 0,
         r.call = op[o].call, r.ses = op[o].ses, r.key = op[o].key
  PROVE  UserNext(o, r) /\ Keeps(o, r)
<1>3. UserOK(o) /\ op[o].pc # "idle" /\ op[o].pc # "insert"
  BY UserIs DEF Ensuring
<1>4. /\ Makes(r) => Makes(op[o])
      /\ Closes(r) => Closes(op[o])
      /\ Opened(r) => Opened(op[o])
  BY <1>3 DEF Makes, Closes, Opened, Ensuring
<1>5. /\ r.call = "context" => r.ses.cdp \in 1 .. Len(chrome')
      /\ Makes(op[o]) \/ Closes(op[o]) =>
           r.ses.cdp \in 1 .. Len(chrome') /\ r.ses.page \in 1 .. Len(page')
  BY <1>3, PagesAre DEF UserOK, Whole, IsPage, Grown
<1>6. r.key \in Keys /\ r.call # "none" /\ r.pc # "closing" /\ r.pc \in Ensuring
  BY <1>3 DEF UserOK, Ensuring
<1>7. lock' \in Users \cup {None} /\ (Closes(op[o]) => lock' = o)
  BY <1>3 DEF PagesInv, PagesTyped, UserOK
<1>9. UserNext(o, r)
  BY <1>4, <1>5, <1>6, <1>7, Zenon DEF UserNext
<1>10. Keeps(o, r)
  BY <1>4 DEF Keeps
<1> QED
  BY <1>9, <1>10

\* A step of ensure_running changes no page, and lets go of nothing.
LEMMA EnsuringNext ==
  ASSUME PagesInv, Grown, NEW o \in Users, NEW r, UserNext(o, r), Keeps(o, r),
         UNCHANGED <<page, sessions, let_go>>, op[o].pc \in Ensuring,
         daemon' \in [child : 0 .. Len(chrome'), cdp : 0 .. Len(chrome')], raced' \in BOOLEAN,
         \A i \in 1 .. Len(chrome') : chrome'[i].kind = "window" => i \in 1 .. Len(chrome),
         StartsAlone', DaemonHeld'
  PROVE  PagesInv'
<1>1. PagesTyped' /\ UsersOK'
  <2>1. sessions' \in [Keys -> SesRec]
    BY DEF PagesInv, PagesTyped
  <2> QED
    BY <2>1, TypedNext
<1>2. WindowHeld'
  <2>1. op[o].pc \notin {"insert", "closing"}
    BY DEF Ensuring
  <2> QED
    BY <2>1, WindowsNext
<1>3. PagesApart'
  BY PagesNext
<1> QED
  BY <1>1, <1>2, <1>3 DEF PagesInv

LEMMA GotIs ==
  ASSUME PagesInv, NEW o \in Users
  PROVE  /\ op[o].got \in 0 .. Len(chrome)
         /\ daemon.child \in 0 .. Len(chrome) /\ daemon.cdp \in 0 .. Len(chrome)
         /\ daemon \in [child : 0 .. Len(chrome), cdp : 0 .. Len(chrome)]
         /\ raced \in BOOLEAN
         /\ \A i \in 1 .. Len(chrome) : chrome[i] \in ChromeRec
BY UserIs, PagesAre DEF PagesInv, PagesTyped, UserOK

LEMMA EnsureMissingNext ==
  ASSUME PagesInv, NEW o \in Users, Pages!EnsureMissing(o)
  PROVE  PagesInv'
<1>1. /\ op[o].pc = "check" /\ UNCHANGED <<chrome, page, daemon, sessions, lock, let_go>>
      /\ op' = [op EXCEPT ![o] = Ensured(o, "stop", op[o].got)]
      /\ raced' = (raced \/ Pages!Starting # {})
  <2>1. op' = [op EXCEPT ![o].pc = "stop"]
    BY DEF Pages!EnsureMissing, Pages!Goto
  <2> QED
    BY <2>1, UserIs, PagesAre DEF Pages!EnsureMissing, Pages!browser, UserRec, Ensured
<1>2. Grown
  BY <1>1, SameGrows
<1>3. PICK r \in UserRec : UserNext(o, r) /\ Keeps(o, r) /\ r.pc = "stop"
  <2> DEFINE r == Ensured(o, "stop", op[o].got)
  <2>1. /\ r \in UserRec /\ r.pc = "stop" /\ r.got = op[o].got /\ r.call = op[o].call
        /\ r.ses = op[o].ses /\ r.key = op[o].key
    BY EnsuredIs, UserIs DEF Ensuring
  <2>2. op' = [op EXCEPT ![o] = r] /\ lock' = lock
    BY <1>1
  <2> HIDE DEF r
  <2>3. r.got \in 0 .. Len(chrome') /\ op[o].pc \in Ensuring /\ r.pc \in Ensuring
    BY <1>1, <2>1, GotIs DEF Ensuring
  <2>4. UserNext(o, r) /\ Keeps(o, r)
    BY <1>2, <2>1, <2>2, <2>3, EnsuresIs
  <2> QED
    BY <2>1, <2>4
<1>4. op'[o] = r /\ \A q \in Users \ {o} : op'[q] = op[q]
  BY <1>3, UserMoves
<1>5. ~raced' => ~raced /\ \A q \in Users : op[q].pc \notin StartPcs
  BY <1>1, Zenon DEF Pages!Starting, StartPcs
<1>6. StartsAlone' /\ DaemonHeld'
  <2>1. CASE raced'
    BY <2>1 DEF StartsAlone, DaemonHeld
  <2>2. CASE ~raced'
    <3>1. ~raced /\ \A q \in Users : op[q].pc \notin StartPcs
      BY <1>5, <2>2
    <3>2. \A q \in Users \ {o} : op'[q].pc \notin StartPcs
      BY <1>4, <3>1
    <3>3. StartsAlone'
      BY <1>1, <1>3, <1>4, <3>2 DEF StartsAlone, StartPcs
    <3>4. DaemonHeld'
      BY <1>1, <1>3, <1>4, <3>1 DEF PagesInv, DaemonHeld, Pages!Chromes, Pages!Runs, StartPcs
    <3> QED
      BY <3>3, <3>4
  <2> QED
    BY <2>1, <2>2
<1>7. /\ daemon' \in [child : 0 .. Len(chrome'), cdp : 0 .. Len(chrome')] /\ raced' \in BOOLEAN
      /\ op[o].pc \in Ensuring
  BY <1>1, GotIs DEF Ensuring
<1> QED
  BY <1>1, <1>2, <1>3, <1>6, <1>7, EnsuringNext

LEMMA StopNext ==
  ASSUME PagesInv, NEW o \in Users, Pages!Stop(o)
  PROVE  PagesInv'
<1>1. /\ op[o].pc = "stop" /\ UNCHANGED <<page, sessions, lock, raced, let_go>>
      /\ op' = [op EXCEPT ![o] = Ensured(o, "spawn", op[o].got)]
      /\ daemon' = [child |-> 0, cdp |-> 0]
  <2>1. op' = [op EXCEPT ![o].pc = "spawn"]
    BY DEF Pages!Stop, Pages!Goto
  <2> QED
    BY <2>1, UserIs, PagesAre DEF Pages!Stop, Pages!history, UserRec, Ensured
<1>2. /\ chrome' \in Seq(ChromeRec) /\ Len(chrome') = Len(chrome)
      /\ \A i \in 1 .. Len(chrome) : i # daemon.child => chrome'[i] = chrome[i]
      /\ \A i \in 1 .. Len(chrome) : i = daemon.child =>
           chrome'[i].kind = chrome[i].kind /\ chrome'[i].state = "dead"
  <2>1. CASE daemon.child = 0
    BY <2>1, PagesAre DEF Pages!Stop, Pages!StopChild
  <2>2. CASE daemon.child # 0
    <3> DEFINE c == [chrome[daemon.child] EXCEPT !.state = "dead"]
    <3>1. daemon.child \in 1 .. Len(chrome) /\ chrome[daemon.child] \in ChromeRec
      BY <2>2, GotIs, PagesAre
    <3>2. c \in ChromeRec /\ c.state = "dead" /\ c.kind = chrome[daemon.child].kind
      BY <3>1 DEF ChromeRec
    <3>3. chrome' = [chrome EXCEPT ![daemon.child] = c]
      BY <2>2 DEF Pages!Stop, Pages!StopChild
    <3> HIDE DEF c
    <3> QED
      BY <3>1, <3>2, <3>3, PagesAre
  <2> QED
    BY <2>1, <2>2
<1>3. Grown
  BY <1>1, <1>2, PagesAre DEF Grown
<1>4. PICK r \in UserRec : UserNext(o, r) /\ Keeps(o, r) /\ r.pc = "spawn"
  <2> DEFINE r == Ensured(o, "spawn", op[o].got)
  <2>1. /\ r \in UserRec /\ r.pc = "spawn" /\ r.got = op[o].got /\ r.call = op[o].call
        /\ r.ses = op[o].ses /\ r.key = op[o].key
    BY EnsuredIs, UserIs DEF Ensuring
  <2>2. op' = [op EXCEPT ![o] = r] /\ lock' = lock
    BY <1>1
  <2> HIDE DEF r
  <2>3. r.got \in 0 .. Len(chrome') /\ op[o].pc \in Ensuring /\ r.pc \in Ensuring
    BY <1>1, <1>2, <2>1, GotIs DEF Ensuring
  <2>4. UserNext(o, r) /\ Keeps(o, r)
    BY <1>3, <2>1, <2>2, <2>3, EnsuresIs
  <2> QED
    BY <2>1, <2>4
<1>5. op'[o] = r /\ \A q \in Users \ {o} : op'[q] = op[q]
  BY <1>4, UserMoves
<1>6. StartsAlone'
  BY <1>1, <1>4, <1>5 DEF PagesInv, StartsAlone, StartPcs
<1>7. DaemonHeld'
  <2> SUFFICES ASSUME ~raced, NEW i \in 1 .. Len(chrome'), chrome'[i].state # "dead", i \notin let_go,
                      chrome'[i].kind = "daemon"
               PROVE  FALSE
    BY <1>1 DEF DaemonHeld, Pages!Chromes, Pages!Runs
  <2>1. i \in 1 .. Len(chrome) /\ i # 0 /\ i # daemon.child /\ chrome'[i] = chrome[i]
    BY <1>2, PagesAre
  <2>2. PICK q \in Users : op[q].pc = "child"
    BY <2>1, PagesAre DEF PagesInv, DaemonHeld, Pages!Runs
  <2> QED
    BY <1>1, <2>2 DEF PagesInv, StartsAlone, StartPcs
<1>8. /\ daemon' \in [child : 0 .. Len(chrome'), cdp : 0 .. Len(chrome')] /\ raced' \in BOOLEAN
      /\ op[o].pc \in Ensuring
  BY <1>1, <1>2, GotIs, PagesAre DEF Ensuring
<1>9. \A i \in 1 .. Len(chrome') : i \in 1 .. Len(chrome)
  BY <1>2
<1> QED
  BY <1>1, <1>3, <1>4, <1>6, <1>7, <1>8, <1>9, EnsuringNext

\* A new browser is the last.
LEMMA NewGrows ==
  ASSUME PagesInv, NEW kind \in {"daemon", "window"}, Pages!New(kind),
         page' \in Seq(PageRec), Len(page) <= Len(page')
  PROVE  /\ Grown /\ Len(chrome') = Len(chrome) + 1 /\ chrome'[Len(chrome')].kind = kind
         /\ \A i \in 1 .. Len(chrome) : chrome'[i] = chrome[i]
         /\ \A i \in 1 .. Len(chrome') : i \in 1 .. Len(chrome) \/ i = Len(chrome')
<1> DEFINE c == [kind |-> kind, state |-> "alive"]
<1>1. c \in ChromeRec /\ c.kind = kind
  BY DEF ChromeRec
<1>2. chrome' = Append(chrome, c)
  BY DEF Pages!New
<1> HIDE DEF c
<1>3. /\ chrome' \in Seq(ChromeRec) /\ Len(chrome') = Len(chrome) + 1 /\ chrome'[Len(chrome')] = c
      /\ \A i \in 1 .. Len(chrome) : chrome'[i] = chrome[i]
  BY <1>1, <1>2, PagesAre
<1>4. Grown
  BY <1>3, PagesAre DEF Grown
<1> QED
  BY <1>1, <1>3, <1>4, PagesAre

LEMMA SpawnNext ==
  ASSUME PagesInv, NEW o \in Users, Pages!Spawn(o)
  PROVE  PagesInv'
<1> DEFINE r == Ensured(o, "child", Len(chrome'))
<1>1. /\ op[o].pc = "spawn" /\ Pages!New("daemon")
      /\ UNCHANGED <<daemon, page, sessions, lock, raced, let_go>>
      /\ op' = [op EXCEPT ![o] = r]
  BY UserIs, PagesAre DEF Pages!Spawn, Pages!history, UserRec, Ensured
<1>2. /\ Grown /\ Len(chrome') = Len(chrome) + 1 /\ chrome'[Len(chrome')].kind = "daemon"
      /\ \A i \in 1 .. Len(chrome) : chrome'[i] = chrome[i]
      /\ \A i \in 1 .. Len(chrome') : i \in 1 .. Len(chrome) \/ i = Len(chrome')
  BY <1>1, PagesAre, NewGrows
<1>3. Len(chrome') \in Nat /\ Len(chrome') # 0 /\ Len(chrome) \in Nat
  BY <1>2, PagesAre
<1>4. /\ r \in UserRec /\ r.pc = "child" /\ r.got = Len(chrome') /\ r.call = op[o].call
      /\ r.ses = op[o].ses /\ r.key = op[o].key
  BY <1>3, EnsuredIs, UserIs DEF Ensuring
<1> HIDE DEF r
<1>5. /\ r.got \in 0 .. Len(chrome') /\ r.got # 0 /\ lock' = lock
      /\ op[o].pc \in Ensuring /\ r.pc \in Ensuring
  BY <1>1, <1>3, <1>4 DEF Ensuring
<1>6. UserNext(o, r) /\ Keeps(o, r)
  BY <1>1, <1>2, <1>4, <1>5, EnsuresIs
<1>7. op'[o] = r /\ \A q \in Users \ {o} : op'[q] = op[q]
  BY <1>6, UserMoves
<1>8. StartsAlone'
  BY <1>1, <1>4, <1>7 DEF PagesInv, StartsAlone, StartPcs
<1>9. DaemonHeld'
  <2> SUFFICES ASSUME ~raced, NEW i \in 1 .. Len(chrome'), chrome'[i].state # "dead", i \notin let_go,
                      chrome'[i].kind = "daemon"
               PROVE  daemon.child = i \/ \E q \in Users : op'[q].pc = "child" /\ op'[q].got = i
    BY <1>1 DEF DaemonHeld, Pages!Chromes, Pages!Runs
  <2>1. CASE i = Len(chrome')
    BY <1>4, <1>7, <2>1
  <2>2. CASE i \in 1 .. Len(chrome)
    <3>1. chrome'[i] = chrome[i] /\ i # 0
      BY <1>2, <2>2, PagesAre
    <3>2. daemon.child = i \/ \E q \in Users : op[q].pc = "child" /\ op[q].got = i
      BY <2>2, <3>1, PagesAre DEF PagesInv, DaemonHeld, Pages!Runs
    <3> QED
      BY <1>1, <1>7, <3>2
  <2> QED
    BY <1>2, <2>1, <2>2
<1>10. daemon' \in [child : 0 .. Len(chrome'), cdp : 0 .. Len(chrome')] /\ raced' \in BOOLEAN
  <2>1. \A n \in 0 .. Len(chrome) : n \in 0 .. Len(chrome')
    BY <1>2, <1>3
  <2> QED
    BY <1>1, <2>1, GotIs
<1>11. \A i \in 1 .. Len(chrome') : chrome'[i].kind = "window" => i \in 1 .. Len(chrome)
  BY <1>2
<1> QED
  BY <1>1, <1>2, <1>5, <1>6, <1>8, <1>9, <1>10, <1>11, EnsuringNext

\* What has been started is stored, first the process, then its connection.
LEMMA StoreNext ==
  ASSUME PagesInv, NEW o \in Users, Pages!StoreChild(o) \/ Pages!StoreCdp(o)
  PROVE  PagesInv'
<1> DEFINE pc == IF op[o].pc = "child" THEN "cdp" ELSE "send"
<1> DEFINE r == Ensured(o, pc, op[o].got)
<1>1. /\ op[o].pc \in {"child", "cdp"} /\ UNCHANGED <<chrome, page, sessions, lock, raced, let_go>>
      /\ op' = [op EXCEPT ![o].pc = pc]
      /\ op[o].pc = "child" => daemon' = [daemon EXCEPT !.child = op[o].got]
      /\ op[o].pc = "cdp" => daemon' = [daemon EXCEPT !.cdp = op[o].got]
  BY DEF Pages!StoreChild, Pages!StoreCdp, Pages!Goto, Pages!history
<1>2. pc \in {"cdp", "send"} /\ (pc = "cdp" <=> op[o].pc = "child")
  OBVIOUS
<1> HIDE DEF pc
<1>3. op' = [op EXCEPT ![o] = r]
  BY <1>1, UserIs, PagesAre DEF UserRec, Ensured
<1>4. Grown
  BY <1>1, SameGrows
<1>5. /\ r \in UserRec /\ r.pc = pc /\ r.got = op[o].got /\ r.call = op[o].call
      /\ r.ses = op[o].ses /\ r.key = op[o].key
  BY <1>2, EnsuredIs, UserIs DEF Ensuring
<1> HIDE DEF r
<1>6. /\ r.got \in 0 .. Len(chrome') /\ r.pc # "child" /\ op[o].pc \in Ensuring /\ r.pc \in Ensuring
  BY <1>1, <1>2, <1>5, GotIs DEF Ensuring
<1>7. UserNext(o, r) /\ Keeps(o, r)
  BY <1>1, <1>3, <1>4, <1>5, <1>6, EnsuresIs
<1>8. op'[o] = r /\ \A q \in Users \ {o} : op'[q] = op[q]
  BY <1>7, UserMoves
<1>9. /\ daemon' \in [child : 0 .. Len(chrome'), cdp : 0 .. Len(chrome')] /\ raced' \in BOOLEAN
      /\ op[o].pc = "child" => daemon'.child = op[o].got
      /\ op[o].pc = "cdp" => daemon'.child = daemon.child
  BY <1>1, GotIs
<1>10. StartsAlone'
  BY <1>1, <1>2, <1>5, <1>8 DEF PagesInv, StartsAlone, StartPcs
<1>11. DaemonHeld'
  <2> SUFFICES ASSUME ~raced, NEW i \in 1 .. Len(chrome), chrome[i].state # "dead", i \notin let_go,
                      chrome[i].kind = "daemon"
               PROVE  daemon'.child = i \/ \E q \in Users : op'[q].pc = "child" /\ op'[q].got = i
    BY <1>1 DEF DaemonHeld, Pages!Chromes, Pages!Runs
  <2>1. i # 0 /\ (daemon.child = i \/ \E q \in Users : op[q].pc = "child" /\ op[q].got = i)
    BY PagesAre DEF PagesInv, DaemonHeld, Pages!Runs
  <2>2. op[o].pc = "child" => daemon.child = 0
    BY DEF PagesInv, StartsAlone
  <2> QED
    BY <1>1, <1>8, <1>9, <2>1, <2>2
<1> QED
  BY <1>1, <1>4, <1>6, <1>7, <1>9, <1>10, <1>11, EnsuringNext

LEMMA SpawnFailsNext ==
  ASSUME PagesInv, NEW o \in Users, Pages!SpawnFails(o)
  PROVE  PagesInv'
<1>1. /\ op[o].pc = "spawn" /\ Pages!Failed(o) /\ UNCHANGED <<daemon, page, sessions, raced>>
      /\ \/ UNCHANGED <<chrome, let_go>>
         \/ Pages!New("daemon") /\ let_go' = let_go \cup {Len(chrome')}
  BY DEF Pages!SpawnFails
<1>2. /\ Grown /\ let_go \subseteq let_go' /\ Len(chrome) <= Len(chrome') /\ Len(chrome') \in Nat
      /\ \A i \in 1 .. Len(chrome') : i \notin 1 .. Len(chrome) =>
           i \in let_go' /\ chrome'[i].kind = "daemon"
  <2>1. CASE UNCHANGED <<chrome, let_go>>
    BY <1>1, <2>1, SameGrows, PagesAre
  <2>2. CASE Pages!New("daemon") /\ let_go' = let_go \cup {Len(chrome')}
    <3>1. /\ Grown /\ Len(chrome') = Len(chrome) + 1 /\ chrome'[Len(chrome')].kind = "daemon"
          /\ \A i \in 1 .. Len(chrome') : i \in 1 .. Len(chrome) \/ i = Len(chrome')
      BY <1>1, <2>2, PagesAre, NewGrows
    <3> QED
      BY <2>2, <3>1, PagesAre
  <2> QED
    BY <1>1, <2>1, <2>2
<1>3. PICK r : UserNext(o, r) /\ Keeps(o, r) /\ r.pc \in {"idle", "window", "check"}
  BY <1>1, <1>2, FailedIs DEF Ensuring
<1>4. r.pc \notin StartPcs
  BY <1>3 DEF StartPcs
<1>5. PagesTyped' /\ UsersOK'
  <2>1. daemon' \in [child : 0 .. Len(chrome'), cdp : 0 .. Len(chrome')] /\ raced' \in BOOLEAN
    <3>1. \A n \in 0 .. Len(chrome) : n \in 0 .. Len(chrome')
      BY <1>2, PagesAre
    <3> QED
      BY <1>1, <3>1, GotIs
  <2>2. sessions' \in [Keys -> SesRec]
    BY <1>1 DEF PagesInv, PagesTyped
  <2> QED
    BY <1>2, <1>3, <2>1, <2>2, TypedNext
<1>6. StartsAlone' /\ DaemonHeld'
  BY <1>1, <1>2, <1>3, <1>4, StartsNext
<1>7. WindowHeld'
  BY <1>1, <1>2, <1>3, WindowsNext
<1>8. PagesApart'
  BY <1>1, <1>2, <1>3, PagesNext
<1> QED
  BY <1>5, <1>6, <1>7, <1>8 DEF PagesInv

\* A page that is made is the last, and is of the user who makes it.
LEMMA PageMade ==
  ASSUME PagesInv, Grown, NEW o \in Users, NEW r, UserNext(o, r), sessions' = sessions,
         NEW x \in PageRec, page' = Append(page, x),
         Makes(r), ~Closes(r), r.ses.page = Len(page'), Opened(r) => x.state = "open"
  PROVE  PagesApart'
<1>1. op' \in [Users -> UserRec] /\ op'[o] = r /\ \A q \in Users \ {o} : op'[q] = op[q]
  BY UserMoves
<1>2. /\ Len(page) \in Nat /\ Len(page') = Len(page) + 1 /\ page'[Len(page')] = x
      /\ \A n \in 1 .. Len(page) : page'[n] = page[n] /\ n # Len(page') /\ n \in 1 .. Len(page')
  BY PagesAre
<1>3. \A i \in 1 .. Len(chrome) : i \in 1 .. Len(chrome')
  BY PagesAre DEF Grown
<1>4. \A k \in Keys : Listing(k) => sessions[k].page \in 1 .. Len(page) /\ sessions[k].cdp \in 1 .. Len(chrome)
  BY PagesAre DEF PagesInv, PagesApart, ListedApart, Whole, IsPage
<1>5. \A q \in Users : Makes(op[q]) \/ Closes(op[q]) => op[q].ses.page \in 1 .. Len(page)
  BY DEF PagesInv, UsersOK, UserOK, Whole, IsPage
<1>6. \A q \in Users : Opened(op[q]) => Makes(op[q])
  BY DEF Opened, Makes
<1>7. ListedApart'
  BY <1>2, <1>3, <1>4 DEF PagesInv, PagesApart, ListedApart, Listing, Whole, IsPage, Pages!Chromes
<1>8. UsedApart'
  BY <1>1, <1>2, <1>4 DEF PagesInv, PagesApart, UsedApart, Listing, Makes, Closes
<1>9. MadeApart'
  BY <1>1, <1>2, <1>5 DEF PagesInv, PagesApart, MadeApart, Makes, Closes
<1>10. MadeOpen'
  BY <1>1, <1>2, <1>5, <1>6 DEF PagesInv, PagesApart, MadeOpen, Opened
<1> QED
  BY <1>7, <1>8, <1>9, <1>10 DEF PagesApart

\* The page of o's session becomes x, and the others stay.
LEMMA BecomesIs ==
  ASSUME PagesInv, NEW o \in Users, Makes(op[o]) \/ Closes(op[o]),
         NEW x \in {"context", "open", "closed"}, Pages!Becomes(o, x)
  PROVE  /\ page' \in Seq(PageRec) /\ Len(page') = Len(page) /\ op[o].ses.page \in 1 .. Len(page)
         /\ page'[op[o].ses.page].state = x
         /\ \A n \in 1 .. Len(page) : n # op[o].ses.page => page'[n] = page[n]
<1> DEFINE p == op[o].ses.page
<1> DEFINE w == [page[p] EXCEPT !.state = x]
<1>1. p \in 1 .. Len(page)
  BY UserIs DEF UserOK, Whole, IsPage
<1>2. page[p] \in PageRec
  BY <1>1, PagesAre
<1>3. w \in PageRec /\ w.state = x
  BY <1>2 DEF PageRec
<1>4. page' = [page EXCEPT ![p] = w]
  BY DEF Pages!Becomes
<1> HIDE DEF w, p
<1>5. /\ page' \in Seq(PageRec) /\ Len(page') = Len(page) /\ page'[p] = w
      /\ \A n \in 1 .. Len(page) : n # p => page'[n] = page[n]
  BY <1>1, <1>3, <1>4, PagesAre
<1> QED
  BY <1>1, <1>3, <1>5 DEF p

\* It opens, or it is closed by its user, who alone has it.
LEMMA PageBecomes ==
  ASSUME PagesInv, Grown, NEW o \in Users, NEW r, UserNext(o, r), sessions' = sessions,
         Makes(op[o]) \/ Closes(op[o]), NEW x \in {"context", "open", "closed"}, Pages!Becomes(o, x),
         Makes(r) => Makes(op[o]), Closes(r) => Closes(op[o]),
         Makes(r) \/ Closes(r) => r.ses.page = op[o].ses.page,
         x = "open" \/ Closes(op[o]), Makes(r) => x = "open"
  PROVE  PagesApart'
<1>1. op' \in [Users -> UserRec] /\ op'[o] = r /\ \A q \in Users \ {o} : op'[q] = op[q]
  BY UserMoves
<1> DEFINE p == op[o].ses.page
<1>2. /\ Len(page') = Len(page) /\ p \in 1 .. Len(page) /\ page'[p].state = x
      /\ \A n \in 1 .. Len(page) : n # p => page'[n] = page[n]
  BY BecomesIs
<1>3. \A i \in 1 .. Len(chrome) : i \in 1 .. Len(chrome')
  BY PagesAre DEF Grown
<1>4. \A k \in Keys : Listing(k) =>
        /\ sessions[k].page \in 1 .. Len(page) /\ sessions[k].cdp \in 1 .. Len(chrome)
        /\ sessions[k].page # p
  BY PagesAre DEF PagesInv, PagesApart, ListedApart, UsedApart, Whole, IsPage
<1>5. \A q \in Users \ {o} : Makes(op[q]) => op[q].ses.page \in 1 .. Len(page) /\ op[q].ses.page # p
  BY DEF PagesInv, UsersOK, UserOK, Whole, IsPage, PagesApart, MadeApart
<1>6. (\A q \in Users : Opened(op[q]) => Makes(op[q])) /\ (Opened(r) => Makes(r))
  BY DEF Opened, Makes
<1> HIDE DEF p
<1>7. ListedApart'
  BY <1>2, <1>3, <1>4 DEF PagesInv, PagesApart, ListedApart, Listing, Whole, IsPage, Pages!Chromes
<1>8. UsedApart'
  BY <1>1 DEF PagesInv, PagesApart, UsedApart, Listing, Makes, Closes
<1>9. MadeApart'
  BY <1>1 DEF PagesInv, PagesApart, MadeApart, Makes, Closes
<1>10. MadeOpen'
  <2>1. Makes(r) => r.ses.page = p
    BY DEF p
  <2> SUFFICES ASSUME NEW q \in Users, Opened(op'[q])
               PROVE  page'[op'[q].ses.page].state = "open"
    BY DEF MadeOpen
  <2>2. CASE q = o
    BY <1>1, <1>2, <1>6, <2>1, <2>2
  <2>3. CASE q # o
    BY <1>1, <1>2, <1>5, <1>6, <2>3 DEF PagesInv, PagesApart, MadeOpen
  <2> QED
    BY <2>2, <2>3
<1> QED
  BY <1>7, <1>8, <1>9, <1>10 DEF PagesApart

\* The steps that leave the daemon and the list alone.
LEMMA QuietNext ==
  ASSUME PagesInv, Grown, NEW o \in Users, NEW r, UserNext(o, r), r.pc \notin StartPcs,
         UNCHANGED <<daemon, sessions, raced>>, let_go \subseteq let_go', op[o].pc # "child",
         op[o].pc \in {"insert", "closing"} => chrome'[op[o].ses.cdp].state = "dead",
         \A i \in 1 .. Len(chrome') : i \notin 1 .. Len(chrome) =>
           /\ chrome'[i].kind = "window"
           /\ i \in let_go' \/ (r.pc = "insert" /\ r.ses.cdp = i),
         PagesApart'
  PROVE  PagesInv'
<1>1. PagesTyped' /\ UsersOK'
  <2>1. daemon' \in [child : 0 .. Len(chrome'), cdp : 0 .. Len(chrome')] /\ raced' \in BOOLEAN
    <3>1. \A n \in 0 .. Len(chrome) : n \in 0 .. Len(chrome')
      BY PagesAre DEF Grown
    <3> QED
      BY <3>1, GotIs
  <2>2. sessions' \in [Keys -> SesRec]
    BY DEF PagesInv, PagesTyped
  <2> QED
    BY <2>1, <2>2, TypedNext
<1>2. StartsAlone' /\ DaemonHeld'
  BY StartsNext
<1>3. WindowHeld'
  BY WindowsNext
<1> QED
  BY <1>1, <1>2, <1>3 DEF PagesInv

\* A request of a launch, of which the session has the page.
Requested(o, req, s) == [op[o] EXCEPT !.pc = "check", !.call = req, !.ses = s, !.got = 0]

LEMMA RequestedIs ==
  ASSUME PagesInv, NEW o \in Users, NEW req \in {"target", "attach", "dispose"}, NEW s \in SesRec
  PROVE  LET r == Requested(o, req, s) IN
         /\ r \in UserRec /\ r.ses = s /\ r.pc = "check" /\ r.call = req
         /\ r.got = 0 /\ r.key = op[o].key
BY UserIs DEF UserRec, UserPcs, Ensuring, Requested

LEMMA RequestIs ==
  ASSUME PagesInv, Grown, NEW o \in Users, NEW r \in UserRec, op' = [op EXCEPT ![o] = r],
         lock' = lock, r.pc = "check", r.call \in {"target", "attach", "dispose"}, r.got = 0,
         r.key \in Keys, r.ses.cdp \in 1 .. Len(chrome'), r.ses.page \in 1 .. Len(page'),
         r.call = "dispose" => lock = o
  PROVE  /\ UserNext(o, r) /\ r.pc \notin StartPcs /\ (Makes(r) <=> r.call # "dispose")
         /\ (Opened(r) <=> r.call = "attach") /\ (Closes(r) <=> r.call = "dispose")
<1>3. /\ r.pc \notin StartPcs /\ (Makes(r) <=> r.call # "dispose")
      /\ (Opened(r) <=> r.call = "attach") /\ (Closes(r) <=> r.call = "dispose")
  BY DEF Makes, Opened, Closes, StartPcs
<1>4. /\ r.got \in 0 .. Len(chrome') /\ r.call # "none" /\ r.call # "context"
      /\ r.pc \in Ensuring /\ r.pc # "closing" /\ r.pc # "child"
  BY DEF Grown, Ensuring
<1>5. lock' \in Users \cup {None}
  BY DEF PagesInv, PagesTyped
<1>6. Closes(r) => lock' = o
  BY <1>3
<1>7. UserNext(o, r)
  BY <1>4, <1>5, <1>6, Zenon DEF UserNext
<1> QED
  BY <1>3, <1>7

LEMMA CreateContextNext ==
  ASSUME PagesInv, NEW o \in Users, Pages!CreateContext(o)
  PROVE  PagesInv'
<1> DEFINE x == [at |-> Pages!To(o), state |-> "context"]
<1> DEFINE s == [op[o].ses EXCEPT !.page = Len(page')]
<1>1. /\ op[o].call = "context" /\ Pages!To(o) # 0 /\ page' = Append(page, x)
      /\ UNCHANGED <<chrome, daemon, sessions, lock, raced, let_go>>
      /\ op' = [op EXCEPT ![o].pc = "check", ![o].call = "target", ![o].ses.page = Len(page'), ![o].got = 0]
  BY DEF Pages!CreateContext, Pages!Linked, Pages!history
<1>2. op[o].pc \in {"check", "send"} /\ Pages!To(o) \in 1 .. Len(chrome) /\ op[o].key \in Keys
  BY <1>1, ToIs
<1>3. x \in PageRec
  BY <1>2, PagesAre DEF PageRec
<1> HIDE DEF x
<1>4. page' \in Seq(PageRec) /\ Len(page') = Len(page) + 1 /\ Len(page') \in Nat
  BY <1>1, <1>3, PagesAre
<1>5. Grown
  BY <1>1, <1>4, PagesAre DEF Grown
<1>6. op' = [op EXCEPT ![o] = Requested(o, "target", s)]
  <2>1. op \in [Users -> UserRec]
    BY PagesAre
  <2>2. op[o] \in UserRec
    BY <2>1
  <2>3. [op[o] EXCEPT !.pc = "check", !.call = "target", !.ses.page = Len(page'), !.got = 0]
          = Requested(o, "target", s)
    BY <2>2 DEF UserRec, Requested
  <2>4. op' = [op EXCEPT ![o] =
          [op[o] EXCEPT !.pc = "check", !.call = "target", !.ses.page = Len(page'), !.got = 0]]
    BY <1>1, <2>1, <2>2 DEF UserRec
  <2> QED
    BY <2>3, <2>4
<1>7. s \in SesRec /\ s.page = Len(page') /\ s.cdp = op[o].ses.cdp
  <2>1. op[o].ses \in SesRec
    BY UserIs
  <2> QED
    BY <1>4, <2>1 DEF SesRec
<1> HIDE DEF s
<1>8. s.cdp \in 1 .. Len(chrome') /\ s.page \in 1 .. Len(page')
  BY <1>1, <1>4, <1>7, UserIs, PagesAre DEF UserOK
<1> DEFINE r == Requested(o, "target", s)
<1>9. /\ UserNext(o, r) /\ r.ses = s /\ r.pc \notin StartPcs
      /\ Makes(r) /\ ~Opened(r) /\ ~Closes(r)
  <2>1. /\ r \in UserRec /\ r.ses = s /\ r.pc = "check" /\ r.call = "target"
        /\ r.got = 0 /\ r.key = op[o].key
    BY <1>7, RequestedIs
  <2>2. op' = [op EXCEPT ![o] = r]
    BY <1>6
  <2> HIDE DEF r
  <2> QED
    BY <1>1, <1>2, <1>5, <1>8, <2>1, <2>2, RequestIs
<1> HIDE DEF r
<1>10. PagesApart'
  BY <1>1, <1>3, <1>5, <1>7, <1>9, PageMade
<1>11. op[o].pc \notin {"child", "insert", "closing"} /\ \A i \in 1 .. Len(chrome') : i \in 1 .. Len(chrome)
  BY <1>1, <1>2
<1> QED
  BY <1>1, <1>5, <1>9, <1>10, <1>11, QuietNext

LEMMA BecomesGrows ==
  ASSUME PagesInv, page' \in Seq(PageRec), Len(page') = Len(page), chrome' = chrome
  PROVE  Grown
BY PagesAre DEF Grown

\* The page of a session is opened, or closed.
LEMMA TargetNext ==
  ASSUME PagesInv, NEW o \in Users, Pages!CreateTarget(o) \/ Pages!CloseTarget(o)
  PROVE  PagesInv'
<1> DEFINE x == IF op[o].call = "target" THEN "open" ELSE "context"
<1> DEFINE req == IF op[o].call = "target" THEN "attach" ELSE "dispose"
<1> DEFINE s == op[o].ses
<1> DEFINE r == Requested(o, req, s)
<1>1. /\ op[o].call \in {"target", "close"} /\ Pages!To(o) # 0 /\ Pages!Becomes(o, x)
      /\ UNCHANGED <<chrome, daemon, sessions, lock, raced, let_go>>
      /\ op' = [op EXCEPT ![o].pc = "check", ![o].call = req, ![o].got = 0]
  BY DEF Pages!CreateTarget, Pages!CloseTarget, Pages!Has, Pages!Call, Pages!Linked, Pages!history
<1>2. op[o].pc \in {"check", "send"} /\ op[o].key \in Keys
  BY <1>1, ToIs
<1>3. /\ x \in {"context", "open", "closed"} /\ req \in {"attach", "dispose"}
      /\ (x = "open" <=> req = "attach") /\ (req = "attach" <=> op[o].call = "target")
  OBVIOUS
<1> HIDE DEF x, req
<1>4. /\ (req = "attach" => Makes(op[o])) /\ (req = "dispose" => Closes(op[o]) /\ lock = o)
      /\ s \in SesRec /\ s.cdp \in 1 .. Len(chrome) /\ s.page \in 1 .. Len(page)
  BY <1>1, <1>3, UserIs, PagesAre DEF UserOK, Makes, Closes, Whole, IsPage
<1>5. page' \in Seq(PageRec) /\ Len(page') = Len(page)
  BY <1>1, <1>3, <1>4, BecomesIs
<1>6. Grown
  BY <1>1, <1>5, BecomesGrows
<1>7. /\ r \in UserRec /\ r.ses = s /\ r.pc = "check" /\ r.call = req
      /\ r.got = 0 /\ r.key = op[o].key
  BY <1>3, <1>4, RequestedIs
<1>8. op' = [op EXCEPT ![o] = r]
  BY <1>1, UserIs, PagesAre DEF UserRec, Requested
<1> HIDE DEF r
<1>9. /\ UserNext(o, r) /\ r.pc \notin StartPcs
      /\ (Makes(r) <=> req # "dispose") /\ (Closes(r) <=> req = "dispose")
  BY <1>1, <1>2, <1>3, <1>4, <1>5, <1>6, <1>7, <1>8, RequestIs
<1>10. /\ (Makes(op[o]) \/ Closes(op[o])) /\ (Makes(r) => Makes(op[o])) /\ (Closes(r) => Closes(op[o]))
       /\ (x = "open" \/ Closes(op[o])) /\ (Makes(r) => x = "open")
  BY <1>3, <1>4, <1>9
<1>11. PagesApart'
  BY <1>1, <1>3, <1>6, <1>7, <1>9, <1>10, PageBecomes
<1>12. op[o].pc \notin {"child", "insert", "closing"} /\ \A i \in 1 .. Len(chrome') : i \in 1 .. Len(chrome)
  BY <1>1, <1>2
<1> QED
  BY <1>1, <1>6, <1>9, <1>11, <1>12, QuietNext

\* The session is closed, with its page, or with its window.
LEMMA ClosesNext ==
  ASSUME PagesInv, NEW o \in Users, Pages!Dispose(o) \/ Pages!CloseWindow(o)
  PROVE  PagesInv'
<1> DEFINE s == op[o].ses
<1>1. /\ Pages!Becomes(o, "closed") /\ Pages!Closed(o)
      /\ UNCHANGED <<daemon, sessions, raced, let_go>>
      /\ \/ op[o].call = "dispose" /\ Pages!To(o) # 0 /\ chrome' = chrome
         \/ op[o].pc = "closing" /\ chrome' = [chrome EXCEPT ![s.cdp].state = "dead"]
  BY DEF Pages!Dispose, Pages!CloseWindow, Pages!Has, Pages!Linked, Pages!history
<1>2. op[o].call = "dispose" => op[o].pc \in {"check", "send"}
  BY <1>1, ToIs, UserIs DEF UserOK
<1>3. /\ Closes(op[o]) /\ ~Makes(op[o]) /\ lock = o /\ op[o].key \in Keys /\ op[o].pc # "child"
      /\ op[o].pc # "insert" /\ s.cdp \in 1 .. Len(chrome)
  <2>1. Closes(op[o]) /\ op[o].pc \in {"check", "send", "closing"}
    BY <1>1, <1>2, UserIs DEF UserOK, Closes
  <2> QED
    BY <2>1, UserIs, PagesAre DEF UserOK, Closes, Makes, Whole
<1>4. page' \in Seq(PageRec) /\ Len(page') = Len(page)
  BY <1>1, <1>3, BecomesIs
<1>5. /\ Grown /\ Len(chrome') = Len(chrome)
      /\ op[o].pc = "closing" => chrome'[s.cdp].state = "dead"
  <2>1. CASE chrome' = chrome /\ op[o].pc # "closing"
    BY <1>4, <2>1, BecomesGrows
  <2>2. CASE chrome' = [chrome EXCEPT ![s.cdp].state = "dead"]
    <3> DEFINE c == [chrome[s.cdp] EXCEPT !.state = "dead"]
    <3>1. chrome[s.cdp] \in ChromeRec
      BY <1>3, PagesAre
    <3>2. c \in ChromeRec /\ c.state = "dead" /\ c.kind = chrome[s.cdp].kind
      BY <3>1 DEF ChromeRec
    <3>3. chrome' = [chrome EXCEPT ![s.cdp] = c]
      BY <2>2
    <3> HIDE DEF c, s
    <3>4. /\ chrome' \in Seq(ChromeRec) /\ Len(chrome') = Len(chrome) /\ chrome'[s.cdp] = c
          /\ \A i \in 1 .. Len(chrome) : i # s.cdp => chrome'[i] = chrome[i]
      BY <1>3, <3>2, <3>3, PagesAre
    <3> QED
      BY <1>4, <3>2, <3>4, PagesAre DEF Grown
  <2> QED
    BY <1>1, <1>2, <2>1, <2>2
<1>6. PICK r : /\ UserNext(o, r) /\ r.pc \in {"idle", "window", "check"} /\ r.call \in {"none", "root"}
  BY <1>1, <1>3, <1>5, ClosedIs
<1>7. ~Makes(r) /\ ~Closes(r) /\ r.pc \notin StartPcs
  BY <1>6 DEF Makes, Closes, StartPcs
<1>8. PagesApart'
  BY <1>1, <1>3, <1>5, <1>6, <1>7, PageBecomes
<1>9. \A i \in 1 .. Len(chrome') : i \in 1 .. Len(chrome)
  BY <1>5
<1> HIDE DEF s
<1> QED
  BY <1>1, <1>3, <1>5, <1>6, <1>7, <1>8, <1>9, QuietNext DEF s

\* A window with its page; or without, and then it is let go.
LEMMA LaunchWindowNext ==
  ASSUME PagesInv, NEW o \in Users, Pages!LaunchWindow(o)
  PROVE  PagesInv'
<1> DEFINE x == [at |-> Len(chrome'), state |-> "open"]
<1> DEFINE s == [cdp |-> Len(chrome'), page |-> Len(page')]
<1> DEFINE made == /\ page' = Append(page, x) /\ let_go' = let_go
                   /\ op' = [op EXCEPT ![o].pc = "insert", ![o].ses = s]
<1> DEFINE given == /\ op' = [op EXCEPT ![o] = Pages!IdleOp] /\ page' = page
                    /\ let_go' = let_go \cup {Len(chrome')}
<1>1. /\ op[o].pc = "window" /\ Pages!New("window") /\ UNCHANGED <<daemon, sessions, lock, raced>>
      /\ made \/ given
  BY DEF Pages!LaunchWindow, Pages!Ends
<1>2. chrome' = Append(chrome, [kind |-> "window", state |-> "alive"])
  BY <1>1 DEF Pages!New
<1>3. Len(chrome') = Len(chrome) + 1 /\ Len(chrome') \in Nat
  <2>1. [kind |-> "window", state |-> "alive"] \in ChromeRec
    BY DEF ChromeRec
  <2> QED
    BY <1>2, <2>1, PagesAre
<1>4. x \in PageRec /\ x.state = "open"
  BY <1>3 DEF PageRec
<1>5. page' \in Seq(PageRec) /\ Len(page) <= Len(page') /\ Len(page') \in Nat
      /\ (made => Len(page') = Len(page) + 1)
  <2>1. CASE page' = page /\ ~made
    BY <2>1, PagesAre
  <2>2. CASE page' = Append(page, x)
    <3> HIDE DEF x
    <3> QED
      BY <1>4, <2>2, PagesAre
  <2> QED
    BY <1>1, <2>1, <2>2
<1>6. /\ Grown /\ chrome'[Len(chrome')].kind = "window"
      /\ \A i \in 1 .. Len(chrome') : i \in 1 .. Len(chrome) \/ i = Len(chrome')
  BY <1>1, <1>5, NewGrows
<1>7. lock' \in Users \cup {None} /\ lock' = lock /\ op[o].pc \notin {"child", "insert", "closing"}
  BY <1>1 DEF PagesInv, PagesTyped
<1>8. CASE made
  <2> DEFINE r == [op[o] EXCEPT !.pc = "insert", !.ses = s]
  <2>1. /\ s \in SesRec /\ s.cdp = Len(chrome') /\ s.page = Len(page')
        /\ s.cdp \in 1 .. Len(chrome') /\ s.page \in 1 .. Len(page')
    BY <1>3, <1>5, <1>8, PagesAre DEF SesRec
  <2> HIDE DEF s
  <2>2. op' = [op EXCEPT ![o] = r]
    BY <1>8, UserIs, PagesAre DEF UserRec
  <2>3. /\ r \in UserRec /\ r.pc = "insert" /\ r.ses = s /\ r.call = op[o].call
        /\ r.got = op[o].got /\ r.key = op[o].key
    BY <2>1, UserIs DEF UserRec, UserPcs
  <2> HIDE DEF r
  <2>4. r.call \in {"none", "root"} /\ r.key \in Keys /\ r.got \in 0 .. Len(chrome')
    BY <1>1, <1>3, <2>3, UserIs, PagesAre DEF UserOK, Ensuring
  <2>5. Makes(r) /\ ~Closes(r) /\ r.pc \notin StartPcs /\ r.pc \notin Ensuring
    BY <2>3, <2>4 DEF Makes, Closes, StartPcs, Ensuring
  <2>6. r.call # "context" /\ r.pc # "closing" /\ r.pc # "child"
    BY <2>3, <2>4
  <2>7. r.ses.cdp \in 1 .. Len(chrome') /\ r.ses.page \in 1 .. Len(page')
    BY <2>1, <2>3
  <2>8. UserNext(o, r)
    BY <1>7, <2>2, <2>3, <2>4, <2>5, <2>6, <2>7, Zenon DEF UserNext
  <2>9. PagesApart'
    BY <1>1, <1>4, <1>6, <1>8, <2>1, <2>3, <2>5, <2>8, PageMade
  <2>10. \A i \in 1 .. Len(chrome') : i \notin 1 .. Len(chrome) =>
           chrome'[i].kind = "window" /\ r.pc = "insert" /\ r.ses.cdp = i
    BY <1>6, <2>1, <2>3
  <2> QED
    BY <1>1, <1>6, <1>7, <1>8, <2>5, <2>8, <2>9, <2>10, QuietNext
<1>9. CASE given
  <2> DEFINE r == Pages!IdleOp
  <2>1. UserNext(o, r) /\ Keeps(o, r) /\ r.pc = "idle"
    BY <1>6, <1>7, <1>9, IdleIs
  <2> HIDE DEF r
  <2>2. PagesApart'
    BY <1>1, <1>6, <1>9, <2>1, PagesNext
  <2>3. \A i \in 1 .. Len(chrome') : i \notin 1 .. Len(chrome) =>
          chrome'[i].kind = "window" /\ i \in let_go'
    BY <1>6, <1>9
  <2>4. r.pc \notin StartPcs
    BY <2>1 DEF StartPcs
  <2> QED
    BY <1>1, <1>6, <1>7, <1>9, <2>1, <2>2, <2>3, <2>4, QuietNext
<1> QED
  BY <1>1, <1>8, <1>9

\* Nobody does anything: a browser may break.
LEMMA StillNext ==
  ASSUME PagesInv, Grown, Len(chrome') = Len(chrome),
         UNCHANGED <<page, daemon, sessions, lock, op, raced, let_go>>
  PROVE  PagesInv'
<1>1. PagesTyped'
  BY DEF PagesInv, PagesTyped, Grown
<1>2. UsersOK'
  BY DEF PagesInv, UsersOK, UserOK, Whole, IsPage, Pages!Chromes
<1>3. PagesApart'
  BY DEF PagesInv, PagesApart, ListedApart, UsedApart, MadeApart, MadeOpen, Listing, Whole, IsPage, Pages!Chromes
<1>4. StartsAlone'
  BY DEF PagesInv, StartsAlone
<1>5. \A i \in 1 .. Len(chrome) : chrome'[i].kind = chrome[i].kind /\ (Pages!Runs(i)' => Pages!Runs(i))
  BY DEF Grown, Pages!Runs
<1>6. Pages!Chromes = 1 .. Len(chrome) /\ Pages!Chromes' = 1 .. Len(chrome)
  BY DEF Pages!Chromes
<1>7. DaemonHeld'
  BY <1>5, <1>6 DEF PagesInv, DaemonHeld
<1>8. WindowHeld'
  BY <1>5, <1>6 DEF PagesInv, WindowHeld
<1> QED
  BY <1>1, <1>2, <1>3, <1>4, <1>7, <1>8 DEF PagesInv

LEMMA BreaksNext ==
  ASSUME PagesInv, NEW i \in Pages!Chromes, Pages!Breaks(i)
  PROVE  PagesInv'
<1>1. PICK state \in {"cut", "dead"} : chrome' = [chrome EXCEPT ![i].state = state]
  BY DEF Pages!Breaks
<1> DEFINE c == [chrome[i] EXCEPT !.state = state]
<1>2. i \in 1 .. Len(chrome) /\ chrome[i] \in ChromeRec /\ chrome[i].state # "dead"
  BY PagesAre DEF Pages!Breaks
<1>3. c \in ChromeRec /\ c.kind = chrome[i].kind
  BY <1>2 DEF ChromeRec
<1>4. chrome' = [chrome EXCEPT ![i] = c]
  BY <1>1
<1> HIDE DEF c
<1>5. /\ chrome' \in Seq(ChromeRec) /\ Len(chrome') = Len(chrome) /\ chrome'[i] = c
      /\ \A j \in 1 .. Len(chrome) : j # i => chrome'[j] = chrome[j]
  BY <1>2, <1>3, <1>4, PagesAre
<1>6. UNCHANGED <<page, daemon, sessions, lock, op, raced, let_go>>
  BY DEF Pages!Breaks, Pages!history
<1>7. Grown
  BY <1>2, <1>3, <1>5, <1>6, PagesAre DEF Grown
<1> QED
  BY <1>5, <1>6, <1>7, StillNext

LEMMA PagesRests ==
  ASSUME PagesInv, UNCHANGED <<ofBrowser, lock, op, page>>
  PROVE  PagesInv'
BY SameGrows, StillNext DEF ofBrowser

LEMMA PagesInit ==
  ASSUME Pages!Init
  PROVE  PagesInv
<1> DEFINE none == /\ chrome = << >> /\ daemon = [child |-> 0, cdp |-> 0] /\ page = << >>
                   /\ sessions = [k \in Keys |-> Pages!NoSession]
<1>1. /\ lock = None /\ op = [o \in Users |-> Pages!IdleOp] /\ raced = FALSE /\ let_go = {}
  BY DEF Pages!Init
<1>2. /\ Pages!IdleOp \in UserRec /\ Pages!IdleOp.pc = "idle" /\ Pages!IdleOp.call = "none"
      /\ Pages!IdleOp.got = 0
  BY DEF Pages!IdleOp, Pages!NoSession, UserRec, SesRec, UserPcs, Ensuring
<1>3. \A o \in Users : op[o] = Pages!IdleOp
  BY <1>1
<1>4. \A o \in Users : ~Makes(op[o]) /\ ~Closes(op[o]) /\ ~Opened(op[o])
  BY <1>2, <1>3 DEF Makes, Closes, Opened
<1>5. \A o \in Users : op[o].pc \notin Ensuring \cup StartPcs \cup {"closing", "insert"}
  BY <1>2, <1>3 DEF Ensuring, StartPcs
<1>6. op \in [Users -> UserRec] /\ Pages!NoSession \in SesRec /\ Pages!NoSession.cdp = 0
  BY <1>1, <1>2 DEF Pages!NoSession, SesRec
<1>7. StartsAlone
  BY <1>5 DEF StartsAlone, StartPcs
<1>8. Len(chrome) \in Nat => UsersOK
  BY <1>2, <1>3, <1>4, <1>5 DEF UsersOK, UserOK, Ensuring
<1>9. CASE none
  <2>1. /\ chrome \in Seq(ChromeRec) /\ page \in Seq(PageRec) /\ Len(chrome) = 0 /\ Len(page) = 0
    BY <1>9
  <2>2. PagesTyped
    <3>1. daemon \in [child : Nat, cdp : Nat] /\ daemon.child = 0 /\ daemon.cdp = 0
      BY <1>9
    <3>2. sessions \in [Keys -> SesRec]
      BY <1>6, <1>9
    <3>3. daemon.child \in 0 .. Len(chrome) /\ daemon.cdp \in 0 .. Len(chrome)
      BY <2>1, <3>1
    <3>4. lock \in Users \cup {None} /\ raced \in BOOLEAN
      BY <1>1
    <3> QED
      BY <1>6, <2>1, <3>1, <3>2, <3>3, <3>4, Zenon DEF PagesTyped
  <2>3. PagesApart
    BY <1>4, <1>9 DEF PagesApart, ListedApart, UsedApart, MadeApart, MadeOpen, Listing
  <2>4. DaemonHeld /\ WindowHeld
    BY <2>1 DEF DaemonHeld, WindowHeld, Pages!Chromes
  <2> QED
    BY <1>7, <1>8, <2>1, <2>2, <2>3, <2>4 DEF PagesInv
<1>10. CASE ~none
  <2> DEFINE c == [kind |-> "daemon", state |-> "alive"]
  <2> DEFINE x == [at |-> 1, state |-> "open"]
  <2> DEFINE s == [cdp |-> 1, page |-> 1]
  <2>1. /\ chrome = <<c>> /\ daemon = [child |-> 1, cdp |-> 1] /\ page = <<x>>
        /\ \E j \in Keys : sessions = [k \in Keys |-> IF k = j THEN s ELSE Pages!NoSession]
    BY <1>10 DEF Pages!Init
  <2>2. PICK j \in Keys : sessions = [k \in Keys |-> IF k = j THEN s ELSE Pages!NoSession]
    BY <2>1
  <2>3. c \in ChromeRec /\ c.kind = "daemon" /\ x \in PageRec /\ x.state = "open" /\ s \in SesRec
        /\ s.cdp = 1 /\ s.page = 1 /\ s # Pages!NoSession
    BY DEF ChromeRec, PageRec, SesRec, Pages!NoSession
  <2> HIDE DEF c, x, s
  <2>4. /\ chrome \in Seq(ChromeRec) /\ page \in Seq(PageRec) /\ Len(chrome) = 1 /\ Len(page) = 1
        /\ chrome[1] = c /\ page[1] = x
    BY <2>1, <2>3
  <2>5. /\ sessions \in [Keys -> SesRec] /\ sessions[j] = s
        /\ \A k \in Keys \ {j} : sessions[k] = Pages!NoSession
    BY <1>6, <2>2, <2>3
  <2>6. PagesTyped
    <3>1. daemon \in [child : Nat, cdp : Nat] /\ daemon.child = 1 /\ daemon.cdp = 1
      BY <2>1
    <3>2. daemon.child \in 0 .. Len(chrome) /\ daemon.cdp \in 0 .. Len(chrome)
      BY <2>4, <3>1
    <3>3. lock \in Users \cup {None} /\ raced \in BOOLEAN
      BY <1>1
    <3> QED
      BY <1>6, <2>4, <2>5, <3>1, <3>2, <3>3, Zenon DEF PagesTyped
  <2>7. PagesApart
    BY <1>4, <2>3, <2>4, <2>5
    DEF PagesApart, ListedApart, UsedApart, MadeApart, MadeOpen, Listing, Whole, IsPage, Pages!Chromes
  <2>8. DaemonHeld /\ WindowHeld
    BY <2>1, <2>3, <2>4 DEF DaemonHeld, WindowHeld, Pages!Chromes
  <2> QED
    BY <1>7, <1>8, <2>4, <2>6, <2>7, <2>8 DEF PagesInv
<1> QED
  BY <1>9, <1>10

LEMMA BrowsersNext ==
  ASSUME PagesInv, Pages!Next
  PROVE  PagesInv'
<1>1. ASSUME NEW o \in Users, NEW kind \in {"navigate", "open", "look", "close"},
             NEW k \in Keys, NEW w \in BOOLEAN, Pages!Begin(o, kind, k, w)
      PROVE  PagesInv'
  BY <1>1, BeginNext
<1>2. ASSUME NEW o \in Users,
             Pages!EnsureMissing(o) \/ Pages!Stop(o) \/ Pages!Spawn(o) \/ Pages!SpawnFails(o)
             \/ Pages!StoreChild(o) \/ Pages!StoreCdp(o) \/ Pages!SendFails(o)
      PROVE  PagesInv'
  BY <1>2, EnsureMissingNext, StopNext, SpawnNext, SpawnFailsNext, StoreNext, SendFailsNext
<1>3. ASSUME NEW o \in Users,
             Pages!Root(o) \/ Pages!CreateContext(o) \/ Pages!CreateTarget(o) \/ Pages!Attach(o)
             \/ Pages!LaunchWindow(o) \/ Pages!CloseTarget(o) \/ Pages!Dispose(o)
             \/ Pages!CloseWindow(o)
      PROVE  PagesInv'
  BY <1>3, RootNext, CreateContextNext, TargetNext, AttachNext, LaunchWindowNext, ClosesNext
<1>4. ASSUME NEW o \in Users,
             Pages!Find(o) \/ Pages!FindNot(o) \/ Pages!Close(o) \/ Pages!Insert(o)
             \/ Pages!Get(o) \/ Pages!Used(o) \/ Pages!UseFails(o) \/ Pages!Abort(o)
      PROVE  PagesInv'
  BY <1>4, FindNext, FindNotNext, CloseNext, InsertNext, GetNext, UsedNext, UseFailsNext, AbortNext
<1>5. ASSUME NEW i \in Pages!Chromes, Pages!Breaks(i)
      PROVE  PagesInv'
  BY <1>5, BreaksNext
<1> QED
  BY <1>1, <1>2, <1>3, <1>4, <1>5 DEF Pages!Next

LEMMA PagesHolds ==
  ASSUME PagesInv
  PROVE  Pages!BrowsersAreHeld /\ Pages!ListedIsOpen
<1>1. Pages!ListedIsOpen
  BY DEF PagesInv, PagesApart, ListedApart, Listing, Pages!ListedIsOpen
<1>2. ASSUME ~raced, NEW i \in Pages!Chromes, Pages!Runs(i), i \notin let_go
      PROVE  Pages!Held(i)
  <2>1. chrome[i].kind \in {"daemon", "window"}
    <3>1. i \in 1 .. Len(chrome) /\ chrome \in Seq(ChromeRec)
      BY PagesAre
    <3>2. chrome[i] \in ChromeRec
      BY <3>1
    <3> QED
      BY <3>2 DEF ChromeRec
  <2>2. CASE chrome[i].kind = "daemon"
    BY <1>2, <2>2 DEF PagesInv, DaemonHeld, Pages!Held
  <2>3. CASE chrome[i].kind = "window"
    BY <1>2, <2>3 DEF PagesInv, WindowHeld, Pages!Held
  <2> QED
    BY <2>1, <2>2, <2>3
<1> QED
  BY <1>1, <1>2 DEF Pages!BrowsersAreHeld

(***************************************************************************)
(* All three parts.                                                        *)
(***************************************************************************)
Inv ==
  /\ part = "mcp" => ServerInv /\ AnswersInv
  /\ part = "commands" => ShellInv
  /\ part = "browser" => PagesInv

LEMMA InvInit ==
  ASSUME PartsAssumption, PartsInit
  PROVE  Inv
BY ServerInit, ShellInit, PagesInit DEF PartsInit, Inv

LEMMA InvNext ==
  ASSUME PartsAssumption, Inv, [PartsNext]_partVars
  PROVE  Inv'
<1>1. part' = part
  BY DEF PartsNext, partVars
<1>2. CASE part = "mcp"
  <2>1. (Server!Next /\ ServerInv /\ AnswersInv)
        \/ (ServerInv /\ AnswersInv /\ UNCHANGED <<ofMcp, lock, op>>)
    BY <1>2 DEF Inv, PartsNext, partVars
  <2> QED
    BY <1>1, <1>2, <2>1, ServerNext, AnswersNext, ServerRests DEF Inv
<1>3. CASE part = "commands"
  <2>1. (Shell!Next /\ ShellInv) \/ (ShellInv /\ UNCHANGED <<ofCommands, proc>>)
    BY <1>3 DEF Inv, PartsNext, partVars
  <2> QED
    BY <1>1, <1>3, <2>1, ShellNext, ShellRests DEF Inv
<1>4. CASE part = "browser"
  <2>1. (Pages!Next /\ PagesInv) \/ (PagesInv /\ UNCHANGED <<ofBrowser, lock, op, page>>)
    BY <1>4 DEF Inv, PartsNext, partVars
  <2> QED
    BY <1>1, <1>4, <2>1, BrowsersNext, PagesRests DEF Inv
<1>5. CASE part \notin {"mcp", "commands", "browser"}
  BY <1>1, <1>5 DEF Inv
<1> QED
  BY <1>2, <1>3, <1>4, <1>5

LEMMA InvHolds ==
  ASSUME Inv
  PROVE  StartedIsHeld
BY ServerHolds, ShellHolds, PagesHolds DEF Inv, StartedIsHeld

(* What the program has started is held where a later stop finds it: a       *)
(* server process by its client or by the command at work on it, a shell     *)
(* command by the table of running commands, a browser by the daemon, by a   *)
(* session, or by the operation that starts or closes it; whatever users do  *)
(* at the same time, and wherever their operations break off; but for the    *)
(* ways of losing it that the histories name (mcp/mod.rs, tools/command.rs,  *)
(* browser/daemon.rs, browser/mod.rs).                                       *)
THEOREM HeldAlways == PartsSpec => []StartedIsHeld
BY PartsAssumption, InvInit, InvNext, InvHolds, PTL DEF PartsSpec
=============================================================================

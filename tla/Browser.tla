------------------------------ MODULE Browser ------------------------------
(***************************************************************************)
(* Browsers: the daemon that is shared by the sessions without a window    *)
(* (browser/daemon.rs), the sessions with their page (session.rs), and the *)
(* manager that keeps one per session of the program (mod.rs).  Callers    *)
(* are tools of the agent and commands of the user (commands.rs).          *)
(*                                                                         *)
(* BrowserDaemon::ensure_running is called before each request and takes   *)
(* no lock over its steps.  A handle that is dropped does not kill its     *)
(* process.  A page stands for a target and its browser context; what it   *)
(* shows and stores is in BrowserStorage.                                  *)
(***************************************************************************)
EXTENDS Naturals, Sequences

CONSTANTS Keys,       \* sessions of the program
          Ops, None,
          MaxChromes, \* processes
          MaxPages,
          MaxCalls    \* of tools and commands

BrowserAssumption ==
  MaxChromes \in Nat /\ MaxPages \in Nat /\ MaxCalls \in Nat /\ None \notin Ops

VARIABLES chrome,   \* the processes: alive, or "cut" when the connection is lost, or dead
          daemon,   \* BrowserDaemon.child and cdp, 0 for none
          page, sessions,
          lock,     \* the holder of the write lock of sessions
          op, calls,
          raced,    \* history: two starts of the daemon overlapped
          let_go    \* history: processes whose start broke off, and windows whose launch or
                    \* closing broke off, or whose session was replaced

vars == <<chrome, daemon, page, sessions, lock, op, calls, raced, let_go>>
browser == <<chrome, daemon, page>>
history == <<calls, raced, let_go>>

NoSession == [cdp |-> 0, page |-> 0]
IdleOp == [pc |-> "idle", kind |-> "look", key |-> None, window |-> FALSE, call |-> "none",
           got |-> 0, ses |-> NoSession, back |-> "end"]
Chromes == 1 .. Len(chrome)

TypeOK ==
  /\ \A i \in Chromes :
       chrome[i].state \in {"alive", "cut", "dead"} /\ chrome[i].kind \in {"daemon", "window"}
  /\ daemon.child \in 0 .. Len(chrome) /\ daemon.cdp \in 0 .. Len(chrome)
  /\ \A p \in 1 .. Len(page) :
       page[p].at \in Chromes /\ page[p].state \in {"context", "open", "closed"}
  /\ \A k \in Keys : sessions[k] # NoSession =>
                       sessions[k].cdp \in Chromes /\ sessions[k].page \in 1 .. Len(page)
  /\ lock \in Ops \cup {None} /\ let_go \subseteq Chromes /\ raced \in BOOLEAN
  /\ \A o \in Ops : lock = o => op[o].ses # NoSession
  /\ Len(chrome) <= MaxChromes /\ Len(page) <= MaxPages

\* nothing has been started, or one session has its page
Init ==
  /\ \/ /\ chrome = << >> /\ daemon = [child |-> 0, cdp |-> 0] /\ page = << >>
        /\ sessions = [k \in Keys |-> NoSession]
     \/ /\ chrome = <<[kind |-> "daemon", state |-> "alive"]>> /\ daemon = [child |-> 1, cdp |-> 1]
        /\ page = <<[at |-> 1, state |-> "open"]>>
        /\ \E j \in Keys :
             sessions = [k \in Keys |-> IF k = j THEN [cdp |-> 1, page |-> 1] ELSE NoSession]
  /\ lock = None /\ op = [o \in Ops |-> IdleOp] /\ calls = 0 /\ raced = FALSE /\ let_go = {}

Runs(i) == i # 0 /\ chrome[i].state # "dead"
Linked(i) == i # 0 /\ chrome[i].state = "alive"
Windowed(s) == chrome[s.cdp].kind = "window"

\* BrowserSession::is_alive: the page is asked for over the session's own connection
Alive(s) == /\ s # NoSession /\ Linked(s.cdp)
            /\ page[s.page].at = s.cdp /\ page[s.page].state = "open"

Goto(o, pc) == op' = [op EXCEPT ![o].pc = pc]
Ends(o) == op' = [op EXCEPT ![o] = IdleOp]
Call(o, call) == op' = [op EXCEPT ![o].pc = "check", ![o].call = call, ![o].got = 0]
Uses(o, s) ==
  op' = [op EXCEPT ![o] =
           [IdleOp EXCEPT !.pc = "use", !.kind = op[o].kind, !.key = op[o].key, !.ses = s]]

----------------------------------------------------------------------------
(* BrowserDaemon::ensure_running                                           *)

Starting == {o \in Ops : op[o].pc \in {"stop", "spawn", "child", "cdp"}}

\* the browser the next request goes to: the daemon, or what was just started
Found == Runs(daemon.child) /\ Linked(daemon.cdp)
To(o) ==
  CASE op[o].pc = "check" /\ Found -> daemon.cdp [] op[o].pc = "send" -> op[o].got [] OTHER -> 0

EnsureMissing(o) ==
  /\ op[o].pc = "check" /\ ~Found
  /\ Goto(o, "stop") /\ raced' = (raced \/ Starting # {})
  /\ UNCHANGED <<browser, sessions, lock, calls, let_go>>

StopChild ==
  chrome' = IF daemon.child = 0 THEN chrome ELSE [chrome EXCEPT ![daemon.child].state = "dead"]

Stop(o) ==
  /\ op[o].pc = "stop" /\ StopChild /\ daemon' = [child |-> 0, cdp |-> 0]
  /\ Goto(o, "spawn")
  /\ UNCHANGED <<page, sessions, lock, history>>

New(kind) ==
  Len(chrome) < MaxChromes /\ chrome' = Append(chrome, [kind |-> kind, state |-> "alive"])

Spawn(o) ==
  /\ op[o].pc = "spawn" /\ New("daemon")
  /\ op' = [op EXCEPT ![o].pc = "child", ![o].got = Len(chrome')]
  /\ UNCHANGED <<daemon, page, sessions, lock, history>>

StoreChild(o) ==
  /\ op[o].pc = "child" /\ daemon' = [daemon EXCEPT !.child = op[o].got] /\ Goto(o, "cdp")
  /\ UNCHANGED <<chrome, page, sessions, lock, history>>

StoreCdp(o) ==
  /\ op[o].pc = "cdp" /\ daemon' = [daemon EXCEPT !.cdp = op[o].got] /\ Goto(o, "send")
  /\ UNCHANGED <<chrome, page, sessions, lock, history>>

----------------------------------------------------------------------------
(* BrowserSession::launch and close                                        *)

LaunchCalls == {"root", "context", "target", "attach"}

Launching(r) ==
  [r EXCEPT !.pc = IF r.window THEN "window" ELSE "check", !.call = "root",
            !.ses = NoSession, !.got = 0, !.back = "end"]

\* the session is closed: a replacement is launched, or that was it
Closed(o) ==
  /\ lock' = None
  /\ op' = [op EXCEPT ![o] = IF @.back = "launch" THEN Launching(@) ELSE IdleOp]

\* A launch returns at the first error and leaves what it has made; a close goes on.
Failed(o) ==
  IF op[o].call \in LaunchCalls THEN Ends(o) /\ UNCHANGED lock
  ELSE IF op[o].call = "close" THEN Call(o, "dispose") /\ UNCHANGED lock
  ELSE Closed(o)

\* No browser is found, none answers within 12 seconds (it is killed), or its
\* connection cannot be opened (it is not).
SpawnFails(o) ==
  /\ op[o].pc = "spawn" /\ Failed(o)
  /\ \/ UNCHANGED chrome /\ UNCHANGED let_go
     \/ New("daemon") /\ let_go' = let_go \cup {Len(chrome')}
  /\ UNCHANGED <<daemon, page, sessions, calls, raced>>

SendFails(o) ==
  /\ op[o].pc \in {"check", "send"} /\ op[o].call # "root" /\ Failed(o)
  /\ UNCHANGED <<browser, sessions, history>>

Root(o) ==
  /\ To(o) # 0 /\ op[o].call = "root"
  /\ op' = [op EXCEPT ![o].pc = "check", ![o].call = "context", ![o].ses.cdp = To(o), ![o].got = 0]
  /\ UNCHANGED <<browser, sessions, lock, history>>

\* a request on the page of the session is answered by the browser that has it
Has(o) == Linked(To(o)) /\ page[op[o].ses.page].at = To(o)
Becomes(o, state) == page' = [page EXCEPT ![op[o].ses.page].state = state]

CreateContext(o) ==
  /\ op[o].call = "context" /\ Linked(To(o)) /\ Len(page) < MaxPages
  /\ page' = Append(page, [at |-> To(o), state |-> "context"])
  /\ op' = [op EXCEPT ![o].pc = "check", ![o].call = "target", ![o].ses.page = Len(page'), ![o].got = 0]
  /\ UNCHANGED <<chrome, daemon, sessions, lock, history>>

CreateTarget(o) ==
  /\ op[o].call = "target" /\ Has(o) /\ Becomes(o, "open") /\ Call(o, "attach")
  /\ UNCHANGED <<chrome, daemon, sessions, lock, history>>

Attach(o) ==
  /\ op[o].call = "attach" /\ Has(o)
  /\ op' = [op EXCEPT ![o].pc = "insert", ![o].call = "none", ![o].got = 0]
  /\ UNCHANGED <<browser, sessions, lock, history>>

\* a browser of its own, with one page; when its page cannot be had, it stays
LaunchWindow(o) ==
  /\ op[o].pc = "window" /\ New("window") /\ Len(page) < MaxPages
  /\ \/ /\ page' = Append(page, [at |-> Len(chrome'), state |-> "open"])
        /\ op' = [op EXCEPT ![o].pc = "insert", ![o].ses = [cdp |-> Len(chrome'), page |-> Len(page')]]
        /\ UNCHANGED let_go
     \/ Ends(o) /\ UNCHANGED page /\ let_go' = let_go \cup {Len(chrome')}
  /\ UNCHANGED <<daemon, sessions, lock, calls, raced>>

CloseTarget(o) ==
  /\ op[o].call = "close" /\ Has(o) /\ Becomes(o, "context") /\ Call(o, "dispose")
  /\ UNCHANGED <<chrome, daemon, sessions, lock, history>>

Dispose(o) ==
  /\ op[o].call = "dispose" /\ Has(o) /\ Becomes(o, "closed") /\ Closed(o)
  /\ UNCHANGED <<chrome, daemon, sessions, history>>

CloseWindow(o) ==
  LET s == op[o].ses IN
  /\ op[o].pc = "closing" /\ chrome' = [chrome EXCEPT ![s.cdp].state = "dead"]
  /\ Becomes(o, "closed") /\ Closed(o)
  /\ UNCHANGED <<daemon, sessions, history>>

----------------------------------------------------------------------------
(* BrowserManager                                                          *)

\* browser_navigate, browser_navigate_url, the tools that look or touch, browser_close
Begin(o, kind, k, window) ==
  /\ op[o].pc = "idle" /\ calls < MaxCalls /\ calls' = calls + 1 /\ (window => kind = "navigate")
  /\ op' = [op EXCEPT ![o].pc = CASE kind \in {"navigate", "open"} -> "find"
                                  [] kind = "look" -> "get" [] OTHER -> "close",
                      ![o].kind = kind, ![o].key = k, ![o].window = window]
  /\ UNCHANGED <<browser, sessions, lock, raced, let_go>>

Find(o) ==
  LET s == sessions[op[o].key] IN
  /\ op[o].pc = "find" /\ lock = None /\ Alive(s)
  /\ Uses(o, s)
  /\ UNCHANGED <<browser, sessions, lock, history>>

\* it is not there, or does not answer in half a second
FindNot(o) ==
  /\ op[o].pc = "find" /\ lock = None
  /\ op' = [op EXCEPT ![o].pc = "close", ![o].back = "launch"]
  /\ UNCHANGED <<browser, sessions, lock, history>>

Unlist(k) == sessions' = [sessions EXCEPT ![k] = NoSession]

\* The write lock is held until the session is closed. What its page has stored
\* is saved first (BrowserStorage).
Close(o) ==
  LET s == sessions[op[o].key] IN
  /\ op[o].pc = "close" /\ lock = None
  /\ IF s = NoSession
     THEN Closed(o) /\ UNCHANGED sessions
     ELSE /\ Unlist(op[o].key) /\ lock' = o
          /\ op' = [op EXCEPT ![o].pc = IF Windowed(s) THEN "closing" ELSE "check",
                              ![o].call = "close", ![o].ses = s]
  /\ UNCHANGED <<browser, history>>

\* the windows among what a session that is dropped ran on: they stay, with no handle
Windows(i) == {j \in {i} \cap Chromes : chrome[j].kind = "window"}

\* what is replaced is dropped
Insert(o) ==
  /\ op[o].pc = "insert" /\ lock = None
  /\ sessions' = [sessions EXCEPT ![op[o].key] = op[o].ses]
  /\ let_go' = let_go \cup Windows(sessions[op[o].key].cdp)
  /\ Uses(o, op[o].ses)
  /\ UNCHANGED <<browser, lock, calls, raced>>

\* the session's own page, or any page that lives
Get(o) ==
  LET own == sessions[op[o].key]
      found == IF Alive(own) THEN {own} ELSE {s \in {sessions[k] : k \in Keys} : Alive(s)}
  IN /\ op[o].pc = "get" /\ lock = None
     /\ \/ \E s \in found : Uses(o, s)
        \/ found = {} /\ Ends(o)
     /\ UNCHANGED <<browser, sessions, lock, history>>

Used(o) ==
  /\ op[o].pc = "use" /\ Alive(op[o].ses) /\ Ends(o)
  /\ UNCHANGED <<browser, sessions, lock, history>>

\* A tool closes what is listed now: after any error of a navigation, otherwise
\* when the connection is gone.
UseFails(o) ==
  /\ op[o].pc = "use"
  /\ IF op[o].kind = "navigate" \/ (op[o].kind = "look" /\ ~Linked(op[o].ses.cdp))
     THEN op' = [op EXCEPT ![o].pc = "close", ![o].back = "end", ![o].ses = NoSession] ELSE Ends(o)
  /\ UNCHANGED <<browser, sessions, lock, history>>

\* The run of the caller is stopped: its locals are dropped.
Abort(o) ==
  /\ op[o].pc # "idle" /\ op[o].kind # "open"
  /\ let_go' = let_go \cup (IF op[o].pc = "child" THEN {op[o].got}
                           ELSE IF op[o].pc = "insert" \/ lock = o THEN Windows(op[o].ses.cdp)
                           ELSE {})
  /\ lock' = IF lock = o THEN None ELSE lock
  /\ Ends(o)
  /\ UNCHANGED <<browser, sessions, calls, raced>>

\* A browser crashes or is closed by the user; or the connection to it breaks.
Breaks(i) ==
  /\ chrome[i].state # "dead"
  /\ \E state \in {"cut", "dead"} : chrome' = [chrome EXCEPT ![i].state = state]
  /\ UNCHANGED <<daemon, page, sessions, lock, op, history>>

----------------------------------------------------------------------------

Next ==
  \/ \E o \in Ops, kind \in {"navigate", "open", "look", "close"}, k \in Keys, w \in BOOLEAN :
       Begin(o, kind, k, w)
  \/ \E o \in Ops :
       \/ EnsureMissing(o) \/ Stop(o) \/ Spawn(o) \/ SpawnFails(o)
       \/ StoreChild(o) \/ StoreCdp(o) \/ SendFails(o)
       \/ Root(o) \/ CreateContext(o) \/ CreateTarget(o) \/ Attach(o)
       \/ LaunchWindow(o) \/ CloseTarget(o) \/ Dispose(o) \/ CloseWindow(o)
       \/ Find(o) \/ FindNot(o) \/ Close(o) \/ Insert(o) \/ Get(o)
       \/ Used(o) \/ UseFails(o) \/ Abort(o)
  \/ \E i \in Chromes : Breaks(i)

Spec == Init /\ [][Next]_vars

----------------------------------------------------------------------------

\* A browser that runs can still be stopped: the daemon has it, a session has
\* it, or an operation at work on it. What is lost: a daemon whose start broke
\* off before it was stored, a window whose launch or closing broke off or whose
\* session was replaced, and all that overlapping starts of the daemon leave.
Held(i) ==
  \/ daemon.child = i
  \/ \E k \in Keys : sessions[k].cdp = i
  \/ \E o \in Ops : op[o].ses.cdp = i \/ op[o].got = i
BrowsersAreHeld ==
  ~raced => \A i \in Chromes : Runs(i) /\ i \notin let_go => Held(i)

\* What the manager lists was not closed by the program, whichever tools and
\* commands close, replace and fall back at the same time.
ListedIsOpen ==
  \A k \in Keys : sessions[k] # NoSession => page[sessions[k].page].state = "open"
=============================================================================

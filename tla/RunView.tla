------------------------------ MODULE RunView ------------------------------
(* What a window shows of a run: SnapshotStore of snapshot.rs, which         *)
(* AppState::emit keeps beside the stream of events, and the part of the     *)
(* window's store (src/store.ts) that puts history, snapshot and events      *)
(* together. A window may be away from the session (the deltas it gets are   *)
(* then thrown away), and comes back with two requests whose answers may be  *)
(* overtaken by events. The task of a stopped run finishes the section it is *)
(* in: it may still write once.                                              *)
(* A delta is the pair of the attempt and its number in it; messages and     *)
(* cards are numbered. Left out: reasoning, which is kept as the text is,    *)
(* the phase of a step, the compaction card, which is in Context, rows of    *)
(* the user, reloads of the whole list.                                      *)
EXTENDS Naturals, Sequences

CONSTANTS MaxMsgs, MaxChunks, MaxTries, MaxCards, MaxBeside, MaxPipe, None

RunViewAssumption ==
  /\ {MaxMsgs, MaxChunks, MaxCards, MaxBeside, MaxPipe} \subseteq Nat
  /\ MaxTries \in Nat \ {0}
  /\ None \notin Nat

VARIABLES run,      \* the task that runs: run_loop and its run_once
          tail,     \* the section an aborted task is in
          halting,  \* a stop has aborted and has not yet told
          snap,     \* SnapshotStore, the session's entry
          db,       \* the messages, by number
          pipe,     \* events on their way to the window
          here,     \* the window shows the session
          page,     \* history: not asked, asked, read and on its way
          resp,     \* snapshot: the same
          view,     \* the messages the window has
          buf,      \* activeStreamBuffer
          shown,    \* approvals, the cards
          loose,    \* messages begun again, or finished with no event that says so
          counts    \* [card, stops, beside]

backend == <<run, tail, halting, snap, db>>
window == <<here, page, resp, view, buf, shown>>
vars == <<backend, pipe, window, loose, counts>>

Msgs == 1 .. MaxMsgs
Cards == 1 .. MaxCards

Fresh == [running |-> FALSE, msg |-> None, text |-> << >>, tools |-> {},
          card |-> None]
IdleRun == [pc |-> "idle", msg |-> None, try |-> 1, text |-> << >>, n |-> 0,
            card |-> None, tail |-> FALSE]

\* Cards, retries, failures, stops and visits, at most MaxBeside of them.
Beside(c) == c.beside < MaxBeside /\ counts' = [c EXCEPT !.beside = @ + 1]

\* An answer to the window: not asked for, asked for, on its way.
NoAnswer == [at |-> "none", what |-> None]
Asked == [NoAnswer EXCEPT !.at = "asked"]
Read(x) == [at |-> "read", what |-> x]

Init ==
  /\ run = IdleRun /\ tail = None /\ halting = FALSE
  /\ snap = Fresh
  /\ db = << >> /\ pipe = << >>
  /\ here = TRUE /\ page = NoAnswer /\ resp = NoAnswer
  /\ view = [m \in Msgs |-> None] /\ buf = None /\ shown = {}
  /\ loose = {} /\ counts = [card |-> 0, stops |-> 0, beside |-> 0]

-----------------------------------------------------------------------------
(* The snapshot: one operation of SnapshotStore each.                        *)
StartRun(s) == [Fresh EXCEPT !.running = TRUE]
FinishRun(s) == Fresh
TransitionKept(s, m) ==
  [s EXCEPT !.running = TRUE, !.msg = m]
TransitionToStep(s, m) ==
  [s EXCEPT !.running = TRUE, !.msg = m, !.text = << >>]
FinishStep(s) == [s EXCEPT !.text = << >>]
AppendContentDelta(s, m, d) ==
  [s EXCEPT !.msg = m, !.text = IF s.msg = m THEN Append(@, d) ELSE <<d>>]
UpsertToolEvent(s, m) == [s EXCEPT !.tools = @ \cup {m}]
RemoveToolEvent(s, m) == [s EXCEPT !.tools = @ \ {m}]
SetPendingApproval(s, c) == [s EXCEPT !.card = c]

Event(k, m, x) == [kind |-> k, msg |-> m, data |-> x]
\* At most MaxPipe events are on their way.
Emit(es) == Len(pipe) + Len(es) <= MaxPipe /\ pipe' = pipe \o es

-----------------------------------------------------------------------------
(* The task. r is run, or the tail of an aborted one.                        *)
Task(r) == r # None /\ r \in {run, tail}
Becomes(r, q) ==
  IF r.tail THEN tail' = None /\ UNCHANGED run ELSE run' = q /\ UNCHANGED tail
TaskOnly == UNCHANGED <<halting, window>>

\* run_loop: the run is marked active and announced.
Start ==
  /\ run.pc = "idle" /\ Len(db) < MaxMsgs
  /\ run' = [IdleRun EXCEPT !.pc = "next"]
  /\ snap' = StartRun(snap) /\ Emit(<<Event("run", None, TRUE)>>)
  /\ TaskOnly /\ UNCHANGED <<tail, db, loose, counts>>

\* The row of the answer is made before the stream begins.
BeginStep(r) ==
  /\ r.pc = "next" /\ Len(db) < MaxMsgs
  /\ LET m == Len(db) + 1
     IN /\ db' = Append(db, << >>)
        /\ snap' = TransitionToStep(snap, m)
        /\ Emit(<<Event("step", m, None)>>)
        /\ Becomes(r, [r EXCEPT !.pc = "stream", !.msg = m, !.try = 1,
                                !.text = << >>, !.n = 0])
  /\ TaskOnly /\ UNCHANGED <<loose, counts>>

Delta(r) ==
  /\ r.pc = "stream" /\ r.n < MaxChunks
  /\ LET d == <<r.try, r.n + 1>>
     IN /\ snap' = AppendContentDelta(snap, r.msg, d)
        /\ Emit(<<Event("delta", r.msg, d)>>)
        /\ Becomes(r, [r EXCEPT !.n = @ + 1, !.text = Append(@, d)])
  /\ TaskOnly /\ UNCHANGED <<db, loose, counts>>

\* The connection breaks: the row and the window are emptied, the snapshot is not.
Retry(r) ==
  /\ r.pc = "stream" /\ r.try < MaxTries
  /\ Emit(<<Event("reset", r.msg, None)>>)
  /\ loose' = loose \cup {r.msg}
  /\ Becomes(r, [r EXCEPT !.try = @ + 1, !.text = << >>, !.n = 0])
  /\ Beside(counts) /\ TaskOnly /\ UNCHANGED <<snap, db>>

Fails(r) ==
  /\ r.pc = "stream"
  /\ db' = [db EXCEPT ![r.msg] = IF @ = << >> THEN None ELSE @]
  /\ Becomes(r, [r EXCEPT !.pc = "end"])
  /\ Beside(counts) /\ TaskOnly /\ UNCHANGED <<snap, pipe, loose>>

Final(r) == db' = [db EXCEPT ![r.msg] = r.text] /\ Emit(<<Event("final", r.msg, r.text)>>)
\* A text without a call of a tool ends the turn.
Deliver(r) ==
  /\ r.pc = "stream" /\ r.text # << >>
  /\ Final(r) /\ snap' = FinishStep(snap)
  /\ Becomes(r, [r EXCEPT !.pc = "end"])
  /\ TaskOnly /\ UNCHANGED <<loose, counts>>
\* The check before the delivery fails (a run that changed code makes it, twice at
\* most: left open): the text is stored without an event, a row of the user with
\* the output is put behind it, and the run goes on.
SopFails(r) ==
  /\ r.pc = "stream" /\ r.text # << >>
  /\ db' = [db EXCEPT ![r.msg] = r.text] /\ loose' = loose \cup {r.msg}
  /\ Becomes(r, [r EXCEPT !.pc = IF Len(db) < MaxMsgs THEN "next" ELSE "end"])
  /\ TaskOnly /\ UNCHANGED <<snap, pipe, counts>>
CallTool(r) ==
  /\ r.pc = "stream"
  /\ Final(r)
  /\ Becomes(r, [r EXCEPT !.pc = "call"])
  /\ TaskOnly /\ UNCHANGED <<snap, loose, counts>>

\* request_approval: the event of the call, then the request.
Ask(r) ==
  /\ r.pc = "call" /\ counts.card < MaxCards
  /\ LET c == counts.card + 1
     IN /\ Beside([counts EXCEPT !.card = c])
        /\ snap' = SetPendingApproval(UpsertToolEvent(snap, r.msg), c)
        /\ Emit(<<Event("approval", None, c)>>)
        /\ Becomes(r, [r EXCEPT !.pc = "waits", !.card = c])
  /\ TaskOnly /\ UNCHANGED <<db, loose>>
Execute(r) ==
  /\ r.pc \in {"call", "allowed"}
  /\ snap' = UpsertToolEvent(snap, r.msg)
  /\ Becomes(r, [r EXCEPT !.pc = "runs"])
  /\ TaskOnly /\ UNCHANGED <<db, pipe, loose, counts>>
Finish(r) ==
  /\ r.pc \in {"runs", "denied"}
  /\ snap' = RemoveToolEvent(snap, r.msg)
  /\ Becomes(r, [r EXCEPT !.pc = IF Len(db) < MaxMsgs THEN "next" ELSE "end"])
  /\ TaskOnly /\ UNCHANGED <<db, pipe, loose, counts>>

\* At the limit of steps the run is announced as pending, then the user asked.
AskSteps(r) ==
  /\ r.pc = "next" /\ counts.card < MaxCards
  /\ LET c == counts.card + 1
     IN /\ Beside([counts EXCEPT !.card = c])
        /\ snap' = SetPendingApproval(FinishRun(snap), c)
        /\ Emit(<<Event("run", None, FALSE), Event("approval", None, c)>>)
        /\ Becomes(r, [r EXCEPT !.pc = "waitsSteps", !.card = c])
  /\ TaskOnly /\ UNCHANGED <<db, loose>>
Granted(r) ==
  /\ r.pc = "granted"
  /\ snap' = StartRun(snap) /\ Emit(<<Event("run", None, TRUE)>>)
  /\ Becomes(r, [r EXCEPT !.pc = "next"])
  /\ TaskOnly /\ UNCHANGED <<db, loose, counts>>

End(r) ==
  /\ r.pc = "end"
  /\ snap' = FinishRun(snap) /\ Emit(<<Event("run", None, FALSE)>>)
  /\ Becomes(r, IdleRun)
  /\ TaskOnly /\ UNCHANGED <<db, loose, counts>>

TaskStep(r) ==
  /\ Task(r)
  /\ \/ BeginStep(r) \/ Delta(r) \/ Retry(r) \/ Fails(r) \/ Deliver(r)
     \/ SopFails(r) \/ CallTool(r) \/ Ask(r) \/ Execute(r) \/ Finish(r) \/ AskSteps(r)
     \/ Granted(r) \/ End(r)

\* stop_session: the task is aborted, then the end of the run is told.
Stop ==
  /\ run.pc # "idle" /\ ~halting /\ Beside([counts EXCEPT !.stops = 1])
  /\ run' = IdleRun /\ tail' = [run EXCEPT !.tail = TRUE] /\ halting' = TRUE
  /\ UNCHANGED <<snap, db, pipe, window, loose>>
Drop ==
  /\ tail # None /\ tail' = None
  /\ UNCHANGED <<run, halting, snap, db, pipe, window, loose, counts>>
TellStopped ==
  /\ halting /\ halting' = FALSE
  /\ snap' = FinishRun(snap) /\ Emit(<<Event("run", None, FALSE)>>)
  /\ UNCHANGED <<run, tail, db, window, loose, counts>>

-----------------------------------------------------------------------------
(* The user: a click on a card, a switch to full access, a timeout.          *)
Waiting(c) == run.pc \in {"waits", "waitsSteps"} /\ run.card = c
Answer(yes) ==
  run' = [run EXCEPT !.pc = CASE @ = "waits" -> IF yes THEN "allowed" ELSE "denied"
                              [] OTHER -> IF yes THEN "granted" ELSE "end"]
Respond ==
  /\ \E c \in shown : \E yes \in BOOLEAN :
       /\ shown' = shown \ {c}
       /\ IF Waiting(c) THEN Answer(yes) ELSE UNCHANGED run
  /\ UNCHANGED <<tail, halting, snap, db, pipe, here, page, resp, view, buf, loose, counts>>
\* The event names no session: update_snapshot does not clear the request.
Release ==
  /\ run.pc \in {"waits", "waitsSteps"}
  /\ Answer(run.pc = "waits")
  /\ Emit(<<Event("resolved", None, run.card)>>)
  /\ UNCHANGED <<tail, halting, snap, db, window, loose, counts>>
TimeOut ==
  /\ run.pc = "waits" /\ Answer(FALSE)
  /\ UNCHANGED <<tail, halting, snap, db, pipe, window, loose, counts>>

-----------------------------------------------------------------------------
(* The window.                                                               *)
WindowOnly == UNCHANGED <<backend, loose>>

Leave ==
  /\ here /\ here' = FALSE /\ page' = NoAnswer
  /\ WindowOnly /\ UNCHANGED <<pipe, resp, view, buf, shown, counts>>
\* selectSession asks for the last turns, then for the snapshot.
Select ==
  /\ ~here /\ Beside(counts)
  /\ here' = TRUE /\ page' = Asked
  /\ WindowOnly /\ UNCHANGED <<pipe, resp, view, buf, shown>>
ReadPage ==
  /\ page = Asked /\ page' = Read(db)
  /\ WindowOnly /\ UNCHANGED <<pipe, here, resp, view, buf, shown, counts>>
\* mergeSessionMessages: the longer text stays.
Longer(v, t) == IF v = None \/ Len(v) < Len(t) THEN t ELSE v
ApplyPage ==
  /\ page.at = "read" /\ resp = NoAnswer
  /\ view' = [m \in Msgs |-> IF m \in DOMAIN page.what /\ page.what[m] # None
                               THEN Longer(view[m], page.what[m]) ELSE view[m]]
  /\ page' = NoAnswer /\ resp' = Asked
  /\ WindowOnly /\ UNCHANGED <<pipe, here, buf, shown, counts>>
GetSnapshot ==
  /\ resp = Asked /\ resp' = Read(snap)
  /\ WindowOnly /\ UNCHANGED <<pipe, here, page, view, buf, shown, counts>>
\* syncSessionActiveState: no test of what was told meanwhile but the length.
Taken(v, t) == IF t # << >> /\ Len(t) >= Len(v) THEN t ELSE v
Sync ==
  /\ resp.at = "read" /\ resp' = NoAnswer
  /\ shown' = IF resp.what.card = None THEN shown ELSE shown \cup {resp.what.card}
  /\ view' = [m \in Msgs |-> IF resp.what.running /\ resp.what.msg = m /\ view[m] # None
                               THEN Taken(view[m], resp.what.text) ELSE view[m]]
  /\ WindowOnly /\ UNCHANGED <<pipe, here, page, buf, counts>>

\* flushStreamBuffer: a message that is not there is made.
Flushed == IF buf = None THEN view
           ELSE [view EXCEPT ![buf.msg] = IF @ = None THEN buf.text ELSE @ \o buf.text]
Flush ==
  /\ buf # None /\ buf' = None /\ view' = Flushed
  /\ WindowOnly /\ UNCHANGED <<pipe, here, page, resp, shown, counts>>

Next1(kind) == pipe # << >> /\ Head(pipe).kind = kind /\ pipe' = Tail(pipe)
E == Head(pipe)
OnDelta ==
  /\ Next1("delta")
  /\ LET same == buf # None /\ buf.msg = E.msg
     IN IF ~here THEN UNCHANGED <<buf, view>>
        ELSE /\ buf' = [msg |-> E.msg, text |-> (IF same THEN buf.text ELSE << >>) \o <<E.data>>]
             /\ view' = IF same THEN view ELSE Flushed
  /\ WindowOnly /\ UNCHANGED <<here, page, resp, shown, counts>>
OnStep ==
  /\ Next1("step") /\ buf' = None /\ view' = Flushed
  /\ WindowOnly /\ UNCHANGED <<here, page, resp, shown, counts>>
\* What is buffered is not thrown away.
OnReset ==
  /\ Next1("reset")
  /\ view' = [view EXCEPT ![E.msg] = IF @ = None THEN None ELSE << >>]
  /\ WindowOnly /\ UNCHANGED <<here, page, resp, buf, shown, counts>>
BufAtFinal(m) == IF buf # None /\ buf.msg = m THEN None ELSE buf
OnFinal ==
  /\ Next1("final")
  /\ view' = [view EXCEPT ![E.msg] = E.data]
  /\ buf' = BufAtFinal(E.msg)
  /\ WindowOnly /\ UNCHANGED <<here, page, resp, shown, counts>>
OnApproval ==
  /\ \/ Next1("approval") /\ shown' = shown \cup {E.data}
     \/ Next1("resolved") /\ shown' = shown \ {E.data}
  /\ WindowOnly /\ UNCHANGED <<here, page, resp, view, buf, counts>>
OnRun == Next1("run") /\ WindowOnly /\ UNCHANGED <<window, counts>>

Next ==
  \/ Start \/ TaskStep(run) \/ TaskStep(tail) \/ Stop \/ Drop \/ TellStopped
  \/ Respond \/ Release \/ TimeOut
  \/ Leave \/ Select \/ ReadPage \/ ApplyPage \/ GetSnapshot \/ Sync \/ Flush
  \/ OnDelta \/ OnStep \/ OnReset \/ OnFinal \/ OnApproval \/ OnRun

Spec == Init /\ [][Next]_vars

-----------------------------------------------------------------------------
Pcs == {"idle", "next", "stream", "call", "waits", "allowed", "denied", "runs",
        "waitsSteps", "granted", "end"}
TaskOK(r) ==
  /\ r.pc \in Pcs /\ r.msg \in Msgs \cup {None} /\ r.try \in 1 .. MaxTries
  /\ r.n \in 0 .. MaxChunks /\ r.card \in Cards \cup {None}
Ordered(t) == \A i, j \in DOMAIN t :
  i < j => t[i][1] < t[j][1] \/ (t[i][1] = t[j][1] /\ t[i][2] < t[j][2])

(* Every variable stays in its range.                                        *)
TypeOK ==
  /\ TaskOK(run) /\ ~run.tail
  /\ tail # None => TaskOK(tail) /\ tail.tail
  /\ halting \in BOOLEAN /\ here \in BOOLEAN
  /\ snap.msg \in Msgs \cup {None} /\ snap.tools \subseteq Msgs
  /\ snap.card \in Cards \cup {None}
  /\ shown \subseteq Cards /\ loose \subseteq Msgs
  /\ buf # None => buf.msg \in Msgs /\ buf.text # << >>

(* The text of the snapshot is of one message, its pieces in order and each   *)
(* once: nothing of an earlier step or of another attempt at a later place,   *)
(* whatever an aborted task still writes ("no thoughts of the last step are   *)
(* left over").                                                               *)
SnapshotIsOneStep == Ordered(snap.text)

Quiet == pipe = << >> /\ buf = None /\ page = NoAnswer /\ resp = NoAnswer

(* When all that was sent has arrived, a message that was finished reads in   *)
(* the window as in the file, although the window was away, merged a history  *)
(* and a snapshot into what it had, and held deltas back. Not so a message    *)
(* whose stream was begun again (the snapshot keeps the first attempt), nor   *)
(* one whose delivery the SOP check refused: its text is stored and no event  *)
(* brings it, so that a window that missed some of its deltas may have read   *)
(* the history before and the snapshot after, and keeps a part of it.         *)
FinishedReadsRight ==
  Quiet => \A m \in DOMAIN db \ loose :
             db[m] \notin {None, << >>} => view[m] = db[m]

(* A window that has come back to the session and has all its answers shows   *)
(* the card the run waits for, whether the request came before it left, while *)
(* it was away, or between its two questions.                                 *)
AskedIsShown ==
  Quiet /\ here /\ run.pc \in {"waits", "waitsSteps"} /\ counts.stops = 0
    => run.card \in shown
=============================================================================

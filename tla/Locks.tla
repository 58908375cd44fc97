-------------------------------- MODULE Locks --------------------------------
(***************************************************************************)
(* The mutexes of AppState (lib.rs) and who takes which while holding      *)
(* which. They are parking_lot mutexes: not reentrant, and a thread that   *)
(* waits for one that is never released waits for ever, and with it        *)
(* whoever waits for what it holds.                                        *)
(*                                                                         *)
(* An operation is the set of its nested sections: a sequence of locks,    *)
(* each taken under those before it. The sections of an operation that are *)
(* not nested in each other hold nothing in common, so they are taken in   *)
(* any order, and any number of times: who holds what while waiting for    *)
(* what, which is all a deadlock is made of, is the same. The data         *)
(* directory is set, as the window that asks for it guarantees.            *)
(***************************************************************************)
EXTENDS Integers, Sequences, FiniteSets

CONSTANTS
  Workers,
  Sessions,   \* each has a connection in the SessionPool, behind a mutex
  Fresh,      \* the session a fork creates: nobody else knows its id yet
  Ops         \* the operations that run in this instance

Fields == {"db", "masterKey", "handles", "activeRun", "abort", "approvals",
           "dataDir", "pool", "cache"}

ASSUME LocksAssumption == Sessions \cap Fields = {} /\ Fresh \notin Sessions \cup Fields

Lock == Fields \cup Sessions \cup {Fresh}

VARIABLES
  chain,   \* per thread: the nested section it is in
  depth    \* per thread: how many of its locks it holds

lockVars == <<chain, depth>>

-----------------------------------------------------------------------------
(* The operations.                                                         *)

Only(l) == {<<l>>}
Under(l, sections) == {<<l>> \o c : c \in sections}

\* with_session_db: the data directory, the pool, then the connection held
\* while the closure runs.
Session(s, inner) ==
  Only("dataDir") \cup Only("pool") \cup Only(s) \cup Under(s, inner)

IsRunActive == Under("handles", Only("activeRun"))
SpawnSessionTask == IsRunActive \cup Under("handles", Only("abort"))
StopSession(s) ==
  Only("approvals") \cup SpawnSessionTask \cup Session(s, {})

\* send_message: a temporary space reads the data directory under db.
SendMessage(s) ==
  Only("db") \cup Under("db", Only("dataDir")) \cup IsRunActive
    \cup Session(s, {}) \cup Only("cache") \cup SpawnSessionTask
EditAndResend(s) ==
  IsRunActive \cup Under("db", Only("dataDir")) \cup Session(s, {})
    \cup SpawnSessionTask
DeleteSession(s) ==
  StopSession(s) \cup Only("pool") \cup Under("db", Only("dataDir"))

SwitchMasterFirst ==   \* wrong: the key is locked before the database
  Only("dataDir") \cup Under("masterKey", Under("db", Only("dataDir")))
SwitchDataDir ==
  Only("dataDir") \cup Under("db", Under("masterKey", Only("dataDir")))

\* Settings and the providers' keys (run_once, get_settings, ...).
ReadKeys == Under("db", Only("masterKey"))

\* handle_tool_call: the intent gate reads the session's database under db.
IntentGate(s) == Only("db") \cup Under("db", Session(s, {}))

\* list_subagents asks under db whether each child runs.
ListSubagents == Under("db", IsRunActive)

\* emit_error: the message it inserts is cached under the connection.
EmitError(s) == Session(s, Only("cache"))

\* fork_session_at_message: both connections, then the catalog.
ForkSession(s) == Session(s, Session(Fresh, Only("db")))

\* find_session_by_message_id: the guard of the cache lives to the end.
FindSession ==
  Only("cache") \cup
  Under("cache", Only("pool") \cup Only("cache") \cup Only("db")
                   \cup Only("dataDir")
                   \cup UNION {Session(s, {}) : s \in Sessions})

OrderedOps == {"send", "edit", "delete", "switch", "keys", "gate", "subagents",
               "error"}
AllOps == OrderedOps \cup {"fork", "find"}

Sections(op, s) ==
  CASE op = "send" -> SendMessage(s)
    [] op = "edit" -> EditAndResend(s)
    [] op = "delete" -> DeleteSession(s)
    [] op = "switch" -> SwitchDataDir
    [] op = "keys" -> ReadKeys
    [] op = "gate" -> IntentGate(s)
    [] op = "subagents" -> ListSubagents
    [] op = "error" -> EmitError(s)
    [] op = "fork" -> ForkSession(s)
    [] op = "find" -> FindSession

-----------------------------------------------------------------------------
Holds(t) == {chain[t][i] : i \in 1 .. depth[t]}
Wants(t) == depth[t] < Len(chain[t])
Wanted(t) == chain[t][depth[t] + 1]

LocksTypeOK ==
  /\ chain \in [Workers -> Seq(Lock)]
  /\ depth \in [Workers -> Nat]
  /\ \A t \in Workers : depth[t] <= Len(chain[t])

LocksInit ==
  /\ chain = [t \in Workers |-> <<>>]
  /\ depth = [t \in Workers |-> 0]

Enter(t, op, s) ==
  /\ chain[t] = <<>>
  /\ \E c \in Sections(op, s) : chain' = [chain EXCEPT ![t] = c]
  /\ UNCHANGED depth

Acquire(t) ==
  /\ Wants(t)
  /\ \A u \in Workers : Wanted(t) \notin Holds(u)
  /\ depth' = [depth EXCEPT ![t] = @ + 1]
  /\ UNCHANGED chain

ReleaseInner(t) ==   \* wrong: leaves the outer lock of a section locked
  /\ depth[t] = Len(chain[t]) /\ depth[t] > 1
  /\ depth' = [depth EXCEPT ![t] = @ - 1]
  /\ chain' = [chain EXCEPT ![t] = SubSeq(@, 1, depth[t] - 1)]

ReleaseTwice(t) ==   \* wrong: a guard is dropped once more than it was taken
  /\ depth[t] = Len(chain[t])
  /\ depth' = [depth EXCEPT ![t] = @ - 1]
  /\ chain' = [chain EXCEPT ![t] = SubSeq(@, 1, depth[t] - 1)]

\* The guards are dropped innermost first.
Release(t) ==
  /\ depth[t] = Len(chain[t]) /\ depth[t] > 0
  /\ depth' = [depth EXCEPT ![t] = @ - 1]
  /\ chain' = [chain EXCEPT ![t] = SubSeq(@, 1, depth[t] - 1)]

LocksNext ==
  \E t \in Workers :
    \/ \E op \in Ops, s \in Sessions : Enter(t, op, s)
    \/ Acquire(t) \/ Release(t)

LocksSpec == LocksInit /\ [][LocksNext]_lockVars

\* A section ends; parking_lot hands a mutex over to whoever waits for it
\* (eventual fairness), so that no thread is passed over for ever.
FairSpec ==
  /\ LocksSpec
  /\ \A t \in Workers : SF_lockVars(Acquire(t)) /\ WF_lockVars(Release(t))

-----------------------------------------------------------------------------
(* Properties.                                                             *)

\* No thread waits for a lock held in a circle of waiting threads, itself
\* included.
Stuck(D) ==
  \A t \in D : Wants(t) /\ \E u \in D : Wanted(t) \in Holds(u)
NoDeadlock == \A D \in SUBSET Workers : Stuck(D) => D = {}

\* The order all operations but fork and the search by message keep.
Rank(l) == CASE l = "approvals" -> 1
             [] l = "db" -> 2
             [] l = "masterKey" -> 3
             [] l = "handles" -> 4
             [] l = "activeRun" -> 5
             [] l = "abort" -> 6
             [] l = "dataDir" -> 7
             [] l = "pool" -> 8
             [] l = "cache" -> 10
             [] OTHER -> 9          \* a connection
TakenInOrder ==
  \A t \in Workers : Wants(t) => \A l \in Holds(t) : Rank(l) < Rank(Wanted(t))

\* Every section that is entered ends: no command and no turn hangs.
SectionsEnd == \A t \in Workers : chain[t] # <<>> ~> chain[t] = <<>>
=============================================================================
